-------------------------------- MODULE Pool --------------------------------
(***************************************************************************)
(* The reducer: packages/core/src/reducer/index.ts.  A Pool is the result  *)
(* of applying a log of signed events one after the other; one action per  *)
(* event type, enabled when the reducer accepts the event (a rejected      *)
(* event leaves the Pool as it was).  Takes... is that condition, where    *)
(* the client has one of its own.  Every accepted event ends with the same *)
(* bookkeeping and the same circulation, Commit.                           *)
(***************************************************************************)
EXTENDS Economy

CONSTANTS
  MaxEvents,      \* bound: how many events a log holds
  Timestamps,     \* the timestamps events carry
  InitialPoints,  \* genesis payloads: points
  Rows,           \* governance rows a genesis, an invite or a relay carries
  Invitees,       \* keys that may be invited
  Amounts,        \* transaction amounts
  Settings,       \* <<parameter, value>> of a governance slider_update
  ShareWeights,   \* values of a redistribution slider_update
  VouchWeights,   \* weights of a vouch_update
  Motions,        \* what a proposal_create may ask for
  CreateIds,      \* the ids a proposal_create may carry
  Ballots,        \* votes cast: a subset of BOOLEAN
  CloseIds,       \* ids a proposal_close may carry
  Deliveries,     \* bridge_transaction payloads
  Populations,    \* populations a relay_cell_governance reports
  EpochNumbers    \* payloads of the retired epoch_close

ASSUME InputAssumption ==
  /\ MaxEvents \in Nat
  /\ Timestamps \subseteq Nat \ {0}
  /\ InitialPoints \subseteq Nat \ {0}
  /\ Rows \subseteq Row
  /\ Invitees \subseteq Soul
  /\ Amounts \subseteq Nat \ {0}
  /\ Settings \subseteq GovernanceParameter \X Int
  /\ ShareWeights \subseteq Int /\ VouchWeights \subseteq Int
  /\ Motions \subseteq Motion /\ NoMotion \notin Motions
  /\ CreateIds \subseteq ProposalId /\ CloseIds \subseteq ProposalId
  /\ Ballots \subseteq BOOLEAN
  /\ Deliveries \subseteq [cell : Cell, id : ProposalId, to : Soul, amount : Nat \ {0}]
  /\ Populations \subseteq Nat

VARIABLES
  pool,      \* the PoolState
  released   \* history: points a bridge_transaction sent out of the Pool

vars == <<pool, released>>

-----------------------------------------------------------------------------
(* Circulation, at the end of every accepted event.                        *)

AccrueBackwards(p, ts) == \* mutant
  LET elapsed == Least(ts - p.lastAccrualTimestamp, TIMESTAMP_FORWARD_SKEW)
  IN  IF p.lastAccrualTimestamp <= 0 THEN p
      ELSE [AccrueCirculation(p, ResolveGovernanceParameter(p, "decay_rate"), elapsed)
              EXCEPT !.lastAccrualTimestamp = ts]
MaybeAccrueCirculation(p, ts) ==
  LET elapsed == Least(ts - p.lastAccrualTimestamp, TIMESTAMP_FORWARD_SKEW)
  IN  IF p.lastAccrualTimestamp <= 0 \/ elapsed <= 0 THEN p
      ELSE [AccrueCirculation(p, ResolveGovernanceParameter(p, "decay_rate"), elapsed)
              EXCEPT !.lastAccrualTimestamp = ts]

\* Flush the commons: to the child Cells if there are any, else to the
\* eligible souls, else keep them.
RunRedistributionCycle(p, ts) ==
  LET targets == ResolveRedistributionTargets(p, ts)
  IN  IF p.commons <= 0 THEN [p EXCEPT !.commons = 0]
      ELSE IF Children(p) # {}
      THEN [AllocateCommonsToChildCells(p, p.commons) EXCEPT !.commons = 0]
      ELSE IF DOMAIN targets = {} THEN p
      ELSE [DistributeRedistribution(p, p.commons, targets) EXCEPT !.commons = 0]

\* The catch-up loop.  Its first cycle either empties the commons or finds no
\* target, and then every later cycle only advances the clock.
MaybeRedistribute(p, ts) ==
  LET interval == CirculationInterval(p)
      due == (ts - p.lastRedistributionTimestamp) \div interval
      cycles == Least(due, MAX_REDISTRIBUTION_CATCHUP)
  IN  IF p.lastRedistributionTimestamp <= 0 \/ cycles <= 0 THEN p
      ELSE [RunRedistributionCycle(p, ts) EXCEPT
              !.lastRedistributionTimestamp = @ + cycles * interval]

\* reduceOneSync after the handler: count the event, advance the log's
\* clock, record the author's activity, circulate.
Committed(p, author, ts) ==
  LET counted == [p EXCEPT !.eventCount = @ + 1,
                           !.maxEventTimestamp = Greatest(@, ts),
                           !.lastActiveTimestamp[author] = ts]
  IN  MaybeRedistribute(MaybeAccrueCirculation(counted, ts), ts)

Commit(p, author, ts) ==
  /\ pool' = Committed(p, author, ts)
  /\ UNCHANGED released

\* The checks of reduceOneSync every event passes before its handler runs.
Admissible(author, ts) ==
  /\ pool.eventCount < MaxEvents
  /\ author \notin pool.frozen
  /\ pool.initialized =>
       /\ pool.genesisTimestamp <= ts
       /\ ts <= pool.maxEventTimestamp + TIMESTAMP_FORWARD_SKEW

IsMember(s) == s \in Members(pool)

-----------------------------------------------------------------------------
(* Genesis and admission.                                                  *)

Founded(p, author, ts, row) ==
  [p EXCEPT
     !.initialized = TRUE,
     !.members = [s \in Soul |-> IF s = author THEN 1 ELSE 0],
     !.parameters = [param \in GovernanceParameter |-> Whole(row[param])],
     !.governanceSliders = [[s \in Soul |-> DEFAULT_PARAMETERS] EXCEPT ![author] = row],
     !.redistributionSliders = [[s \in Soul |-> NoShares] EXCEPT ![author][author] = 100],
     !.vouchSliders = [s \in Soul |-> NoVouches],
     !.head = author,
     !.lastAccrualTimestamp = ts,
     !.lastRedistributionTimestamp = ts,
     !.circulationCarry = 0,
     !.genesisTimestamp = ts,
     !.maxEventTimestamp = ts,
     !.lastActiveTimestamp = [s \in Soul |-> IF s = author THEN ts ELSE 0]]

Genesis(author, ts, points, row) ==
  /\ Admissible(author, ts)
  /\ ~ pool.initialized
  /\ Commit(MintPoints(Founded(pool, author, ts, row), author, points), author, ts)

\* Closing an admission proposal that is still open.
CloseAdmission(p, invitee) ==
  LET id == AdmissionProposalId(invitee)
  IN  IF p.proposals[id] = NoProposal THEN p
      ELSE [p EXCEPT !.proposals[id].closed = TRUE]

\* An invitation is taken back: its lien, its entry and its proposal go.
Cancelled(p, invitee) == CloseAdmission(ReleaseVouchLien(p, invitee), invitee)

\* Who already pledged for this key or invited it.
PriorInviter(p, invitee) ==
  IF p.vouchLiens[invitee] # NoLien THEN p.vouchLiens[invitee].inviter
  ELSE p.pendingInvites[invitee].inviter

\* The Pool an invite is judged in: the inviter's earlier invitation of the
\* same key, if any, is withdrawn first.
Withdrawn(p, invitee) ==
  IF PriorInviter(p, invitee) = None THEN p ELSE Cancelled(p, invitee)

ApprovedInvitation(inviter, row) == \* mutant
  [inviter |-> inviter, parameters |-> row, admissionApproved |-> TRUE]
Invitation(inviter, row) ==
  [inviter |-> inviter, parameters |-> row, admissionApproved |-> FALSE]

\* The lien is placed and the Cell is asked to admit the invitee.
Invited(p, author, invitee, row) ==
  LET id == AdmissionProposalId(invitee)
      admission == [NoMotion EXCEPT !.kind = "admit_member", !.target = invitee]
  IN  [PlaceVouchLien(p, author, invitee, RequiredVouchLien(p, author)) EXCEPT
         !.proposals[id] = IF @ = NoProposal \/ @.closed
                           THEN NewProposal(admission, author) ELSE @,
         !.pendingInvites[invitee] = Invitation(author, row)]

TakesInvite(author, ts, invitee) ==
  LET p == Withdrawn(pool, invitee)
  IN  /\ Admissible(author, ts)
      /\ IsMember(author)
      /\ Cardinality(Members(pool)) < SOFT_CELL_CAP
      /\ ~ IsMember(invitee)
      /\ PriorInviter(pool, invitee) \in {None, author}
      /\ CanPlaceVouchLien(p, author, RequiredVouchLien(p, author))

Invite(author, ts, invitee, row) ==
  /\ TakesInvite(author, ts, invitee)
  /\ Commit(Invited(Withdrawn(pool, invitee), author, invitee, row), author, ts)

TakesCancelInvite(author, ts, invitee) ==
  /\ Admissible(author, ts)
  /\ IsMember(author)
  /\ pool.pendingInvites[invitee].inviter = author
  /\ ~ IsMember(invitee)

CancelInvite(author, ts, invitee) ==
  /\ TakesCancelInvite(author, ts, invitee)
  /\ Commit(Cancelled(pool, invitee), author, ts)

Joined(p, author, inviter) ==
  [p EXCEPT
     !.pendingInvites[author] = NoInvite,
     !.members = Push(@, author),
     !.inviters[author] = inviter,
     !.governanceSliders[author] = p.pendingInvites[author].parameters,
     !.redistributionSliders[author] = [NoShares EXCEPT ![author] = 50],
     !.vouchSliders[author] = [NoVouches EXCEPT ![inviter] = 100]]

\* The Head is elected anew.
Reelected(p) == [p EXCEPT !.head = ResolveVouchHead(p)]

TakesAcceptInvite(author, ts, inviter) ==
  /\ Admissible(author, ts)
  /\ ~ IsMember(author)
  /\ Cardinality(Members(pool)) < SOFT_CELL_CAP
  /\ pool.pendingInvites[author].inviter = inviter
  /\ pool.pendingInvites[author].admissionApproved

AcceptInvite(author, ts, inviter) ==
  /\ TakesAcceptInvite(author, ts, inviter)
  /\ Commit(Reelected(Joined(pool, author, inviter)), author, ts)

-----------------------------------------------------------------------------
(* Transactions, epochs and sliders.                                       *)

\* The author need not be a member: then nothing moves, but the event counts.
TakesTransaction(author, ts, to) == Admissible(author, ts) /\ IsMember(to)

Transaction(author, ts, to, amount) ==
  /\ TakesTransaction(author, ts, to)
  /\ Commit(TransferPoints(pool, author, to, amount), author, ts)

\* Retired: a no-op, accepted from any key and even before genesis.
EpochClose(author, ts, epochNumber) ==
  /\ Admissible(author, ts)
  /\ epochNumber \in EpochNumbers
  /\ Commit(pool, author, ts)

ClampAbove(param, value) == \* mutant
  IF param = "decay_rate" THEN Least(20, value) ELSE Least(100, value)
ClampSliderValue(param, value) ==
  CASE param = "decay_rate" -> Greatest(0, Least(20, value))
    [] param = "epoch_interval" ->
         Greatest(MIN_EPOCH_INTERVAL,
           Least(MAX_EPOCH_INTERVAL,
             RoundDiv(value, MIN_EPOCH_INTERVAL) * MIN_EPOCH_INTERVAL))
    [] OTHER -> Greatest(0, Least(100, value))

GovernanceMoved(p, author, param, value) ==
  LET moved == [p EXCEPT !.governanceSliders[author][param] =
                           ClampSliderValue(param, value)]
  IN  [moved EXCEPT !.parameters[param] = ResolveGovernanceParameter(moved, param)]

TakesSliderUpdate(author, ts) == Admissible(author, ts) /\ IsMember(author)

GovernanceSliderUpdate(author, ts, param, value) ==
  /\ TakesSliderUpdate(author, ts)
  /\ Commit(GovernanceMoved(pool, author, param, value), author, ts)

ShareMoved(p, author, target, value) ==
  [p EXCEPT !.redistributionSliders[author][target] =
     ClampSliderValue("redistribution", value)]

RedistributionSliderUpdate(author, ts, target, value) ==
  /\ TakesSliderUpdate(author, ts)
  /\ Commit(ShareMoved(pool, author, target, value), author, ts)

VouchMoved(p, author, target, weight) ==
  [p EXCEPT !.vouchSliders[author][target] = Greatest(0, Least(100, weight))]

TakesVouchUpdate(author, ts, target) ==
  /\ Admissible(author, ts)
  /\ IsMember(author)
  /\ target # author

VouchUpdate(author, ts, target, weight) ==
  /\ TakesVouchUpdate(author, ts, target)
  /\ Commit(Reelected(VouchMoved(pool, author, target, weight)), author, ts)

-----------------------------------------------------------------------------
(* Proposals.                                                              *)

\* What a Pool forgets about a soul that leaves: who vouched for it, the
\* sliders it set and those that point at it, its roles.
ForgetInviter(p, target) == \* mutant
  [p EXCEPT !.inviters[target] = None, !.lastActiveTimestamp[target] = 0]
ForgetBacking(p, target) ==
  [p EXCEPT !.vouchLiens[target] = NoLien,
            !.inviters[target] = None,
            !.lastActiveTimestamp[target] = 0]

ForgetSliders(p, target) ==
  [p EXCEPT
     !.governanceSliders[target] = DEFAULT_PARAMETERS,
     !.redistributionSliders =
        [s \in Soul |-> IF s = target THEN NoShares
                        ELSE [p.redistributionSliders[s] EXCEPT ![target] = 0]],
     !.vouchSliders =
        [s \in Soul |-> IF s = target THEN NoVouches
                        ELSE [p.vouchSliders[s] EXCEPT ![target] = Unset]]]

ForgetBridge(p, target) == \* mutant
  [p EXCEPT !.members = Without(@, target), !.bridges = @ \ {target}]
ForgetStanding(p, target) ==
  [p EXCEPT !.members = Without(@, target),
            !.bridges = @ \ {target},
            !.frozen = @ \ {target}]

\* A soul leaves: its Share and what its inviter still holds of the lien are
\* severed, to the last joined parent's escrow or else evenly to the members
\* who remain.
Forfeited(p, target) ==
  LET lien == p.vouchLiens[target]
  IN  IF lien = NoLien THEN 0 ELSE Least(lien.amount, p.balances[lien.inviter])

Severed(p, target) ==
  [p EXCEPT !.balances =
     [s \in Soul |->
        IF s = target THEN 0
        ELSE IF s = p.vouchLiens[target].inviter
        THEN p.balances[s] - Greatest(Forfeited(p, target), 0)
        ELSE p.balances[s]]]

Settled(p, severed) ==
  LET parent == LastOf(p.parentSuperstructures, Parents(p))
  IN  IF severed <= 0 THEN p
      ELSE IF Parents(p) # {}
      THEN [p EXCEPT !.superstructureEscrow[parent] = @ + severed]
      ELSE IF Members(p) # {}
      THEN DistributeRedistribution(p, severed, [m \in Members(p) |-> 1])
      ELSE [p EXCEPT !.commons = @ + severed]

Expelled(p, target) ==
  LET forgotten == ForgetStanding(ForgetSliders(
                     ForgetBacking(Severed(p, target), target), target), target)
      settled == Settled(forgotten, p.balances[target] + Forfeited(p, target))
  IN  IF target \notin Members(p) THEN p
      ELSE IF settled.head = target THEN Reelected(settled) ELSE settled

\* conform: the proposal carries the parent's parameters.
JoinedSuperstructure(p, author, cell, conform, row) ==
  LET joined == [p EXCEPT
        !.parentSuperstructures = Push(@, cell),
        !.superstructureId = IF @ = None THEN cell ELSE @,
        !.bridges = @ \cup {author}]
  IN  IF ~ conform THEN joined
      ELSE [joined EXCEPT
        !.parameters = [param \in GovernanceParameter |-> Whole(row[param])],
        !.governanceSliders = [s \in Soul |-> IF s \in Members(p) THEN row
                                              ELSE DEFAULT_PARAMETERS]]

LeftSuperstructure(p, cell) ==
  LET left == [p EXCEPT !.parentSuperstructures = Without(@, cell)]
  IN  IF Parents(left) # {} THEN left
      ELSE [left EXCEPT !.superstructureId = None, !.bridges = {}]

LinkedSubcell(p, cell, population, bridge) ==
  IF cell \in Children(p) THEN p
  ELSE [p EXCEPT !.childCells = Push(@, cell),
                 !.childPopulation[cell] = population,
                 !.bridges = @ \cup ({bridge} \ {None})]

\* What a proposal does to the Pool when it is executed.
Effect(p, motion, author) ==
  CASE motion.kind = "admit_member" ->
         IF p.pendingInvites[motion.target] = NoInvite THEN p
         ELSE [p EXCEPT !.pendingInvites[motion.target].admissionApproved = TRUE]
    [] motion.kind = "expel_member" -> Expelled(p, motion.target)
    [] motion.kind = "resolve_fracture" -> [p EXCEPT !.frozen = @ \ {motion.target}]
    [] motion.kind = "join_superstructure" ->
         JoinedSuperstructure(p, author, motion.target, motion.conform, motion.parameters)
    [] motion.kind = "leave_superstructure" -> LeftSuperstructure(p, motion.target)
    [] motion.kind = "link_subcell" ->
         LinkedSubcell(p, motion.target, motion.population, motion.bridge)
    [] OTHER -> p

\* The current Share of the unfrozen members who voted for it, as a whole
\* percentage of all unfrozen Share, reaches the approval threshold.
Approved(p, proposal) ==
  LET threshold == ResolveGovernanceParameter(p, "approval_threshold")
      stake == Sum([m \in Soul |-> VotingWeight(p, m)], N)
      inFavour == Sum([m \in Soul |-> IF proposal.voters[m].cast = "for"
                                      THEN VotingWeight(p, m) ELSE 0], N)
  IN  /\ stake > 0
      /\ Quotient(inFavour * 100, stake) * threshold.den >= threshold.num

ExecuteLeavingOpen(p, id) == \* mutant
  LET proposal == p.proposals[id]
  IN  IF ~ Approved(p, proposal) THEN p
      ELSE [Effect(p, proposal.motion, proposal.author) EXCEPT
              !.proposals[id].executed = TRUE]
TryExecuteProposal(p, id) ==
  LET proposal == p.proposals[id]
  IN  IF ~ Approved(p, proposal) THEN p
      ELSE [Effect(p, proposal.motion, proposal.author) EXCEPT
              !.proposals[id].executed = TRUE, !.proposals[id].closed = TRUE]

TakesAnyMotion(author, ts, motion) == \* mutant
  Admissible(author, ts) /\ IsMember(author)
TakesProposalCreate(author, ts, motion) ==
  /\ Admissible(author, ts)
  /\ IsMember(author)
  /\ motion.kind = "bridge_transfer" =>
       motion.to # None /\ motion.amount > 0 /\ motion.target \in Linked(pool)

\* Creating a proposal under an id in use replaces the proposal that has it.
ProposalCreate(author, ts, id, motion) ==
  /\ TakesProposalCreate(author, ts, motion)
  /\ Commit([pool EXCEPT !.proposals[id] = NewProposal(motion, author)], author, ts)

IsOpen(id) == pool.proposals[id] # NoProposal /\ ~ pool.proposals[id].closed

\* A second vote of the same member replaces the first.
VotedAgain(proposal, voter, approve, weight) == \* mutant
  [proposal EXCEPT
     !.votesFor = @ + (IF approve THEN weight ELSE 0),
     !.votesAgainst = @ + (IF approve THEN 0 ELSE weight),
     !.voters[voter] = [cast |-> IF approve THEN "for" ELSE "against",
                        weight |-> weight]]
Voted(proposal, voter, approve, weight) ==
  LET prior == proposal.voters[voter]
      retracted(cast) == IF prior.cast = cast THEN prior.weight ELSE 0
  IN  [proposal EXCEPT
         !.votesFor = @ - retracted("for") + (IF approve THEN weight ELSE 0),
         !.votesAgainst = @ - retracted("against") + (IF approve THEN 0 ELSE weight),
         !.voters[voter] = [cast |-> IF approve THEN "for" ELSE "against",
                            weight |-> weight]]

TakesProposalVote(author, ts, id) ==
  /\ Admissible(author, ts)
  /\ IsOpen(id)
  /\ IsMember(author)

ProposalVote(author, ts, id, approve) ==
  /\ TakesProposalVote(author, ts, id)
  /\ LET voted == Voted(pool.proposals[id], author, approve, pool.balances[author])
     IN  Commit(TryExecuteProposal([pool EXCEPT !.proposals[id] = voted], id), author, ts)

TakesProposalClose(author, ts, id) ==
  /\ Admissible(author, ts)
  /\ IsOpen(id)
  /\ pool.head = author

ProposalClose(author, ts, id) ==
  /\ TakesProposalClose(author, ts, id)
  /\ Commit([pool EXCEPT !.proposals[id].closed = TRUE], author, ts)

-----------------------------------------------------------------------------
(* Federation.                                                             *)

ChildHeard(p, cell, row, population) ==
  LET relayed == [p EXCEPT !.childSliderRelay[cell] = [relayed |-> TRUE, row |-> row],
                           !.childPopulation[cell] = Greatest(1, population)]
  IN  [relayed EXCEPT !.parameters =
         [param \in GovernanceParameter |-> ResolveGovernanceParameter(relayed, param)]]

RelayChildGovernance(author, ts, cell, row, population) ==
  /\ Admissible(author, ts)
  /\ cell \in Children(pool)
  /\ IsBridge(pool, author)
  /\ Commit(ChildHeard(pool, cell, row, population), author, ts)

\* The Head relaying for this Pool's own namespace changes nothing else.
RelayOwnGovernance(author, ts) ==
  /\ Admissible(author, ts)
  /\ Populations # {}
  /\ pool.head = author
  /\ Commit(pool, author, ts)

\* An executed bridge_transfer, not delivered yet, for exactly this delivery.
ValidateTwice(p, d) == \* mutant
  LET proposal == p.proposals[d.id]
  IN  /\ proposal.motion.kind = "bridge_transfer" /\ proposal.executed
      /\ proposal.motion.target = d.cell
      /\ proposal.motion.to = d.to
      /\ proposal.motion.amount = d.amount
ValidateBridgeProposal(p, d) ==
  LET proposal == p.proposals[d.id]
  IN  /\ proposal.motion.kind = "bridge_transfer"
      /\ proposal.executed /\ ~ proposal.bridgeCompleted
      /\ proposal.motion.target = d.cell
      /\ proposal.motion.to = d.to
      /\ proposal.motion.amount = d.amount

MarkBridgeProposalCompleted(p, id) ==
  [p EXCEPT !.proposals[id].bridgeCompleted = TRUE]

BridgeAdmissible(author, ts, d) ==
  /\ Admissible(author, ts)
  /\ IsBridge(pool, author)
  /\ ValidateBridgeProposal(pool, d)

\* Delivery to a member from a linked namespace: the points are new here.
BridgeInbound(author, ts, d) ==
  /\ BridgeAdmissible(author, ts, d)
  /\ IsMember(d.to)
  /\ d.cell \in Linked(pool)
  /\ Commit(MarkBridgeProposalCompleted(MintPoints(pool, d.to, d.amount), d.id),
            author, ts)

\* Delivery to a member for a namespace no longer linked: the bridge pays.
BridgeUnlinked(author, ts, d) ==
  /\ BridgeAdmissible(author, ts, d)
  /\ IsMember(d.to)
  /\ d.cell \notin Linked(pool)
  /\ ~ Overspends(pool, author, d.to, d.amount)
  /\ Commit(MarkBridgeProposalCompleted(
              TransferPoints(pool, author, d.to, d.amount), d.id), author, ts)

\* Release of escrow held for a parent, or else for a child Cell.
Escrow(p, cell) ==
  IF cell \in Parents(p) THEN p.superstructureEscrow[cell] ELSE p.childCellEscrow[cell]

Paid(p, cell, amount) ==
  IF cell \in Parents(p) THEN [p EXCEPT !.superstructureEscrow[cell] = @ - amount]
  ELSE [p EXCEPT !.childCellEscrow[cell] = @ - amount]

BridgeOutbound(author, ts, d) ==
  /\ BridgeAdmissible(author, ts, d)
  /\ ~ IsMember(d.to)
  /\ d.cell \in Linked(pool)
  /\ Escrow(pool, d.cell) >= d.amount
  /\ pool' = Committed(MarkBridgeProposalCompleted(Paid(pool, d.cell, d.amount), d.id),
                       author, ts)
  /\ released' = released + d.amount

-----------------------------------------------------------------------------
(* Community mailboxes: the URLs members publish, one per member.          *)

\* A member's new URL replaces its old one; a URL somebody else published
\* stays his, and then the member only loses the old one.
KeptRelays(p, author) ==
  [u \in RelayUrl |-> IF p.communityRelayAuthors[u] = author THEN None
                      ELSE p.communityRelayAuthors[u]]

HasRoom(kept) == Cardinality({u \in RelayUrl : kept[u] # None}) < MAX_COMMUNITY_RELAYS

RelayContribute(author, ts, url) ==
  LET kept == KeptRelays(pool, author)
  IN  /\ Admissible(author, ts)
      /\ IsMember(author)
      /\ kept[url] = None => HasRoom(kept)
      /\ Commit([pool EXCEPT !.communityRelayAuthors =
                   IF kept[url] = None THEN [kept EXCEPT ![url] = author] ELSE kept],
                author, ts)

RelayRevoke(author, ts, url) ==
  /\ Admissible(author, ts)
  /\ IsMember(author)
  /\ pool.communityRelayAuthors[url] = author
  /\ Commit([pool EXCEPT !.communityRelayAuthors[url] = None], author, ts)

-----------------------------------------------------------------------------
Init ==
  /\ pool = CreateInitialState
  /\ released = 0

AdmissionStep(author, ts) ==
  \/ \E points \in InitialPoints, row \in Rows : Genesis(author, ts, points, row)
  \/ \E invitee \in Invitees, row \in Rows : Invite(author, ts, invitee, row)
  \/ \E invitee \in Invitees : CancelInvite(author, ts, invitee)
  \/ \E inviter \in Soul : AcceptInvite(author, ts, inviter)

LedgerStep(author, ts) ==
  \/ \E to \in Soul, amount \in Amounts : Transaction(author, ts, to, amount)
  \/ \E epochNumber \in EpochNumbers : EpochClose(author, ts, epochNumber)

SliderStep(author, ts) ==
  \/ \E s \in Settings : GovernanceSliderUpdate(author, ts, s[1], s[2])
  \/ \E target \in Soul, value \in ShareWeights :
        RedistributionSliderUpdate(author, ts, target, value)
  \/ \E target \in Soul, weight \in VouchWeights : VouchUpdate(author, ts, target, weight)

ProposalStep(author, ts) ==
  \/ \E id \in CreateIds, motion \in Motions : ProposalCreate(author, ts, id, motion)
  \/ \E id \in ProposalId, approve \in Ballots : ProposalVote(author, ts, id, approve)
  \/ \E id \in CloseIds : ProposalClose(author, ts, id)

FederationStep(author, ts) ==
  \/ \E cell \in Cell, row \in Rows, population \in Populations :
        RelayChildGovernance(author, ts, cell, row, population)
  \/ RelayOwnGovernance(author, ts)
  \/ \E d \in Deliveries : BridgeInbound(author, ts, d)
  \/ \E d \in Deliveries : BridgeUnlinked(author, ts, d)
  \/ \E d \in Deliveries : BridgeOutbound(author, ts, d)

RelayStep(author, ts) ==
  \/ \E url \in RelayUrl : RelayContribute(author, ts, url)
  \/ \E url \in RelayUrl : RelayRevoke(author, ts, url)

Next ==
  \E author \in Soul, ts \in Timestamps :
    \/ AdmissionStep(author, ts)
    \/ LedgerStep(author, ts)
    \/ SliderStep(author, ts)
    \/ ProposalStep(author, ts)
    \/ FederationStep(author, ts)
    \/ RelayStep(author, ts)

Spec == Init /\ [][Next]_vars

-----------------------------------------------------------------------------
(* Properties.                                                             *)

\* Every field of the Pool keeps its type, whatever the log (PoolState).
TypeOK == pool \in PoolRecord /\ released \in Nat

\* No point is created, destroyed or lost to rounding: what members, commons
\* and escrows hold, plus what bridges sent out, is what was ever minted.
\* (transferPoints, accrueCirculation, distributeRedistribution,
\* expelMemberReducer and bridge_transaction each move points on their own.)
PointsConserved == TotalPoolPoints(pool) + released = pool.totalSupply

\* Liens and invitations never come apart: a pending invitation is covered by
\* a lien of the same inviter, an invited member is still covered by the lien
\* he was admitted under, and no lien encumbers anybody for nothing.
\* (invite, cancel_invite, accept_invite and expulsion edit the four maps
\* separately.)
LienCovers(p, s) ==
  /\ p.pendingInvites[s] # NoInvite =>
       /\ s \notin Members(p)
       /\ p.vouchLiens[s].inviter = p.pendingInvites[s].inviter
  /\ p.inviters[s] # None =>
       /\ s \in Members(p)
       /\ p.vouchLiens[s].inviter = p.inviters[s]
  /\ p.vouchLiens[s] # NoLien =>
       p.pendingInvites[s] # NoInvite \/ p.inviters[s] # None
LiensMatchInvitations == \A s \in Soul : LienCovers(pool, s)

\* Roles and money belong to members: after any sequence of joins, freezes
\* and expulsions the Head and the frozen keys are members, and a key that is
\* no member holds nothing. (expelMemberReducer prunes by hand.)
StandingIsMembership ==
  /\ pool.head \in Members(pool) \cup {None}
  /\ pool.frozen \subseteq Members(pool)
  /\ \A s \in Soul \ Members(pool) : pool.balances[s] = 0

\* The recorded tallies are the sum of one vote per voter, however often
\* members change their vote (proposal_vote retracts the prior weight).
Tally(proposal, cast) ==
  Sum([s \in Soul |-> IF proposal.voters[s].cast = cast
                      THEN proposal.voters[s].weight ELSE 0], N)
TalliesMatchVotes ==
  \A id \in ProposalId :
    /\ pool.proposals[id].votesFor = Tally(pool.proposals[id], "for")
    /\ pool.proposals[id].votesAgainst = Tally(pool.proposals[id], "against")

\* Authority comes from others: whoever becomes Head of a Pool has the vouch
\* slider of another unfrozen member pointing at him, however Shares, freezes
\* and sliders moved.  (resolveVouchHead falls back on the sitting Head.)
HeadChosenByOthers ==
  [][pool.initialized /\ pool'.head \notin {pool.head, None} =>
       \E v \in Unfrozen(pool') \ {pool'.head} :
         pool'.vouchSliders[v][pool'.head] # Unset]_vars

\* A proposal is delivered across the seam only after it was executed, and
\* executed only once it is closed to further votes.
ProposalLifecycle ==
  \A id \in ProposalId :
    /\ pool.proposals[id].bridgeCompleted => pool.proposals[id].executed
    /\ pool.proposals[id].executed => pool.proposals[id].closed

\* Decay is charged for every instant of log time exactly once, also when
\* events arrive with older timestamps: the accrual clock is the log's clock,
\* and the redistribution clock lies between genesis and it.
\* (maybeAccrueCirculation, maybeRedistribute.)
ClocksAgree ==
  pool.initialized =>
    /\ pool.lastAccrualTimestamp = pool.maxEventTimestamp
    /\ pool.genesisTimestamp <= pool.lastRedistributionTimestamp
    /\ pool.lastRedistributionTimestamp <= pool.maxEventTimestamp
    /\ \A s \in Soul : pool.lastActiveTimestamp[s] <= pool.maxEventTimestamp

\* The law is a mean of what people say: every parameter in force lies between
\* the lowest and the highest slider that counts (a member's, a row relayed by
\* a child Cell, or the stored value the silent ones stand for), however
\* Shares, freezes and populations weigh them. (resolveGovernanceParameter.)
Voices(param) ==
  {Whole(pool.governanceSliders[m][param]) : m \in Unfrozen(pool)}
    \cup {Whole(pool.childSliderRelay[c].row[param]) :
            c \in {d \in Children(pool) : pool.childSliderRelay[d].relayed}}
    \cup {pool.parameters[param]}
ParametersAreMeans ==
  \A param \in GovernanceParameter :
    LET law == ResolveGovernanceParameter(pool, param)
    IN  /\ \E v \in Voices(param) : v.num * law.den <= law.num * v.den
        /\ \E v \in Voices(param) : law.num * v.den <= v.num * law.den

\* New points appear after genesis only when one executed bridge_transfer from
\* a namespace still linked is delivered, for its amount, for the first time.
Delivers(id) ==
  /\ ~ pool.proposals[id].bridgeCompleted /\ pool'.proposals[id].bridgeCompleted
  /\ pool.proposals[id].executed
  /\ pool.proposals[id].motion.target \in Linked(pool)
  /\ pool'.totalSupply - pool.totalSupply = pool.proposals[id].motion.amount
SupplyBackedByProposal ==
  [][pool.initialized /\ pool'.totalSupply # pool.totalSupply =>
       \E id \in ProposalId : Delivers(id)]_vars

\* One human can pledge at most 100% of himself: when a lien is placed, all
\* his liens together do not exceed the Share he held.
PledgeWithinShare ==
  [][\A s \in Soul :
       pool'.vouchLiens[s] \notin {NoLien, pool.vouchLiens[s]} =>
         LET inviter == pool'.vouchLiens[s].inviter
         IN  PledgedLienTotal(pool', inviter) <= pool.balances[inviter]]_vars

\* Flushed commons reach only souls that were unfrozen, vouched and active
\* within the span the flush settles, counted back from the event that
\* triggered it.  (maybeRedistribute, resolveRedistributionTargets.)
FlushReachesEligible ==
  [][pool'.lastRedistributionTimestamp # pool.lastRedistributionTimestamp =>
       \A author \in Soul, ts \in Timestamps, n \in EpochNumbers :
         EpochClose(author, ts, n) =>
           \A s \in Soul : pool'.balances[s] > pool.balances[s] =>
             /\ s \in Members(pool) \ pool.frozen
             /\ pool.inviters[s] # None => pool.vouchLiens[s] # NoLien
             /\ pool'.lastActiveTimestamp[s] # 0
             /\ ts - pool'.lastActiveTimestamp[s]
                  <= pool'.lastRedistributionTimestamp - pool.lastRedistributionTimestamp]_vars

\* Nobody is admitted by an approval given to another invitation: an approved
\* invitation is the one that stood before, from the same inviter, on the same
\* terms and under the same lien.  (invite replaces, tryExecuteProposal
\* approves, whatever proposal carries the motion.)
ApprovalIsPerInvitation ==
  [][\A s \in Soul :
       pool'.pendingInvites[s].admissionApproved =>
         /\ pool'.pendingInvites[s] =
              [pool.pendingInvites[s] EXCEPT !.admissionApproved = TRUE]
         /\ pool'.vouchLiens[s] = pool.vouchLiens[s]]_vars

=============================================================================
