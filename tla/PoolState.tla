----------------------------- MODULE PoolState -----------------------------
(***************************************************************************)
(* The state of one Pool (a Cell's ledger) and the questions the reducer   *)
(* asks of it: packages/core/src/reducer/state.ts.                         *)
(*                                                                         *)
(* The Pool is one record, as in the code; every operator here is a pure   *)
(* function of such a record p.  Public keys are the numbers 1..N in the   *)
(* order of their hexadecimal form, remote namespaces the numbers 1..M,    *)
(* and 0 stands for the code's null and undefined.                         *)
(***************************************************************************)
EXTENDS Integers, FiniteSets

CONSTANTS
  N,                    \* how many public keys there are
  M,                    \* how many remote namespaces there are
  K,                    \* how many free proposal ids there are
  SOFT_CELL_CAP,        \* members past which a Cell admits nobody
  TIMESTAMP_FORWARD_SKEW, \* how far an event may run ahead of the log
  MIN_EPOCH_INTERVAL,   \* floor and step of the redistribution interval
  MAX_EPOCH_INTERVAL,   \* ceiling of the redistribution interval slider
  MAX_REDISTRIBUTION_CATCHUP, \* redistribution cycles settled per event
  YEAR_DENOMINATOR,     \* MS_PER_YEAR * 10000, the scale of circulationCarry
  POINTS_SCALE,         \* internal units in one Point
  DEFAULT_PARAMETERS,   \* the governance row a Pool starts from
  RelayUrl,             \* mailbox URLs members may contribute
  MAX_COMMUNITY_RELAYS  \* how many contributed URLs a Pool keeps

None == 0
Soul == 1 .. N
Cell == 1 .. M
Key  == 0 .. N

GovernanceParameter ==
  {"decay_rate", "approval_threshold", "vouch_threshold", "epoch_interval",
   "vouch_bond_rate"}
Row == [GovernanceParameter -> Nat]

ASSUME SizeAssumption ==
  /\ N \in Nat /\ M \in Nat /\ K \in Nat
  /\ SOFT_CELL_CAP \in Nat
  /\ TIMESTAMP_FORWARD_SKEW \in Nat \ {0}
  /\ MIN_EPOCH_INTERVAL \in Nat \ {0}
  /\ MAX_EPOCH_INTERVAL \in Nat
  /\ MIN_EPOCH_INTERVAL <= MAX_EPOCH_INTERVAL
  /\ MAX_REDISTRIBUTION_CATCHUP \in Nat \ {0}
  /\ YEAR_DENOMINATOR \in Nat \ {0}
  /\ POINTS_SCALE \in Nat \ {0}
  /\ DEFAULT_PARAMETERS \in Row
  /\ MAX_COMMUNITY_RELAYS \in Nat

-----------------------------------------------------------------------------
(* Arithmetic.  Slider averages are floats in the code and exact ratios    *)
(* here.                                                                    *)

Least(a, b) == IF a <= b THEN a ELSE b
Greatest(a, b) == IF a >= b THEN a ELSE b

\* f[1] + ... + f[n]
Sum(f, n) ==
  LET upTo[k \in 0 .. n] == IF k = 0 THEN 0 ELSE upTo[k - 1] + f[k]
  IN  upTo[n]

Ratio == [num : Nat, den : Nat \ {0}]
Whole(n) == [num |-> n, den |-> 1]

\* Math.round(a / b) for a >= 0, b > 0
RoundDiv(a, b) == (2 * a + b) \div (2 * b)

\* a / b for integers a and b > 0: BigInt division drops the fraction.
Quotient(a, b) == IF a >= 0 THEN a \div b ELSE -((-a) \div b)

-----------------------------------------------------------------------------
(* Ordered arrays without duplicates (members, parentSuperstructures,      *)
(* childCells): the position of each element, 0 for the absent ones.       *)

Elements(a) == {x \in DOMAIN a : a[x] # 0}

Push(a, x) ==
  IF a[x] # 0 THEN a ELSE [a EXCEPT ![x] = Cardinality(Elements(a)) + 1]

Without(a, x) ==
  [y \in DOMAIN a |-> IF y = x THEN 0
                      ELSE IF a[x] # 0 /\ a[y] > a[x] THEN a[y] - 1 ELSE a[y]]

\* The element of S that comes last in the array a.
LastOf(a, S) == CHOOSE x \in S : \A y \in S : a[y] <= a[x]

-----------------------------------------------------------------------------
(* What a Pool records.                                                    *)

\* An entry of vouchLiens; the points stay in the inviter's balance.
NoLien == [inviter |-> None, amount |-> 0]
VouchLien == [inviter : Soul, amount : Nat] \cup {NoLien}

PendingInvite == [inviter : Key, parameters : Row, admissionApproved : BOOLEAN]
NoInvite ==
  [inviter |-> None, parameters |-> DEFAULT_PARAMETERS, admissionApproved |-> FALSE]

\* What a proposal asks for: its kind and the fields of its data.  target is
\* a soul or a namespace, by the kind; parameters is the joined parent's row;
\* an amount of 0 stands for a text that is not an amount.
ProposalKind ==
  {"admit_member", "resolve_fracture", "expel_member", "join_superstructure",
   "leave_superstructure", "link_subcell", "bridge_transfer"}
NoRow == [param \in GovernanceParameter |-> 0]
SoulKind == {"admit_member", "resolve_fracture", "expel_member"}
Motion ==
  {m \in [kind : ProposalKind \cup {"none"}, target : Nat, to : Key, amount : Nat,
          population : Nat \ {0}, bridge : Key, conform : BOOLEAN, parameters : Row] :
     /\ m.kind \in SoulKind => m.target \in Soul
     /\ m.kind \in ProposalKind \ SoulKind => m.target \in Cell}
NoMotion ==
  [kind |-> "none", target |-> None, to |-> None, amount |-> 0,
   population |-> 1, bridge |-> None, conform |-> FALSE, parameters |-> NoRow]

ProposalVoteRecord == [cast : {"none", "for", "against"}, weight : Int]
NoVote == [cast |-> "none", weight |-> 0]

\* Ids 1..N are the admission ids of those souls ("admit:<key>").
ProposalId == 1 .. N + K
AdmissionProposalId(invitee) == invitee
ProposalState ==
  {q \in [motion : Motion, author : Key, votesFor : Int, votesAgainst : Int,
          voters : [Soul -> ProposalVoteRecord],
          closed : BOOLEAN, executed : BOOLEAN, bridgeCompleted : BOOLEAN] :
     q.motion.kind # "none" => q.author \in Soul}
NewProposal(motion, author) ==
  [motion |-> motion, author |-> author, votesFor |-> 0, votesAgainst |-> 0,
   voters |-> [s \in Soul |-> NoVote],
   closed |-> FALSE, executed |-> FALSE, bridgeCompleted |-> FALSE]
NoProposal == NewProposal(NoMotion, None)

\* A vouch slider that was never set; a redistribution slider never set is 0.
Unset == -1

PoolRecord ==
  [initialized : BOOLEAN,
   members : [Soul -> Nat],
   balances : [Soul -> Int],
   frozen : SUBSET Soul,
   vouchLiens : [Soul -> VouchLien],
   inviters : [Soul -> Key],
   head : Key,
   parameters : [GovernanceParameter -> Ratio],
   governanceSliders : [Soul -> Row],
   redistributionSliders : [Soul -> [Soul -> Nat]],
   vouchSliders : [Soul -> [Soul -> Nat \cup {Unset}]],
   proposals : [ProposalId -> ProposalState],
   superstructureId : 0 .. M,
   parentSuperstructures : [Cell -> Nat],
   childCells : [Cell -> Nat],
   childPopulation : [Cell -> Nat],
   childCellEscrow : [Cell -> Int],
   childSliderRelay : [Cell -> [relayed : BOOLEAN, row : Row]],
   bridges : SUBSET Soul,
   totalSupply : Nat,
   pendingInvites : [Soul -> PendingInvite],
   eventCount : Nat,
   lastAccrualTimestamp : Nat,
   lastRedistributionTimestamp : Nat,
   circulationCarry : Nat,
   genesisTimestamp : Nat,
   maxEventTimestamp : Nat,
   lastActiveTimestamp : [Soul -> Nat],
   communityRelayAuthors : [RelayUrl -> Key],
   commons : Int,
   superstructureEscrow : [Cell -> Int]]

\* The row of a key that owns none (state.governanceSliders[m] is undefined).
NoVouches == [t \in Soul |-> Unset]
NoShares == [t \in Soul |-> 0]

CreateInitialState ==
  [initialized |-> FALSE,
   members |-> [s \in Soul |-> 0],
   balances |-> [s \in Soul |-> 0],
   frozen |-> {},
   vouchLiens |-> [s \in Soul |-> NoLien],
   inviters |-> [s \in Soul |-> None],
   head |-> None,
   parameters |-> [param \in GovernanceParameter |-> Whole(DEFAULT_PARAMETERS[param])],
   governanceSliders |-> [s \in Soul |-> DEFAULT_PARAMETERS],
   redistributionSliders |-> [s \in Soul |-> NoShares],
   vouchSliders |-> [s \in Soul |-> NoVouches],
   proposals |-> [id \in ProposalId |-> NoProposal],
   superstructureId |-> None,
   parentSuperstructures |-> [c \in Cell |-> 0],
   childCells |-> [c \in Cell |-> 0],
   childPopulation |-> [c \in Cell |-> 0],
   childCellEscrow |-> [c \in Cell |-> 0],
   childSliderRelay |-> [c \in Cell |-> [relayed |-> FALSE, row |-> NoRow]],
   bridges |-> {},
   totalSupply |-> 0,
   pendingInvites |-> [s \in Soul |-> NoInvite],
   eventCount |-> 0,
   lastAccrualTimestamp |-> 0,
   lastRedistributionTimestamp |-> 0,
   circulationCarry |-> 0,
   genesisTimestamp |-> 0,
   maxEventTimestamp |-> 0,
   lastActiveTimestamp |-> [s \in Soul |-> 0],
   communityRelayAuthors |-> [url \in RelayUrl |-> None],
   commons |-> 0,
   superstructureEscrow |-> [c \in Cell |-> 0]]

-----------------------------------------------------------------------------
(* Queries.                                                                *)

Members(p) == Elements(p.members)
Unfrozen(p) == Members(p) \ p.frozen
Parents(p) == Elements(p.parentSuperstructures)
Children(p) == Elements(p.childCells)
Linked(p) == Parents(p) \cup Children(p)

TotalPoolPoints(p) ==
  Sum(p.balances, N) + p.commons + Sum(p.superstructureEscrow, M)
    + Sum(p.childCellEscrow, M)

VotingWeight(p, m) == IF m \in Unfrozen(p) THEN p.balances[m] ELSE 0
StakeWeight(p, m) == Greatest(VotingWeight(p, m), 0)

\* A child Cell weighs one Point per inhabitant.
ChildWeight(p) ==
  [c \in Cell |-> IF c \in Children(p)
                  THEN POINTS_SCALE * Greatest(1, p.childPopulation[c]) ELSE 0]

MemberWeightOnly(p) == Sum([m \in Soul |-> StakeWeight(p, m)], N) \* mutant
GovernanceWeight(p) ==
  Sum([m \in Soul |-> StakeWeight(p, m)], N) + Sum(ChildWeight(p), M)

\* The Share-weighted average of the unfrozen members' sliders, blended with
\* the rows relayed by child Cells.
ResolveGovernanceParameter(p, param) ==
  LET fallback == p.parameters[param]
      stake == [m \in Soul |-> StakeWeight(p, m)]
      people == ChildWeight(p)
      sliders == Sum([m \in Soul |-> p.governanceSliders[m][param] * stake[m]], N)
      relays == Sum([c \in Cell |-> IF p.childSliderRelay[c].relayed
                                    THEN p.childSliderRelay[c].row[param] * people[c]
                                    ELSE 0], M)
      silent == Sum([c \in Cell |-> IF p.childSliderRelay[c].relayed
                                    THEN 0 ELSE people[c]], M)
      weight == GovernanceWeight(p)
  IN  IF weight = 0 THEN fallback
      ELSE IF silent = 0 THEN [num |-> sliders + relays, den |-> weight]
      ELSE [num |-> (sliders + relays) * fallback.den + silent * fallback.num,
            den |-> weight * fallback.den]

CirculationInterval(p) ==
  LET raw == ResolveGovernanceParameter(p, "epoch_interval")
      stepped == RoundDiv(raw.num, raw.den * MIN_EPOCH_INTERVAL) * MIN_EPOCH_INTERVAL
  IN  Greatest(MIN_EPOCH_INTERVAL, stepped)

PledgedLienTotal(p, inviter) ==
  Sum([s \in Soul |-> IF p.vouchLiens[s].inviter = inviter
                      THEN p.vouchLiens[s].amount ELSE 0], N)

AvailableToPledge(p, inviter) ==
  Greatest(p.balances[inviter] - PledgedLienTotal(p, inviter), 0)

CountActiveVouches(p, inviter) ==
  Cardinality({s \in Soul : p.vouchLiens[s].inviter = inviter})

RequiredVouchLien(p, inviter) ==
  LET rate == ResolveGovernanceParameter(p, "vouch_bond_rate")
      base == Quotient(p.balances[inviter] * RoundDiv(rate.num, rate.den), 100)
  IN  base * (CountActiveVouches(p, inviter) + 1)

IsLiveSoul(p, m, ts) ==
  /\ p.lastActiveTimestamp[m] # 0
  /\ ts - p.lastActiveTimestamp[m] <= CirculationInterval(p)

IsVouchedSoul(p, m) ==
  p.inviters[m] = None \/ p.vouchLiens[m] # NoLien

EverybodyUnfrozen(p, ts) == Unfrozen(p) \* mutant
EligibleRecipients(p, ts) ==
  {m \in Unfrozen(p) : IsLiveSoul(p, m, ts) /\ IsVouchedSoul(p, m)}

IsBridge(p, m) == m \in p.bridges \/ (p.head = m /\ Linked(p) # {})

-----------------------------------------------------------------------------
(* Head election.  Ties between top candidates are broken in the code by   *)
(* the insertion order of its score map, here by an arbitrary fixed choice.*)

VouchScore(p, target) ==
  Sum([v \in Soul |-> IF v # target /\ p.vouchSliders[v][target] # Unset
                      THEN p.vouchSliders[v][target] * StakeWeight(p, v)
                      ELSE 0], N)

Candidates(p) ==
  {t \in Members(p) : \E v \in Unfrozen(p) \ {t} : p.vouchSliders[v][t] # Unset}

TopCandidate(p) ==
  CHOOSE t \in Candidates(p) :
    \A u \in Candidates(p) : VouchScore(p, u) <= VouchScore(p, t)

\* The top candidate has the vouch threshold of all unfrozen Share behind it.
HasMandate(p, target) ==
  LET threshold == ResolveGovernanceParameter(p, "vouch_threshold")
      stake == Sum([m \in Soul |-> StakeWeight(p, m)], N)
  IN  /\ stake > 0
      /\ VouchScore(p, target) * threshold.den >= threshold.num * stake

AnybodyUnfrozen(p) == \* mutant
  IF Unfrozen(p) = {} THEN None
  ELSE IF Candidates(p) # {} /\ HasMandate(p, TopCandidate(p)) THEN TopCandidate(p)
  ELSE LastOf(p.members, Unfrozen(p))
ResolveVouchHead(p) ==
  IF Unfrozen(p) = {} THEN None
  ELSE IF Candidates(p) # {} /\ HasMandate(p, TopCandidate(p)) THEN TopCandidate(p)
  ELSE IF p.head \in Unfrozen(p) THEN p.head
  ELSE None

-----------------------------------------------------------------------------
(* The weight each eligible soul draws from a flush.  Every unfrozen       *)
(* member has one voice: his sliders towards eligible souls, or 1 on       *)
(* himself, or 1 spread evenly when he is not eligible.  The code's        *)
(* fractions are scaled by the number of eligible souls.                   *)

RedistributionWeight(p, eligible, target) ==
  LET spoken(v) == {t \in eligible : p.redistributionSliders[v][t] > 0}
      voice(v) == IF spoken(v) # {}
                  THEN p.redistributionSliders[v][target] * Cardinality(eligible)
                  ELSE IF v \in eligible
                  THEN IF v = target THEN Cardinality(eligible) ELSE 0
                  ELSE 1
  IN  Sum([v \in Soul |-> IF v \in Unfrozen(p) THEN voice(v) ELSE 0], N)

\* The targets of a flush and their weights; equal when nobody is weighted.
ResolveRedistributionTargets(p, ts) ==
  LET eligible == EligibleRecipients(p, ts)
      weights == [m \in eligible |-> RedistributionWeight(p, eligible, m)]
  IN  IF \A m \in eligible : weights[m] = 0
      THEN [m \in eligible |-> 1] ELSE weights
=============================================================================
