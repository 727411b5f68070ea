------------------------------- MODULE MCPool -------------------------------
(***************************************************************************)
(* Values for the constants of Pool that a configuration cannot spell, and *)
(* populated Pools to start from: each is the Pool some log of events      *)
(* leads to, so that a short continuation reaches the interesting cases.   *)
(***************************************************************************)
EXTENDS Client

CONSTANTS
  Holdings,  \* what each member of an assembled Pool holds, by key
  Start,     \* the instant it is taken up
  Depth      \* how many events it still accepts

\* Governance rows.
MCDefault == [decay_rate |-> 5, approval_threshold |-> 51, vouch_threshold |-> 51,
              epoch_interval |-> 2, vouch_bond_rate |-> 15]
OneRow == {MCDefault}
BondRow == {[MCDefault EXCEPT !.vouch_bond_rate = 40]}
StrictRow == [MCDefault EXCEPT !.vouch_threshold = 70, !.decay_rate = 20]

-----------------------------------------------------------------------------
(* An assembled Pool.  The founder 1 invited the other members one after    *)
(* the other while it held everything, they were admitted by its vote, and  *)
(* then the Shares of Holdings were paid out.                               *)

Assembled == DOMAIN Holdings
Endowment == Sum([s \in Soul |-> IF s \in Assembled THEN Holdings[s] ELSE 0], N)
LienAmount(s) ==
  ((Endowment * MCDefault["vouch_bond_rate"]) \div 100) * (s - 1)
Ask(kind, target) == [NoMotion EXCEPT !.kind = kind, !.target = target]
Admitted(s) ==
  [NewProposal(Ask("admit_member", s), 1) EXCEPT
     !.votesFor = Endowment, !.voters[1] = [cast |-> "for", weight |-> Endowment],
     !.closed = TRUE, !.executed = TRUE]

AssembledPool ==
  [CreateInitialState EXCEPT
     !.initialized = TRUE,
     !.members = [s \in Soul |-> IF s \in Assembled THEN s ELSE 0],
     !.balances = [s \in Soul |-> IF s \in Assembled THEN Holdings[s] ELSE 0],
     !.vouchLiens = [s \in Soul |-> IF s \in Assembled \ {1}
                                    THEN [inviter |-> 1, amount |-> LienAmount(s)]
                                    ELSE NoLien],
     !.inviters = [s \in Soul |-> IF s \in Assembled \ {1} THEN 1 ELSE None],
     !.redistributionSliders =
        [s \in Soul |-> [t \in Soul |-> IF s = t /\ s \in Assembled
                                        THEN IF s = 1 THEN 100 ELSE 50 ELSE 0]],
     !.vouchSliders =
        [s \in Soul |-> [t \in Soul |-> IF s \in Assembled \ {1} /\ t = 1
                                        THEN 100 ELSE Unset]],
     !.head = 1,
     !.proposals = [id \in ProposalId |-> IF id \in Assembled \ {1} THEN Admitted(id)
                                          ELSE NoProposal],
     !.totalSupply = Endowment,
     !.eventCount = MaxEvents - Depth,
     !.lastAccrualTimestamp = Start,
     !.lastRedistributionTimestamp = Start,
     !.genesisTimestamp = Start,
     !.maxEventTimestamp = Start,
     !.lastActiveTimestamp = [s \in Soul |-> IF s \in Assembled THEN Start ELSE 0]]

AssembledSpec == pool = AssembledPool /\ released = 0 /\ [][Next]_vars

\* The founder also vouched for the soul N, which was approved and has not
\* accepted yet.
WaitedForPool ==
  [AssembledPool EXCEPT
     !.vouchLiens[N] = [inviter |-> 1, amount |-> LienAmount(N)],
     !.pendingInvites[N] = [inviter |-> 1, parameters |-> MCDefault,
                            admissionApproved |-> TRUE],
     !.proposals[N] = Admitted(N)]

\* From nothing, and from an assembled Pool somebody waits to join.
MembersSpec == pool \in {CreateInitialState, WaitedForPool} /\ released = 0 /\ [][Next]_vars

\* The same Pool after it joined the namespace 1 on the motion of its member 2
\* and linked the namespace 2 as a child Cell of three people.
FederatedPool ==
  [AssembledPool EXCEPT
     !.parentSuperstructures = [c \in Cell |-> IF c = 1 THEN 1 ELSE 0],
     !.superstructureId = 1,
     !.childCells = [c \in Cell |-> IF c = 2 THEN 1 ELSE 0],
     !.childPopulation = [c \in Cell |-> IF c = 2 THEN 3 ELSE 0],
     !.bridges = {2}]
FederatedSpec == pool = FederatedPool /\ released = 0 /\ [][Next]_vars

\* A Pool whose founder paid out its whole Share, overspent and was frozen; the
\* sliders of the others weigh 3, 93 and 0, and ten thousand units of decay
\* (a hundred-thousandth of a Point) were collected in commons while none of them
\* was active.
SpentFounderPool ==
  [AssembledPool EXCEPT
     !.frozen = {1},
     !.redistributionSliders =
        [s \in Soul |-> [t \in Soul |-> CASE s = 2 /\ t = 2 -> 3
                                          [] s = 3 /\ t = 3 -> 50
                                          [] s = 4 /\ t = 3 -> 43
                                          [] OTHER -> 0]],
     !.commons = 10000,
     !.totalSupply = @ + 10000]
SpentFounderSpec == pool = SpentFounderPool /\ released = 0 /\ [][Next]_vars

-----------------------------------------------------------------------------
(* Holdings.                                                                *)

GuestMajority == <<3, 7, 2>>
Couple == <<9, 5>>
Uneven == <<9, 7, 4>>
SpentFounder == <<0, 40000, 40000, 0>>

-----------------------------------------------------------------------------
(* Motions, deliveries and slider settings.                                 *)

NoMotions == {}
MemberMotions ==
  {Ask("expel_member", 1), Ask("expel_member", 3), Ask("resolve_fracture", 3)}
ExpelFourth == {Ask("expel_member", 4)}
Transfer(cell, to, amount) ==
  [Ask("bridge_transfer", cell) EXCEPT !.to = to, !.amount = amount]
SeamMotions ==
  {Transfer(1, 3, 3), Transfer(2, 3, 1), Transfer(1, 2, 2),
   Ask("leave_superstructure", 1), Ask("expel_member", 2)}
FederationMotions ==
  SeamMotions \cup {Transfer(1, 3, 0), Transfer(1, None, 3)} \cup
  {[Ask("join_superstructure", 2) EXCEPT !.conform = TRUE, !.parameters = StrictRow],
   [Ask("link_subcell", 1) EXCEPT !.population = 2, !.bridge = 1]}

NoDeliveries == {}
SeamDeliveries ==
  {[cell |-> m.target, id |-> id, to |-> m.to, amount |-> m.amount] :
     id \in CreateIds, m \in {Transfer(1, 3, 3), Transfer(2, 3, 1), Transfer(1, 2, 2)}}

NoSettings == {}
IntervalSetting == {<<"epoch_interval", 5>>}
DecaySetting == {<<"decay_rate", -5>>}
=============================================================================
