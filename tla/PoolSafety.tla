----------------------------- MODULE PoolSafety -----------------------------
(***************************************************************************)
(* Safety of the reducer for every value of the constants.                 *)
(*                                                                         *)
(* Sound(pool): the liens, the proposals, with their tallies, and the      *)
(* clocks of the Pool are in order.  Every handler keeps it, and so does   *)
(* the bookkeeping and circulation that follow every handler.              *)
(*                                                                         *)
(* InStanding(pool): roles and money belong to members.  A handler keeps   *)
(* it when it leaves the members alone, elects and freezes nobody else,    *)
(* and moves points only between members (Keeps); admission and expulsion, *)
(* which change the members, have a lemma each.                            *)
(*                                                                         *)
(* What no event may do: take authority that nobody gave, make points that *)
(* no delivery backs, approve one invitation by the vote on another,       *)
(* pledge more than a Share.  Circulation and committal leave roles and    *)
(* mandates alone (SameRoles, SameMandates), so each action is judged by   *)
(* its last assignment.                                                    *)
(*                                                                         *)
(* Where the points are: a handler, and every step of the circulation,     *)
(* keeps what all accounts hold beyond the supply (Even).  Only the        *)
(* expulsion of somebody whose Share, or whose inviter's, is overdrawn     *)
(* does not (ExpelledEven), hence Solvent.                                 *)
(*                                                                         *)
(* The law as a mean, whom a flush pays, and what the application offers   *)
(* follow from the types, these invariants and the arithmetic of sums.     *)
(***************************************************************************)
EXTENDS PoolProofs, Client

-----------------------------------------------------------------------------
(* The inductive invariant, part by part.                                  *)

\* The liens and the invitations agree; before genesis there are none.
LiensInOrder(p) ==
  /\ \A s \in Soul : LienCovers(p, s)
  /\ ~ p.initialized =>
       \A s \in Soul : s \notin Members(p) /\ p.pendingInvites[s] = NoInvite

\* A proposal follows its life cycle and its tallies are those of its votes.
Counted(q) == q.votesFor = Tally(q, "for") /\ q.votesAgainst = Tally(q, "against")
InOrder(q) ==
  /\ q.bridgeCompleted => q.executed
  /\ q.executed => q.closed
  /\ Counted(q)
ProposalsInOrder(p) == \A id \in ProposalId : InOrder(p.proposals[id])

\* The clocks run from genesis; the accrual clock is the clock of the log.
ClocksInOrder(p) ==
  p.initialized =>
    /\ p.genesisTimestamp > 0
    /\ p.lastAccrualTimestamp = p.maxEventTimestamp
    /\ p.genesisTimestamp <= p.lastRedistributionTimestamp
    /\ p.lastRedistributionTimestamp <= p.maxEventTimestamp
    /\ \A s \in Soul : p.lastActiveTimestamp[s] <= p.maxEventTimestamp

Sound(p) == LiensInOrder(p) /\ ProposalsInOrder(p) /\ ClocksInOrder(p)

-----------------------------------------------------------------------------
(* What a step may leave alone.                                            *)

SameLiens(p, q) ==
  /\ q.initialized = p.initialized /\ q.members = p.members
  /\ q.vouchLiens = p.vouchLiens /\ q.inviters = p.inviters
  /\ q.pendingInvites = p.pendingInvites
SameProposals(p, q) == q.proposals = p.proposals
SameClocks(p, q) ==
  /\ q.initialized = p.initialized /\ q.genesisTimestamp = p.genesisTimestamp
  /\ q.maxEventTimestamp = p.maxEventTimestamp
  /\ q.lastActiveTimestamp = p.lastActiveTimestamp
  /\ q.lastAccrualTimestamp = p.lastAccrualTimestamp
  /\ q.lastRedistributionTimestamp = p.lastRedistributionTimestamp
Same(p, q) == SameLiens(p, q) /\ SameProposals(p, q) /\ SameClocks(p, q)

\* Each part of the invariant depends on its own fields only.
LEMMA SameKeeps ==
  ASSUME NEW p, NEW q
  PROVE  /\ SameLiens(p, q) /\ LiensInOrder(p) => LiensInOrder(q)
         /\ SameProposals(p, q) /\ ProposalsInOrder(p) => ProposalsInOrder(q)
         /\ SameClocks(p, q) /\ ClocksInOrder(p) => ClocksInOrder(q)
<1>1. SameLiens(p, q) /\ LiensInOrder(p) => LiensInOrder(q)
  BY DEF SameLiens, LiensInOrder, LienCovers, Members
<1>2. SameProposals(p, q) /\ ProposalsInOrder(p) => ProposalsInOrder(q)
  BY DEF SameProposals, ProposalsInOrder
<1>3. SameClocks(p, q) /\ ClocksInOrder(p) => ClocksInOrder(q)
  BY DEF SameClocks, ClocksInOrder
<1> QED BY <1>1, <1>2, <1>3

\* What two steps leave alone, both together leave alone.
LEMMA SameIsTransitive ==
  ASSUME NEW p, NEW q, NEW r, Same(p, q), Same(q, r)
  PROVE  Same(p, r)
BY DEF Same, SameLiens, SameProposals, SameClocks

\* Fields of the Pool that none of the parts reads.
LEMMA OtherFields ==
  ASSUME NEW p \in PoolRecord
  PROVE  /\ Same(p, p)
         /\ \A x : Same(p, [p EXCEPT !.balances = x])
         /\ \A x : Same(p, [p EXCEPT !.commons = x])
         /\ \A x : Same(p, [p EXCEPT !.childCellEscrow = x])
         /\ \A x : Same(p, [p EXCEPT !.superstructureEscrow = x])
         /\ \A x : Same(p, [p EXCEPT !.frozen = x])
         /\ \A x : Same(p, [p EXCEPT !.head = x])
         /\ \A x : Same(p, [p EXCEPT !.redistributionSliders = x])
         /\ \A x : Same(p, [p EXCEPT !.vouchSliders = x])
         /\ \A x : Same(p, [p EXCEPT !.communityRelayAuthors = x])
         /\ \A x, y, z : Same(p, [p EXCEPT !.balances = x, !.commons = y,
                                           !.circulationCarry = z])
         /\ \A x, y : Same(p, [p EXCEPT !.balances = x, !.totalSupply = y])
         /\ \A x, y : Same(p, [[p EXCEPT !.balances = x] EXCEPT !.commons = y])
         /\ \A x, y : Same(p, [[p EXCEPT !.childCellEscrow = x] EXCEPT !.commons = y])
BY DEF Same, SameLiens, SameProposals, SameClocks, PoolRecord

-----------------------------------------------------------------------------
(* Circulation.                                                            *)

\* accrueCirculation touches no lien, no proposal and no clock.
LEMMA AccrueSame ==
  ASSUME NEW p \in PoolRecord, NEW annualPercent, NEW elapsed
  PROVE  Same(p, AccrueCirculation(p, annualPercent, elapsed))
BY OtherFields DEF AccrueCirculation

\* A flush touches no lien, no proposal and no clock.
LEMMA RedistributeSame ==
  ASSUME NEW p \in PoolRecord, NEW ts
  PROVE  Same(p, RunRedistributionCycle(p, ts))
<1> DEFINE targets == ResolveRedistributionTargets(p, ts)
           routed == AllocateCommonsToChildCells(p, p.commons)
           paid == DistributeRedistribution(p, p.commons, targets)
<1>1. Same(p, [routed EXCEPT !.commons = 0])
  BY OtherFields DEF AllocateCommonsToChildCells
<1>2. Same(p, [paid EXCEPT !.commons = 0])
  <2>1. CASE paid = p
    BY <2>1, OtherFields
  <2>2. CASE \E x : paid = [p EXCEPT !.balances = x]
    BY <2>2, OtherFields
  <2> QED BY <2>1, <2>2 DEF DistributeRedistribution
<1>3. RunRedistributionCycle(p, ts) \in
        {p, [p EXCEPT !.commons = 0], [routed EXCEPT !.commons = 0], [paid EXCEPT !.commons = 0]}
  BY DEF RunRedistributionCycle
<1> HIDE DEF routed, paid
<1> QED BY <1>1, <1>2, <1>3, OtherFields

\* (n \div d) * d never exceeds n.
LEMMA WholeParts ==
  ASSUME NEW n \in Nat, NEW d \in Nat \ {0}, NEW k \in Nat, k <= n \div d
  PROVE  k * d \in Nat /\ k * d <= n
<1>1. n \div d \in Nat /\ (n \div d) * d <= n
  OBVIOUS
<1>2. k * d <= (n \div d) * d
  <2> DEFINE q == n \div d
  <2>1. q \in Nat /\ k <= q
    BY <1>1
  <2> HIDE DEF q
  <2>2. k * d <= q * d
    BY <2>1
  <2> QED BY <2>2 DEF q
<1>3. k * d \in Nat /\ (n \div d) * d \in Nat
  BY <1>1
<1> QED BY <1>1, <1>2, <1>3

\* Everything reduceOneSync does after a handler keeps the Pool sound.
LEMMA CommittedSound ==
  ASSUME NEW p \in PoolRecord, NEW author \in Soul, NEW ts \in Nat, Sound(p)
  PROVE  Sound(Committed(p, author, ts))
<1> DEFINE counted == [p EXCEPT !.eventCount = @ + 1,
                                !.maxEventTimestamp = Greatest(@, ts),
                                !.lastActiveTimestamp[author] = ts]
           elapsed == Least(ts - counted.lastAccrualTimestamp, TIMESTAMP_FORWARD_SKEW)
           rate == ResolveGovernanceParameter(counted, "decay_rate")
           charged == AccrueCirculation(counted, rate, elapsed)
           accrued == MaybeAccrueCirculation(counted, ts)
           interval == CirculationInterval(accrued)
           cycles == Least((ts - accrued.lastRedistributionTimestamp) \div interval,
                           MAX_REDISTRIBUTION_CATCHUP)
           flushed == RunRedistributionCycle(accrued, ts)
           settled == MaybeRedistribute(accrued, ts)
<1>1. counted \in PoolRecord
  <2>1. p.eventCount + 1 \in Nat /\ Greatest(p.maxEventTimestamp, ts) \in Nat
    BY ValuesOfPoints DEF Greatest
  <2> QED BY <2>1 DEF PoolRecord
<1>2. /\ SameLiens(p, counted) /\ SameProposals(p, counted)
      /\ counted.initialized = p.initialized
      /\ counted.genesisTimestamp = p.genesisTimestamp
      /\ counted.lastAccrualTimestamp = p.lastAccrualTimestamp
      /\ counted.lastRedistributionTimestamp = p.lastRedistributionTimestamp
      /\ counted.maxEventTimestamp = Greatest(p.maxEventTimestamp, ts)
      /\ counted.lastActiveTimestamp = [p.lastActiveTimestamp EXCEPT ![author] = ts]
  BY DEF SameLiens, SameProposals, PoolRecord
<1>3. p.maxEventTimestamp \in Nat /\ p.lastActiveTimestamp \in [Soul -> Nat]
      /\ p.genesisTimestamp \in Nat /\ p.lastAccrualTimestamp \in Nat
      /\ p.lastRedistributionTimestamp \in Nat
  BY DEF PoolRecord
<1>4. Committed(p, author, ts) = settled
  BY DEF Committed
<1> HIDE DEF counted
<1>5. Same(counted, charged)
  BY <1>1, AccrueSame
<1>6. /\ SameLiens(p, accrued) /\ SameProposals(p, accrued)
      /\ p.initialized => accrued.lastAccrualTimestamp = counted.maxEventTimestamp
      /\ accrued.initialized = p.initialized
      /\ accrued.genesisTimestamp = p.genesisTimestamp
      /\ accrued.maxEventTimestamp = counted.maxEventTimestamp
      /\ accrued.lastActiveTimestamp = counted.lastActiveTimestamp
      /\ accrued.lastRedistributionTimestamp = p.lastRedistributionTimestamp
  <2>1. CASE counted.lastAccrualTimestamp <= 0 \/ elapsed <= 0
    <3>1. accrued = counted
      BY <2>1 DEF MaybeAccrueCirculation
    <3>2. p.initialized => p.lastAccrualTimestamp > 0 /\ p.lastAccrualTimestamp = p.maxEventTimestamp
      BY <1>3 DEF Sound, ClocksInOrder
    <3>3. p.initialized => ts <= p.maxEventTimestamp
      BY <1>2, <1>3, <2>1, <3>2, SizeAssumption DEF Least
    <3>4. p.initialized => counted.maxEventTimestamp = p.maxEventTimestamp
      BY <1>2, <1>3, <3>3 DEF Greatest
    <3> HIDE DEF accrued
    <3> QED BY <1>2, <3>1, <3>2, <3>4
  <2>2. CASE ~ (counted.lastAccrualTimestamp <= 0 \/ elapsed <= 0)
    <3>1. accrued = [charged EXCEPT !.lastAccrualTimestamp = ts]
      BY <2>2 DEF MaybeAccrueCirculation
    <3>2. elapsed \in Nat /\ ts > p.lastAccrualTimestamp
      BY <1>2, <1>3, <2>2, SizeAssumption DEF Least
    <3>3. rate \in Ratio
      BY <1>1, ParameterRatio DEF GovernanceParameter
    <3> HIDE DEF elapsed, rate
    <3>4. charged \in PoolRecord
      BY <1>1, <3>2, <3>3, AccrueCirculationType
    <3> HIDE DEF charged
    <3>5. /\ SameLiens(charged, accrued) /\ SameProposals(charged, accrued)
          /\ accrued.initialized = charged.initialized
          /\ accrued.genesisTimestamp = charged.genesisTimestamp
          /\ accrued.maxEventTimestamp = charged.maxEventTimestamp
          /\ accrued.lastActiveTimestamp = charged.lastActiveTimestamp
          /\ accrued.lastRedistributionTimestamp = charged.lastRedistributionTimestamp
          /\ accrued.lastAccrualTimestamp = ts
      BY <3>1, <3>4 DEF Same, SameLiens, SameProposals, SameClocks, PoolRecord
    <3>6. p.initialized => counted.maxEventTimestamp = ts
      BY <1>2, <1>3, <3>2 DEF Greatest, Sound, ClocksInOrder
    <3> HIDE DEF accrued
    <3> QED BY <1>2, <1>5, <3>5, <3>6 DEF Same, SameLiens, SameProposals, SameClocks
  <2> QED BY <2>1, <2>2
<1>7. accrued \in PoolRecord
  BY <1>1, MaybeAccrueType
<1> HIDE DEF accrued, charged, rate, elapsed
<1>8. Same(accrued, flushed)
  BY <1>7, RedistributeSame
<1>9. flushed \in PoolRecord
  BY <1>7, RunRedistributionCycleType
<1>10. interval \in Nat \ {0}
  BY <1>7, CirculationIntervalPositive
<1> HIDE DEF interval, flushed
<1>11. /\ SameLiens(accrued, settled) /\ SameProposals(accrued, settled)
       /\ settled.initialized = accrued.initialized
       /\ settled.genesisTimestamp = accrued.genesisTimestamp
       /\ settled.maxEventTimestamp = accrued.maxEventTimestamp
       /\ settled.lastActiveTimestamp = accrued.lastActiveTimestamp
       /\ settled.lastAccrualTimestamp = accrued.lastAccrualTimestamp
       /\ \/ settled.lastRedistributionTimestamp = accrued.lastRedistributionTimestamp
          \/ /\ settled.lastRedistributionTimestamp >= accrued.lastRedistributionTimestamp
             /\ settled.lastRedistributionTimestamp <= ts
  <2>1. CASE accrued.lastRedistributionTimestamp <= 0 \/ cycles <= 0
    <3>1. settled = accrued
      BY <2>1 DEF MaybeRedistribute, interval
    <3> HIDE DEF settled
    <3> QED BY <3>1 DEF SameLiens, SameProposals
  <2>2. CASE ~ (accrued.lastRedistributionTimestamp <= 0 \/ cycles <= 0)
    <3> DEFINE since == ts - accrued.lastRedistributionTimestamp
               span == cycles * interval
    <3>1. settled = [flushed EXCEPT !.lastRedistributionTimestamp = @ + span]
      BY <2>2 DEF MaybeRedistribute, interval, flushed
    <3>2. since \in Int
      BY <1>3, <1>6
    <3>3. cycles \in Int /\ cycles > 0 /\ cycles <= since \div interval
      <4>1. since \div interval \in Int
        BY <1>10, <3>2
      <4> QED BY <2>2, <4>1, SizeAssumption DEF Least
    <3>4. since \in Nat
      <4>1. since < 0 => since \div interval < 0
        BY <1>10, <3>2
      <4>2. since \div interval \in Int
        BY <1>10, <3>2
      <4> QED BY <3>2, <3>3, <4>1, <4>2
    <3> HIDE DEF since, cycles
    <3>5. span \in Nat /\ span <= since
      BY <1>10, <3>3, <3>4, WholeParts
    <3> HIDE DEF span
    <3>6. flushed.lastRedistributionTimestamp = accrued.lastRedistributionTimestamp
      BY <1>8 DEF Same, SameClocks
    <3>7. settled.lastRedistributionTimestamp = accrued.lastRedistributionTimestamp + span
      BY <1>9, <3>1, <3>6 DEF PoolRecord
    <3>8. accrued.lastRedistributionTimestamp \in Nat
      BY <1>3, <1>6
    <3>9. settled.lastRedistributionTimestamp >= accrued.lastRedistributionTimestamp
          /\ settled.lastRedistributionTimestamp <= ts
      BY <3>5, <3>7, <3>8 DEF since
    <3>10. /\ SameLiens(flushed, settled) /\ SameProposals(flushed, settled)
           /\ settled.initialized = flushed.initialized
           /\ settled.genesisTimestamp = flushed.genesisTimestamp
           /\ settled.maxEventTimestamp = flushed.maxEventTimestamp
           /\ settled.lastActiveTimestamp = flushed.lastActiveTimestamp
           /\ settled.lastAccrualTimestamp = flushed.lastAccrualTimestamp
      BY <1>9, <3>1 DEF SameLiens, SameProposals, PoolRecord
    <3> HIDE DEF settled
    <3> QED BY <1>8, <3>9, <3>10 DEF Same, SameLiens, SameProposals, SameClocks
  <2> HIDE DEF settled, cycles
  <2> QED BY <2>1, <2>2
<1> HIDE DEF settled
<1>12. SameLiens(p, settled) /\ SameProposals(p, settled)
  BY <1>6, <1>11 DEF SameLiens, SameProposals
<1>13. ClocksInOrder(settled)
  <2>1. SUFFICES ASSUME p.initialized PROVE ClocksInOrder(settled)
    BY <1>6, <1>11 DEF ClocksInOrder
  <2> DEFINE now == Greatest(p.maxEventTimestamp, ts)
  <2>2. now \in Nat /\ p.maxEventTimestamp <= now /\ ts <= now
    BY <1>3 DEF Greatest
  <2>3. /\ settled.genesisTimestamp = p.genesisTimestamp
        /\ settled.maxEventTimestamp = now /\ settled.lastAccrualTimestamp = now
        /\ settled.lastActiveTimestamp = [p.lastActiveTimestamp EXCEPT ![author] = ts]
    BY <1>2, <1>6, <1>11, <2>1
  <2> HIDE DEF now
  <2>4. /\ p.genesisTimestamp > 0 /\ p.genesisTimestamp <= p.lastRedistributionTimestamp
        /\ p.lastRedistributionTimestamp <= p.maxEventTimestamp
        /\ \A s \in Soul : p.lastActiveTimestamp[s] <= p.maxEventTimestamp
    BY <2>1 DEF Sound, ClocksInOrder
  <2>5. settled \in PoolRecord
    BY <1>7, MaybeRedistributeType DEF settled
  <2>6. /\ settled.lastRedistributionTimestamp \in Nat
        /\ settled.lastRedistributionTimestamp >= p.lastRedistributionTimestamp
        /\ settled.lastRedistributionTimestamp <= now
    <3>1. settled.lastRedistributionTimestamp \in Nat
      BY <2>5, ValuesOfPoints
    <3>2. accrued.lastRedistributionTimestamp = p.lastRedistributionTimestamp
      BY <1>6
    <3>3. CASE settled.lastRedistributionTimestamp = accrued.lastRedistributionTimestamp
      BY <1>3, <2>2, <2>4, <3>1, <3>2, <3>3
    <3>4. CASE /\ settled.lastRedistributionTimestamp >= accrued.lastRedistributionTimestamp
               /\ settled.lastRedistributionTimestamp <= ts
      BY <1>3, <2>2, <3>1, <3>2, <3>4
    <3> QED BY <1>11, <3>1, <3>3, <3>4
  <2>7. \A s \in Soul : settled.lastActiveTimestamp[s] <= now
    <3>1. ASSUME NEW s \in Soul PROVE [p.lastActiveTimestamp EXCEPT ![author] = ts][s] <= now
      BY <1>3, <2>2, <2>4
    <3> QED BY <2>3, <3>1
  <2>8. settled.genesisTimestamp <= settled.lastRedistributionTimestamp
    BY <1>3, <2>3, <2>4, <2>6
  <2> QED BY <2>3, <2>4, <2>6, <2>7, <2>8 DEF ClocksInOrder
<1> QED BY <1>4, <1>12, <1>13, SameKeeps DEF Sound

-----------------------------------------------------------------------------
(* Handlers that touch none of the parts.                                  *)

\* Nor do transfers, mints, escrow payments, elections and severance.
LEMMA LedgerSame ==
  ASSUME NEW p \in PoolRecord, NEW from, NEW to, NEW amount
  PROVE  /\ Same(p, TransferPoints(p, from, to, amount))
         /\ Same(p, MintPoints(p, to, amount))
         /\ Same(p, Paid(p, to, amount))
         /\ Same(p, Reelected(p))
         /\ Same(p, Severed(p, to))
         /\ Same(p, ForgetSliders(p, to))
<1> USE DEF Same, SameLiens, SameProposals, SameClocks, PoolRecord
<1>1. Same(p, TransferPoints(p, from, to, amount))
  BY DEF TransferPoints
<1>2. Same(p, MintPoints(p, to, amount))
  BY DEF MintPoints
<1>3. Same(p, Paid(p, to, amount))
  BY DEF Paid
<1>4. Same(p, Reelected(p))
  BY DEF Reelected
<1>5. Same(p, Severed(p, to))
  BY DEF Severed
<1>6. Same(p, ForgetSliders(p, to))
  BY DEF ForgetSliders
<1> QED BY <1>1, <1>2, <1>3, <1>4, <1>5, <1>6

\* Nor does moving a slider.
LEMMA SlidersSame ==
  ASSUME NEW p \in PoolRecord, NEW author, NEW key, NEW value, NEW row
  PROVE  /\ Same(p, GovernanceMoved(p, author, key, value))
         /\ Same(p, ShareMoved(p, author, key, value))
         /\ Same(p, VouchMoved(p, author, key, value))
         /\ Same(p, ChildHeard(p, key, row, value))
<1> USE DEF Same, SameLiens, SameProposals, SameClocks, PoolRecord
<1>1. Same(p, GovernanceMoved(p, author, key, value))
  BY DEF GovernanceMoved
<1>2. Same(p, ShareMoved(p, author, key, value))
  BY DEF ShareMoved
<1>3. Same(p, VouchMoved(p, author, key, value))
  BY DEF VouchMoved
<1>4. Same(p, ChildHeard(p, key, row, value))
  BY DEF ChildHeard
<1> QED BY <1>1, <1>2, <1>3, <1>4

\* Nor does joining, leaving or linking a namespace.
LEMMA FederatedSame ==
  ASSUME NEW p \in PoolRecord, NEW author, NEW cell, NEW conform, NEW row,
         NEW population, NEW bridge
  PROVE  /\ Same(p, JoinedSuperstructure(p, author, cell, conform, row))
         /\ Same(p, LeftSuperstructure(p, cell))
         /\ Same(p, LinkedSubcell(p, cell, population, bridge))
<1> USE DEF Same, SameLiens, SameProposals, SameClocks, PoolRecord
<1>1. Same(p, JoinedSuperstructure(p, author, cell, conform, row))
  BY DEF JoinedSuperstructure
<1>2. Same(p, LeftSuperstructure(p, cell))
  BY DEF LeftSuperstructure
<1>3. Same(p, LinkedSubcell(p, cell, population, bridge))
  BY DEF LinkedSubcell
<1> QED BY <1>1, <1>2, <1>3

\* Nor does paying out what was severed.
LEMMA SettledSame ==
  ASSUME NEW p \in PoolRecord, NEW severed
  PROVE  Same(p, Settled(p, severed))
<1> DEFINE paid == DistributeRedistribution(p, severed, [m \in Members(p) |-> 1])
<1>1. Same(p, paid)
  BY OtherFields DEF DistributeRedistribution
<1>2. \A parent : Same(p, [p EXCEPT !.superstructureEscrow[parent] = @ + severed])
  BY DEF Same, SameLiens, SameProposals, SameClocks, PoolRecord
<1>3. Same(p, [p EXCEPT !.commons = @ + severed])
  BY OtherFields
<1> HIDE DEF paid
<1>4. \/ Settled(p, severed) \in {p, paid, [p EXCEPT !.commons = @ + severed]}
      \/ \E parent : Settled(p, severed) = [p EXCEPT !.superstructureEscrow[parent] = @ + severed]
  BY DEF Settled, paid
<1> QED BY <1>1, <1>2, <1>3, <1>4, OtherFields

-----------------------------------------------------------------------------
(* Membership.                                                             *)

\* Push adds its element and no other.
LEMMA ElementsOfPush ==
  ASSUME NEW n \in Nat, NEW a \in [1 .. n -> Nat], NEW x \in 1 .. n
  PROVE  Elements(Push(a, x)) = Elements(a) \cup {x}
<1>1. Elements(a) \subseteq 1 .. n
  BY DEF Elements
<1>2. Cardinality(Elements(a)) \in Nat
  BY <1>1, SubsetFinite, FS_CardinalityType
<1>3. Cardinality(Elements(a)) + 1 # 0
  BY <1>2
<1> DEFINE place == Cardinality(Elements(a)) + 1
<1>4. Push(a, x) = IF a[x] # 0 THEN a ELSE [a EXCEPT ![x] = place]
  BY DEF Push
<1> HIDE DEF place
<1> QED BY <1>3, <1>4 DEF Elements, place

\* Without removes its element and no other.
LEMMA ElementsOfWithout ==
  ASSUME NEW n \in Nat, NEW a \in [1 .. n -> Nat], NEW x \in 1 .. n
  PROVE  Elements(Without(a, x)) = Elements(a) \ {x}
BY DEF Elements, Without

\* A member's expulsion takes exactly what is his out of the liens.
LEMMA ExpelledFields ==
  ASSUME NEW p \in PoolRecord, NEW target \in Soul, target \in Members(p)
  PROVE  LET q == Expelled(p, target)
         IN  /\ q.initialized = p.initialized
             /\ q.members = Without(p.members, target)
             /\ q.vouchLiens = [p.vouchLiens EXCEPT ![target] = NoLien]
             /\ q.inviters = [p.inviters EXCEPT ![target] = None]
             /\ q.pendingInvites = p.pendingInvites
             /\ q.proposals = p.proposals
             /\ q.genesisTimestamp = p.genesisTimestamp
             /\ q.maxEventTimestamp = p.maxEventTimestamp
             /\ q.lastActiveTimestamp = [p.lastActiveTimestamp EXCEPT ![target] = 0]
             /\ q.lastAccrualTimestamp = p.lastAccrualTimestamp
             /\ q.lastRedistributionTimestamp = p.lastRedistributionTimestamp
<1> DEFINE severed == Severed(p, target)
           backed == ForgetBacking(severed, target)
           muted == ForgetSliders(backed, target)
           forgotten == ForgetStanding(muted, target)
           settled == Settled(forgotten, p.balances[target] + Forfeited(p, target))
           q == Expelled(p, target)
<1>1. q = IF settled.head = target THEN Reelected(settled) ELSE settled
  BY DEF Expelled
<1>2. severed \in PoolRecord /\ Same(p, severed)
  BY SeveredType, LedgerSame
<1> HIDE DEF severed
<1>3. backed \in PoolRecord
  BY <1>2, ForgottenType
<1>4. /\ backed.initialized = severed.initialized
      /\ backed.members = severed.members
      /\ backed.vouchLiens = [severed.vouchLiens EXCEPT ![target] = NoLien]
      /\ backed.inviters = [severed.inviters EXCEPT ![target] = None]
      /\ backed.pendingInvites = severed.pendingInvites
      /\ SameProposals(severed, backed)
      /\ backed.genesisTimestamp = severed.genesisTimestamp
      /\ backed.maxEventTimestamp = severed.maxEventTimestamp
      /\ backed.lastActiveTimestamp = [severed.lastActiveTimestamp EXCEPT ![target] = 0]
      /\ backed.lastAccrualTimestamp = severed.lastAccrualTimestamp
      /\ backed.lastRedistributionTimestamp = severed.lastRedistributionTimestamp
  BY <1>2 DEF ForgetBacking, SameProposals, PoolRecord
<1> HIDE DEF backed
<1>5. muted \in PoolRecord /\ Same(backed, muted)
  BY <1>3, ForgottenType, LedgerSame
<1> HIDE DEF muted
<1>6. forgotten \in PoolRecord
  BY <1>5, ForgottenType
<1>7. /\ forgotten.members = Without(muted.members, target)
      /\ forgotten.initialized = muted.initialized
      /\ forgotten.vouchLiens = muted.vouchLiens /\ forgotten.inviters = muted.inviters
      /\ forgotten.pendingInvites = muted.pendingInvites
      /\ SameProposals(muted, forgotten) /\ SameClocks(muted, forgotten)
  BY <1>5 DEF ForgetStanding, SameProposals, SameClocks, PoolRecord
<1> HIDE DEF forgotten
<1>8. settled \in PoolRecord /\ Same(forgotten, settled)
  <2>1. p.balances[target] + Forfeited(p, target) \in Int
    BY SeveredType, PoolFields
  <2> QED BY <1>6, <2>1, SettledType, SettledSame
<1> HIDE DEF settled
<1>9. Same(forgotten, q)
  BY <1>1, <1>8, LedgerSame, SameIsTransitive
<1> HIDE DEF q
<1>10. SameLiens(forgotten, q) /\ SameProposals(forgotten, q) /\ SameClocks(forgotten, q)
  BY <1>9 DEF Same
<1>11. /\ SameLiens(backed, muted) /\ SameProposals(backed, muted) /\ SameClocks(backed, muted)
       /\ SameLiens(p, severed) /\ SameProposals(p, severed) /\ SameClocks(p, severed)
  BY <1>2, <1>5 DEF Same
<1> QED BY <1>4, <1>7, <1>10, <1>11 DEF SameLiens, SameProposals, SameClocks, q

\* An expulsion takes the lien, the invitation and the membership together.
LEMMA ExpelledSound ==
  ASSUME NEW p \in PoolRecord, NEW target \in Soul, Sound(p)
  PROVE  Sound(Expelled(p, target)) /\ SameProposals(p, Expelled(p, target))
<1> DEFINE q == Expelled(p, target)
<1>1. CASE target \notin Members(p)
  <2>1. q = p
    BY <1>1 DEF Expelled
  <2> QED BY <2>1 DEF SameProposals
<1>2. CASE target \in Members(p)
  <2> DEFINE liens == [p.vouchLiens EXCEPT ![target] = NoLien]
  <2>1. /\ q.initialized = p.initialized
        /\ q.members = Without(p.members, target)
        /\ q.vouchLiens = [p.vouchLiens EXCEPT ![target] = NoLien]
        /\ q.inviters = [p.inviters EXCEPT ![target] = None]
        /\ q.pendingInvites = p.pendingInvites
        /\ q.proposals = p.proposals
        /\ q.genesisTimestamp = p.genesisTimestamp
        /\ q.maxEventTimestamp = p.maxEventTimestamp
        /\ q.lastActiveTimestamp = [p.lastActiveTimestamp EXCEPT ![target] = 0]
        /\ q.lastAccrualTimestamp = p.lastAccrualTimestamp
        /\ q.lastRedistributionTimestamp = p.lastRedistributionTimestamp
    BY <1>2, ExpelledFields
  <2> HIDE DEF q
  <2>2. Members(q) = Members(p) \ {target}
    <3>1. Elements(Without(p.members, target)) = Elements(p.members) \ {target}
      <4>1. p.members \in [1 .. N -> Nat] /\ target \in 1 .. N /\ N \in Nat
        BY PoolFields, SizeAssumption DEF Soul
      <4> QED BY <4>1, ElementsOfWithout
    <3> QED BY <2>1, <3>1 DEF Members
  <2>3. p.vouchLiens \in [Soul -> VouchLien] /\ p.inviters \in [Soul -> Key]
        /\ p.lastActiveTimestamp \in [Soul -> Nat]
    BY DEF PoolRecord
  <2>4. LiensInOrder(q)
    <3>1. ASSUME NEW s \in Soul PROVE LienCovers(q, s)
      <4>1. LienCovers(p, s)
        BY DEF Sound, LiensInOrder
      <4>2. CASE s = target
        BY <1>2, <2>1, <2>2, <2>3, <4>1, <4>2 DEF LienCovers
      <4>3. CASE s # target
        BY <2>1, <2>2, <2>3, <4>1, <4>3 DEF LienCovers
      <4> QED BY <4>2, <4>3
    <3>2. p.initialized
      BY <1>2 DEF Sound, LiensInOrder
    <3> QED BY <2>1, <3>1, <3>2 DEF LiensInOrder
  <2>5. ClocksInOrder(q)
    <3>1. p.maxEventTimestamp \in Nat
      BY DEF PoolRecord
    <3> QED BY <2>1, <2>3, <3>1 DEF Sound, ClocksInOrder
  <2>6. SameProposals(p, q)
    BY <2>1 DEF SameProposals
  <2> QED BY <2>4, <2>5, <2>6, SameKeeps DEF Sound, q
<1> QED BY <1>1, <1>2

-----------------------------------------------------------------------------
(* Proposals.                                                              *)

\* A Pool that differs in fields no part reads is as sound.
LEMMA SameIsSound ==
  ASSUME NEW p, NEW q, Same(p, q), Sound(p)
  PROVE  Sound(q) /\ SameProposals(p, q)
BY SameKeeps DEF Same, Sound

\* Whatever a proposal asks for, its effect keeps the Pool sound.
LEMMA EffectSound ==
  ASSUME NEW p \in PoolRecord, NEW q \in ProposalState, Sound(p)
  PROVE  /\ Sound(Effect(p, q.motion, q.author))
         /\ SameProposals(p, Effect(p, q.motion, q.author))
<1> DEFINE motion == q.motion
           effect == Effect(p, motion, q.author)
<1>1. CASE motion.kind = "admit_member"
  <2> SUFFICES Sound(effect) /\ SameProposals(p, effect)
    OBVIOUS
  <2>1. effect = IF p.pendingInvites[motion.target] = NoInvite THEN p
                 ELSE [p EXCEPT !.pendingInvites[motion.target].admissionApproved = TRUE]
    BY <1>1 DEF Effect
  <2>2. motion.target \in Soul
    BY <1>1, ProposalFields DEF SoulKind
  <2> HIDE DEF effect, motion
  <2>3. CASE p.pendingInvites[motion.target] = NoInvite
    BY <2>1, <2>3 DEF SameProposals
  <2>4. CASE p.pendingInvites[motion.target] # NoInvite
    <3>1. p.pendingInvites \in [Soul -> PendingInvite]
      BY DEF PoolRecord
    <3>2. /\ effect.initialized = p.initialized /\ effect.members = p.members
          /\ effect.vouchLiens = p.vouchLiens /\ effect.inviters = p.inviters
          /\ effect.pendingInvites
               = [p.pendingInvites EXCEPT ![motion.target].admissionApproved = TRUE]
          /\ SameProposals(p, effect) /\ SameClocks(p, effect)
      BY <2>1, <2>4 DEF SameProposals, SameClocks, PoolRecord
    <3> HIDE DEF effect
    <3>3. \A s \in Soul : /\ effect.pendingInvites[s].inviter = p.pendingInvites[s].inviter
                          /\ effect.pendingInvites[s] # NoInvite
                               <=> p.pendingInvites[s] # NoInvite
      BY <2>2, <2>4, <3>1, <3>2 DEF PendingInvite, NoInvite
    <3>4. Members(effect) = Members(p)
      BY <3>2 DEF Members
    <3>5. LiensInOrder(effect)
      <4>1. ASSUME NEW s \in Soul PROVE LienCovers(effect, s)
        <5>1. LienCovers(p, s)
          BY DEF Sound, LiensInOrder
        <5> QED BY <3>2, <3>3, <3>4, <5>1 DEF LienCovers
      <4> QED BY <3>2, <3>3, <3>4, <4>1 DEF Sound, LiensInOrder
    <3> QED BY <3>2, <3>5, SameKeeps DEF Sound
  <2> QED BY <2>3, <2>4
<1>2. CASE motion.kind = "expel_member"
  <2>1. motion.target \in Soul
    BY <1>2, ProposalFields DEF SoulKind
  <2>2. effect = Expelled(p, motion.target)
    BY <1>2 DEF Effect
  <2> HIDE DEF effect, motion
  <2> QED BY <2>1, <2>2, ExpelledSound DEF effect, motion
<1>3. CASE motion.kind = "resolve_fracture"
  <2>1. effect = [p EXCEPT !.frozen = @ \ {motion.target}]
    BY <1>3 DEF Effect
  <2> HIDE DEF effect, motion
  <2>2. Same(p, effect)
    BY <2>1, OtherFields
  <2> QED BY <2>2, SameIsSound DEF effect, motion
<1>4. CASE motion.kind \in {"join_superstructure", "leave_superstructure", "link_subcell"}
  <2>1. effect \in
          {JoinedSuperstructure(p, q.author, motion.target, motion.conform, motion.parameters),
           LeftSuperstructure(p, motion.target),
           LinkedSubcell(p, motion.target, motion.population, motion.bridge)}
    BY <1>4 DEF Effect
  <2> HIDE DEF effect, motion
  <2>2. Same(p, effect)
    BY <2>1, FederatedSame
  <2> QED BY <2>2, SameIsSound DEF effect, motion
<1>5. CASE motion.kind \in {"bridge_transfer", "none"}
  <2>1. effect = p
    BY <1>5 DEF Effect
  <2> QED BY <2>1 DEF SameProposals
<1>6. motion.kind \in ProposalKind \cup {"none"}
  BY ProposalFields DEF Motion
<1> HIDE DEF effect
<1> QED BY <1>1, <1>2, <1>3, <1>4, <1>5, <1>6 DEF ProposalKind, effect

\* Nobody voted on a new proposal yet.
LEMMA NewInOrder ==
  ASSUME NEW motion, NEW author
  PROVE  InOrder(NewProposal(motion, author))
<1> DEFINE q == NewProposal(motion, author)
<1>1. /\ ~ q.bridgeCompleted /\ ~ q.executed /\ q.votesFor = 0 /\ q.votesAgainst = 0
      /\ q.voters = [s \in Soul |-> NoVote]
  BY DEF NewProposal
<1> HIDE DEF q
<1>2. ASSUME NEW cast PROVE Tally(q, cast) = 0
  <2> DEFINE f == [s \in Soul |-> IF q.voters[s].cast = cast THEN q.voters[s].weight ELSE 0]
  <2>1. f = [s \in 1 .. N |-> 0]
    BY <1>1 DEF Soul, NoVote
  <2> HIDE DEF f
  <2>2. f \in [1 .. N -> Int] /\ \A i \in 1 .. N : f[i] = f[i] + f[i]
    BY <2>1
  <2>3. Sum(f, N) = Sum(f, N) + Sum(f, N) /\ Sum(f, N) \in Int
    BY <2>2, SumPlus, SumInt, SizeAssumption
  <2>4. Sum(f, N) = 0
    <3>1. \A x \in Int : x = x + x => x = 0
      OBVIOUS
    <3> QED BY <2>3, <3>1, Zenon
  <2> QED BY <2>4 DEF Tally, f
<1> QED BY <1>1, <1>2 DEF InOrder, Counted, q

\* Marking a proposal, in the order of its life, leaves its votes alone.
LEMMA MarkedInOrder ==
  ASSUME NEW q \in ProposalState, InOrder(q)
  PROVE  /\ InOrder([q EXCEPT !.closed = TRUE])
         /\ InOrder([q EXCEPT !.executed = TRUE, !.closed = TRUE])
         /\ q.executed => InOrder([q EXCEPT !.bridgeCompleted = TRUE])
BY DEF InOrder, Counted, Tally, ProposalState

\* One vote replaces the voter's vote before, whichever way either went.
LEMMA VotedInOrder ==
  ASSUME NEW q \in ProposalState, NEW voter \in Soul, NEW approve \in BOOLEAN,
         NEW weight \in Int, InOrder(q)
  PROVE  InOrder(Voted(q, voter, approve, weight))
<1> DEFINE r == Voted(q, voter, approve, weight)
           ballot == [cast |-> IF approve THEN "for" ELSE "against", weight |-> weight]
           prior == q.voters[voter]
           old(cast) == IF prior.cast = cast THEN prior.weight ELSE 0
           new(cast) == IF ballot.cast = cast THEN weight ELSE 0
<1>1. /\ r.bridgeCompleted = q.bridgeCompleted /\ r.executed = q.executed
      /\ r.closed = q.closed
      /\ r.voters = [q.voters EXCEPT ![voter] = ballot]
      /\ r.votesFor = q.votesFor - old("for") + new("for")
      /\ r.votesAgainst = q.votesAgainst - old("against") + new("against")
  BY DEF Voted, ProposalState
<1>2. q.voters \in [Soul -> ProposalVoteRecord] /\ q.votesFor \in Int /\ q.votesAgainst \in Int
  BY DEF ProposalState
<1> HIDE DEF r
<1>3. ASSUME NEW cast PROVE Tally(r, cast) = Tally(q, cast) - old(cast) + new(cast)
  <2> DEFINE f == [s \in Soul |-> IF q.voters[s].cast = cast THEN q.voters[s].weight ELSE 0]
             g == [s \in Soul |-> IF r.voters[s].cast = cast THEN r.voters[s].weight ELSE 0]
  <2>1. ASSUME NEW s \in Soul
        PROVE  q.voters[s].weight \in Int
    BY <1>2 DEF ProposalVoteRecord
  <2>2. ASSUME NEW s \in Soul
        PROVE  r.voters[s] = IF s = voter THEN ballot ELSE q.voters[s]
    BY <1>1, <1>2
  <2>3. ballot.weight = weight
    OBVIOUS
  <2> HIDE DEF ballot
  <2>4. f \in [Soul -> Int]
    BY <2>1
  <2>5. f[voter] = old(cast) /\ new(cast) \in Int /\ old(cast) \in Int
    BY <2>1
  <2>6. g = [f EXCEPT ![voter] = new(cast)]
    <3>1. ASSUME NEW s \in Soul PROVE g[s] = IF s = voter THEN new(cast) ELSE f[s]
      BY <2>2, <2>3
    <3>2. g = [s \in Soul |-> g[s]] /\ f = [s \in Soul |-> f[s]]
      OBVIOUS
    <3> HIDE DEF f, g, new
    <3> QED BY <3>1, <3>2
  <2> HIDE DEF f, g, old, new
  <2>7. Sum(g, N) = Sum(f, N) + (new(cast) - f[voter])
    BY <2>4, <2>5, <2>6, SumUpdate, SizeAssumption, ZenonT(40) DEF Soul
  <2>8. Sum(f, N) \in Int
    BY <2>4, SumInt, SizeAssumption DEF Soul
  <2>9. Sum(g, N) = Sum(f, N) - old(cast) + new(cast)
    BY <2>5, <2>7, <2>8
  <2> QED BY <2>9 DEF Tally, f, g
<1> HIDE DEF old, new
<1>4. Counted(r)
  BY <1>1, <1>3 DEF InOrder, Counted
<1> QED BY <1>1, <1>4 DEF InOrder, r

\* Setting one proposal.
LEMMA SetProposalSound ==
  ASSUME NEW p \in PoolRecord, NEW id \in ProposalId, NEW proposal, Sound(p),
         InOrder(proposal)
  PROVE  Sound([p EXCEPT !.proposals[id] = proposal])
<1> DEFINE q == [p EXCEPT !.proposals[id] = proposal]
<1>1. SameLiens(p, q) /\ SameClocks(p, q) /\ q.proposals = [p.proposals EXCEPT ![id] = proposal]
  BY DEF SameLiens, SameClocks, PoolRecord
<1>2. p.proposals \in [ProposalId -> ProposalState]
  BY DEF PoolRecord
<1> HIDE DEF q
<1>3. ProposalsInOrder(q)
  BY <1>1, <1>2 DEF Sound, ProposalsInOrder
<1> QED BY <1>1, <1>3, SameKeeps DEF Sound, q

\* Executing a proposal closes it in the same step.
LEMMA TryExecuteSound ==
  ASSUME NEW p \in PoolRecord, NEW id \in ProposalId, Sound(p)
  PROVE  Sound(TryExecuteProposal(p, id))
<1> DEFINE effect == Effect(p, p.proposals[id].motion, p.proposals[id].author)
           decided == [effect.proposals[id] EXCEPT !.executed = TRUE, !.closed = TRUE]
<1>1. p.proposals[id] \in ProposalState
  BY MarkedProposalType
<1>2. effect \in PoolRecord /\ Sound(effect)
  BY <1>1, EffectType, EffectSound
<1>3. TryExecuteProposal(p, id) = IF ~ Approved(p, p.proposals[id]) THEN p
        ELSE [effect EXCEPT !.proposals[id] = decided]
  BY DEF TryExecuteProposal
<1> HIDE DEF effect
<1>4. effect.proposals[id] \in ProposalState
  BY <1>2, MarkedProposalType
<1>5. InOrder(decided)
  BY <1>2, <1>4, MarkedInOrder DEF Sound, ProposalsInOrder
<1> HIDE DEF decided
<1>6. Sound([effect EXCEPT !.proposals[id] = decided])
  BY <1>2, <1>5, SetProposalSound
<1> QED BY <1>3, <1>6

-----------------------------------------------------------------------------
(* Genesis and admission.                                                  *)

\* Genesis founds a Pool in which nobody was invited yet.
LEMMA FoundedSound ==
  ASSUME NEW p \in PoolRecord, NEW author \in Soul, NEW ts \in Nat \ {0}, NEW row,
         Sound(p), ~ p.initialized
  PROVE  Sound(Founded(p, author, ts, row))
<1> DEFINE q == Founded(p, author, ts, row)
           members == [s \in Soul |-> IF s = author THEN 1 ELSE 0]
           active == [s \in Soul |-> IF s = author THEN ts ELSE 0]
<1>1. /\ q.initialized = TRUE /\ q.members = members
      /\ q.vouchLiens = p.vouchLiens /\ q.inviters = p.inviters
      /\ q.pendingInvites = p.pendingInvites
      /\ q.genesisTimestamp = ts /\ q.maxEventTimestamp = ts
      /\ q.lastAccrualTimestamp = ts /\ q.lastRedistributionTimestamp = ts
      /\ q.lastActiveTimestamp = active
      /\ SameProposals(p, q)
  BY DEF Founded, SameProposals, PoolRecord
<1> HIDE DEF q, members, active
<1>2. ASSUME NEW s \in Soul PROVE LienCovers(q, s)
  <2>1. LienCovers(p, s) /\ s \notin Members(p) /\ p.pendingInvites[s] = NoInvite
    BY DEF Sound, LiensInOrder
  <2> QED BY <1>1, <2>1 DEF LienCovers
<1>3. LiensInOrder(q)
  BY <1>1, <1>2 DEF LiensInOrder
<1>4. ClocksInOrder(q)
  BY <1>1 DEF ClocksInOrder, active
<1> QED BY <1>1, <1>3, <1>4, SameKeeps DEF Sound, q

\* An invitation is taken back as a whole.
LEMMA CancelledSound ==
  ASSUME NEW p \in PoolRecord, NEW invitee \in Soul, Sound(p), p.initialized,
         invitee \notin Members(p)
  PROVE  Sound(Cancelled(p, invitee))
<1> DEFINE id == AdmissionProposalId(invitee)
           freed == ReleaseVouchLien(p, invitee)
<1>1. freed \in PoolRecord
  BY ReleaseVouchLienType
<1>2. Sound(freed)
  <2>1. CASE p.vouchLiens[invitee] = NoLien
    BY <2>1 DEF ReleaseVouchLien
  <2>2. CASE p.vouchLiens[invitee] # NoLien
    <3>1. /\ freed.initialized = p.initialized /\ freed.members = p.members
          /\ freed.vouchLiens = [p.vouchLiens EXCEPT ![invitee] = NoLien]
          /\ freed.inviters = p.inviters
          /\ freed.pendingInvites = [p.pendingInvites EXCEPT ![invitee] = NoInvite]
          /\ SameProposals(p, freed) /\ SameClocks(p, freed)
      BY <2>2 DEF ReleaseVouchLien, SameProposals, SameClocks, PoolRecord
    <3>2. /\ p.vouchLiens \in [Soul -> VouchLien] /\ p.inviters \in [Soul -> Key]
          /\ p.pendingInvites \in [Soul -> PendingInvite]
      BY DEF PoolRecord
    <3> HIDE DEF freed
    <3>3. Members(freed) = Members(p)
      BY <3>1 DEF Members
    <3>4. ASSUME NEW s \in Soul PROVE LienCovers(freed, s)
      <4>1. LienCovers(p, s)
        BY DEF Sound, LiensInOrder
      <4>2. CASE s = invitee
        BY <3>1, <3>2, <3>3, <4>1, <4>2 DEF LienCovers
      <4>3. CASE s # invitee
        BY <3>1, <3>2, <3>3, <4>1, <4>3 DEF LienCovers
      <4> QED BY <4>2, <4>3
    <3>5. LiensInOrder(freed)
      BY <3>1, <3>4 DEF LiensInOrder
    <3> QED BY <3>1, <3>5, SameKeeps DEF Sound
  <2> QED BY <2>1, <2>2
<1> HIDE DEF freed
<1>3. id \in ProposalId
  BY SizeAssumption DEF ProposalId, Soul, AdmissionProposalId
<1> HIDE DEF id
<1>4. Sound([freed EXCEPT !.proposals[id].closed = TRUE])
  <2> DEFINE closed == [freed.proposals[id] EXCEPT !.closed = TRUE]
  <2>1. freed.proposals[id] \in ProposalState
    BY <1>1, <1>3, MarkedProposalType
  <2>2. InOrder(closed)
    BY <1>2, <1>3, <2>1, MarkedInOrder DEF Sound, ProposalsInOrder
  <2> HIDE DEF closed
  <2>3. Sound([freed EXCEPT !.proposals[id] = closed])
    BY <1>1, <1>2, <1>3, <2>2, SetProposalSound
  <2> QED BY <2>3 DEF closed
<1> QED BY <1>2, <1>4 DEF Cancelled, CloseAdmission, freed, id

\* An invite covers its invitee, whom nobody else has invited, with a lien.
LEMMA InvitedSound ==
  ASSUME NEW p \in PoolRecord, NEW author \in Soul, NEW invitee \in Soul, NEW row,
         Sound(p), p.initialized, invitee \notin Members(p)
  PROVE  Sound(Invited(p, author, invitee, row))
<1> DEFINE id == AdmissionProposalId(invitee)
           admission == [NoMotion EXCEPT !.kind = "admit_member", !.target = invitee]
           lien == [inviter |-> author, amount |-> RequiredVouchLien(p, author)]
           placed == [p EXCEPT !.vouchLiens[invitee] = lien]
           proposal == IF p.proposals[id] = NoProposal \/ p.proposals[id].closed
                       THEN NewProposal(admission, author) ELSE p.proposals[id]
           entry == Invitation(author, row)
           invited == [[p EXCEPT !.vouchLiens[invitee] = lien,
                                 !.pendingInvites[invitee] = entry]
                         EXCEPT !.proposals[id] = proposal]
           q == Invited(p, author, invitee, row)
<1>1. id \in ProposalId
  BY SizeAssumption DEF ProposalId, Soul, AdmissionProposalId
<1>2. /\ q.initialized = p.initialized /\ q.members = p.members
      /\ q.vouchLiens = [p.vouchLiens EXCEPT ![invitee] = lien]
      /\ q.inviters = p.inviters
      /\ q.pendingInvites = [p.pendingInvites EXCEPT ![invitee] = entry]
      /\ q.proposals = [p.proposals EXCEPT ![id] = proposal]
      /\ SameClocks(p, q)
  BY DEF Invited, PlaceVouchLien, SameClocks, PoolRecord
<1>3. lien.inviter = author /\ lien # NoLien /\ entry.inviter = author /\ author # None
  BY DEF NoLien, None, Soul, Invitation
<1>4. /\ p.vouchLiens \in [Soul -> VouchLien] /\ p.inviters \in [Soul -> Key]
      /\ p.pendingInvites \in [Soul -> PendingInvite]
      /\ p.proposals \in [ProposalId -> ProposalState]
  BY DEF PoolRecord
<1>5. InOrder(proposal)
  BY <1>1, NewInOrder DEF Sound, ProposalsInOrder
<1> HIDE DEF q, lien, entry, proposal, id
<1>6. entry # NoInvite
  BY <1>3 DEF NoInvite
<1>7. Members(q) = Members(p)
  BY <1>2 DEF Members
<1>8. ASSUME NEW s \in Soul PROVE LienCovers(q, s)
  <2>1. LienCovers(p, s)
    BY DEF Sound, LiensInOrder
  <2>2. CASE s = invitee
    BY <1>2, <1>3, <1>4, <1>6, <1>7, <2>1, <2>2 DEF LienCovers
  <2>3. CASE s # invitee
    BY <1>2, <1>4, <1>7, <2>1, <2>3 DEF LienCovers
  <2> QED BY <2>2, <2>3
<1>9. LiensInOrder(q)
  BY <1>2, <1>8 DEF LiensInOrder
<1>10. ProposalsInOrder(q)
  BY <1>1, <1>2, <1>4, <1>5 DEF Sound, ProposalsInOrder
<1> QED BY <1>2, <1>9, <1>10, SameKeeps DEF Sound, q

\* Whoever accepts an invitation is covered by the lien it was given under.
LEMMA JoinedSound ==
  ASSUME NEW p \in PoolRecord, NEW author \in Soul, NEW inviter \in Soul, Sound(p),
         author \notin Members(p), p.pendingInvites[author].inviter = inviter
  PROVE  Sound(Joined(p, author, inviter))
<1> DEFINE q == Joined(p, author, inviter)
<1>1. /\ q.initialized = p.initialized /\ q.members = Push(p.members, author)
      /\ q.vouchLiens = p.vouchLiens
      /\ q.inviters = [p.inviters EXCEPT ![author] = inviter]
      /\ q.pendingInvites = [p.pendingInvites EXCEPT ![author] = NoInvite]
      /\ SameProposals(p, q) /\ SameClocks(p, q)
  BY DEF Joined, SameProposals, SameClocks, PoolRecord
<1> HIDE DEF q
<1>2. Members(q) = Members(p) \cup {author}
  <2>1. p.members \in [1 .. N -> Nat] /\ author \in 1 .. N /\ N \in Nat
    BY PoolFields, SizeAssumption DEF Soul
  <2>2. Elements(Push(p.members, author)) = Elements(p.members) \cup {author}
    BY <2>1, ElementsOfPush
  <2> QED BY <1>1, <2>2 DEF Members
<1>3. inviter # None /\ p.pendingInvites[author] # NoInvite
  BY DEF None, Soul, NoInvite
<1>4. /\ p.inviters \in [Soul -> Key] /\ p.pendingInvites \in [Soul -> PendingInvite]
  BY DEF PoolRecord
<1>5. ASSUME NEW s \in Soul PROVE LienCovers(q, s)
  <2>1. LienCovers(p, s)
    BY DEF Sound, LiensInOrder
  <2>2. CASE s = author
    BY <1>1, <1>2, <1>3, <1>4, <2>1, <2>2 DEF LienCovers
  <2>3. CASE s # author
    BY <1>1, <1>2, <1>4, <2>1, <2>3 DEF LienCovers
  <2> QED BY <2>2, <2>3
<1>6. p.initialized
  BY <1>3 DEF Sound, LiensInOrder
<1>7. LiensInOrder(q)
  BY <1>1, <1>5, <1>6 DEF LiensInOrder
<1> QED BY <1>1, <1>7, SameKeeps DEF Sound, q

-----------------------------------------------------------------------------
(* Every event keeps the Pool sound.                                       *)

\* Nobody is a member before genesis.
LEMMA MemberMeansFounded ==
  ASSUME Sound(pool), NEW s \in Soul, IsMember(s)
  PROVE  pool.initialized
BY DEF Sound, LiensInOrder, IsMember

\* A step that commits a sound Pool keeps it sound.
LEMMA CommitSound ==
  ASSUME NEW p \in PoolRecord, NEW author \in Soul, NEW ts \in Timestamps, Sound(p),
         pool' = Committed(p, author, ts)
  PROVE  Sound(pool')
BY CommittedSound, InputAssumption

\* A handler that touches none of the parts keeps the Pool sound.
LEMMA CommitSame ==
  ASSUME NEW p \in PoolRecord, NEW author \in Soul, NEW ts \in Timestamps,
         Sound(pool), Same(pool, p), Commit(p, author, ts)
  PROVE  Sound(pool')
<1>1. Sound(p)
  BY SameIsSound
<1> QED BY <1>1, CommitSound DEF Commit

\* genesis, invite, cancel_invite and accept_invite keep the Pool sound.
LEMMA AdmissionSound ==
  ASSUME TypeOK, Sound(pool), NEW author \in Soul, NEW ts \in Timestamps,
         AdmissionStep(author, ts)
  PROVE  Sound(pool')
<1>1. pool \in PoolRecord /\ ts \in Nat \ {0}
  BY InputAssumption DEF TypeOK
<1>2. ASSUME NEW points \in InitialPoints, NEW row \in Rows, Genesis(author, ts, points, row)
      PROVE  Sound(pool')
  <2> DEFINE founded == Founded(pool, author, ts, row)
  <2>1. founded \in PoolRecord /\ points \in Nat
    BY <1>1, FoundedType, InputAssumption
  <2>2. Sound(founded)
    BY <1>1, <1>2, FoundedSound DEF Genesis
  <2>3. Commit(MintPoints(founded, author, points), author, ts)
    BY <1>2 DEF Genesis
  <2> HIDE DEF founded
  <2>4. MintPoints(founded, author, points) \in PoolRecord
    BY <2>1, MintPointsType
  <2>5. Sound(MintPoints(founded, author, points))
    BY <2>1, <2>2, LedgerSame, SameIsSound
  <2> QED BY <2>3, <2>4, <2>5, CommitSound DEF Commit
<1>3. ASSUME NEW invitee \in Invitees, NEW row \in Rows, Invite(author, ts, invitee, row)
      PROVE  Sound(pool')
  <2> DEFINE p == Withdrawn(pool, invitee)
  <2>1. invitee \in Soul /\ row \in Row
    BY InputAssumption
  <2>2. pool.initialized /\ invitee \notin Members(pool)
    BY <1>3, MemberMeansFounded DEF Invite, TakesInvite, IsMember
  <2>3. p \in PoolRecord
    BY <1>1, <2>1, CancelledType
  <2>4. Sound(p)
    BY <1>1, <2>1, <2>2, CancelledSound DEF Withdrawn
  <2>5. p.initialized /\ invitee \notin Members(p)
    <3>1. p.initialized = pool.initialized /\ p.members = pool.members
      BY <1>1 DEF Withdrawn, Cancelled, ReleaseVouchLien, CloseAdmission, PoolRecord
    <3> HIDE DEF p
    <3> QED BY <2>2, <3>1 DEF Members
  <2>6. /\ CanPlaceVouchLien(p, author, RequiredVouchLien(p, author))
        /\ Commit(Invited(p, author, invitee, row), author, ts)
    BY <1>3 DEF Invite, TakesInvite
  <2> HIDE DEF p
  <2>7. Invited(p, author, invitee, row) \in PoolRecord
    BY <2>1, <2>3, <2>6, InvitedType
  <2>8. Sound(Invited(p, author, invitee, row))
    BY <2>1, <2>3, <2>4, <2>5, InvitedSound
  <2> QED BY <2>6, <2>7, <2>8, CommitSound DEF Commit
<1>4. ASSUME NEW invitee \in Invitees, CancelInvite(author, ts, invitee) PROVE Sound(pool')
  <2>1. invitee \in Soul
    BY InputAssumption
  <2>2. pool.initialized /\ invitee \notin Members(pool)
    BY <1>4, MemberMeansFounded DEF CancelInvite, TakesCancelInvite, IsMember
  <2>3. Cancelled(pool, invitee) \in PoolRecord /\ Sound(Cancelled(pool, invitee))
    BY <1>1, <2>1, <2>2, CancelledType, CancelledSound
  <2> QED BY <1>4, <2>3, CommitSound DEF CancelInvite, TakesCancelInvite, Commit
<1>5. ASSUME NEW inviter \in Soul, AcceptInvite(author, ts, inviter) PROVE Sound(pool')
  <2> DEFINE joined == Joined(pool, author, inviter)
  <2>1. joined \in PoolRecord /\ Sound(joined)
    BY <1>1, <1>5, JoinedType, JoinedSound DEF AcceptInvite, TakesAcceptInvite, IsMember
  <2>2. Commit(Reelected(joined), author, ts)
    BY <1>5 DEF AcceptInvite, TakesAcceptInvite
  <2> HIDE DEF joined
  <2>3. Reelected(joined) \in PoolRecord /\ Sound(Reelected(joined))
    BY <2>1, ReelectedType, LedgerSame, SameIsSound
  <2> QED BY <2>2, <2>3, CommitSound DEF Commit
<1> QED BY <1>2, <1>3, <1>4, <1>5 DEF AdmissionStep

\* transaction and epoch_close keep the Pool sound.
LEMMA LedgerSound ==
  ASSUME TypeOK, Sound(pool), NEW author \in Soul, NEW ts \in Timestamps,
         LedgerStep(author, ts)
  PROVE  Sound(pool')
<1>1. pool \in PoolRecord
  BY DEF TypeOK
<1>2. ASSUME NEW to \in Soul, NEW amount \in Amounts, Transaction(author, ts, to, amount)
      PROVE  Sound(pool')
  <2>1. TransferPoints(pool, author, to, amount) \in PoolRecord
    BY <1>1, TransferPointsType, InputAssumption
  <2> QED BY <1>1, <1>2, <2>1, LedgerSame, CommitSame DEF Transaction, TakesTransaction
<1>3. ASSUME NEW n \in EpochNumbers, EpochClose(author, ts, n) PROVE Sound(pool')
  BY <1>1, <1>3, CommitSound DEF EpochClose, Commit
<1> QED BY <1>2, <1>3 DEF LedgerStep

\* The slider and vouch events keep the Pool sound.
LEMMA SliderSound ==
  ASSUME TypeOK, Sound(pool), NEW author \in Soul, NEW ts \in Timestamps,
         SliderStep(author, ts)
  PROVE  Sound(pool')
<1>1. pool \in PoolRecord
  BY DEF TypeOK
<1>2. ASSUME NEW setting \in Settings,
             GovernanceSliderUpdate(author, ts, setting[1], setting[2])
      PROVE  Sound(pool')
  <2>1. setting[1] \in GovernanceParameter /\ setting[2] \in Int
    BY InputAssumption
  <2>2. GovernanceMoved(pool, author, setting[1], setting[2]) \in PoolRecord
    BY <1>1, <2>1, GovernanceMovedType
  <2> QED BY <1>1, <1>2, <2>2, SlidersSame, CommitSame DEF GovernanceSliderUpdate, TakesSliderUpdate
<1>3. ASSUME NEW target \in Soul, NEW value \in ShareWeights,
             RedistributionSliderUpdate(author, ts, target, value)
      PROVE  Sound(pool')
  <2>1. ShareMoved(pool, author, target, value) \in PoolRecord
    BY <1>1, ShareMovedType, InputAssumption
  <2> QED BY <1>1, <1>3, <2>1, SlidersSame, CommitSame DEF RedistributionSliderUpdate, TakesSliderUpdate
<1>4. ASSUME NEW target \in Soul, NEW weight \in VouchWeights,
             VouchUpdate(author, ts, target, weight)
      PROVE  Sound(pool')
  <2> DEFINE vouched == VouchMoved(pool, author, target, weight)
  <2>1. vouched \in PoolRecord /\ Same(pool, vouched)
    BY <1>1, VouchMovedType, SlidersSame, InputAssumption
  <2>2. Commit(Reelected(vouched), author, ts)
    BY <1>4 DEF VouchUpdate, TakesVouchUpdate
  <2> HIDE DEF vouched
  <2>3. Reelected(vouched) \in PoolRecord /\ Same(pool, Reelected(vouched))
    BY <2>1, ReelectedType, LedgerSame, SameIsTransitive
  <2> QED BY <2>2, <2>3, CommitSame
<1> QED BY <1>2, <1>3, <1>4 DEF SliderStep

\* The proposal events keep the Pool sound.
LEMMA ProposalSound ==
  ASSUME TypeOK, Sound(pool), NEW author \in Soul, NEW ts \in Timestamps,
         ProposalStep(author, ts)
  PROVE  Sound(pool')
<1>1. pool \in PoolRecord
  BY DEF TypeOK
<1>2. ASSUME NEW id \in CreateIds, NEW motion \in Motions,
             ProposalCreate(author, ts, id, motion)
      PROVE  Sound(pool')
  <2> DEFINE q == NewProposal(motion, author)
  <2>1. motion \in Motion /\ author \in Key /\ id \in ProposalId
    BY InputAssumption DEF Key, Soul
  <2>2. q \in ProposalState
    BY <2>1 DEF NewProposal, ProposalState, NoVote, ProposalVoteRecord
  <2>3. InOrder(q)
    BY NewInOrder
  <2>4. Commit([pool EXCEPT !.proposals[id] = q], author, ts)
    BY <1>2 DEF ProposalCreate, TakesProposalCreate
  <2> HIDE DEF q
  <2>5. [pool EXCEPT !.proposals[id] = q] \in PoolRecord
    BY <1>1, <2>2, SetProposalType
  <2>6. Sound([pool EXCEPT !.proposals[id] = q])
    BY <1>1, <2>1, <2>3, SetProposalSound
  <2> QED BY <2>4, <2>5, <2>6, CommitSound DEF Commit
<1>3. ASSUME NEW id \in ProposalId, NEW approve \in Ballots,
             ProposalVote(author, ts, id, approve)
      PROVE  Sound(pool')
  <2> DEFINE voted == Voted(pool.proposals[id], author, approve, pool.balances[author])
             counted == [pool EXCEPT !.proposals[id] = voted]
  <2>1. pool.proposals[id] \in ProposalState
    BY <1>1, MarkedProposalType
  <2>2. voted \in ProposalState
    BY <1>1, <2>1, VotedType, PoolFields, InputAssumption
  <2>4. Commit(TryExecuteProposal(counted, id), author, ts)
    BY <1>3 DEF ProposalVote, TakesProposalVote
  <2>5. InOrder(voted)
    <3>1. InOrder(pool.proposals[id]) /\ pool.balances[author] \in Int /\ approve \in BOOLEAN
      BY <1>1, PoolFields, InputAssumption DEF Sound, ProposalsInOrder
    <3> QED BY <2>1, <3>1, VotedInOrder
  <2> HIDE DEF voted
  <2>6. counted \in PoolRecord /\ Sound(counted)
    BY <1>1, <2>2, <2>5, SetProposalType, SetProposalSound
  <2> HIDE DEF counted
  <2>7. TryExecuteProposal(counted, id) \in PoolRecord /\ Sound(TryExecuteProposal(counted, id))
    BY <2>6, TryExecuteProposalType, TryExecuteSound
  <2> QED BY <2>4, <2>7, CommitSound DEF Commit
<1>4. ASSUME NEW id \in CloseIds, ProposalClose(author, ts, id) PROVE Sound(pool')
  <2> DEFINE q == [pool.proposals[id] EXCEPT !.closed = TRUE]
  <2>1. id \in ProposalId
    BY InputAssumption
  <2>2. pool.proposals[id] \in ProposalState
    BY <1>1, <2>1, MarkedProposalType
  <2>3. InOrder(q)
    BY <2>1, <2>2, MarkedInOrder DEF Sound, ProposalsInOrder
  <2>4. [pool EXCEPT !.proposals[id].closed = TRUE] \in PoolRecord
    BY <1>1, <2>1, MarkedProposalType
  <2>5. Commit([pool EXCEPT !.proposals[id] = q], author, ts)
    BY <1>4 DEF ProposalClose, TakesProposalClose
  <2>6. [pool EXCEPT !.proposals[id] = q] \in PoolRecord
    BY <2>4
  <2> HIDE DEF q
  <2>7. Sound([pool EXCEPT !.proposals[id] = q])
    BY <1>1, <2>1, <2>3, SetProposalSound
  <2> QED BY <2>5, <2>6, <2>7, CommitSound DEF Commit
<1> QED BY <1>2, <1>3, <1>4 DEF ProposalStep

\* The governance relay and the bridge events keep the Pool sound.
LEMMA FederationSound ==
  ASSUME TypeOK, Sound(pool), NEW author \in Soul, NEW ts \in Timestamps,
         FederationStep(author, ts)
  PROVE  Sound(pool')
<1>1. pool \in PoolRecord
  BY DEF TypeOK
<1>2. ASSUME NEW cell \in Cell, NEW row \in Rows, NEW population \in Populations,
             RelayChildGovernance(author, ts, cell, row, population)
      PROVE  Sound(pool')
  <2>1. ChildHeard(pool, cell, row, population) \in PoolRecord
    BY <1>1, ChildHeardType, InputAssumption
  <2> QED BY <1>1, <1>2, <2>1, SlidersSame, CommitSame DEF RelayChildGovernance
<1>3. ASSUME RelayOwnGovernance(author, ts) PROVE Sound(pool')
  BY <1>1, <1>3, CommitSound DEF RelayOwnGovernance, Commit
<1>4. ASSUME NEW d \in Deliveries, NEW p \in PoolRecord, Same(pool, p),
             ValidateBridgeProposal(pool, d),
             pool' = Committed(MarkBridgeProposalCompleted(p, d.id), author, ts)
      PROVE  Sound(pool')
  <2> DEFINE q == [p.proposals[d.id] EXCEPT !.bridgeCompleted = TRUE]
             delivered == MarkBridgeProposalCompleted(p, d.id)
  <2>1. d.id \in ProposalId
    BY InputAssumption
  <2>2. p.proposals[d.id] \in ProposalState /\ delivered \in PoolRecord
    BY <2>1, MarkedProposalType DEF MarkBridgeProposalCompleted
  <2>3. Sound(p)
    BY <1>4, SameIsSound
  <2>4. p.proposals[d.id].executed
    BY <1>4 DEF Same, SameProposals, ValidateBridgeProposal
  <2>5. InOrder(q)
    BY <2>1, <2>2, <2>3, <2>4, MarkedInOrder DEF Sound, ProposalsInOrder
  <2>6. delivered = [p EXCEPT !.proposals[d.id] = q]
    BY DEF MarkBridgeProposalCompleted
  <2> HIDE DEF q
  <2>7. Sound([p EXCEPT !.proposals[d.id] = q])
    BY <2>1, <2>3, <2>5, SetProposalSound
  <2> QED BY <1>4, <2>2, <2>6, <2>7, CommitSound
<1>5. ASSUME NEW d \in Deliveries
      PROVE  d.cell \in Cell /\ d.id \in ProposalId /\ d.to \in Soul /\ d.amount \in Nat
  BY InputAssumption
<1>6. ASSUME NEW d \in Deliveries, BridgeInbound(author, ts, d) PROVE Sound(pool')
  <2>1. MintPoints(pool, d.to, d.amount) \in PoolRecord
    BY <1>1, <1>5, MintPointsType
  <2>2. Same(pool, MintPoints(pool, d.to, d.amount))
    BY <1>1, LedgerSame
  <2> QED BY <1>4, <1>6, <2>1, <2>2 DEF BridgeInbound, BridgeAdmissible, Commit
<1>7. ASSUME NEW d \in Deliveries, BridgeUnlinked(author, ts, d) PROVE Sound(pool')
  <2>1. TransferPoints(pool, author, d.to, d.amount) \in PoolRecord
    BY <1>1, <1>5, TransferPointsType
  <2>2. Same(pool, TransferPoints(pool, author, d.to, d.amount))
    BY <1>1, LedgerSame
  <2> QED BY <1>4, <1>7, <2>1, <2>2 DEF BridgeUnlinked, BridgeAdmissible, Commit
<1>8. ASSUME NEW d \in Deliveries, BridgeOutbound(author, ts, d) PROVE Sound(pool')
  <2>1. Paid(pool, d.cell, d.amount) \in PoolRecord
    BY <1>1, <1>5, PaidType
  <2>2. Same(pool, Paid(pool, d.cell, d.amount))
    BY <1>1, LedgerSame
  <2> QED BY <1>4, <1>8, <2>1, <2>2 DEF BridgeOutbound, BridgeAdmissible
<1> QED BY <1>2, <1>3, <1>6, <1>7, <1>8 DEF FederationStep

\* The mailbox events keep the Pool sound.
LEMMA RelaySound ==
  ASSUME TypeOK, Sound(pool), NEW author \in Soul, NEW ts \in Timestamps,
         RelayStep(author, ts)
  PROVE  Sound(pool')
<1>1. pool \in PoolRecord
  BY DEF TypeOK
<1>2. author \in Key /\ None \in Key
  BY SizeAssumption DEF Key, Soul, None
<1>3. ASSUME NEW authors \in [RelayUrl -> Key],
             Commit([pool EXCEPT !.communityRelayAuthors = authors], author, ts)
      PROVE  Sound(pool')
  <2>1. [pool EXCEPT !.communityRelayAuthors = authors] \in PoolRecord
    BY <1>1 DEF PoolRecord
  <2> QED BY <1>1, <1>3, <2>1, OtherFields, CommitSame
<1>4. ASSUME NEW url \in RelayUrl, RelayContribute(author, ts, url) PROVE Sound(pool')
  <2> DEFINE kept == KeptRelays(pool, author)
             authors == IF kept[url] = None THEN [kept EXCEPT ![url] = author] ELSE kept
  <2>1. kept \in [RelayUrl -> Key]
    BY <1>1, <1>2 DEF KeptRelays, PoolRecord
  <2> HIDE DEF kept
  <2>2. authors \in [RelayUrl -> Key]
    BY <1>2, <2>1
  <2>3. Commit([pool EXCEPT !.communityRelayAuthors = authors], author, ts)
    BY <1>4 DEF RelayContribute, kept
  <2> HIDE DEF authors
  <2> QED BY <1>3, <2>2, <2>3
<1>5. ASSUME NEW url \in RelayUrl, RelayRevoke(author, ts, url) PROVE Sound(pool')
  <2> DEFINE authors == [pool.communityRelayAuthors EXCEPT ![url] = None]
  <2>1. authors \in [RelayUrl -> Key]
    BY <1>1, <1>2 DEF PoolRecord
  <2>2. Commit([pool EXCEPT !.communityRelayAuthors = authors], author, ts)
    BY <1>5 DEF RelayRevoke
  <2> HIDE DEF authors
  <2> QED BY <1>3, <2>1, <2>2
<1> QED BY <1>4, <1>5 DEF RelayStep

-----------------------------------------------------------------------------
(* The theorems.                                                           *)

\* The empty Pool is sound.
LEMMA InitSound == Init => Sound(pool)
<1>1. CreateInitialState.proposals = [id \in ProposalId |-> NoProposal]
      /\ CreateInitialState.initialized = FALSE
      /\ CreateInitialState.members = [s \in Soul |-> 0]
      /\ CreateInitialState.vouchLiens = [s \in Soul |-> NoLien]
      /\ CreateInitialState.inviters = [s \in Soul |-> None]
      /\ CreateInitialState.pendingInvites = [s \in Soul |-> NoInvite]
  BY DEF CreateInitialState
<1>2. InOrder(NoProposal)
  BY NewInOrder DEF NoProposal
<1>3. LiensInOrder(CreateInitialState)
  BY <1>1 DEF LiensInOrder, LienCovers, Members, Elements
<1>4. ProposalsInOrder(CreateInitialState) /\ ClocksInOrder(CreateInitialState)
  BY <1>1, <1>2 DEF ProposalsInOrder, ClocksInOrder
<1> QED BY <1>3, <1>4 DEF Init, Sound

\* Every event, and a stutter, keeps the Pool sound.
LEMMA NextSound == TypeOK /\ Sound(pool) /\ [Next]_vars => Sound(pool')
<1> SUFFICES ASSUME TypeOK, Sound(pool), [Next]_vars PROVE Sound(pool')
  OBVIOUS
<1>1. CASE UNCHANGED vars
  BY <1>1 DEF vars
<1>2. CASE Next
  BY <1>2, AdmissionSound, LedgerSound, SliderSound, ProposalSound, FederationSound, RelaySound
     DEF Next
<1> QED BY <1>1, <1>2

SoundPool == Sound(pool)

\* Whatever events a log holds, in whatever order, the Pool is sound.
THEOREM PoolStaysSound == Spec => []SoundPool
<1>1. Init => SoundPool
  BY InitSound DEF SoundPool
<1>2. TypeOK /\ SoundPool /\ [Next]_vars => SoundPool'
  BY NextSound DEF SoundPool
<1>3. Spec => []TypeOK
  BY TypeCorrect
<1> QED BY <1>1, <1>2, <1>3, PTL DEF Spec

\* Liens and invitations never come apart, whoever is invited, admitted,
\* released and expelled, and in whatever order.
THEOREM LiensStayMatched == Spec => []LiensMatchInvitations
<1>1. SoundPool => LiensMatchInvitations
  BY DEF SoundPool, Sound, LiensInOrder, LiensMatchInvitations
<1> QED BY <1>1, PoolStaysSound, PTL

\* No proposal is executed that can still be voted on, and none is delivered
\* across the seam that was not executed.
THEOREM ProposalsFollowLifecycle == Spec => []ProposalLifecycle
<1>1. SoundPool => ProposalLifecycle
  BY DEF SoundPool, Sound, ProposalsInOrder, InOrder, ProposalLifecycle
<1> QED BY <1>1, PoolStaysSound, PTL

\* The tallies of every proposal are the sums of one vote per voter, however
\* often members voted, changed their vote or moved points in between.
THEOREM TalliesStayTrue == Spec => []TalliesMatchVotes
<1>1. SoundPool => TalliesMatchVotes
  BY DEF SoundPool, Sound, ProposalsInOrder, InOrder, Counted, TalliesMatchVotes
<1> QED BY <1>1, PoolStaysSound, PTL

\* Decay is accrued up to the clock of the log, and never past it, whatever
\* the timestamps of the events.
THEOREM ClocksStayTogether == Spec => []ClocksAgree
<1>1. SoundPool => ClocksAgree
  BY DEF SoundPool, Sound, ClocksInOrder, ClocksAgree
<1> QED BY <1>1, PoolStaysSound, PTL

-----------------------------------------------------------------------------
(* The invariant, and what a handler may do to it.                         *)

InStanding(p) ==
  /\ p.head \in Members(p) \cup {None}
  /\ p.frozen \subseteq Members(p)
  /\ \A s \in Soul \ Members(p) : p.balances[s] = 0

Keeps(p, q) ==
  /\ q.members = p.members
  /\ q.head \in Members(p) \cup {None, p.head}
  /\ q.frozen \subseteq Members(p) \cup p.frozen
  /\ \A s \in Soul \ Members(p) : q.balances[s] = p.balances[s]

\* Fields that standing does not depend on.
Unmoved(p, q) ==
  /\ q.members = p.members /\ q.head = p.head
  /\ q.frozen = p.frozen /\ q.balances = p.balances

\* A Pool whose standing is kept is as much in standing.
LEMMA KeepsStanding ==
  ASSUME NEW p, NEW q, Keeps(p, q), InStanding(p)
  PROVE  InStanding(q)
BY DEF Keeps, InStanding, Members

\* What two steps keep, both together keep.
LEMMA KeepsIsTransitive ==
  ASSUME NEW p, NEW q, NEW r, Keeps(p, q), Keeps(q, r)
  PROVE  Keeps(p, r)
BY DEF Keeps, Members

\* What moves nothing keeps the standing.
LEMMA UnmovedKeeps ==
  ASSUME NEW p, NEW q, Unmoved(p, q)
  PROVE  Keeps(p, q)
BY DEF Keeps, Unmoved

-----------------------------------------------------------------------------
(* Decay is collected from members only.                                   *)

\* A round of decay charges nobody who does not play it.
LEMMA DecayRoundSpares ==
  ASSUME NEW r \in Round, NEW num \in [Soul -> Nat], NEW bal \in [Soul -> Int],
         NEW s \in Soul, s \notin r.pool, r.taken[s] = 0
  PROVE  /\ s \notin DecayRound(r, num, bal).pool
         /\ DecayRound(r, num, bal).taken[s] = 0
<1> DEFINE weight == Sum([m \in Soul |-> IF m \in r.pool THEN num[m] ELSE 0], N)
           last == CHOOSE m \in r.pool : \A o \in r.pool : o <= m
           headroom(m) == bal[m] - r.taken[m]
           floored == [m \in Soul |->
                         IF m \in r.pool \ {last}
                         THEN Least(headroom(m), (r.remaining * num[m]) \div weight)
                         ELSE 0]
           share == [floored EXCEPT ![last] =
                       Least(headroom(last), r.remaining - Sum(floored, N))]
           taken == [m \in Soul |-> r.taken[m] + share[m]]
           round == DecayRound(r, num, bal)
<1>1. CASE r.remaining = 0 \/ r.pool = {} \/ weight = 0
  <2>1. round = r
    BY <1>1 DEF DecayRound
  <2> QED BY <2>1
<1>2. CASE ~ (r.remaining = 0 \/ r.pool = {} \/ weight = 0)
  <2>1. round = [remaining |-> r.remaining - Sum(share, N),
                 taken |-> taken,
                 pool |-> {m \in r.pool : taken[m] < bal[m]}]
    BY <1>2 DEF DecayRound
  <2>2. last \in r.pool
    <3> DEFINE id == [m \in 1 .. N |-> m]
    <3>1. r.pool \in SUBSET Soul /\ id \in [1 .. N -> Int]
      BY SizeAssumption DEF Round
    <3>2. \E m \in r.pool : \A o \in r.pool : id[o] <= id[m]
      <4> HIDE DEF id
      <4> QED BY <1>2, <3>1, ArgMax, SizeAssumption DEF Soul
    <3>3. \E m \in r.pool : \A o \in r.pool : o <= m
      BY <3>1, <3>2 DEF Soul
    <3> QED BY <3>3
  <2>3. s # last
    BY <2>2
  <2> HIDE DEF last, weight
  <2>4. floored[s] = 0
    OBVIOUS
  <2>5. share[s] = 0
    <3> HIDE DEF headroom
    <3> DEFINE rest == Least(headroom(last), r.remaining - Sum(floored, N))
    <3>1. share = [floored EXCEPT ![last] = rest]
      OBVIOUS
    <3>2. DOMAIN floored = Soul
      OBVIOUS
    <3> HIDE DEF floored, rest, share
    <3> QED BY <2>3, <2>4, <3>1, <3>2
  <2> HIDE DEF share
  <2>6. taken[s] = 0
    BY <2>5
  <2>7. s \notin round.pool /\ round.taken[s] = 0
    <3> HIDE DEF taken, round
    <3> QED BY <2>1, <2>6
  <2> QED BY <2>7
<1> QED BY <1>1, <1>2

\* allocateProportionalDecay charges its holders only.
LEMMA DecayFromHolders ==
  ASSUME NEW totalDecay \in Int, NEW holders \in SUBSET Soul,
         NEW num \in [Soul -> Nat], NEW bal \in [Soul -> Int],
         NEW s \in Soul \ holders
  PROVE  AllocateProportionalDecay(totalDecay, holders, num, bal)[s] = 0
<1> DEFINE start == [remaining |-> totalDecay, taken |-> [m \in Soul |-> 0], pool |-> holders]
           step == [k \in 1 .. N |-> [r \in Round |-> DecayRound(r, num, bal)]]
           rounds == CHOOSE g : g = [k \in 0 .. N |->
                       IF k = 0 THEN start ELSE DecayRound(g[k - 1], num, bal)]
<1>1. start \in Round /\ s \notin start.pool /\ start.taken[s] = 0
  BY DEF Round
<1>2. step \in [1 .. N -> [Round -> Round]]
  BY DecayRoundType
<1> HIDE DEF start, step
<1>3. PICK g \in [0 .. N -> Round] : L!Recurs(g, N, start, step)
  BY <1>1, <1>2, L!RecursionDefined, SizeAssumption
<1>4. ASSUME NEW k \in 1 .. N PROVE step[k][g[k - 1]] = DecayRound(g[k - 1], num, bal)
  <2>1. g[k - 1] \in Round
    BY <1>3, SizeAssumption
  <2> QED BY <2>1 DEF step
<1>5. g = [k \in 0 .. N |-> IF k = 0 THEN start ELSE DecayRound(g[k - 1], num, bal)]
  BY <1>3, <1>4, SizeAssumption DEF L!Recurs
<1>6. rounds = [k \in 0 .. N |-> IF k = 0 THEN start ELSE DecayRound(rounds[k - 1], num, bal)]
  BY <1>5, Zenon
<1>7. AllocateProportionalDecay(totalDecay, holders, num, bal) = rounds[N].taken
  BY DEF AllocateProportionalDecay, start
<1> HIDE DEF rounds
<1> DEFINE S == {k \in 0 .. N : /\ rounds[k] \in Round
                                /\ s \notin rounds[k].pool /\ rounds[k].taken[s] = 0}
<1>8. 0 \in S
  BY <1>1, <1>6, SizeAssumption
<1>9. ASSUME NEW k \in 0 .. N - 1, k \in S PROVE k + 1 \in S
  <2>1. rounds[k + 1] = DecayRound(rounds[k], num, bal) /\ k + 1 \in 0 .. N
    BY <1>6, SizeAssumption
  <2>2. /\ rounds[k] \in Round
        /\ s \notin rounds[k].pool /\ rounds[k].taken[s] = 0
    BY <1>9
  <2>3. rounds[k + 1] \in Round
    BY <2>1, <2>2, DecayRoundType
  <2>4. s \notin rounds[k + 1].pool /\ rounds[k + 1].taken[s] = 0
    <3> HIDE DEF rounds
    <3>1. s \in Soul
      OBVIOUS
    <3> DEFINE r == rounds[k]
    <3>2. r \in Round /\ s \notin r.pool /\ r.taken[s] = 0
      BY <2>2
    <3> HIDE DEF r
    <3>3. s \notin DecayRound(r, num, bal).pool /\ DecayRound(r, num, bal).taken[s] = 0
      BY <3>1, <3>2, DecayRoundSpares
    <3> QED BY <2>1, <3>3 DEF r
  <2> QED BY <2>1, <2>3, <2>4
<1> HIDE DEF S
<1>10. 0 .. N \subseteq S
  BY <1>8, <1>9, L!IntervalInduction, SizeAssumption
<1>11. rounds[N].taken[s] = 0
  BY <1>10, SizeAssumption DEF S
<1> QED BY <1>7, <1>11

\* accrueCirculation takes from members only.
LEMMA AccrueKeeps ==
  ASSUME NEW p \in PoolRecord, NEW annualPercent \in Ratio, NEW elapsed \in Nat
  PROVE  Keeps(p, AccrueCirculation(p, annualPercent, elapsed))
<1> DEFINE annualBps == RoundDiv(100 * annualPercent.num, annualPercent.den)
           holders == Holders(p)
           held == [m \in Soul |-> IF m \in holders THEN p.balances[m] ELSE 0]
           num == [m \in Soul |-> held[m] * annualBps * elapsed]
           numerator == p.circulationCarry + Sum(num, N)
           totalDecay == Least(numerator \div YEAR_DENOMINATOR, Sum(held, N))
           decay == AllocateProportionalDecay(totalDecay, holders, num, held)
           balances == [m \in Soul |-> p.balances[m] - decay[m]]
           commons == p.commons + Sum(decay, N)
           carry == Carry(numerator, totalDecay)
<1>1. annualBps \in Nat
  <2>1. 100 * annualPercent.num \in Nat /\ annualPercent.den \in Nat \ {0}
    BY DEF Ratio
  <2> QED BY <2>1, RoundDivNat
<1>2. holders \in SUBSET Soul /\ holders \subseteq Members(p)
  BY SubsetsOfKeys DEF Holders, Unfrozen
<1>3. held \in [Soul -> Nat]
  BY PoolFields DEF Holders
<1> HIDE DEF annualBps, holders, held
<1>4. num \in [Soul -> Nat]
  <2>1. ASSUME NEW m \in Soul PROVE held[m] * annualBps * elapsed \in Nat
    <3>1. held[m] \in Nat
      BY <1>3
    <3>2. held[m] * annualBps \in Nat
      BY <3>1, <1>1
    <3> QED BY <3>2
  <2> QED BY <2>1
<1> HIDE DEF num
<1>5. totalDecay \in Int
  <2>1. Sum(num, N) \in Nat /\ Sum(held, N) \in Nat
    BY <1>3, <1>4, SumNat, SizeAssumption DEF Soul
  <2>2. numerator \in Nat
    BY <2>1, ValuesOfPoints
  <2>3. numerator \div YEAR_DENOMINATOR \in Int
    <3> HIDE DEF numerator
    <3> QED BY <2>2, SizeAssumption
  <2> QED BY <2>1, <2>3 DEF Least
<1> HIDE DEF totalDecay
<1>6. ASSUME NEW s \in Soul \ Members(p) PROVE balances[s] = p.balances[s]
  <2>1. held \in [Soul -> Int]
    BY <1>3
  <2>2. decay[s] = 0
    BY <1>2, <1>4, <1>5, <2>1, DecayFromHolders
  <2> HIDE DEF decay
  <2>3. p.balances[s] \in Int
    BY PoolFields
  <2> QED BY <2>2, <2>3
<1> HIDE DEF decay, balances, commons, carry, numerator
<1>7. Keeps(p, [p EXCEPT !.balances = balances, !.commons = commons, !.circulationCarry = carry])
  BY <1>6 DEF Keeps, PoolRecord
<1>8. Keeps(p, p)
  BY UnmovedKeeps DEF Unmoved
<1> QED
  BY <1>7, <1>8 DEF AccrueCirculation, annualBps, holders, held, num, numerator, totalDecay,
                    decay, balances, commons, carry

\* A distribution to members reaches nobody else.
LEMMA DistributeKeeps ==
  ASSUME NEW p \in PoolRecord, NEW pot, NEW targets \in SUBSET Members(p),
         NEW weights \in [targets -> Nat]
  PROVE  Keeps(p, DistributeRedistribution(p, pot, weights))
<1> DEFINE shares == RedistributionShares(p, pot, weights)
           balances == [m \in Soul |-> p.balances[m] + shares[m]]
           last == LastOf(p.members, targets)
           total == Sum([m \in Soul |-> IF m \in targets THEN weights[m] ELSE 0], N)
           share == [m \in Soul |->
                       IF m \in targets \ {last}
                       THEN (pot * RoundDiv(10000 * weights[m], total)) \div 10000
                       ELSE 0]
           rest == pot - Sum(share, N)
<1>1. CASE pot <= 0 \/ targets = {}
  <2>1. DistributeRedistribution(p, pot, weights) = p
    BY <1>1 DEF DistributeRedistribution
  <2> QED BY <2>1, UnmovedKeeps DEF Unmoved
<1>2. CASE ~ (pot <= 0 \/ targets = {})
  <2>1. DistributeRedistribution(p, pot, weights) = [p EXCEPT !.balances = balances]
    BY <1>2 DEF DistributeRedistribution
  <2>2. last \in targets
    <3>1. targets \in SUBSET (1 .. N) /\ p.members \in [1 .. N -> Nat] /\ N \in Nat
      BY SubsetsOfKeys, PoolFields, SizeAssumption DEF Soul
    <3> QED BY <1>2, <3>1, LastOfIn
  <2>3. shares = [share EXCEPT ![last] = rest]
    BY DEF RedistributionShares
  <2>4. DOMAIN share = Soul
    OBVIOUS
  <2>5. ASSUME NEW s \in Soul \ Members(p) PROVE shares[s] = 0
    <3>1. s # last /\ s \notin targets
      BY <2>2
    <3> HIDE DEF last, total
    <3>2. share[s] = 0
      BY <3>1
    <3> HIDE DEF share, rest, shares
    <3> QED BY <2>3, <2>4, <3>1, <3>2
  <2> HIDE DEF shares
  <2>6. ASSUME NEW s \in Soul \ Members(p) PROVE balances[s] = p.balances[s]
    <3>1. p.balances[s] \in Int
      BY PoolFields
    <3> QED BY <2>5, <3>1
  <2> HIDE DEF balances
  <2>7. Keeps(p, [p EXCEPT !.balances = balances])
    BY <2>6 DEF Keeps, PoolRecord
  <2> QED BY <2>1, <2>7
<1> QED BY <1>1, <1>2

\* A flush pays members, or escrows that belong to nobody.
LEMMA RedistributeKeeps ==
  ASSUME NEW p \in PoolRecord, NEW ts
  PROVE  Keeps(p, RunRedistributionCycle(p, ts))
<1> DEFINE targets == ResolveRedistributionTargets(p, ts)
           paid == DistributeRedistribution(p, p.commons, targets)
           routed == AllocateCommonsToChildCells(p, p.commons)
<1>1. \A x, y : /\ Unmoved([p EXCEPT !.balances = x], [[p EXCEPT !.balances = x] EXCEPT !.commons = y])
                /\ Unmoved(p, [[p EXCEPT !.childCellEscrow = x] EXCEPT !.commons = y])
                /\ Unmoved(p, [p EXCEPT !.commons = y])
  BY DEF Unmoved, PoolRecord
<1>2. Keeps(p, paid)
  <2>1. targets \in [EligibleRecipients(p, ts) -> Nat]
    BY RedistributionTargetsType
  <2>2. EligibleRecipients(p, ts) \in SUBSET Members(p)
    BY DEF EligibleRecipients, Unfrozen
  <2> HIDE DEF targets
  <2> QED BY <2>1, <2>2, DistributeKeeps
<1>3. Keeps(p, [paid EXCEPT !.commons = 0])
  <2>1. paid = p \/ \E x : paid = [p EXCEPT !.balances = x]
    BY DEF DistributeRedistribution
  <2> HIDE DEF paid
  <2>2. Keeps(paid, [paid EXCEPT !.commons = 0])
    BY <1>1, <2>1, UnmovedKeeps
  <2> QED BY <1>2, <2>2, KeepsIsTransitive
<1>4. Keeps(p, [routed EXCEPT !.commons = 0])
  <2>1. \E x : routed = [p EXCEPT !.childCellEscrow = x]
    BY DEF AllocateCommonsToChildCells
  <2> HIDE DEF routed
  <2> QED BY <1>1, <2>1, UnmovedKeeps
<1>5. Keeps(p, p) /\ Keeps(p, [p EXCEPT !.commons = 0])
  <2>1. Unmoved(p, p)
    BY DEF Unmoved
  <2>2. Unmoved(p, [p EXCEPT !.commons = 0])
    BY <1>1
  <2> QED BY <2>1, <2>2, UnmovedKeeps
<1>6. RunRedistributionCycle(p, ts) \in
        {p, [p EXCEPT !.commons = 0], [routed EXCEPT !.commons = 0], [paid EXCEPT !.commons = 0]}
  BY DEF RunRedistributionCycle
<1> HIDE DEF paid, routed
<1> QED BY <1>3, <1>4, <1>5, <1>6

\* The bookkeeping and the circulation after a handler keep the standing.
LEMMA CommittedKeeps ==
  ASSUME NEW p \in PoolRecord, NEW author \in Soul, NEW ts \in Nat
  PROVE  Keeps(p, Committed(p, author, ts))
<1> DEFINE counted == [p EXCEPT !.eventCount = @ + 1,
                                !.maxEventTimestamp = Greatest(@, ts),
                                !.lastActiveTimestamp[author] = ts]
           elapsed == Least(ts - counted.lastAccrualTimestamp, TIMESTAMP_FORWARD_SKEW)
           rate == ResolveGovernanceParameter(counted, "decay_rate")
           charged == AccrueCirculation(counted, rate, elapsed)
           accrued == MaybeAccrueCirculation(counted, ts)
           flushed == RunRedistributionCycle(accrued, ts)
           settled == MaybeRedistribute(accrued, ts)
<1>1. counted \in PoolRecord
  <2>1. p.eventCount + 1 \in Nat /\ Greatest(p.maxEventTimestamp, ts) \in Nat
    BY ValuesOfPoints DEF Greatest
  <2> QED BY <2>1 DEF PoolRecord
<1>2. Keeps(p, counted)
  <2>1. Unmoved(p, counted)
    BY DEF Unmoved, PoolRecord
  <2> QED BY <2>1, UnmovedKeeps
<1>3. Committed(p, author, ts) = settled
  BY DEF Committed
<1> HIDE DEF counted
<1>4. Keeps(counted, accrued)
  <2>1. CASE counted.lastAccrualTimestamp <= 0 \/ elapsed <= 0
    <3>1. accrued = counted
      BY <2>1 DEF MaybeAccrueCirculation
    <3> QED BY <3>1, UnmovedKeeps DEF Unmoved
  <2>2. CASE ~ (counted.lastAccrualTimestamp <= 0 \/ elapsed <= 0)
    <3>1. accrued = [charged EXCEPT !.lastAccrualTimestamp = ts]
      BY <2>2 DEF MaybeAccrueCirculation
    <3>2. elapsed \in Nat
      BY <1>1, <2>2, ValuesOfPoints, SizeAssumption DEF Least
    <3>3. rate \in Ratio
      BY <1>1, ParameterRatio DEF GovernanceParameter
    <3> HIDE DEF elapsed, rate
    <3>4. charged \in PoolRecord /\ Keeps(counted, charged)
      BY <1>1, <3>2, <3>3, AccrueCirculationType, AccrueKeeps
    <3> HIDE DEF charged
    <3>5. Keeps(charged, accrued)
      <4>1. Unmoved(charged, accrued)
        BY <3>1, <3>4 DEF Unmoved, PoolRecord
      <4> QED BY <4>1, UnmovedKeeps
    <3> QED BY <3>4, <3>5, KeepsIsTransitive
  <2> QED BY <2>1, <2>2
<1>5. accrued \in PoolRecord
  BY <1>1, MaybeAccrueType
<1> HIDE DEF accrued
<1>6. flushed \in PoolRecord /\ Keeps(accrued, flushed)
  BY <1>5, RunRedistributionCycleType, RedistributeKeeps
<1>7. Keeps(accrued, settled)
  <2>1. settled = accrued \/ \E x : settled = [flushed EXCEPT !.lastRedistributionTimestamp = x]
    BY DEF MaybeRedistribute
  <2>2. Keeps(accrued, accrued)
    BY UnmovedKeeps DEF Unmoved
  <2> HIDE DEF settled, flushed
  <2>3. ASSUME NEW x
        PROVE  Keeps(flushed, [flushed EXCEPT !.lastRedistributionTimestamp = x])
    <3>1. Unmoved(flushed, [flushed EXCEPT !.lastRedistributionTimestamp = x])
      BY <1>6 DEF Unmoved, PoolRecord
    <3> QED BY <3>1, UnmovedKeeps
  <2> QED BY <1>6, <2>1, <2>2, <2>3, KeepsIsTransitive
<1> HIDE DEF settled
<1>8. Keeps(p, accrued)
  BY <1>2, <1>4, KeepsIsTransitive
<1> QED BY <1>3, <1>7, <1>8, KeepsIsTransitive

-----------------------------------------------------------------------------
(* The handlers that leave the members alone.                              *)

\* Transfers, mints to a member, escrow payments and elections.
LEMMA LedgerKeeps ==
  ASSUME NEW p \in PoolRecord, NEW from \in Soul, NEW to \in Soul, NEW amount \in Nat
  PROVE  /\ Keeps(p, TransferPoints(p, from, to, amount))
         /\ to \in Members(p) => Keeps(p, MintPoints(p, to, amount))
         /\ \A cell : Unmoved(p, Paid(p, cell, amount))
         /\ Keeps(p, Reelected(p))
<1>1. Keeps(p, TransferPoints(p, from, to, amount))
  <2> DEFINE debited == [p EXCEPT !.balances[from] = @ - amount]
             balances == [[p.balances EXCEPT ![from] = @ - amount] EXCEPT ![to] = @ + amount]
             q == TransferPoints(p, from, to, amount)
  <2>1. CASE from \notin Unfrozen(p) \/ to \notin Members(p)
    <3>1. q = p
      BY <2>1 DEF TransferPoints
    <3> QED BY <3>1, UnmovedKeeps DEF Unmoved
  <2>2. CASE from \in Unfrozen(p) /\ to \in Members(p)
    <3>1. from \in Members(p) /\ to \in Members(p)
      BY <2>2 DEF Unfrozen
    <3>2. q = [p EXCEPT !.frozen = @ \cup {from}] \/ q = [p EXCEPT !.balances = balances]
      BY <2>2 DEF TransferPoints, PoolRecord
    <3>3. Keeps(p, [p EXCEPT !.frozen = @ \cup {from}])
      BY <3>1 DEF Keeps, PoolRecord
    <3>4. \A s \in Soul \ Members(p) : balances[s] = p.balances[s]
      BY <3>1, PoolFields
    <3> HIDE DEF balances, q
    <3>5. Keeps(p, [p EXCEPT !.balances = balances])
      BY <3>4 DEF Keeps, PoolRecord
    <3> QED BY <3>2, <3>3, <3>5 DEF q
  <2> QED BY <2>1, <2>2
<1>2. ASSUME to \in Members(p) PROVE Keeps(p, MintPoints(p, to, amount))
  BY <1>2 DEF MintPoints, Keeps, PoolRecord
<1>3. ASSUME NEW cell PROVE Unmoved(p, Paid(p, cell, amount))
  BY DEF Paid, Unmoved, PoolRecord
<1>4. Keeps(p, Reelected(p))
  BY ResolveVouchHeadIsMember DEF Reelected, Keeps, PoolRecord
<1> QED BY <1>1, <1>2, <1>3, <1>4

\* Moving a slider, and hearing a child Cell.
LEMMA SlidersKeep ==
  ASSUME NEW p \in PoolRecord, NEW author, NEW key, NEW value, NEW row
  PROVE  /\ Unmoved(p, GovernanceMoved(p, author, key, value))
         /\ Unmoved(p, ShareMoved(p, author, key, value))
         /\ Unmoved(p, VouchMoved(p, author, key, value))
         /\ Unmoved(p, ChildHeard(p, key, row, value))
<1> USE DEF Unmoved, PoolRecord
<1>1. Unmoved(p, GovernanceMoved(p, author, key, value))
  BY DEF GovernanceMoved
<1>2. Unmoved(p, ShareMoved(p, author, key, value))
  BY DEF ShareMoved
<1>3. Unmoved(p, VouchMoved(p, author, key, value))
  BY DEF VouchMoved
<1>4. Unmoved(p, ChildHeard(p, key, row, value))
  BY DEF ChildHeard
<1> QED BY <1>1, <1>2, <1>3, <1>4

\* Joining, leaving and linking a namespace.
LEMMA FederatedKeeps ==
  ASSUME NEW p \in PoolRecord, NEW author, NEW cell, NEW conform, NEW row,
         NEW population, NEW bridge
  PROVE  /\ Unmoved(p, JoinedSuperstructure(p, author, cell, conform, row))
         /\ Unmoved(p, LeftSuperstructure(p, cell))
         /\ Unmoved(p, LinkedSubcell(p, cell, population, bridge))
<1> USE DEF Unmoved, PoolRecord
<1>1. Unmoved(p, JoinedSuperstructure(p, author, cell, conform, row))
  BY DEF JoinedSuperstructure
<1>2. Unmoved(p, LeftSuperstructure(p, cell))
  BY DEF LeftSuperstructure
<1>3. Unmoved(p, LinkedSubcell(p, cell, population, bridge))
  BY DEF LinkedSubcell
<1> QED BY <1>1, <1>2, <1>3

\* Placing and withdrawing an invitation.
LEMMA InvitationKeeps ==
  ASSUME NEW p \in PoolRecord, NEW author, NEW invitee, NEW row
  PROVE  /\ Unmoved(p, Invited(p, author, invitee, row))
         /\ Unmoved(p, Cancelled(p, invitee))
<1> USE DEF Unmoved, PoolRecord
<1>1. Unmoved(p, Invited(p, author, invitee, row))
  BY DEF Invited, PlaceVouchLien
<1>2. Unmoved(p, Cancelled(p, invitee))
  BY DEF Cancelled, CloseAdmission, ReleaseVouchLien
<1> QED BY <1>1, <1>2

-----------------------------------------------------------------------------
(* The handlers that change who is a member.                               *)

\* Who was expelled leaves nothing behind: not his Share, not his roles.
LEMMA ExpelledInStanding ==
  ASSUME NEW p \in PoolRecord, NEW target \in Soul, InStanding(p)
  PROVE  InStanding(Expelled(p, target))
<1> SUFFICES ASSUME target \in Members(p)
             PROVE  InStanding(Expelled(p, target))
  BY DEF Expelled
<1> DEFINE severed == Severed(p, target)
           backed == ForgetBacking(severed, target)
           muted == ForgetSliders(backed, target)
           forgotten == ForgetStanding(muted, target)
           pot == p.balances[target] + Forfeited(p, target)
           settled == Settled(forgotten, pot)
           left == [s \in Soul |->
                      IF s = target THEN 0
                      ELSE IF s = p.vouchLiens[target].inviter
                      THEN p.balances[s] - Greatest(Forfeited(p, target), 0)
                      ELSE p.balances[s]]
<1>1. Expelled(p, target) = IF settled.head = target THEN Reelected(settled) ELSE settled
  BY DEF Expelled
<1>2. severed \in PoolRecord /\ Forfeited(p, target) \in Int /\ pot \in Int
  BY SeveredType, PoolFields
<1>3. /\ severed.members = p.members /\ severed.head = p.head
      /\ severed.frozen = p.frozen /\ severed.balances = left
  BY DEF Severed, PoolRecord
<1>4. ASSUME NEW s \in Soul \ Members(p) PROVE left[s] = 0
  <2>1. p.balances[s] = 0 /\ s # target
    BY DEF InStanding
  <2>2. CASE s = p.vouchLiens[target].inviter
    <3>1. p.vouchLiens[target].amount \in Nat
      <4>1. p.vouchLiens[target] \in VouchLien
        BY PoolFields
      <4> QED BY <4>1 DEF VouchLien, NoLien
    <3>2. Forfeited(p, target) = 0
      BY <2>1, <2>2, <3>1 DEF Forfeited, Least
    <3> QED BY <2>1, <2>2, <3>2 DEF Greatest
  <2>3. CASE s # p.vouchLiens[target].inviter
    BY <2>1, <2>3
  <2> QED BY <2>2, <2>3
<1>5. left[target] = 0
  OBVIOUS
<1> HIDE DEF severed, left, pot
<1>6. Unmoved(severed, backed) /\ backed \in PoolRecord
  <2>1. Unmoved(severed, backed)
    BY <1>2 DEF ForgetBacking, Unmoved, PoolRecord
  <2> QED BY <1>2, <2>1, ForgottenType
<1> HIDE DEF backed
<1>7. Unmoved(backed, muted) /\ muted \in PoolRecord
  <2>1. Unmoved(backed, muted)
    BY <1>6 DEF ForgetSliders, Unmoved, PoolRecord
  <2> QED BY <1>6, <2>1, ForgottenType
<1> HIDE DEF muted
<1>8. forgotten \in PoolRecord
  BY <1>7, ForgottenType
<1>9. /\ forgotten.members = Without(muted.members, target)
      /\ forgotten.head = muted.head /\ forgotten.balances = muted.balances
      /\ forgotten.frozen = muted.frozen \ {target}
  BY <1>7 DEF ForgetStanding, PoolRecord
<1> HIDE DEF forgotten
<1>10. Members(forgotten) = Members(p) \ {target}
  <2>1. Elements(Without(p.members, target)) = Elements(p.members) \ {target}
    <3>1. p.members \in [1 .. N -> Nat] /\ target \in 1 .. N /\ N \in Nat
      BY PoolFields, SizeAssumption DEF Soul
    <3> QED BY <3>1, ElementsOfWithout
  <2> QED BY <1>3, <1>6, <1>7, <1>9, <2>1 DEF Members, Unmoved
<1>11. /\ forgotten.head \in Members(forgotten) \cup {None, target}
       /\ forgotten.frozen \subseteq Members(forgotten)
       /\ \A s \in Soul \ Members(forgotten) : forgotten.balances[s] = 0
  <2>1. /\ forgotten.head = p.head /\ forgotten.frozen = p.frozen \ {target}
        /\ forgotten.balances = left
    BY <1>3, <1>6, <1>7, <1>9 DEF Unmoved
  <2> QED BY <1>4, <1>5, <1>10, <2>1 DEF InStanding
<1>12. settled \in PoolRecord
  BY <1>2, <1>8, SettledType
<1>13. /\ settled.members = forgotten.members /\ settled.head = forgotten.head
       /\ settled.frozen = forgotten.frozen
       /\ \A s \in Soul \ Members(forgotten) : settled.balances[s] = forgotten.balances[s]
  <2> DEFINE paid == DistributeRedistribution(forgotten, pot, [m \in Members(forgotten) |-> 1])
  <2>1. Keeps(forgotten, paid)
    <3> DEFINE weights == [m \in Members(forgotten) |-> 1]
    <3>1. weights \in [Members(forgotten) -> Nat] /\ Members(forgotten) \in SUBSET Members(forgotten)
      OBVIOUS
    <3> HIDE DEF weights
    <3>2. Keeps(forgotten, DistributeRedistribution(forgotten, pot, weights))
      BY <1>8, <3>1, DistributeKeeps
    <3> QED BY <3>2 DEF weights
  <2>2. paid.head = forgotten.head /\ paid.frozen = forgotten.frozen
    BY <1>8 DEF DistributeRedistribution, PoolRecord
  <2> HIDE DEF paid
  <2>3. \/ settled \in {forgotten, paid}
        \/ \E x : settled = [forgotten EXCEPT !.superstructureEscrow = x]
        \/ \E x : settled = [forgotten EXCEPT !.commons = x]
    BY <1>8 DEF Settled, paid, PoolRecord
  <2> HIDE DEF settled
  <2> QED BY <1>8, <2>1, <2>2, <2>3 DEF Keeps, PoolRecord
<1> HIDE DEF settled
<1>14. /\ settled.head \in Members(settled) \cup {None, target}
       /\ settled.frozen \subseteq Members(settled)
       /\ \A s \in Soul \ Members(settled) : settled.balances[s] = 0
       /\ target \notin Members(settled)
  BY <1>10, <1>11, <1>13 DEF Members
<1>15. CASE settled.head = target
  <2>1. ResolveVouchHead(settled) \in Members(settled) \cup {None}
    BY <1>12, ResolveVouchHeadIsMember
  <2>2. InStanding(Reelected(settled))
    BY <1>12, <1>14, <2>1 DEF Reelected, InStanding, Members, PoolRecord
  <2> QED BY <1>1, <1>15, <2>2
<1>16. CASE settled.head # target
  BY <1>1, <1>14, <1>16 DEF InStanding
<1> QED BY <1>15, <1>16

\* The founder of a Pool is its only member, its Head, and owns nothing yet.
LEMMA FoundedInStanding ==
  ASSUME NEW p \in PoolRecord, NEW author \in Soul, NEW ts, NEW row,
         InStanding(p), Members(p) = {}
  PROVE  InStanding(Founded(p, author, ts, row)) /\ author \in Members(Founded(p, author, ts, row))
<1> DEFINE q == Founded(p, author, ts, row)
           members == [s \in Soul |-> IF s = author THEN 1 ELSE 0]
<1>1. /\ q.members = members /\ q.head = author
      /\ q.frozen = p.frozen /\ q.balances = p.balances
  BY DEF Founded, PoolRecord
<1>2. Elements(members) = {author}
  BY DEF Elements
<1> HIDE DEF q, members
<1>3. Members(q) = {author}
  BY <1>1, <1>2 DEF Members
<1> QED BY <1>1, <1>3 DEF InStanding, q

\* Whoever joins becomes a member and takes nobody's place.
LEMMA JoinedInStanding ==
  ASSUME NEW p \in PoolRecord, NEW author \in Soul, NEW inviter, InStanding(p)
  PROVE  InStanding(Joined(p, author, inviter))
<1> DEFINE q == Joined(p, author, inviter)
<1>1. /\ q.members = Push(p.members, author) /\ q.head = p.head
      /\ q.frozen = p.frozen /\ q.balances = p.balances
  BY DEF Joined, PoolRecord
<1>2. Elements(Push(p.members, author)) = Elements(p.members) \cup {author}
  <2>1. p.members \in [1 .. N -> Nat] /\ author \in 1 .. N /\ N \in Nat
    BY PoolFields, SizeAssumption DEF Soul
  <2> QED BY <2>1, ElementsOfPush
<1> HIDE DEF q
<1>3. Members(q) = Members(p) \cup {author}
  BY <1>1, <1>2 DEF Members
<1> QED BY <1>1, <1>3 DEF InStanding, q

\* Whatever a proposal asks for, its effect leaves the Pool in standing.
LEMMA EffectInStanding ==
  ASSUME NEW p \in PoolRecord, NEW q \in ProposalState, InStanding(p)
  PROVE  InStanding(Effect(p, q.motion, q.author))
<1> DEFINE motion == q.motion
           effect == Effect(p, motion, q.author)
<1>1. CASE motion.kind = "expel_member"
  <2>1. motion.target \in Soul
    BY <1>1, ProposalFields DEF SoulKind
  <2>2. effect = Expelled(p, motion.target)
    BY <1>1 DEF Effect
  <2> HIDE DEF effect, motion
  <2> QED BY <2>1, <2>2, ExpelledInStanding DEF effect, motion
<1>2. CASE motion.kind = "resolve_fracture"
  <2>1. effect = [p EXCEPT !.frozen = @ \ {motion.target}]
    BY <1>2 DEF Effect
  <2> HIDE DEF effect, motion
  <2> QED BY <2>1 DEF InStanding, Members, PoolRecord, effect, motion
<1>3. CASE motion.kind \in {"join_superstructure", "leave_superstructure", "link_subcell"}
  <2>1. effect \in
          {JoinedSuperstructure(p, q.author, motion.target, motion.conform, motion.parameters),
           LeftSuperstructure(p, motion.target),
           LinkedSubcell(p, motion.target, motion.population, motion.bridge)}
    BY <1>3 DEF Effect
  <2> HIDE DEF effect, motion
  <2>2. Keeps(p, effect)
    BY <2>1, FederatedKeeps, UnmovedKeeps
  <2> QED BY <2>2, KeepsStanding DEF effect, motion
<1>4. CASE motion.kind \in {"admit_member", "bridge_transfer", "none"}
  <2>1. effect = p \/ \E x : effect = [p EXCEPT !.pendingInvites = x]
    BY <1>4 DEF Effect, PoolRecord
  <2> HIDE DEF effect, motion
  <2>2. Unmoved(p, effect)
    BY <2>1 DEF Unmoved, PoolRecord
  <2> QED BY <2>2, UnmovedKeeps, KeepsStanding DEF effect, motion
<1>5. motion.kind \in ProposalKind \cup {"none"}
  BY ProposalFields DEF Motion
<1> HIDE DEF effect
<1> QED BY <1>1, <1>2, <1>3, <1>4, <1>5 DEF ProposalKind, effect

\* Setting one proposal.
LEMMA SetProposalKeeps ==
  ASSUME NEW p \in PoolRecord, NEW id, NEW proposal
  PROVE  Keeps(p, [p EXCEPT !.proposals[id] = proposal])
<1>1. Unmoved(p, [p EXCEPT !.proposals[id] = proposal])
  BY DEF Unmoved, PoolRecord
<1> QED BY <1>1, UnmovedKeeps

\* Executing a proposal leaves the Pool in standing.
LEMMA TryExecuteInStanding ==
  ASSUME NEW p \in PoolRecord, NEW id \in ProposalId, InStanding(p)
  PROVE  InStanding(TryExecuteProposal(p, id))
<1> DEFINE effect == Effect(p, p.proposals[id].motion, p.proposals[id].author)
           decided == [effect.proposals[id] EXCEPT !.executed = TRUE, !.closed = TRUE]
<1>1. p.proposals[id] \in ProposalState
  BY MarkedProposalType
<1>2. effect \in PoolRecord /\ InStanding(effect)
  BY <1>1, EffectType, EffectInStanding
<1>3. TryExecuteProposal(p, id) = IF ~ Approved(p, p.proposals[id]) THEN p
        ELSE [effect EXCEPT !.proposals[id] = decided]
  BY DEF TryExecuteProposal
<1> HIDE DEF effect, decided
<1>4. InStanding([effect EXCEPT !.proposals[id] = decided])
  BY <1>2, SetProposalKeeps, KeepsStanding
<1> QED BY <1>3, <1>4

-----------------------------------------------------------------------------
(* Every event leaves the Pool in standing.                                *)

\* A step that commits a Pool in standing leaves one.
LEMMA CommitInStanding ==
  ASSUME NEW p \in PoolRecord, NEW author \in Soul, NEW ts \in Timestamps,
         InStanding(p), pool' = Committed(p, author, ts)
  PROVE  InStanding(pool')
<1>1. Keeps(p, Committed(p, author, ts))
  BY CommittedKeeps, InputAssumption
<1> QED BY <1>1, KeepsStanding

\* A handler that keeps the standing of the Pool leaves it in standing.
LEMMA CommitKept ==
  ASSUME NEW p \in PoolRecord, NEW author \in Soul, NEW ts \in Timestamps,
         InStanding(pool), Keeps(pool, p), Commit(p, author, ts)
  PROVE  InStanding(pool')
<1>1. InStanding(p)
  BY KeepsStanding
<1> QED BY <1>1, CommitInStanding DEF Commit

\* genesis, invite, cancel_invite and accept_invite.
LEMMA AdmissionInStanding ==
  ASSUME TypeOK, Sound(pool), InStanding(pool), NEW author \in Soul, NEW ts \in Timestamps,
         AdmissionStep(author, ts)
  PROVE  InStanding(pool')
<1>1. pool \in PoolRecord /\ ts \in Nat \ {0}
  BY InputAssumption DEF TypeOK
<1>2. ASSUME NEW points \in InitialPoints, NEW row \in Rows, Genesis(author, ts, points, row)
      PROVE  InStanding(pool')
  <2> DEFINE founded == Founded(pool, author, ts, row)
             funded == MintPoints(founded, author, points)
  <2>1. founded \in PoolRecord /\ points \in Nat
    BY <1>1, FoundedType, InputAssumption
  <2>2. Members(pool) = {}
    BY <1>1, <1>2, SubsetsOfKeys DEF Genesis, Sound, LiensInOrder
  <2>3. InStanding(founded) /\ author \in Members(founded)
    BY <1>1, <2>2, FoundedInStanding
  <2>4. Commit(funded, author, ts)
    BY <1>2 DEF Genesis
  <2> HIDE DEF founded
  <2>5. Keeps(founded, funded) /\ funded \in PoolRecord
    BY <2>1, <2>3, LedgerKeeps, MintPointsType
  <2>6. InStanding(funded)
    BY <2>3, <2>5, KeepsStanding
  <2> QED BY <2>4, <2>5, <2>6, CommitInStanding DEF Commit
<1>3. ASSUME NEW invitee \in Invitees, NEW row \in Rows, Invite(author, ts, invitee, row)
      PROVE  InStanding(pool')
  <2> DEFINE p == Withdrawn(pool, invitee)
             q == Invited(p, author, invitee, row)
  <2>1. invitee \in Soul /\ row \in Row
    BY InputAssumption
  <2>2. p \in PoolRecord
    BY <1>1, <2>1, CancelledType
  <2>3. Keeps(pool, p)
    <3>1. Unmoved(pool, Cancelled(pool, invitee)) /\ Unmoved(pool, pool)
      BY <1>1, InvitationKeeps DEF Unmoved
    <3>2. Unmoved(pool, p)
      BY <3>1 DEF Withdrawn
    <3> QED BY <3>2, UnmovedKeeps
  <2>4. /\ CanPlaceVouchLien(p, author, RequiredVouchLien(p, author))
        /\ Commit(q, author, ts)
    BY <1>3 DEF Invite, TakesInvite
  <2> HIDE DEF p
  <2>5. q \in PoolRecord
    BY <2>1, <2>2, <2>4, InvitedType
  <2>6. Keeps(p, q)
    BY <2>2, InvitationKeeps, UnmovedKeeps
  <2> HIDE DEF q
  <2>7. Keeps(pool, q)
    BY <2>3, <2>6, KeepsIsTransitive
  <2> QED BY <2>4, <2>5, <2>7, CommitKept
<1>4. ASSUME NEW invitee \in Invitees, CancelInvite(author, ts, invitee)
      PROVE  InStanding(pool')
  <2> DEFINE p == Cancelled(pool, invitee)
  <2>1. invitee \in Soul
    BY InputAssumption
  <2>2. p \in PoolRecord
    BY <1>1, <2>1, CancelledType
  <2>3. Unmoved(pool, p)
    BY <1>1, InvitationKeeps
  <2>4. Commit(p, author, ts)
    BY <1>4 DEF CancelInvite, TakesCancelInvite
  <2> HIDE DEF p
  <2> QED BY <2>2, <2>3, <2>4, UnmovedKeeps, CommitKept
<1>5. ASSUME NEW inviter \in Soul, AcceptInvite(author, ts, inviter)
      PROVE  InStanding(pool')
  <2> DEFINE joined == Joined(pool, author, inviter)
             elected == Reelected(joined)
  <2>1. joined \in PoolRecord
    BY <1>1, <1>5, JoinedType DEF AcceptInvite, TakesAcceptInvite, IsMember
  <2>2. InStanding(joined)
    BY <1>1, JoinedInStanding
  <2>3. Commit(elected, author, ts)
    BY <1>5 DEF AcceptInvite, TakesAcceptInvite
  <2> HIDE DEF joined
  <2>4. elected \in PoolRecord
    BY <2>1, ReelectedType
  <2>5. InStanding(elected)
    <3>1. Keeps(joined, elected)
      BY <2>1, LedgerKeeps, SizeAssumption, <1>1
    <3> QED BY <2>2, <3>1, KeepsStanding
  <2> QED BY <2>3, <2>4, <2>5, CommitInStanding DEF Commit
<1> QED BY <1>2, <1>3, <1>4, <1>5 DEF AdmissionStep

\* transaction, epoch_close and the slider and vouch events.
LEMMA LedgerInStanding ==
  ASSUME TypeOK, InStanding(pool), NEW author \in Soul, NEW ts \in Timestamps,
         LedgerStep(author, ts) \/ SliderStep(author, ts)
  PROVE  InStanding(pool')
<1>1. pool \in PoolRecord
  BY DEF TypeOK
<1>2. ASSUME NEW to \in Soul, NEW amount \in Amounts, Transaction(author, ts, to, amount)
      PROVE  InStanding(pool')
  <2>1. TransferPoints(pool, author, to, amount) \in PoolRecord
    BY <1>1, TransferPointsType, InputAssumption
  <2>2. Keeps(pool, TransferPoints(pool, author, to, amount))
    BY <1>1, LedgerKeeps, InputAssumption
  <2> QED BY <1>2, <2>1, <2>2, CommitKept DEF Transaction, TakesTransaction
<1>3. ASSUME NEW n \in EpochNumbers, EpochClose(author, ts, n) PROVE InStanding(pool')
  BY <1>1, <1>3, CommitInStanding DEF EpochClose, Commit
<1>4. ASSUME NEW p \in PoolRecord, Unmoved(pool, p), Commit(p, author, ts)
      PROVE  InStanding(pool')
  BY <1>4, UnmovedKeeps, CommitKept
<1>5. ASSUME NEW setting \in Settings,
             GovernanceSliderUpdate(author, ts, setting[1], setting[2])
      PROVE  InStanding(pool')
  <2>1. setting[1] \in GovernanceParameter /\ setting[2] \in Int
    BY InputAssumption
  <2>2. GovernanceMoved(pool, author, setting[1], setting[2]) \in PoolRecord
    BY <1>1, <2>1, GovernanceMovedType
  <2> QED BY <1>1, <1>4, <1>5, <2>2, SlidersKeep DEF GovernanceSliderUpdate, TakesSliderUpdate
<1>6. ASSUME NEW target \in Soul, NEW value \in ShareWeights,
             RedistributionSliderUpdate(author, ts, target, value)
      PROVE  InStanding(pool')
  <2>1. ShareMoved(pool, author, target, value) \in PoolRecord
    BY <1>1, ShareMovedType, InputAssumption
  <2> QED BY <1>1, <1>4, <1>6, <2>1, SlidersKeep DEF RedistributionSliderUpdate, TakesSliderUpdate
<1>7. ASSUME NEW target \in Soul, NEW weight \in VouchWeights,
             VouchUpdate(author, ts, target, weight)
      PROVE  InStanding(pool')
  <2> DEFINE vouched == VouchMoved(pool, author, target, weight)
             elected == Reelected(vouched)
  <2>1. vouched \in PoolRecord /\ Keeps(pool, vouched)
    BY <1>1, VouchMovedType, SlidersKeep, UnmovedKeeps, InputAssumption
  <2>2. Commit(elected, author, ts)
    BY <1>7 DEF VouchUpdate, TakesVouchUpdate
  <2> HIDE DEF vouched
  <2>3. elected \in PoolRecord
    BY <2>1, ReelectedType
  <2>4. Keeps(vouched, elected)
    BY <2>1, LedgerKeeps
  <2> HIDE DEF elected
  <2>5. Keeps(pool, elected)
    BY <2>1, <2>4, KeepsIsTransitive
  <2> QED BY <2>2, <2>3, <2>5, CommitKept
<1> QED BY <1>2, <1>3, <1>5, <1>6, <1>7 DEF LedgerStep, SliderStep

\* The proposal events.
LEMMA ProposalInStanding ==
  ASSUME TypeOK, InStanding(pool), NEW author \in Soul, NEW ts \in Timestamps,
         ProposalStep(author, ts)
  PROVE  InStanding(pool')
<1>1. pool \in PoolRecord
  BY DEF TypeOK
<1>2. ASSUME NEW id \in CreateIds, NEW motion \in Motions,
             ProposalCreate(author, ts, id, motion)
      PROVE  InStanding(pool')
  <2> DEFINE q == NewProposal(motion, author)
  <2>1. motion \in Motion /\ author \in Key /\ id \in ProposalId
    BY InputAssumption DEF Key, Soul
  <2>2. q \in ProposalState
    BY <2>1 DEF NewProposal, ProposalState, NoVote, ProposalVoteRecord
  <2>3. Commit([pool EXCEPT !.proposals[id] = q], author, ts)
    BY <1>2 DEF ProposalCreate, TakesProposalCreate
  <2> HIDE DEF q
  <2>4. [pool EXCEPT !.proposals[id] = q] \in PoolRecord
    BY <1>1, <2>2, SetProposalType
  <2> QED BY <1>1, <2>3, <2>4, SetProposalKeeps, CommitKept
<1>3. ASSUME NEW id \in ProposalId, NEW approve \in Ballots,
             ProposalVote(author, ts, id, approve)
      PROVE  InStanding(pool')
  <2> DEFINE voted == Voted(pool.proposals[id], author, approve, pool.balances[author])
             counted == [pool EXCEPT !.proposals[id] = voted]
  <2>1. pool.proposals[id] \in ProposalState
    BY <1>1, MarkedProposalType
  <2>2. voted \in ProposalState
    BY <1>1, <2>1, VotedType, PoolFields, InputAssumption
  <2>3. Commit(TryExecuteProposal(counted, id), author, ts)
    BY <1>3 DEF ProposalVote, TakesProposalVote
  <2> HIDE DEF voted
  <2>4. counted \in PoolRecord
    BY <1>1, <2>2, SetProposalType
  <2>5. InStanding(counted)
    BY <1>1, SetProposalKeeps, KeepsStanding
  <2> HIDE DEF counted
  <2>6. TryExecuteProposal(counted, id) \in PoolRecord /\ InStanding(TryExecuteProposal(counted, id))
    BY <2>4, <2>5, TryExecuteProposalType, TryExecuteInStanding
  <2> QED BY <2>3, <2>6, CommitInStanding DEF Commit
<1>4. ASSUME NEW id \in CloseIds, ProposalClose(author, ts, id) PROVE InStanding(pool')
  <2> DEFINE q == [pool EXCEPT !.proposals[id].closed = TRUE]
  <2>1. q \in PoolRecord
    BY <1>1, MarkedProposalType, InputAssumption
  <2>2. Unmoved(pool, q)
    BY <1>1 DEF Unmoved, PoolRecord
  <2>3. Commit(q, author, ts)
    BY <1>4 DEF ProposalClose, TakesProposalClose
  <2> HIDE DEF q
  <2> QED BY <2>1, <2>2, <2>3, UnmovedKeeps, CommitKept
<1> QED BY <1>2, <1>3, <1>4 DEF ProposalStep

\* The governance relay, the bridge events and the mailbox events.
LEMMA FederationInStanding ==
  ASSUME TypeOK, InStanding(pool), NEW author \in Soul, NEW ts \in Timestamps,
         FederationStep(author, ts) \/ RelayStep(author, ts)
  PROVE  InStanding(pool')
<1>1. pool \in PoolRecord
  BY DEF TypeOK
<1>2. ASSUME NEW cell \in Cell, NEW row \in Rows, NEW population \in Populations,
             RelayChildGovernance(author, ts, cell, row, population)
      PROVE  InStanding(pool')
  <2>1. ChildHeard(pool, cell, row, population) \in PoolRecord
    BY <1>1, ChildHeardType, InputAssumption
  <2>2. Keeps(pool, ChildHeard(pool, cell, row, population))
    BY <1>1, SlidersKeep, UnmovedKeeps
  <2> QED BY <1>2, <2>1, <2>2, CommitKept DEF RelayChildGovernance
<1>3. ASSUME RelayOwnGovernance(author, ts) PROVE InStanding(pool')
  BY <1>1, <1>3, CommitInStanding DEF RelayOwnGovernance, Commit
<1>4. ASSUME NEW d \in Deliveries, NEW p \in PoolRecord, Keeps(pool, p),
             pool' = Committed(MarkBridgeProposalCompleted(p, d.id), author, ts)
      PROVE  InStanding(pool')
  <2> DEFINE delivered == MarkBridgeProposalCompleted(p, d.id)
  <2>1. d.id \in ProposalId
    BY InputAssumption
  <2>2. delivered \in PoolRecord
    BY <2>1, MarkedProposalType DEF MarkBridgeProposalCompleted
  <2>3. Unmoved(p, delivered)
    BY DEF MarkBridgeProposalCompleted, Unmoved, PoolRecord
  <2> HIDE DEF delivered
  <2>4. Keeps(p, delivered)
    BY <2>3, UnmovedKeeps
  <2>5. InStanding(delivered)
    BY <1>4, <2>4, KeepsStanding
  <2> QED BY <1>4, <2>2, <2>5, CommitInStanding DEF delivered
<1>5. ASSUME NEW d \in Deliveries
      PROVE  d.cell \in Cell /\ d.id \in ProposalId /\ d.to \in Soul /\ d.amount \in Nat
  BY InputAssumption
<1>6. ASSUME NEW d \in Deliveries, BridgeInbound(author, ts, d) PROVE InStanding(pool')
  <2>1. MintPoints(pool, d.to, d.amount) \in PoolRecord
    BY <1>1, <1>5, MintPointsType
  <2>2. Keeps(pool, MintPoints(pool, d.to, d.amount))
    BY <1>1, <1>5, <1>6, LedgerKeeps DEF BridgeInbound, IsMember
  <2> QED BY <1>4, <1>6, <2>1, <2>2 DEF BridgeInbound, BridgeAdmissible, Commit
<1>7. ASSUME NEW d \in Deliveries, BridgeUnlinked(author, ts, d) PROVE InStanding(pool')
  <2>1. TransferPoints(pool, author, d.to, d.amount) \in PoolRecord
    BY <1>1, <1>5, TransferPointsType
  <2>2. Keeps(pool, TransferPoints(pool, author, d.to, d.amount))
    BY <1>1, <1>5, LedgerKeeps
  <2> QED BY <1>4, <1>7, <2>1, <2>2 DEF BridgeUnlinked, BridgeAdmissible, Commit
<1>8. ASSUME NEW d \in Deliveries, BridgeOutbound(author, ts, d) PROVE InStanding(pool')
  <2>1. Paid(pool, d.cell, d.amount) \in PoolRecord
    BY <1>1, <1>5, PaidType
  <2>2. Keeps(pool, Paid(pool, d.cell, d.amount))
    BY <1>1, <1>5, LedgerKeeps, UnmovedKeeps
  <2> QED BY <1>4, <1>8, <2>1, <2>2 DEF BridgeOutbound, BridgeAdmissible
<1>9. ASSUME NEW authors \in [RelayUrl -> Key],
             Commit([pool EXCEPT !.communityRelayAuthors = authors], author, ts)
      PROVE  InStanding(pool')
  <2>1. [pool EXCEPT !.communityRelayAuthors = authors] \in PoolRecord
    BY <1>1 DEF PoolRecord
  <2>2. Unmoved(pool, [pool EXCEPT !.communityRelayAuthors = authors])
    BY <1>1 DEF Unmoved, PoolRecord
  <2> QED BY <1>9, <2>1, <2>2, UnmovedKeeps, CommitKept
<1>10. author \in Key /\ None \in Key
  BY SizeAssumption DEF Key, Soul, None
<1>11. ASSUME NEW url \in RelayUrl, RelayContribute(author, ts, url) PROVE InStanding(pool')
  <2> DEFINE kept == KeptRelays(pool, author)
             authors == IF kept[url] = None THEN [kept EXCEPT ![url] = author] ELSE kept
  <2>1. kept \in [RelayUrl -> Key]
    BY <1>1, <1>10 DEF KeptRelays, PoolRecord
  <2> HIDE DEF kept
  <2>2. authors \in [RelayUrl -> Key]
    BY <1>10, <2>1
  <2>3. Commit([pool EXCEPT !.communityRelayAuthors = authors], author, ts)
    BY <1>11 DEF RelayContribute, kept
  <2> HIDE DEF authors
  <2> QED BY <1>9, <2>2, <2>3
<1>12. ASSUME NEW url \in RelayUrl, RelayRevoke(author, ts, url) PROVE InStanding(pool')
  <2> DEFINE authors == [pool.communityRelayAuthors EXCEPT ![url] = None]
  <2>1. authors \in [RelayUrl -> Key]
    BY <1>1, <1>10 DEF PoolRecord
  <2>2. Commit([pool EXCEPT !.communityRelayAuthors = authors], author, ts)
    BY <1>12 DEF RelayRevoke
  <2> HIDE DEF authors
  <2> QED BY <1>9, <2>1, <2>2
<1> QED BY <1>2, <1>3, <1>6, <1>7, <1>8, <1>11, <1>12 DEF FederationStep, RelayStep

-----------------------------------------------------------------------------
(* The theorem.                                                            *)

\* The empty Pool has no member, and nobody has anything in it.
LEMMA InitInStanding == Init => InStanding(pool)
<1>1. /\ CreateInitialState.members = [s \in Soul |-> 0]
      /\ CreateInitialState.balances = [s \in Soul |-> 0]
      /\ CreateInitialState.frozen = {} /\ CreateInitialState.head = None
  BY DEF CreateInitialState
<1> QED BY <1>1 DEF Init, InStanding

\* Every event, and a stutter, leaves the Pool in standing.
LEMMA NextInStanding ==
  TypeOK /\ SoundPool /\ StandingIsMembership /\ [Next]_vars => StandingIsMembership'
<1> SUFFICES ASSUME TypeOK, Sound(pool), InStanding(pool), [Next]_vars
             PROVE  InStanding(pool')
  BY DEF SoundPool, StandingIsMembership, InStanding
<1>1. CASE UNCHANGED vars
  BY <1>1 DEF vars
<1>2. CASE Next
  BY <1>2, AdmissionInStanding, LedgerInStanding, ProposalInStanding, FederationInStanding
     DEF Next
<1> QED BY <1>1, <1>2

\* Roles and money belong to members, whatever joins, freezes, elections and
\* expulsions a log holds, and in whatever order.
THEOREM StandingHolds == Spec => []StandingIsMembership
<1>1. Init => StandingIsMembership
  BY InitInStanding DEF InStanding, StandingIsMembership
<1>2. TypeOK /\ SoundPool /\ StandingIsMembership /\ [Next]_vars => StandingIsMembership'
  BY NextInStanding
<1>3. Spec => []TypeOK /\ []SoundPool
  BY TypeCorrect, PoolStaysSound
<1> QED BY <1>1, <1>2, <1>3, PTL DEF Spec

-----------------------------------------------------------------------------
(* What a step may never do.                                               *)

\* Authority, points, approvals and liens that a step leaves alone.
SameMandates(p, q) ==
  /\ q.head = p.head /\ q.totalSupply = p.totalSupply
  /\ q.pendingInvites = p.pendingInvites /\ q.vouchLiens = p.vouchLiens

\* What circulation leaves alone.
SameRoles(p, q) ==
  /\ SameMandates(p, q)
  /\ q.members = p.members /\ q.frozen = p.frozen
  /\ q.vouchSliders = p.vouchSliders /\ q.proposals = p.proposals

\* What two steps of the circulation leave alone, both leave alone.
LEMMA SameRolesIsTransitive ==
  ASSUME NEW p, NEW q, NEW r, SameRoles(p, q), SameRoles(q, r)
  PROVE  SameRoles(p, r)
BY DEF SameRoles, SameMandates

\* Fields of the Pool that are no role and no mandate.
LEMMA MoneyFields ==
  ASSUME NEW p \in PoolRecord
  PROVE  /\ SameRoles(p, p)
         /\ \A x : SameRoles(p, [p EXCEPT !.balances = x])
         /\ \A x : SameRoles(p, [p EXCEPT !.commons = x])
         /\ \A x : SameRoles(p, [p EXCEPT !.lastAccrualTimestamp = x])
         /\ \A x : SameRoles(p, [p EXCEPT !.lastRedistributionTimestamp = x])
         /\ \A x, y, z : SameRoles(p, [p EXCEPT !.balances = x, !.commons = y,
                                                !.circulationCarry = z])
         /\ \A x, y : SameRoles(p, [[p EXCEPT !.balances = x] EXCEPT !.commons = y])
         /\ \A x, y : SameRoles(p, [[p EXCEPT !.childCellEscrow = x] EXCEPT !.commons = y])
BY DEF SameRoles, SameMandates, PoolRecord

\* A flush touches no role and no mandate.
LEMMA RedistributeSameRoles ==
  ASSUME NEW p \in PoolRecord, NEW ts
  PROVE  SameRoles(p, RunRedistributionCycle(p, ts))
<1> DEFINE targets == ResolveRedistributionTargets(p, ts)
           routed == AllocateCommonsToChildCells(p, p.commons)
           paid == DistributeRedistribution(p, p.commons, targets)
<1>1. SameRoles(p, [routed EXCEPT !.commons = 0])
  BY MoneyFields DEF AllocateCommonsToChildCells
<1>2. SameRoles(p, [paid EXCEPT !.commons = 0])
  <2>1. paid = p \/ \E x : paid = [p EXCEPT !.balances = x]
    BY DEF DistributeRedistribution
  <2> HIDE DEF paid
  <2> QED BY <2>1, MoneyFields
<1>3. RunRedistributionCycle(p, ts) \in
        {p, [p EXCEPT !.commons = 0], [routed EXCEPT !.commons = 0], [paid EXCEPT !.commons = 0]}
  BY DEF RunRedistributionCycle
<1> HIDE DEF routed, paid
<1> QED BY <1>1, <1>2, <1>3, MoneyFields

\* Everything reduceOneSync does after a handler touches none either.
LEMMA CommittedSameRoles ==
  ASSUME NEW p \in PoolRecord, NEW author \in Soul, NEW ts \in Nat
  PROVE  SameRoles(p, Committed(p, author, ts))
<1> DEFINE counted == [p EXCEPT !.eventCount = @ + 1,
                                !.maxEventTimestamp = Greatest(@, ts),
                                !.lastActiveTimestamp[author] = ts]
           rate == ResolveGovernanceParameter(counted, "decay_rate")
           elapsed == Least(ts - counted.lastAccrualTimestamp, TIMESTAMP_FORWARD_SKEW)
           charged == AccrueCirculation(counted, rate, elapsed)
           accrued == MaybeAccrueCirculation(counted, ts)
           flushed == RunRedistributionCycle(accrued, ts)
           settled == MaybeRedistribute(accrued, ts)
<1>1. counted \in PoolRecord
  <2>1. p.eventCount + 1 \in Nat /\ Greatest(p.maxEventTimestamp, ts) \in Nat
    BY ValuesOfPoints DEF Greatest
  <2> QED BY <2>1 DEF PoolRecord
<1>2. SameRoles(p, counted)
  BY DEF SameRoles, SameMandates, PoolRecord
<1>3. Committed(p, author, ts) = settled
  BY DEF Committed
<1> HIDE DEF counted
<1>4. accrued \in PoolRecord
  BY <1>1, MaybeAccrueType
<1>5. SameRoles(counted, accrued)
  <2>1. CASE counted.lastAccrualTimestamp <= 0 \/ elapsed <= 0
    <3>1. accrued = counted
      BY <2>1 DEF MaybeAccrueCirculation
    <3> HIDE DEF accrued
    <3> QED BY <1>1, <3>1, MoneyFields
  <2>2. CASE ~ (counted.lastAccrualTimestamp <= 0 \/ elapsed <= 0)
    <3>1. accrued = [charged EXCEPT !.lastAccrualTimestamp = ts]
      BY <2>2 DEF MaybeAccrueCirculation
    <3>2. elapsed \in Nat
      BY <1>1, <2>2, ValuesOfPoints, SizeAssumption DEF Least
    <3>3. rate \in Ratio
      BY <1>1, ParameterRatio DEF GovernanceParameter
    <3>4. SameRoles(counted, charged)
      BY <1>1, MoneyFields DEF AccrueCirculation
    <3> HIDE DEF elapsed, rate
    <3>5. charged \in PoolRecord
      BY <1>1, <3>2, <3>3, AccrueCirculationType
    <3> HIDE DEF charged, accrued
    <3>6. SameRoles(charged, accrued)
      BY <3>1, <3>5, MoneyFields
    <3> QED BY <3>4, <3>6, SameRolesIsTransitive
  <2> QED BY <2>1, <2>2
<1> HIDE DEF accrued
<1>6. flushed \in PoolRecord /\ SameRoles(accrued, flushed)
  BY <1>4, RunRedistributionCycleType, RedistributeSameRoles
<1>7. SameRoles(accrued, settled)
  <2>1. settled = accrued \/ \E x : settled = [flushed EXCEPT !.lastRedistributionTimestamp = x]
    BY DEF MaybeRedistribute
  <2> HIDE DEF settled, flushed
  <2>2. SameRoles(accrued, accrued)
    BY <1>4, MoneyFields
  <2>3. \A x : SameRoles(flushed, [flushed EXCEPT !.lastRedistributionTimestamp = x])
    BY <1>6, MoneyFields
  <2> QED BY <1>6, <2>1, <2>2, <2>3, SameRolesIsTransitive
<1> HIDE DEF settled
<1>8. SameRoles(p, accrued)
  BY <1>2, <1>5, SameRolesIsTransitive
<1> QED BY <1>3, <1>7, <1>8, SameRolesIsTransitive

-----------------------------------------------------------------------------
(* The four things a step keeps, from the Pool p to the Pool q.            *)

HeadChosen(p, q) ==
  p.initialized /\ q.head \notin {p.head, None} =>
    \E v \in Unfrozen(q) \ {q.head} : q.vouchSliders[v][q.head] # Unset

SupplyBacked(p, q) ==
  p.initialized /\ q.totalSupply # p.totalSupply =>
    \E id \in ProposalId :
      /\ ~ p.proposals[id].bridgeCompleted /\ q.proposals[id].bridgeCompleted
      /\ p.proposals[id].executed
      /\ p.proposals[id].motion.target \in Linked(p)
      /\ q.totalSupply - p.totalSupply = p.proposals[id].motion.amount

ApprovalKept(p, q) ==
  \A s \in Soul :
    q.pendingInvites[s].admissionApproved =>
      /\ q.pendingInvites[s] = [p.pendingInvites[s] EXCEPT !.admissionApproved = TRUE]
      /\ q.vouchLiens[s] = p.vouchLiens[s]

PledgeKept(p, q) ==
  \A s \in Soul :
    q.vouchLiens[s] \notin {NoLien, p.vouchLiens[s]} =>
      LET inviter == q.vouchLiens[s].inviter
      IN  PledgedLienTotal(q, inviter) <= p.balances[inviter]

StepKept(p, q) ==
  HeadChosen(p, q) /\ SupplyBacked(p, q) /\ ApprovalKept(p, q) /\ PledgeKept(p, q)

\* What a handler kept, the circulation after it does not undo.
LEMMA CommitKeeps ==
  ASSUME NEW p \in PoolRecord, NEW q \in PoolRecord, NEW r, StepKept(p, q), SameRoles(q, r)
  PROVE  StepKept(p, r)
<1> USE DEF StepKept, SameRoles, SameMandates
<1>1. HeadChosen(p, r)
  BY DEF HeadChosen, Unfrozen, Members
<1>2. SupplyBacked(p, r)
  BY DEF SupplyBacked
<1>3. ApprovalKept(p, r)
  BY DEF ApprovalKept
<1>4. PledgeKept(p, r)
  BY DEF PledgeKept, PledgedLienTotal
<1> QED BY <1>1, <1>2, <1>3, <1>4

\* A record that is approved is what it is with its approval set.
LEMMA ApprovedInvite ==
  ASSUME NEW invite \in PendingInvite, invite.admissionApproved
  PROVE  invite = [invite EXCEPT !.admissionApproved = TRUE]
BY DEF PendingInvite

\* The parts that depend on one field each.
LEMMA SameMandatesKeep ==
  ASSUME NEW p \in PoolRecord, NEW q
  PROVE  /\ q.head = p.head => HeadChosen(p, q)
         /\ q.totalSupply = p.totalSupply => SupplyBacked(p, q)
         /\ q.pendingInvites = p.pendingInvites /\ q.vouchLiens = p.vouchLiens
              => ApprovalKept(p, q)
         /\ (\A s \in Soul : q.vouchLiens[s] \in {NoLien, p.vouchLiens[s]})
              => PledgeKept(p, q)
         /\ SameMandates(p, q) => StepKept(p, q)
<1>1. q.head = p.head => HeadChosen(p, q)
  BY DEF HeadChosen
<1>2. q.totalSupply = p.totalSupply => SupplyBacked(p, q)
  BY DEF SupplyBacked
<1>3. ASSUME q.pendingInvites = p.pendingInvites, q.vouchLiens = p.vouchLiens
      PROVE  ApprovalKept(p, q)
  <2>1. p.pendingInvites \in [Soul -> PendingInvite]
    BY DEF PoolRecord
  <2> QED BY <1>3, <2>1, ApprovedInvite DEF ApprovalKept
<1>4. (\A s \in Soul : q.vouchLiens[s] \in {NoLien, p.vouchLiens[s]}) => PledgeKept(p, q)
  BY DEF PledgeKept
<1>5. SameMandates(p, q) => StepKept(p, q)
  BY <1>1, <1>2, <1>3, <1>4 DEF SameMandates, StepKept
<1> QED BY <1>1, <1>2, <1>3, <1>4, <1>5

\* resolveVouchHead names a new Head only on somebody else's slider.
LEMMA ElectedByOthers ==
  ASSUME NEW p \in PoolRecord, Reelected(p).head \notin {p.head, None}
  PROVE  \E v \in Unfrozen(Reelected(p)) \ {Reelected(p).head} :
           Reelected(p).vouchSliders[v][Reelected(p).head] # Unset
<1> DEFINE q == Reelected(p)
           t == TopCandidate(p)
<1>1. /\ q.head = ResolveVouchHead(p) /\ q.members = p.members
      /\ q.frozen = p.frozen /\ q.vouchSliders = p.vouchSliders
  BY DEF Reelected, PoolRecord
<1>2. q.head = t /\ Candidates(p) # {}
  BY <1>1 DEF ResolveVouchHead
<1>3. t \in Candidates(p)
  BY <1>2, TopCandidateIsCandidate
<1> HIDE DEF q, t
<1>4. \E v \in Unfrozen(p) \ {t} : p.vouchSliders[v][t] # Unset
  BY <1>3 DEF Candidates
<1>5. Unfrozen(q) = Unfrozen(p)
  BY <1>1 DEF Unfrozen, Members
<1> QED BY <1>1, <1>2, <1>4, <1>5 DEF q

-----------------------------------------------------------------------------
(* The handlers, one group after the other.                                *)

\* What most handlers keep, which is more than a step must.
Moderate(p, q) ==
  /\ HeadChosen(p, q) /\ ApprovalKept(p, q)
  /\ q.totalSupply = p.totalSupply
  /\ \A s \in Soul : q.vouchLiens[s] \in {NoLien, p.vouchLiens[s]}

\* A moderate handler keeps what a step must.
LEMMA ModerateIsKept ==
  ASSUME NEW p \in PoolRecord, NEW q, Moderate(p, q)
  PROVE  StepKept(p, q)
BY SameMandatesKeep DEF Moderate, StepKept

\* An expulsion names a Head whom others vouch for, and frees one lien.
LEMMA ExpelledModerate ==
  ASSUME NEW p \in PoolRecord, NEW target \in Soul, Sound(p)
  PROVE  Moderate(p, Expelled(p, target))
<1>1. CASE target \notin Members(p)
  <2>1. Expelled(p, target) = p
    BY <1>1 DEF Expelled
  <2> QED BY <2>1, SameMandatesKeep DEF Moderate
<1>2. CASE target \in Members(p)
  <2> DEFINE severed == Severed(p, target)
             backed == ForgetBacking(severed, target)
             muted == ForgetSliders(backed, target)
             forgotten == ForgetStanding(muted, target)
             pot == p.balances[target] + Forfeited(p, target)
             settled == Settled(forgotten, pot)
             q == Expelled(p, target)
  <2>1. q = IF settled.head = target THEN Reelected(settled) ELSE settled
    BY <1>2 DEF Expelled
  <2>2. severed \in PoolRecord /\ pot \in Int
    BY SeveredType, PoolFields
  <2>3. severed.head = p.head /\ severed.totalSupply = p.totalSupply
    BY DEF Severed, PoolRecord
  <2> HIDE DEF severed, pot
  <2>4. backed \in PoolRecord
    BY <2>2, ForgottenType
  <2>5. backed.head = severed.head /\ backed.totalSupply = severed.totalSupply
    BY <2>2 DEF ForgetBacking, PoolRecord
  <2> HIDE DEF backed
  <2>6. muted \in PoolRecord
    BY <2>4, ForgottenType
  <2>7. muted.head = backed.head /\ muted.totalSupply = backed.totalSupply
    BY <2>4 DEF ForgetSliders, PoolRecord
  <2> HIDE DEF muted
  <2>8. forgotten \in PoolRecord
    BY <2>6, ForgottenType
  <2>9. forgotten.head = muted.head /\ forgotten.totalSupply = muted.totalSupply
    BY <2>6 DEF ForgetStanding, PoolRecord
  <2> HIDE DEF forgotten
  <2>10. settled \in PoolRecord
    BY <2>2, <2>8, SettledType
  <2>11. settled.head = forgotten.head /\ settled.totalSupply = forgotten.totalSupply
    BY <2>8 DEF Settled, DistributeRedistribution, PoolRecord
  <2> HIDE DEF settled
  <2>12. settled.head = p.head /\ settled.totalSupply = p.totalSupply
    BY <2>3, <2>5, <2>7, <2>9, <2>11
  <2>13. Reelected(settled).totalSupply = settled.totalSupply
    BY <2>10 DEF Reelected, PoolRecord
  <2>14. HeadChosen(p, q)
    <3>1. CASE settled.head = target
      BY <2>1, <2>10, <2>12, <3>1, ElectedByOthers DEF HeadChosen
    <3>2. CASE settled.head # target
      BY <2>1, <2>12, <3>2 DEF HeadChosen
    <3> QED BY <3>1, <3>2
  <2>15. q.totalSupply = p.totalSupply
    BY <2>1, <2>12, <2>13
  <2>16. /\ q.vouchLiens = [p.vouchLiens EXCEPT ![target] = NoLien]
         /\ q.pendingInvites = p.pendingInvites
    BY <1>2, ExpelledFields
  <2> HIDE DEF q
  <2>17. p.pendingInvites \in [Soul -> PendingInvite] /\ p.vouchLiens \in [Soul -> VouchLien]
    BY DEF PoolRecord
  <2>18. ~ p.pendingInvites[target].admissionApproved
    <3>1. p.pendingInvites[target] = NoInvite
      BY <1>2 DEF Sound, LiensInOrder, LienCovers
    <3> QED BY <3>1 DEF NoInvite
  <2>19. ApprovalKept(p, q)
    BY <2>16, <2>17, <2>18, ApprovedInvite DEF ApprovalKept
  <2> QED BY <2>14, <2>15, <2>16, <2>17, <2>19 DEF Moderate, q
<1> QED BY <1>1, <1>2

\* Whatever a proposal asks for: only an admission approves, and it approves
\* the invitation that stands.
LEMMA EffectModerate ==
  ASSUME NEW p \in PoolRecord, NEW q \in ProposalState, Sound(p)
  PROVE  Moderate(p, Effect(p, q.motion, q.author))
<1> DEFINE motion == q.motion
           effect == Effect(p, motion, q.author)
<1>1. CASE motion.kind = "admit_member"
  <2>1. effect = IF p.pendingInvites[motion.target] = NoInvite THEN p
                 ELSE [p EXCEPT !.pendingInvites[motion.target].admissionApproved = TRUE]
    BY <1>1 DEF Effect
  <2>2. motion.target \in Soul
    BY <1>1, ProposalFields DEF SoulKind
  <2> HIDE DEF effect, motion
  <2>3. /\ effect.head = p.head /\ effect.totalSupply = p.totalSupply
        /\ effect.vouchLiens = p.vouchLiens
        /\ effect.pendingInvites \in
             {p.pendingInvites,
              [p.pendingInvites EXCEPT ![motion.target].admissionApproved = TRUE]}
    BY <2>1 DEF PoolRecord
  <2>4. p.pendingInvites \in [Soul -> PendingInvite]
    BY DEF PoolRecord
  <2> HIDE DEF effect
  <2>5. ApprovalKept(p, effect)
    BY <2>2, <2>3, <2>4, ApprovedInvite, ZenonT(40) DEF ApprovalKept
  <2> QED BY <2>3, <2>5, SameMandatesKeep DEF Moderate, effect, motion
<1>2. CASE motion.kind = "expel_member"
  <2>1. motion.target \in Soul
    BY <1>2, ProposalFields DEF SoulKind
  <2>2. effect = Expelled(p, motion.target)
    BY <1>2 DEF Effect
  <2> HIDE DEF effect, motion
  <2> QED BY <2>1, <2>2, ExpelledModerate DEF effect, motion
<1>3. CASE motion.kind \in {"resolve_fracture", "join_superstructure", "leave_superstructure",
                            "link_subcell"}
  <2>1. effect \in
          {[p EXCEPT !.frozen = @ \ {motion.target}],
           JoinedSuperstructure(p, q.author, motion.target, motion.conform, motion.parameters),
           LeftSuperstructure(p, motion.target),
           LinkedSubcell(p, motion.target, motion.population, motion.bridge)}
    BY <1>3 DEF Effect
  <2> HIDE DEF effect, motion
  <2>2. SameMandates(p, effect)
    BY <2>1, ZenonT(40) DEF SameMandates, JoinedSuperstructure, LeftSuperstructure, LinkedSubcell, PoolRecord
  <2> QED BY <2>2, SameMandatesKeep DEF Moderate, SameMandates, effect, motion
<1>4. CASE motion.kind \in {"bridge_transfer", "none"}
  <2>1. effect = p
    BY <1>4 DEF Effect
  <2> HIDE DEF effect
  <2> QED BY <2>1, SameMandatesKeep DEF Moderate, effect
<1>5. motion.kind \in ProposalKind \cup {"none"}
  BY ProposalFields DEF Motion
<1> HIDE DEF effect
<1> QED BY <1>1, <1>2, <1>3, <1>4, <1>5 DEF ProposalKind, effect

\* A vote, and the execution it may bring about.
LEMMA VoteModerate ==
  ASSUME NEW p \in PoolRecord, NEW id \in ProposalId, NEW voted \in ProposalState,
         Sound([p EXCEPT !.proposals[id] = voted])
  PROVE  Moderate(p, TryExecuteProposal([p EXCEPT !.proposals[id] = voted], id))
<1> DEFINE counted == [p EXCEPT !.proposals[id] = voted]
           effect == Effect(counted, counted.proposals[id].motion, counted.proposals[id].author)
           q == TryExecuteProposal(counted, id)
<1>1. counted \in PoolRecord
  BY SetProposalType
<1>2. /\ counted.head = p.head /\ counted.initialized = p.initialized
      /\ counted.totalSupply = p.totalSupply /\ counted.vouchLiens = p.vouchLiens
      /\ counted.pendingInvites = p.pendingInvites
  BY DEF PoolRecord
<1> HIDE DEF counted
<1>3. counted.proposals[id] \in ProposalState
  BY <1>1, MarkedProposalType
<1>4. effect \in PoolRecord /\ Moderate(counted, effect)
  BY <1>1, <1>3, EffectType, EffectModerate DEF counted
<1>5. q = IF ~ Approved(counted, counted.proposals[id]) THEN counted
          ELSE [effect EXCEPT !.proposals[id].executed = TRUE, !.proposals[id].closed = TRUE]
  BY DEF TryExecuteProposal
<1>6. Moderate(counted, counted)
  BY <1>1, SameMandatesKeep DEF Moderate
<1> HIDE DEF effect, q
<1>7. Moderate(counted, [effect EXCEPT !.proposals[id].executed = TRUE, !.proposals[id].closed = TRUE])
  <2> DEFINE e == [effect EXCEPT !.proposals[id].executed = TRUE, !.proposals[id].closed = TRUE]
  <2>1. /\ e.head = effect.head /\ e.totalSupply = effect.totalSupply
        /\ e.vouchLiens = effect.vouchLiens /\ e.pendingInvites = effect.pendingInvites
        /\ e.members = effect.members /\ e.frozen = effect.frozen
        /\ e.vouchSliders = effect.vouchSliders
    BY <1>4 DEF PoolRecord
  <2> HIDE DEF e
  <2>2. HeadChosen(counted, e)
    BY <1>4, <2>1 DEF Moderate, HeadChosen, Unfrozen, Members
  <2>3. ApprovalKept(counted, e)
    BY <1>4, <2>1 DEF Moderate, ApprovalKept
  <2> QED BY <1>4, <2>1, <2>2, <2>3 DEF Moderate, e
<1>8. Moderate(counted, q)
  BY <1>5, <1>6, <1>7
<1> QED BY <1>2, <1>8 DEF Moderate, HeadChosen, ApprovalKept, q, counted

\* Taking an invitation back.
LEMMA CancelledModerate ==
  ASSUME NEW p \in PoolRecord, NEW invitee \in Soul
  PROVE  LET q == Cancelled(p, invitee)
         IN  /\ q \in PoolRecord
             /\ q.head = p.head /\ q.totalSupply = p.totalSupply
             /\ q.balances = p.balances
             /\ q.vouchLiens = [p.vouchLiens EXCEPT ![invitee] = NoLien]
             /\ q.pendingInvites \in
                  {p.pendingInvites, [p.pendingInvites EXCEPT ![invitee] = NoInvite]}
<1> DEFINE q == Cancelled(p, invitee)
           freed == ReleaseVouchLien(p, invitee)
<1>1. q \in PoolRecord
  BY CancelledType
<1>2. p.vouchLiens \in [Soul -> VouchLien] /\ p.pendingInvites \in [Soul -> PendingInvite]
  BY DEF PoolRecord
<1>3. freed \in PoolRecord
  BY ReleaseVouchLienType
<1>4. /\ freed.head = p.head /\ freed.totalSupply = p.totalSupply
      /\ freed.balances = p.balances
      /\ freed.vouchLiens = [p.vouchLiens EXCEPT ![invitee] = NoLien]
      /\ freed.pendingInvites \in
           {p.pendingInvites, [p.pendingInvites EXCEPT ![invitee] = NoInvite]}
  BY <1>2 DEF ReleaseVouchLien, PoolRecord
<1> HIDE DEF freed
<1>5. /\ q.head = freed.head /\ q.totalSupply = freed.totalSupply
      /\ q.balances = freed.balances /\ q.vouchLiens = freed.vouchLiens
      /\ q.pendingInvites = freed.pendingInvites
  BY <1>3 DEF Cancelled, CloseAdmission, freed, PoolRecord
<1> HIDE DEF q
<1> QED BY <1>1, <1>4, <1>5 DEF q

\* An invite pledges no more than the inviter has left, and approves nothing.
LEMMA InvitedKept ==
  ASSUME NEW p \in PoolRecord, NEW author \in Soul, NEW invitee \in Soul, NEW row \in Row,
         CanPlaceVouchLien(Withdrawn(p, invitee), author,
                           RequiredVouchLien(Withdrawn(p, invitee), author))
  PROVE  StepKept(p, Invited(Withdrawn(p, invitee), author, invitee, row))
<1> DEFINE w == Withdrawn(p, invitee)
           amount == RequiredVouchLien(w, author)
           lien == [inviter |-> author, amount |-> amount]
           q == Invited(w, author, invitee, row)
<1>1. p.vouchLiens \in [Soul -> VouchLien] /\ p.pendingInvites \in [Soul -> PendingInvite]
  BY DEF PoolRecord
<1>2. /\ w \in PoolRecord
      /\ w.head = p.head /\ w.totalSupply = p.totalSupply /\ w.balances = p.balances
      /\ w.vouchLiens = [p.vouchLiens EXCEPT ![invitee] = NoLien]
      /\ w.pendingInvites \in
           {p.pendingInvites, [p.pendingInvites EXCEPT ![invitee] = NoInvite]}
  <2>1. CASE PriorInviter(p, invitee) = None
    <3>1. w = p
      BY <2>1 DEF Withdrawn
    <3>2. p.vouchLiens[invitee] = NoLien
      <4>1. p.vouchLiens[invitee] \in VouchLien
        BY <1>1
      <4> QED BY <2>1, <4>1 DEF PriorInviter, VouchLien, Soul, None
    <3> HIDE DEF w
    <3> QED BY <1>1, <3>1, <3>2
  <2>2. CASE PriorInviter(p, invitee) # None
    <3>1. w = Cancelled(p, invitee)
      BY <2>2 DEF Withdrawn
    <3> HIDE DEF w
    <3> QED BY <3>1, CancelledModerate
  <2> QED BY <2>1, <2>2
<1>3. amount \in Int /\ amount > 0 /\ amount <= AvailableToPledge(w, author)
  BY <1>2, RequiredVouchLienInt DEF CanPlaceVouchLien
<1> HIDE DEF w, amount
<1>4. /\ q.head = w.head /\ q.totalSupply = w.totalSupply
      /\ q.vouchLiens = [w.vouchLiens EXCEPT ![invitee] = lien]
      /\ q.pendingInvites = [w.pendingInvites EXCEPT ![invitee] = Invitation(author, row)]
  BY <1>2 DEF Invited, PlaceVouchLien, PoolRecord, amount
<1> HIDE DEF q
<1>5. ApprovalKept(p, q)
  <2>1. ~ Invitation(author, row).admissionApproved
    BY DEF Invitation
  <2>2. ASSUME NEW s \in Soul \ {invitee}
        PROVE  q.pendingInvites[s] = p.pendingInvites[s] /\ q.vouchLiens[s] = p.vouchLiens[s]
    BY <1>1, <1>2, <1>4
  <2>3. q.pendingInvites[invitee] = Invitation(author, row)
    BY <1>1, <1>2, <1>4
  <2> QED BY <1>1, <2>1, <2>2, <2>3, ApprovedInvite DEF ApprovalKept
<1>6. PledgeKept(p, q)
  <2> DEFINE before == [s \in Soul |-> IF w.vouchLiens[s].inviter = author
                                       THEN w.vouchLiens[s].amount ELSE 0]
             after == [s \in Soul |-> IF q.vouchLiens[s].inviter = author
                                      THEN q.vouchLiens[s].amount ELSE 0]
  <2>1. /\ \A s \in Soul \ {invitee} : q.vouchLiens[s] = w.vouchLiens[s]
        /\ q.vouchLiens[invitee] = lien /\ w.vouchLiens[invitee] = NoLien
        /\ \A s \in Soul \ {invitee} : w.vouchLiens[s] = p.vouchLiens[s]
    BY <1>1, <1>2, <1>4
  <2>2. before \in [1 .. N -> Int] /\ before[invitee] = 0
    <3>1. \A s \in Soul : w.vouchLiens[s] \in VouchLien
      BY <1>2, PoolFields
    <3>2. \A l \in VouchLien : l.amount \in Nat
      BY DEF VouchLien, NoLien
    <3> QED BY <2>1, <3>1, <3>2 DEF Soul, NoLien
  <2>3. after = [before EXCEPT ![invitee] = amount]
    <3>1. after[invitee] = amount
      BY <2>1
    <3>2. \A s \in Soul \ {invitee} : after[s] = before[s]
      BY <2>1
    <3>3. /\ after = [s \in Soul |-> after[s]]
          /\ [before EXCEPT ![invitee] = amount]
               = [s \in Soul |-> IF s = invitee THEN amount ELSE before[s]]
      OBVIOUS
    <3> HIDE DEF before, after
    <3> QED BY <3>1, <3>2, <3>3
  <2> HIDE DEF before, after
  <2>4. Sum(after, N) = Sum(before, N) + amount /\ Sum(before, N) \in Int
    <3>1. invitee \in 1 .. N /\ N \in Nat
      BY SizeAssumption DEF Soul
    <3>2. Sum(after, N) = Sum(before, N) + (amount - before[invitee])
      BY <1>3, <2>2, <2>3, <3>1, SumUpdate
    <3> QED BY <1>3, <2>2, <3>1, <3>2, SumInt
  <2>5. Sum(after, N) <= p.balances[author]
    <3>1. AvailableToPledge(w, author) = Greatest(p.balances[author] - Sum(before, N), 0)
      BY <1>2 DEF AvailableToPledge, PledgedLienTotal, before
    <3>2. p.balances[author] \in Int
      BY PoolFields
    <3> QED BY <1>3, <2>4, <3>1, <3>2 DEF Greatest
  <2>6. PledgedLienTotal(q, author) = Sum(after, N)
    BY DEF PledgedLienTotal, after
  <2>7. lien.inviter = author
    OBVIOUS
  <2> HIDE DEF lien
  <2>8. ASSUME NEW s \in Soul, q.vouchLiens[s] \notin {NoLien, p.vouchLiens[s]}
        PROVE  s = invitee
    BY <2>1, <2>8
  <2> QED BY <2>1, <2>5, <2>6, <2>7, <2>8 DEF PledgeKept
<1>7. HeadChosen(p, q) /\ SupplyBacked(p, q)
  BY <1>2, <1>4, SameMandatesKeep
<1> QED BY <1>5, <1>6, <1>7 DEF StepKept, q, w

-----------------------------------------------------------------------------
(* Every step.                                                             *)

\* A handler's outcome, committed.
LEMMA CommittedStep ==
  ASSUME NEW p \in PoolRecord, NEW author \in Soul, NEW ts \in Timestamps,
         pool \in PoolRecord, StepKept(pool, p), pool' = Committed(p, author, ts)
  PROVE  StepKept(pool, pool')
<1>1. SameRoles(p, Committed(p, author, ts))
  BY CommittedSameRoles, InputAssumption
<1> QED BY <1>1, CommitKeeps

\* genesis, invite, cancel_invite and accept_invite.
LEMMA AdmissionKept ==
  ASSUME TypeOK, Sound(pool), NEW author \in Soul, NEW ts \in Timestamps,
         AdmissionStep(author, ts)
  PROVE  StepKept(pool, pool')
<1>1. pool \in PoolRecord /\ ts \in Nat \ {0}
  BY InputAssumption DEF TypeOK
<1>2. ASSUME NEW points \in InitialPoints, NEW row \in Rows, Genesis(author, ts, points, row)
      PROVE  StepKept(pool, pool')
  <2> DEFINE founded == Founded(pool, author, ts, row)
             funded == MintPoints(founded, author, points)
  <2>1. founded \in PoolRecord /\ points \in Nat
    BY <1>1, FoundedType, InputAssumption
  <2>2. /\ founded.vouchLiens = pool.vouchLiens
        /\ founded.pendingInvites = pool.pendingInvites
    BY <1>1 DEF Founded, PoolRecord
  <2> HIDE DEF founded
  <2>3. /\ funded.vouchLiens = founded.vouchLiens
        /\ funded.pendingInvites = founded.pendingInvites
    BY <2>1 DEF MintPoints, PoolRecord
  <2>4. funded \in PoolRecord
    BY <2>1, MintPointsType
  <2>5. ~ pool.initialized /\ Commit(funded, author, ts)
    BY <1>2 DEF Genesis, founded
  <2> HIDE DEF funded
  <2>6. ApprovalKept(pool, funded) /\ PledgeKept(pool, funded)
    BY <1>1, <2>2, <2>3, SameMandatesKeep
  <2>7. HeadChosen(pool, funded) /\ SupplyBacked(pool, funded)
    BY <2>5 DEF HeadChosen, SupplyBacked
  <2>8. StepKept(pool, funded)
    BY <2>6, <2>7 DEF StepKept
  <2> QED BY <1>1, <2>4, <2>5, <2>8, CommittedStep DEF Commit
<1>3. ASSUME NEW invitee \in Invitees, NEW row \in Rows, Invite(author, ts, invitee, row)
      PROVE  StepKept(pool, pool')
  <2> DEFINE w == Withdrawn(pool, invitee)
             q == Invited(w, author, invitee, row)
  <2>1. invitee \in Soul /\ row \in Row
    BY InputAssumption
  <2>2. /\ CanPlaceVouchLien(w, author, RequiredVouchLien(w, author))
        /\ Commit(q, author, ts)
    BY <1>3 DEF Invite, TakesInvite
  <2>3. StepKept(pool, q)
    BY <1>1, <2>1, <2>2, InvitedKept
  <2>4. w \in PoolRecord
    BY <1>1, <2>1, CancelledType
  <2> HIDE DEF w
  <2>5. q \in PoolRecord
    BY <2>1, <2>2, <2>4, InvitedType
  <2> HIDE DEF q
  <2> QED BY <1>1, <2>2, <2>3, <2>5, CommittedStep DEF Commit
<1>4. ASSUME NEW invitee \in Invitees, CancelInvite(author, ts, invitee)
      PROVE  StepKept(pool, pool')
  <2> DEFINE q == Cancelled(pool, invitee)
  <2>1. invitee \in Soul
    BY InputAssumption
  <2>2. /\ q \in PoolRecord
        /\ q.head = pool.head /\ q.totalSupply = pool.totalSupply
        /\ q.vouchLiens = [pool.vouchLiens EXCEPT ![invitee] = NoLien]
        /\ q.pendingInvites \in
             {pool.pendingInvites, [pool.pendingInvites EXCEPT ![invitee] = NoInvite]}
    BY <1>1, <2>1, CancelledModerate
  <2>3. Commit(q, author, ts)
    BY <1>4 DEF CancelInvite, TakesCancelInvite
  <2> HIDE DEF q
  <2>4. /\ pool.vouchLiens \in [Soul -> VouchLien]
        /\ pool.pendingInvites \in [Soul -> PendingInvite]
        /\ ~ NoInvite.admissionApproved
    BY <1>1 DEF PoolRecord, NoInvite
  <2>5. ApprovalKept(pool, q)
    <3>1. q.pendingInvites[invitee] = NoInvite
      <4>1. Sound(pool) /\ pool.pendingInvites[invitee].inviter = author
        BY <1>4 DEF CancelInvite, TakesCancelInvite
      <4>2. pool.vouchLiens[invitee] # NoLien
        <5>1. author # None /\ pool.pendingInvites[invitee] # NoInvite
          BY <4>1 DEF NoInvite, None, Soul
        <5>2. pool.vouchLiens[invitee].inviter = author
          BY <2>1, <4>1, <5>1 DEF Sound, LiensInOrder, LienCovers
        <5> QED BY <5>1, <5>2 DEF NoLien
      <4>3. Cancelled(pool, invitee).pendingInvites[invitee] = NoInvite
        BY <1>1, <2>1, <4>2 DEF Cancelled, CloseAdmission, ReleaseVouchLien, PoolRecord
      <4> QED BY <4>3 DEF q
    <3>2. \A s \in Soul \ {invitee} : /\ q.pendingInvites[s] = pool.pendingInvites[s]
                                      /\ q.vouchLiens[s] = pool.vouchLiens[s]
      BY <2>1, <2>2, <2>4
    <3> QED BY <2>4, <3>1, <3>2, ApprovedInvite DEF ApprovalKept
  <2>6. \A s \in Soul : q.vouchLiens[s] \in {NoLien, pool.vouchLiens[s]}
    BY <2>2, <2>4
  <2>7. StepKept(pool, q)
    BY <1>1, <2>2, <2>5, <2>6, SameMandatesKeep DEF StepKept
  <2> QED BY <1>1, <2>2, <2>3, <2>7, CommittedStep DEF Commit
<1>5. ASSUME NEW inviter \in Soul, AcceptInvite(author, ts, inviter)
      PROVE  StepKept(pool, pool')
  <2> DEFINE joined == Joined(pool, author, inviter)
             q == Reelected(joined)
  <2>1. joined \in PoolRecord
    BY <1>1, <1>5, JoinedType DEF AcceptInvite, TakesAcceptInvite, IsMember
  <2>2. /\ joined.head = pool.head /\ joined.totalSupply = pool.totalSupply
        /\ joined.vouchLiens = pool.vouchLiens
        /\ joined.pendingInvites = [pool.pendingInvites EXCEPT ![author] = NoInvite]
    BY <1>1 DEF Joined, PoolRecord
  <2>3. Commit(q, author, ts)
    BY <1>5 DEF AcceptInvite, TakesAcceptInvite
  <2> HIDE DEF joined
  <2>4. q \in PoolRecord
    BY <2>1, ReelectedType
  <2>5. HeadChosen(pool, q)
    BY <2>1, <2>2, ElectedByOthers DEF HeadChosen
  <2>6. /\ q.totalSupply = joined.totalSupply /\ q.vouchLiens = joined.vouchLiens
        /\ q.pendingInvites = joined.pendingInvites
    BY <2>1 DEF Reelected, PoolRecord
  <2> HIDE DEF q
  <2>7. pool.pendingInvites \in [Soul -> PendingInvite] /\ ~ NoInvite.admissionApproved
    BY <1>1 DEF PoolRecord, NoInvite
  <2>8. ApprovalKept(pool, q)
    BY <2>2, <2>6, <2>7, ApprovedInvite DEF ApprovalKept
  <2>9. StepKept(pool, q)
    BY <1>1, <2>2, <2>5, <2>6, <2>8, SameMandatesKeep DEF StepKept
  <2> QED BY <1>1, <2>3, <2>4, <2>9, CommittedStep DEF Commit
<1> QED BY <1>2, <1>3, <1>4, <1>5 DEF AdmissionStep

\* transaction, epoch_close and the slider and vouch events.
LEMMA LedgerKept ==
  ASSUME TypeOK, NEW author \in Soul, NEW ts \in Timestamps,
         LedgerStep(author, ts) \/ SliderStep(author, ts)
  PROVE  StepKept(pool, pool')
<1>1. pool \in PoolRecord
  BY DEF TypeOK
<1>2. ASSUME NEW q \in PoolRecord, SameMandates(pool, q), Commit(q, author, ts)
      PROVE  StepKept(pool, pool')
  <2>1. StepKept(pool, q)
    BY <1>1, <1>2, SameMandatesKeep
  <2> QED BY <1>1, <1>2, <2>1, CommittedStep DEF Commit
<1>3. ASSUME NEW to \in Soul, NEW amount \in Amounts, Transaction(author, ts, to, amount)
      PROVE  StepKept(pool, pool')
  <2>1. TransferPoints(pool, author, to, amount) \in PoolRecord
    BY <1>1, TransferPointsType, InputAssumption
  <2>2. SameMandates(pool, TransferPoints(pool, author, to, amount))
    BY <1>1 DEF TransferPoints, SameMandates, PoolRecord
  <2> QED BY <1>2, <1>3, <2>1, <2>2 DEF Transaction, TakesTransaction
<1>4. ASSUME NEW n \in EpochNumbers, EpochClose(author, ts, n) PROVE StepKept(pool, pool')
  BY <1>1, <1>2, <1>4 DEF EpochClose, SameMandates
<1>5. ASSUME NEW setting \in Settings,
             GovernanceSliderUpdate(author, ts, setting[1], setting[2])
      PROVE  StepKept(pool, pool')
  <2>1. setting[1] \in GovernanceParameter /\ setting[2] \in Int
    BY InputAssumption
  <2>2. GovernanceMoved(pool, author, setting[1], setting[2]) \in PoolRecord
    BY <1>1, <2>1, GovernanceMovedType
  <2>3. SameMandates(pool, GovernanceMoved(pool, author, setting[1], setting[2]))
    BY <1>1 DEF GovernanceMoved, SameMandates, PoolRecord
  <2> QED BY <1>2, <1>5, <2>2, <2>3 DEF GovernanceSliderUpdate, TakesSliderUpdate
<1>6. ASSUME NEW target \in Soul, NEW value \in ShareWeights,
             RedistributionSliderUpdate(author, ts, target, value)
      PROVE  StepKept(pool, pool')
  <2>1. ShareMoved(pool, author, target, value) \in PoolRecord
    BY <1>1, ShareMovedType, InputAssumption
  <2>2. SameMandates(pool, ShareMoved(pool, author, target, value))
    BY <1>1 DEF ShareMoved, SameMandates, PoolRecord
  <2> QED BY <1>2, <1>6, <2>1, <2>2 DEF RedistributionSliderUpdate, TakesSliderUpdate
<1>7. ASSUME NEW target \in Soul, NEW weight \in VouchWeights,
             VouchUpdate(author, ts, target, weight)
      PROVE  StepKept(pool, pool')
  <2> DEFINE vouched == VouchMoved(pool, author, target, weight)
             q == Reelected(vouched)
  <2>1. vouched \in PoolRecord
    BY <1>1, VouchMovedType, InputAssumption
  <2>2. SameMandates(pool, vouched)
    BY <1>1 DEF VouchMoved, SameMandates, PoolRecord
  <2>3. Commit(q, author, ts)
    BY <1>7 DEF VouchUpdate, TakesVouchUpdate
  <2> HIDE DEF vouched
  <2>4. q \in PoolRecord
    BY <2>1, ReelectedType
  <2>5. /\ q.totalSupply = vouched.totalSupply /\ q.vouchLiens = vouched.vouchLiens
        /\ q.pendingInvites = vouched.pendingInvites
    BY <2>1 DEF Reelected, PoolRecord
  <2>6. HeadChosen(pool, q)
    BY <2>1, <2>2, ElectedByOthers DEF HeadChosen, SameMandates
  <2> HIDE DEF q
  <2>7. StepKept(pool, q)
    BY <1>1, <2>2, <2>5, <2>6, SameMandatesKeep DEF StepKept, SameMandates
  <2> QED BY <1>1, <2>3, <2>4, <2>7, CommittedStep DEF Commit
<1> QED BY <1>3, <1>4, <1>5, <1>6, <1>7 DEF LedgerStep, SliderStep

\* The proposal events.
LEMMA ProposalKept ==
  ASSUME TypeOK, Sound(pool), NEW author \in Soul, NEW ts \in Timestamps,
         ProposalStep(author, ts)
  PROVE  StepKept(pool, pool')
<1>1. pool \in PoolRecord
  BY DEF TypeOK
<1>2. ASSUME NEW id \in CreateIds, NEW motion \in Motions,
             ProposalCreate(author, ts, id, motion)
      PROVE  StepKept(pool, pool')
  <2> DEFINE proposal == NewProposal(motion, author)
             q == [pool EXCEPT !.proposals[id] = proposal]
  <2>1. motion \in Motion /\ author \in Key /\ id \in ProposalId
    BY InputAssumption DEF Key, Soul
  <2>2. proposal \in ProposalState
    BY <2>1 DEF NewProposal, ProposalState, NoVote, ProposalVoteRecord
  <2>3. Commit(q, author, ts)
    BY <1>2 DEF ProposalCreate, TakesProposalCreate
  <2> HIDE DEF proposal
  <2>4. q \in PoolRecord
    BY <1>1, <2>2, SetProposalType
  <2>5. SameMandates(pool, q)
    BY <1>1 DEF SameMandates, PoolRecord
  <2> HIDE DEF q
  <2>6. StepKept(pool, q)
    BY <1>1, <2>5, SameMandatesKeep
  <2> QED BY <1>1, <2>3, <2>4, <2>6, CommittedStep DEF Commit
<1>3. ASSUME NEW id \in ProposalId, NEW approve \in Ballots,
             ProposalVote(author, ts, id, approve)
      PROVE  StepKept(pool, pool')
  <2> DEFINE voted == Voted(pool.proposals[id], author, approve, pool.balances[author])
             counted == [pool EXCEPT !.proposals[id] = voted]
             q == TryExecuteProposal(counted, id)
  <2>1. pool.proposals[id] \in ProposalState
    BY <1>1, MarkedProposalType
  <2>2. voted \in ProposalState
    BY <1>1, <2>1, VotedType, PoolFields, InputAssumption
  <2>4. Commit(q, author, ts)
    BY <1>3 DEF ProposalVote, TakesProposalVote
  <2> HIDE DEF voted
  <2>5. InOrder(voted)
    <3>1. InOrder(pool.proposals[id]) /\ pool.balances[author] \in Int /\ approve \in BOOLEAN
      BY <1>1, PoolFields, InputAssumption DEF Sound, ProposalsInOrder
    <3> QED BY <2>1, <3>1, VotedInOrder DEF voted
  <2>6. counted \in PoolRecord /\ Sound(counted)
    BY <1>1, <2>2, <2>5, SetProposalType, SetProposalSound
  <2>7. StepKept(pool, q)
    BY <1>1, <2>2, <2>6, VoteModerate, ModerateIsKept
  <2>8. q \in PoolRecord
    BY <2>6, TryExecuteProposalType
  <2> HIDE DEF q
  <2> QED BY <1>1, <2>4, <2>7, <2>8, CommittedStep DEF Commit
<1>4. ASSUME NEW id \in CloseIds, ProposalClose(author, ts, id) PROVE StepKept(pool, pool')
  <2> DEFINE q == [pool EXCEPT !.proposals[id].closed = TRUE]
  <2>1. q \in PoolRecord
    BY <1>1, MarkedProposalType, InputAssumption
  <2>2. SameMandates(pool, q)
    BY <1>1 DEF SameMandates, PoolRecord
  <2>3. Commit(q, author, ts)
    BY <1>4 DEF ProposalClose, TakesProposalClose
  <2> HIDE DEF q
  <2>4. StepKept(pool, q)
    BY <1>1, <2>2, SameMandatesKeep
  <2> QED BY <1>1, <2>1, <2>3, <2>4, CommittedStep DEF Commit
<1> QED BY <1>2, <1>3, <1>4 DEF ProposalStep

\* The governance relay, the bridge events and the mailbox events.
LEMMA FederationKept ==
  ASSUME TypeOK, NEW author \in Soul, NEW ts \in Timestamps,
         FederationStep(author, ts) \/ RelayStep(author, ts)
  PROVE  StepKept(pool, pool')
<1>1. pool \in PoolRecord
  BY DEF TypeOK
<1>2. ASSUME NEW q \in PoolRecord, SameMandates(pool, q), pool' = Committed(q, author, ts)
      PROVE  StepKept(pool, pool')
  <2>1. StepKept(pool, q)
    BY <1>1, <1>2, SameMandatesKeep
  <2> QED BY <1>1, <1>2, <2>1, CommittedStep
<1>3. ASSUME NEW d \in Deliveries
      PROVE  d.cell \in Cell /\ d.id \in ProposalId /\ d.to \in Soul /\ d.amount \in Nat
  BY InputAssumption
<1>4. ASSUME NEW cell \in Cell, NEW row \in Rows, NEW population \in Populations,
             RelayChildGovernance(author, ts, cell, row, population)
      PROVE  StepKept(pool, pool')
  <2>1. ChildHeard(pool, cell, row, population) \in PoolRecord
    BY <1>1, ChildHeardType, InputAssumption
  <2>2. SameMandates(pool, ChildHeard(pool, cell, row, population))
    BY <1>1 DEF ChildHeard, SameMandates, PoolRecord
  <2> QED BY <1>2, <1>4, <2>1, <2>2 DEF RelayChildGovernance, Commit
<1>5. ASSUME RelayOwnGovernance(author, ts) PROVE StepKept(pool, pool')
  BY <1>1, <1>2, <1>5 DEF RelayOwnGovernance, Commit, SameMandates
<1>6. ASSUME NEW d \in Deliveries, BridgeInbound(author, ts, d) PROVE StepKept(pool, pool')
  <2> DEFINE minted == MintPoints(pool, d.to, d.amount)
             q == MarkBridgeProposalCompleted(minted, d.id)
  <2>1. minted \in PoolRecord
    BY <1>1, <1>3, MintPointsType
  <2>2. /\ minted.totalSupply = pool.totalSupply + d.amount
        /\ minted.head = pool.head /\ minted.proposals = pool.proposals
        /\ minted.vouchLiens = pool.vouchLiens
        /\ minted.pendingInvites = pool.pendingInvites
    BY <1>1 DEF MintPoints, PoolRecord
  <2> HIDE DEF minted
  <2>3. q \in PoolRecord
    BY <1>3, <2>1, MarkedProposalType DEF MarkBridgeProposalCompleted
  <2>4. /\ q.totalSupply = minted.totalSupply /\ q.head = minted.head
        /\ q.vouchLiens = minted.vouchLiens /\ q.pendingInvites = minted.pendingInvites
        /\ q.proposals = [minted.proposals EXCEPT ![d.id].bridgeCompleted = TRUE]
    BY <2>1 DEF MarkBridgeProposalCompleted, PoolRecord
  <2>5. pool' = Committed(q, author, ts)
    BY <1>6 DEF BridgeInbound, Commit, minted
  <2> HIDE DEF q
  <2>6. SupplyBacked(pool, q)
    <3>1. q.proposals[d.id].bridgeCompleted
      <4>1. minted.proposals[d.id] \in ProposalState
        BY <1>3, <2>1, MarkedProposalType
      <4>2. minted.proposals \in [ProposalId -> ProposalState]
        BY <2>1 DEF PoolRecord
      <4> QED BY <1>3, <2>4, <4>1, <4>2 DEF ProposalState
    <3>2. /\ pool.proposals[d.id].executed /\ ~ pool.proposals[d.id].bridgeCompleted
          /\ pool.proposals[d.id].motion.target = d.cell
          /\ pool.proposals[d.id].motion.amount = d.amount
          /\ d.cell \in Linked(pool)
      BY <1>6 DEF BridgeInbound, BridgeAdmissible, ValidateBridgeProposal
    <3>3. q.totalSupply - pool.totalSupply = d.amount
      BY <1>1, <1>3, <2>2, <2>4, ValuesOfPoints
    <3> QED BY <1>3, <3>1, <3>2, <3>3 DEF SupplyBacked
  <2>7. StepKept(pool, q)
    BY <1>1, <2>2, <2>4, <2>6, SameMandatesKeep DEF StepKept
  <2> QED BY <1>1, <2>3, <2>5, <2>7, CommittedStep
<1>7. ASSUME NEW d \in Deliveries, NEW p \in PoolRecord, SameMandates(pool, p),
             pool' = Committed(MarkBridgeProposalCompleted(p, d.id), author, ts)
      PROVE  StepKept(pool, pool')
  <2> DEFINE q == MarkBridgeProposalCompleted(p, d.id)
  <2>1. q \in PoolRecord
    BY <1>3, MarkedProposalType DEF MarkBridgeProposalCompleted
  <2>2. SameMandates(pool, q)
    BY <1>7 DEF MarkBridgeProposalCompleted, SameMandates, PoolRecord
  <2> HIDE DEF q
  <2> QED BY <1>2, <1>7, <2>1, <2>2 DEF q
<1>8. ASSUME NEW d \in Deliveries, BridgeUnlinked(author, ts, d) PROVE StepKept(pool, pool')
  <2>1. TransferPoints(pool, author, d.to, d.amount) \in PoolRecord
    BY <1>1, <1>3, TransferPointsType
  <2>2. SameMandates(pool, TransferPoints(pool, author, d.to, d.amount))
    BY <1>1 DEF TransferPoints, SameMandates, PoolRecord
  <2> QED BY <1>7, <1>8, <2>1, <2>2 DEF BridgeUnlinked, BridgeAdmissible, Commit
<1>9. ASSUME NEW d \in Deliveries, BridgeOutbound(author, ts, d) PROVE StepKept(pool, pool')
  <2>1. Paid(pool, d.cell, d.amount) \in PoolRecord
    BY <1>1, <1>3, PaidType
  <2>2. SameMandates(pool, Paid(pool, d.cell, d.amount))
    BY <1>1 DEF Paid, SameMandates, PoolRecord
  <2> QED BY <1>7, <1>9, <2>1, <2>2 DEF BridgeOutbound, BridgeAdmissible
<1>10. ASSUME NEW authors \in [RelayUrl -> Key],
              Commit([pool EXCEPT !.communityRelayAuthors = authors], author, ts)
       PROVE  StepKept(pool, pool')
  <2>1. [pool EXCEPT !.communityRelayAuthors = authors] \in PoolRecord
    BY <1>1 DEF PoolRecord
  <2>2. SameMandates(pool, [pool EXCEPT !.communityRelayAuthors = authors])
    BY <1>1 DEF SameMandates, PoolRecord
  <2> QED BY <1>2, <1>10, <2>1, <2>2 DEF Commit
<1>11. author \in Key /\ None \in Key
  BY SizeAssumption DEF Key, Soul, None
<1>12. ASSUME NEW url \in RelayUrl, RelayContribute(author, ts, url) PROVE StepKept(pool, pool')
  <2> DEFINE kept == KeptRelays(pool, author)
             authors == IF kept[url] = None THEN [kept EXCEPT ![url] = author] ELSE kept
  <2>1. kept \in [RelayUrl -> Key]
    BY <1>1, <1>11 DEF KeptRelays, PoolRecord
  <2> HIDE DEF kept
  <2>2. authors \in [RelayUrl -> Key]
    BY <1>11, <2>1
  <2>3. Commit([pool EXCEPT !.communityRelayAuthors = authors], author, ts)
    BY <1>12 DEF RelayContribute, kept
  <2> HIDE DEF authors
  <2> QED BY <1>10, <2>2, <2>3
<1>13. ASSUME NEW url \in RelayUrl, RelayRevoke(author, ts, url) PROVE StepKept(pool, pool')
  <2> DEFINE authors == [pool.communityRelayAuthors EXCEPT ![url] = None]
  <2>1. authors \in [RelayUrl -> Key]
    BY <1>1, <1>11 DEF PoolRecord
  <2>2. Commit([pool EXCEPT !.communityRelayAuthors = authors], author, ts)
    BY <1>13 DEF RelayRevoke
  <2> HIDE DEF authors
  <2> QED BY <1>10, <2>1, <2>2
<1> QED BY <1>4, <1>5, <1>6, <1>8, <1>9, <1>12, <1>13 DEF FederationStep, RelayStep

\* Every event keeps all four, from any Pool that is sound.
LEMMA NextKept ==
  ASSUME TypeOK, SoundPool, Next
  PROVE  StepKept(pool, pool')
BY AdmissionKept, LedgerKept, ProposalKept, FederationKept DEF Next, SoundPool

-----------------------------------------------------------------------------
(* The theorems about steps.                                               *)

\* Whoever becomes Head has an unfrozen member other than himself behind him.
THEOREM HeadIsChosen == Spec => HeadChosenByOthers
<1>1. TypeOK /\ SoundPool /\ [Next]_vars =>
        [pool.initialized /\ pool'.head \notin {pool.head, None} =>
           \E v \in Unfrozen(pool') \ {pool'.head} :
             pool'.vouchSliders[v][pool'.head] # Unset]_vars
  BY NextKept DEF StepKept, HeadChosen
<1>2. Spec => []TypeOK /\ []SoundPool
  BY TypeCorrect, PoolStaysSound
<1> QED BY <1>1, <1>2, PTL DEF Spec, HeadChosenByOthers

\* No point appears after genesis but by one delivery of an executed transfer.
THEOREM SupplyIsBacked == Spec => SupplyBackedByProposal
<1>1. TypeOK /\ SoundPool /\ [Next]_vars =>
        [pool.initialized /\ pool'.totalSupply # pool.totalSupply =>
           \E id \in ProposalId : Delivers(id)]_vars
  BY NextKept DEF StepKept, SupplyBacked, Delivers
<1>2. Spec => []TypeOK /\ []SoundPool
  BY TypeCorrect, PoolStaysSound
<1> QED BY <1>1, <1>2, PTL DEF Spec, SupplyBackedByProposal

\* Nobody is admitted by an approval that was given to another invitation.
THEOREM ApprovalHolds == Spec => ApprovalIsPerInvitation
<1>1. TypeOK /\ SoundPool /\ [Next]_vars =>
        [\A s \in Soul :
           pool'.pendingInvites[s].admissionApproved =>
             /\ pool'.pendingInvites[s] =
                  [pool.pendingInvites[s] EXCEPT !.admissionApproved = TRUE]
             /\ pool'.vouchLiens[s] = pool.vouchLiens[s]]_vars
  BY NextKept DEF StepKept, ApprovalKept
<1>2. Spec => []TypeOK /\ []SoundPool
  BY TypeCorrect, PoolStaysSound
<1> QED BY <1>1, <1>2, PTL DEF Spec, ApprovalIsPerInvitation

\* Nobody ever pledges more than all of his Share.
THEOREM PledgesHold == Spec => PledgeWithinShare
<1>1. TypeOK /\ SoundPool /\ [Next]_vars =>
        [\A s \in Soul :
           pool'.vouchLiens[s] \notin {NoLien, pool.vouchLiens[s]} =>
             LET inviter == pool'.vouchLiens[s].inviter
             IN  PledgedLienTotal(pool', inviter) <= pool.balances[inviter]]_vars
  BY NextKept DEF StepKept, PledgeKept
<1>2. Spec => []TypeOK /\ []SoundPool
  BY TypeCorrect, PoolStaysSound
<1> QED BY <1>1, <1>2, PTL DEF Spec, PledgeWithinShare

-----------------------------------------------------------------------------
(* No point is lost: what every handler does to the sum of all accounts.   *)

\* How many points there are beyond those that were minted and not sent out.
Surplus(p) == TotalPoolPoints(p) - p.totalSupply

\* The commons owe nothing, and nobody vouches for himself.
Orderly(p) == p.commons >= 0 /\ \A s \in Soul : p.vouchLiens[s].inviter # s

\* Points only move, and what is orderly stays so.
Even(p, q) ==
  /\ Surplus(q) = Surplus(p)
  /\ Orderly(p) => Orderly(q)

\* The fields that hold points, and the liens on them.
SameMoney(p, q) ==
  /\ q.vouchLiens = p.vouchLiens
  /\ q.balances = p.balances /\ q.commons = p.commons
  /\ q.superstructureEscrow = p.superstructureEscrow
  /\ q.childCellEscrow = p.childCellEscrow
  /\ q.totalSupply = p.totalSupply

\* The accounts of a Pool are sums of integers.
LEMMA AccountsInt ==
  ASSUME NEW p \in PoolRecord
  PROVE  /\ p.balances \in [1 .. N -> Int] /\ Sum(p.balances, N) \in Int
         /\ p.superstructureEscrow \in [1 .. M -> Int] /\ Sum(p.superstructureEscrow, M) \in Int
         /\ p.childCellEscrow \in [1 .. M -> Int] /\ Sum(p.childCellEscrow, M) \in Int
         /\ p.commons \in Int /\ p.totalSupply \in Int
         /\ TotalPoolPoints(p) \in Int /\ Surplus(p) \in Int
<1>1. /\ p.balances \in [1 .. N -> Int] /\ p.superstructureEscrow \in [1 .. M -> Int]
      /\ p.childCellEscrow \in [1 .. M -> Int] /\ p.commons \in Int /\ p.totalSupply \in Int
  BY PoolFields, ValuesOfPoints DEF Soul, Cell
<1>2. /\ Sum(p.balances, N) \in Int /\ Sum(p.superstructureEscrow, M) \in Int
      /\ Sum(p.childCellEscrow, M) \in Int
  BY <1>1, SumInt, SizeAssumption
<1> QED BY <1>1, <1>2 DEF TotalPoolPoints, Surplus

\* What leaves the accounts alone is even.
LEMMA SameMoneyEven ==
  ASSUME NEW p, NEW q, SameMoney(p, q)
  PROVE  Even(p, q)
BY DEF SameMoney, Even, Orderly, Surplus, TotalPoolPoints

\* Two even steps are even.
LEMMA EvenIsTransitive ==
  ASSUME NEW p, NEW q, NEW r, Even(p, q), Even(q, r)
  PROVE  Even(p, r)
BY DEF Even

\* accrueCirculation moves what it takes to the commons, and pays nobody.
LEMMA AccrueEven ==
  ASSUME NEW p \in PoolRecord, NEW annualPercent \in Ratio, NEW elapsed \in Nat
  PROVE  LET q == AccrueCirculation(p, annualPercent, elapsed)
         IN  Even(p, q) /\ \A s \in Soul : q.balances[s] <= p.balances[s]
<1> DEFINE annualBps == RoundDiv(100 * annualPercent.num, annualPercent.den)
           holders == Holders(p)
           held == [m \in Soul |-> IF m \in holders THEN p.balances[m] ELSE 0]
           num == [m \in Soul |-> held[m] * annualBps * elapsed]
           numerator == p.circulationCarry + Sum(num, N)
           totalDecay == Least(numerator \div YEAR_DENOMINATOR, Sum(held, N))
           decay == AllocateProportionalDecay(totalDecay, holders, num, held)
           balances == [m \in Soul |-> p.balances[m] - decay[m]]
           commons == p.commons + Sum(decay, N)
           carry == Carry(numerator, totalDecay)
           charged == [p EXCEPT !.balances = balances, !.commons = commons,
                                !.circulationCarry = carry]
<1>1. annualBps \in Nat
  <2>1. 100 * annualPercent.num \in Nat /\ annualPercent.den \in Nat \ {0}
    BY DEF Ratio
  <2> QED BY <2>1, RoundDivNat
<1>2. holders \in SUBSET Soul
  BY SubsetsOfKeys DEF Holders
<1>3. held \in [Soul -> Nat]
  BY PoolFields DEF Holders
<1> HIDE DEF annualBps, holders, held
<1>4. num \in [Soul -> Nat]
  <2>1. ASSUME NEW m \in Soul PROVE held[m] * annualBps * elapsed \in Nat
    <3>1. held[m] \in Nat
      BY <1>3
    <3>2. held[m] * annualBps \in Nat
      BY <3>1, <1>1
    <3> QED BY <3>2
  <2> QED BY <2>1
<1> HIDE DEF num
<1>5. totalDecay \in Nat
  <2>1. Sum(num, N) \in Nat /\ Sum(held, N) \in Nat
    BY <1>3, <1>4, SumNat, SizeAssumption DEF Soul
  <2>2. numerator \in Nat
    BY <2>1, ValuesOfPoints
  <2>3. numerator \div YEAR_DENOMINATOR \in Nat
    <3> HIDE DEF numerator
    <3> QED BY <2>2, SizeAssumption
  <2> QED BY <2>1, <2>3 DEF Least
<1> HIDE DEF totalDecay
<1>6. decay \in [Soul -> Nat]
  <2>1. held \in [Soul -> Int] /\ totalDecay \in Int
    BY <1>3, <1>5
  <2>2. decay \in [Soul -> Int]
    BY <1>2, <1>4, <2>1, AllocateProportionalDecayType
  <2>3. \A s \in Soul : decay[s] \in Nat
    BY <1>2, <1>3, <1>4, <1>5, DecayIsFair
  <2> HIDE DEF decay
  <2> QED BY <2>2, <2>3
<1> HIDE DEF decay, numerator, carry
<1>7. /\ decay \in [1 .. N -> Nat] /\ decay \in [1 .. N -> Int]
      /\ p.balances \in [1 .. N -> Int]
  BY <1>6, PoolFields DEF Soul
<1>8. \A s \in Soul : balances[s] <= p.balances[s]
  BY <1>6, PoolFields
<1>9. balances \in [1 .. N -> Int] /\ \A i \in 1 .. N : p.balances[i] = balances[i] + decay[i]
  <2>1. ASSUME NEW i \in Soul
        PROVE  balances[i] \in Int /\ p.balances[i] = balances[i] + decay[i]
    <3>1. p.balances[i] \in Int /\ decay[i] \in Int
      BY <1>7 DEF Soul
    <3> QED BY <3>1
  <2>2. balances = [m \in Soul |-> balances[m]]
    OBVIOUS
  <2> HIDE DEF balances
  <2> QED BY <2>1, <2>2 DEF Soul
<1> HIDE DEF balances
<1>10. Sum(p.balances, N) = Sum(balances, N) + Sum(decay, N)
  BY <1>7, <1>9, SumPlus, SizeAssumption
<1>11. Sum(decay, N) \in Nat /\ Sum(balances, N) \in Int
  BY <1>7, <1>9, SumNat, SumInt, SizeAssumption
<1>12. /\ charged.balances = balances /\ charged.commons = commons
       /\ charged.superstructureEscrow = p.superstructureEscrow
       /\ charged.childCellEscrow = p.childCellEscrow
       /\ charged.totalSupply = p.totalSupply /\ charged.vouchLiens = p.vouchLiens
  BY DEF PoolRecord
<1> HIDE DEF charged
<1>13. Even(p, charged)
  <2>1. TotalPoolPoints(charged) = TotalPoolPoints(p)
    BY <1>10, <1>11, <1>12, AccountsInt DEF TotalPoolPoints
  <2>2. p.commons >= 0 => charged.commons >= 0
    BY <1>11, <1>12, AccountsInt
  <2> QED BY <1>12, <2>1, <2>2 DEF Even, Orderly, Surplus
<1>14. \A s \in Soul : charged.balances[s] <= p.balances[s]
  BY <1>8, <1>12
<1>15. Even(p, p) /\ \A s \in Soul : p.balances[s] <= p.balances[s]
  <2>1. Even(p, p)
    BY SameMoneyEven DEF SameMoney
  <2> QED BY <2>1, PoolFields
<1>16. AccrueCirculation(p, annualPercent, elapsed) \in {p, charged}
  BY DEF AccrueCirculation, charged, annualBps, holders, held, num, numerator, totalDecay,
         decay, balances, commons, carry
<1> QED BY <1>13, <1>14, <1>15, <1>16

\* distributeRedistribution pays out exactly the pot, and only to its targets.
LEMMA DistributeTotal ==
  ASSUME NEW p \in PoolRecord, NEW pot \in Nat, pot > 0, NEW targets \in SUBSET Soul,
         targets # {}, NEW weights \in [targets -> Nat], \E m \in targets : weights[m] > 0
  PROVE  LET q == DistributeRedistribution(p, pot, weights)
         IN  /\ Surplus(q) = Surplus(p) + pot
             /\ q.commons = p.commons /\ q.vouchLiens = p.vouchLiens
             /\ \A s \in Soul \ targets : q.balances[s] = p.balances[s]
<1> DEFINE spread == [m \in Soul |-> IF m \in DOMAIN weights THEN weights[m] ELSE 0]
           total == Sum(spread, N)
           last == LastOf(p.members, DOMAIN weights)
           share == [m \in Soul |->
                       IF m \in DOMAIN weights \ {last}
                       THEN (pot * RoundDiv(10000 * weights[m], total)) \div 10000
                       ELSE 0]
           rest == pot - Sum(share, N)
           shares == RedistributionShares(p, pot, weights)
           balances == [m \in Soul |-> p.balances[m] + shares[m]]
           paid == [p EXCEPT !.balances = balances]
<1>1. total \in Nat \ {0}
  <2>1. spread \in [1 .. N -> Nat]
    BY DEF Soul
  <2>2. PICK m \in targets : weights[m] > 0
    OBVIOUS
  <2>3. m \in 1 .. N /\ spread[m] = weights[m]
    BY DEF Soul
  <2> HIDE DEF spread
  <2>4. total \in Nat /\ spread[m] <= total
    BY <2>1, <2>3, SumNat, SumBounds, SizeAssumption
  <2> QED BY <2>1, <2>2, <2>3, <2>4
<1>2. last \in targets
  <2>1. targets \in SUBSET (1 .. N) /\ p.members \in [1 .. N -> Nat] /\ N \in Nat
    BY PoolFields, SizeAssumption DEF Soul
  <2> QED BY <2>1, LastOfIn
<1>3. shares = [share EXCEPT ![last] = rest]
  BY DEF RedistributionShares
<1> HIDE DEF total, last
<1>4. /\ share \in [1 .. N -> Int] /\ share[last] = 0
      /\ \A s \in Soul \ targets : share[s] = 0
  <2>1. ASSUME NEW m \in targets
        PROVE  (pot * RoundDiv(10000 * weights[m], total)) \div 10000 \in Int
    <3>1. RoundDiv(10000 * weights[m], total) \in Nat
      BY <1>1, RoundDivNat
    <3>2. pot * RoundDiv(10000 * weights[m], total) \in Int
      BY <3>1
    <3> QED BY <3>2
  <2>2. last \in Soul
    BY <1>2
  <2> QED BY <2>1, <2>2 DEF Soul
<1> HIDE DEF share, shares
<1>5. last \in 1 .. N /\ rest \in Int /\ Sum(share, N) \in Int
  BY <1>2, <1>4, SumInt, SizeAssumption DEF Soul
<1>6. shares \in [1 .. N -> Int] /\ Sum(shares, N) = pot
  <2> HIDE DEF rest
  <2>1. Sum(shares, N) = Sum(share, N) + (rest - share[last])
    <3>1. Sum([share EXCEPT ![last] = rest], N) = Sum(share, N) + (rest - share[last])
      <4>1. /\ N \in Nat /\ share \in [1 .. N -> Int]
            /\ last \in 1 .. N /\ rest \in Int
        BY <1>4, <1>5, SizeAssumption
      <4> QED BY <4>1, SumUpdate
    <3> QED BY <1>3, <3>1, Zenon
  <2>2. shares \in [1 .. N -> Int]
    BY <1>3, <1>4, <1>5
  <2> QED BY <1>4, <1>5, <2>1, <2>2 DEF rest
<1>7. \A s \in Soul \ targets : shares[s] = 0
  <2> HIDE DEF rest
  <2> QED BY <1>2, <1>3, <1>4 DEF Soul
<1>8. p.balances \in [1 .. N -> Int] /\ N \in Nat
  BY AccountsInt, SizeAssumption
<1>9. /\ balances \in [1 .. N -> Int]
      /\ \A i \in 1 .. N : balances[i] = p.balances[i] + shares[i]
      /\ \A s \in Soul \ targets : balances[s] = p.balances[s]
  <2>1. balances \in [1 .. N -> Int]
    BY <1>6, <1>8 DEF Soul
  <2>2. \A s \in Soul : balances[s] = p.balances[s] + shares[s]
    OBVIOUS
  <2>3. \A s \in Soul \ targets : balances[s] = p.balances[s] + 0
    BY <1>7, <2>2
  <2>4. \A s \in Soul : p.balances[s] \in Int
    BY <1>8 DEF Soul
  <2> HIDE DEF balances
  <2> QED BY <2>1, <2>2, <2>3, <2>4 DEF Soul
<1> HIDE DEF balances
<1>10. Sum(balances, N) = Sum(p.balances, N) + pot
  BY <1>6, <1>8, <1>9, SumPlus
<1>11. /\ paid.balances = balances /\ paid.commons = p.commons
       /\ paid.superstructureEscrow = p.superstructureEscrow
       /\ paid.childCellEscrow = p.childCellEscrow
       /\ paid.totalSupply = p.totalSupply /\ paid.vouchLiens = p.vouchLiens
  BY DEF PoolRecord
<1>12. DistributeRedistribution(p, pot, weights) = paid
  BY DEF DistributeRedistribution, balances, shares
<1> HIDE DEF paid
<1>13. Surplus(paid) = Surplus(p) + pot
  <2>1. TotalPoolPoints(paid) = TotalPoolPoints(p) + pot
    <3>1. /\ Sum(p.balances, N) \in Int /\ Sum(p.superstructureEscrow, M) \in Int
          /\ Sum(p.childCellEscrow, M) \in Int /\ p.commons \in Int
      BY AccountsInt
    <3>2. TotalPoolPoints(paid) = ((Sum(p.balances, N) + pot) + p.commons)
             + Sum(p.superstructureEscrow, M) + Sum(p.childCellEscrow, M)
      BY <1>10, <1>11 DEF TotalPoolPoints
    <3> QED BY <3>1, <3>2 DEF TotalPoolPoints
  <2> QED BY <1>11, <2>1, AccountsInt DEF Surplus
<1> QED BY <1>9, <1>11, <1>12, <1>13

\* allocateCommonsToChildCells escrows exactly the pot.
LEMMA AllocateTotal ==
  ASSUME NEW p \in PoolRecord, NEW pot \in Nat, Children(p) # {}
  PROVE  LET q == AllocateCommonsToChildCells(p, pot)
         IN  /\ Surplus(q) = Surplus(p) + pot
             /\ q.commons = p.commons /\ q.vouchLiens = p.vouchLiens
             /\ q.balances = p.balances
<1> DEFINE people == [c \in Cell |-> IF c \in Children(p)
                                     THEN Greatest(1, p.childPopulation[c]) ELSE 0]
           total == Sum(people, M)
           last == LastOf(p.childCells, Children(p))
           part(c) == (pot * people[c]) \div total
           share == [c \in Cell |-> IF c = last THEN 0 ELSE part(c)]
           rest == pot - Sum(share, M)
           allocation == ChildAllocation(p, pot)
           escrow == [c \in Cell |-> p.childCellEscrow[c] + Greatest(allocation[c], 0)]
           routed == [p EXCEPT !.childCellEscrow = escrow]
<1>1. people \in [1 .. M -> Nat]
  BY PoolFields DEF Cell, Greatest
<1>2. total \in Nat /\ total > 0
  <2>1. PICK c \in Children(p) : TRUE
    OBVIOUS
  <2>2. c \in 1 .. M /\ people[c] >= 1
    <3>1. c \in Cell
      BY SubsetsOfKeys
    <3>2. p.childPopulation[c] \in Nat
      BY <3>1, PoolFields
    <3> QED BY <3>1, <3>2 DEF Cell, Greatest
  <2> HIDE DEF people
  <2>3. total \in Nat /\ people[c] <= total
    BY <1>1, <2>2, SumNat, SumBounds, SizeAssumption
  <2> QED BY <1>1, <2>2, <2>3
<1>3. last \in Children(p) /\ last \in 1 .. M
  <2>1. Children(p) \in SUBSET (1 .. M) /\ p.childCells \in [1 .. M -> Nat] /\ M \in Nat
    BY SubsetsOfKeys, PoolFields, SizeAssumption DEF Cell
  <2> QED BY <2>1, LastOfIn
<1>4. allocation = [share EXCEPT ![last] = rest]
  BY DEF ChildAllocation
<1> HIDE DEF people, last, allocation
<1>5. ASSUME NEW c \in Cell
      PROVE  part(c) \in Nat /\ part(c) * total <= pot * people[c]
  <2> DEFINE a == pot * people[c]
  <2>1. a \in Nat
    BY <1>1 DEF Cell
  <2> HIDE DEF a, total
  <2>2. a \div total \in Nat /\ (a \div total) * total <= a
    BY <1>2, <2>1
  <2> QED BY <2>2 DEF a
<1> HIDE DEF part
<1>6. /\ share \in [1 .. M -> Nat] /\ share[last] = 0
      /\ \A c \in 1 .. M : share[c] * total <= pot * people[c]
  <2>1. ASSUME NEW c \in Cell
        PROVE  share[c] \in Nat /\ share[c] * total <= pot * people[c]
    <3>1. CASE c = last
      <4>1. share[c] = 0
        BY <3>1
      <4> HIDE DEF total, share
      <4>2. 0 * total = 0 /\ pot * people[c] \in Nat
        BY <1>1, <1>2 DEF Cell
      <4> QED BY <4>1, <4>2
    <3>2. CASE c # last
      <4>1. share[c] = part(c)
        BY <3>2
      <4> QED BY <1>5, <4>1
    <3> QED BY <3>1, <3>2
  <2>2. share = [c \in Cell |-> share[c]] /\ share[last] = 0
    BY <1>3 DEF Cell
  <2> HIDE DEF share, total
  <2> QED BY <2>1, <2>2 DEF Cell
<1> HIDE DEF share
<1>7. Sum(share, M) \in Nat /\ Sum(share, M) <= pot
  <2>1. \A c \in 1 .. M : share[c] * Sum(people, M) <= pot * people[c]
    BY <1>6
  <2>2. Sum(people, M) > 0
    BY <1>2
  <2> QED BY <1>1, <1>6, <2>1, <2>2, SumNat, SharesWithin, SizeAssumption
<1>8. rest \in Nat
  BY <1>7
<1>9. /\ allocation \in [1 .. M -> Nat] /\ allocation \in [1 .. M -> Int]
      /\ Sum(allocation, M) = pot
  <2>1. share \in [1 .. M -> Int]
    BY <1>6
  <2> HIDE DEF rest
  <2>2. Sum(allocation, M) = Sum(share, M) + (rest - share[last])
    <3>1. Sum([share EXCEPT ![last] = rest], M) = Sum(share, M) + (rest - share[last])
      <4>1. /\ M \in Nat /\ share \in [1 .. M -> Int]
            /\ last \in 1 .. M /\ rest \in Int
        BY <1>3, <1>8, <2>1, SizeAssumption
      <4> QED BY <4>1, SumUpdate
    <3> QED BY <1>4, <3>1, Zenon
  <2>3. allocation \in [1 .. M -> Nat]
    BY <1>3, <1>4, <1>6, <1>8
  <2> QED BY <1>6, <1>7, <2>2, <2>3 DEF rest
<1>10. p.childCellEscrow \in [1 .. M -> Int] /\ M \in Nat
  BY AccountsInt, SizeAssumption
<1>11. /\ escrow \in [1 .. M -> Int]
       /\ \A c \in 1 .. M : escrow[c] = p.childCellEscrow[c] + allocation[c]
  <2>1. \A c \in Cell : Greatest(allocation[c], 0) = allocation[c]
    BY <1>9 DEF Cell, Greatest
  <2>2. \A c \in Cell : p.childCellEscrow[c] + allocation[c] \in Int
    BY <1>9, <1>10 DEF Cell
  <2> QED BY <2>1, <2>2 DEF Cell
<1> HIDE DEF escrow
<1>12. Sum(escrow, M) = Sum(p.childCellEscrow, M) + pot
  BY <1>9, <1>10, <1>11, SumPlus
<1>13. /\ routed.balances = p.balances /\ routed.commons = p.commons
       /\ routed.superstructureEscrow = p.superstructureEscrow
       /\ routed.childCellEscrow = escrow
       /\ routed.totalSupply = p.totalSupply /\ routed.vouchLiens = p.vouchLiens
  BY DEF PoolRecord
<1>14. AllocateCommonsToChildCells(p, pot) = routed
  BY DEF AllocateCommonsToChildCells, escrow, allocation
<1> HIDE DEF routed
<1>15. Surplus(routed) = Surplus(p) + pot
  BY <1>12, <1>13, AccountsInt DEF Surplus, TotalPoolPoints
<1> QED BY <1>13, <1>14, <1>15

\* Some target of a flush has weight.
LEMMA SomebodyWeighs ==
  ASSUME NEW p \in PoolRecord, NEW ts, EligibleRecipients(p, ts) # {}
  PROVE  \E m \in EligibleRecipients(p, ts) : ResolveRedistributionTargets(p, ts)[m] > 0
<1> DEFINE eligible == EligibleRecipients(p, ts)
           targets == ResolveRedistributionTargets(p, ts)
           weights == [m \in eligible |-> RedistributionWeight(p, eligible, m)]
<1>1. targets \in [eligible -> Nat]
  BY RedistributionTargetsType
<1>2. targets = IF \A m \in eligible : weights[m] = 0
                THEN [m \in eligible |-> 1] ELSE weights
  BY DEF ResolveRedistributionTargets
<1> HIDE DEF weights, targets, eligible
<1>3. CASE \A m \in eligible : weights[m] = 0
  BY <1>2, <1>3 DEF eligible, targets
<1>4. CASE ~ (\A m \in eligible : weights[m] = 0)
  <2>1. targets = weights
    BY <1>2, <1>4
  <2>2. PICK m \in eligible : targets[m] # 0
    BY <1>4, <2>1
  <2> QED BY <1>1, <2>2 DEF eligible, targets
<1> QED BY <1>3, <1>4

\* A flush empties commons that owe nothing into accounts of as many points, and
\* pays only who is eligible.
LEMMA FlushEven ==
  ASSUME NEW p \in PoolRecord, NEW ts, Orderly(p)
  PROVE  LET q == RunRedistributionCycle(p, ts)
         IN  /\ Even(p, q)
             /\ \A s \in Soul \ EligibleRecipients(p, ts) : q.balances[s] = p.balances[s]
<1> DEFINE eligible == EligibleRecipients(p, ts)
           targets == ResolveRedistributionTargets(p, ts)
           routed == AllocateCommonsToChildCells(p, p.commons)
           paid == DistributeRedistribution(p, p.commons, targets)
           Fine(q) == Even(p, q) /\ \A s \in Soul \ eligible : q.balances[s] = p.balances[s]
<1>1. p.commons \in Nat
  BY ValuesOfPoints DEF Orderly
<1>2. ASSUME NEW q \in PoolRecord, Surplus(q) = Surplus(p) + p.commons,
             q.commons = p.commons, q.vouchLiens = p.vouchLiens
      PROVE  /\ Even(p, [q EXCEPT !.commons = 0])
             /\ [q EXCEPT !.commons = 0].balances = q.balances
  <2> DEFINE e == [q EXCEPT !.commons = 0]
  <2>1. /\ e.balances = q.balances /\ e.commons = 0
        /\ e.superstructureEscrow = q.superstructureEscrow
        /\ e.childCellEscrow = q.childCellEscrow
        /\ e.totalSupply = q.totalSupply /\ e.vouchLiens = q.vouchLiens
    BY DEF PoolRecord
  <2> HIDE DEF e
  <2>2. TotalPoolPoints(e) = TotalPoolPoints(q) - q.commons
    BY <2>1, AccountsInt DEF TotalPoolPoints
  <2>3. Surplus(e) = Surplus(p)
    <3>1. /\ TotalPoolPoints(q) \in Int /\ q.totalSupply \in Int
          /\ Surplus(p) \in Int /\ q.commons \in Int
      BY AccountsInt
    <3>2. /\ Surplus(q) = TotalPoolPoints(q) - q.totalSupply
          /\ Surplus(e) = TotalPoolPoints(q) - q.commons - q.totalSupply
      BY <2>1, <2>2 DEF Surplus
    <3>3. Surplus(q) = Surplus(p) + q.commons
      BY <1>2
    <3> QED BY <3>1, <3>2, <3>3
  <2> QED BY <1>2, <2>1, <2>3 DEF Even, Orderly, e
<1>3. Fine(p)
  BY SameMoneyEven DEF SameMoney
<1>4. ASSUME p.commons <= 0 PROVE Fine([p EXCEPT !.commons = 0])
  <2>1. p.commons = 0
    BY <1>1, <1>4
  <2>2. SameMoney(p, [p EXCEPT !.commons = 0])
    BY <2>1 DEF SameMoney, PoolRecord
  <2> QED BY <2>2, SameMoneyEven DEF SameMoney
<1>5. ASSUME Children(p) # {} PROVE Fine([routed EXCEPT !.commons = 0])
  <2>1. /\ Surplus(routed) = Surplus(p) + p.commons
        /\ routed.commons = p.commons /\ routed.vouchLiens = p.vouchLiens
        /\ routed.balances = p.balances
    BY <1>1, <1>5, AllocateTotal
  <2>2. routed \in PoolRecord
    BY <1>5, ValuesOfPoints, AllocateCommonsToChildCellsType
  <2> HIDE DEF routed
  <2> QED BY <1>2, <2>1, <2>2
<1>6. ASSUME p.commons > 0, DOMAIN targets # {} PROVE Fine([paid EXCEPT !.commons = 0])
  <2>1. eligible \in SUBSET Soul /\ targets \in [eligible -> Nat]
    BY RedistributionTargetsType
  <2>2. eligible # {}
    BY <1>6, <2>1
  <2>3. \E m \in eligible : targets[m] > 0
    BY <2>2, SomebodyWeighs
  <2> HIDE DEF targets, eligible
  <2>4. /\ Surplus(paid) = Surplus(p) + p.commons
        /\ paid.commons = p.commons /\ paid.vouchLiens = p.vouchLiens
        /\ \A s \in Soul \ eligible : paid.balances[s] = p.balances[s]
    BY <1>1, <1>6, <2>1, <2>2, <2>3, DistributeTotal
  <2>5. paid \in PoolRecord
    BY <1>1, <2>1, <2>3, DistributeRedistributionType
  <2> HIDE DEF paid
  <2> QED BY <1>2, <2>4, <2>5
<1> HIDE DEF Fine, targets, routed, paid
<1>7. Fine(RunRedistributionCycle(p, ts))
  <2>1. CASE p.commons <= 0
    BY <1>4, <2>1 DEF RunRedistributionCycle
  <2>2. CASE p.commons > 0 /\ Children(p) # {}
    BY <1>1, <1>5, <2>2 DEF RunRedistributionCycle, routed
  <2>3. CASE p.commons > 0 /\ Children(p) = {} /\ DOMAIN targets = {}
    BY <1>1, <1>3, <2>3 DEF RunRedistributionCycle, targets
  <2>4. CASE p.commons > 0 /\ Children(p) = {} /\ DOMAIN targets # {}
    BY <1>1, <1>6, <2>4 DEF RunRedistributionCycle, targets, paid
  <2>5. p.commons <= 0 \/ p.commons > 0
    BY <1>1
  <2> QED BY <2>1, <2>2, <2>3, <2>4, <2>5, Zenon
<1> QED BY <1>7 DEF Fine

\* What the bookkeeping of an event counts.
CountedEvent(p, author, ts) ==
  [p EXCEPT !.eventCount = @ + 1,
            !.maxEventTimestamp = Greatest(@, ts),
            !.lastActiveTimestamp[author] = ts]

\* Accrual charges, and neither pays anybody nor changes who is in standing.
LEMMA MaybeAccrueEven ==
  ASSUME NEW p \in PoolRecord, NEW ts \in Nat
  PROVE  LET q == MaybeAccrueCirculation(p, ts)
         IN  /\ Even(p, q)
             /\ \A s \in Soul : q.balances[s] <= p.balances[s]
             /\ q.members = p.members /\ q.frozen = p.frozen
             /\ q.inviters = p.inviters /\ q.vouchLiens = p.vouchLiens
             /\ q.lastActiveTimestamp = p.lastActiveTimestamp
             /\ q.lastRedistributionTimestamp = p.lastRedistributionTimestamp
<1> DEFINE elapsed == Least(ts - p.lastAccrualTimestamp, TIMESTAMP_FORWARD_SKEW)
           rate == ResolveGovernanceParameter(p, "decay_rate")
           charged == AccrueCirculation(p, rate, elapsed)
           accrued == MaybeAccrueCirculation(p, ts)
<1>1. CASE p.lastAccrualTimestamp <= 0 \/ elapsed <= 0
  <2>1. accrued = p
    BY <1>1 DEF MaybeAccrueCirculation
  <2>2. Even(p, p) /\ \A s \in Soul : p.balances[s] <= p.balances[s]
    BY SameMoneyEven, PoolFields DEF SameMoney
  <2> QED BY <2>1, <2>2
<1>2. CASE ~ (p.lastAccrualTimestamp <= 0 \/ elapsed <= 0)
  <2>1. accrued = [charged EXCEPT !.lastAccrualTimestamp = ts]
    BY <1>2 DEF MaybeAccrueCirculation
  <2>2. elapsed \in Nat
    BY <1>2, ValuesOfPoints, SizeAssumption DEF Least
  <2>3. rate \in Ratio
    BY ParameterRatio DEF GovernanceParameter
  <2>4. /\ charged.members = p.members /\ charged.frozen = p.frozen
        /\ charged.inviters = p.inviters /\ charged.vouchLiens = p.vouchLiens
        /\ charged.lastActiveTimestamp = p.lastActiveTimestamp
        /\ charged.lastRedistributionTimestamp = p.lastRedistributionTimestamp
    BY DEF AccrueCirculation, PoolRecord
  <2> HIDE DEF elapsed, rate
  <2>5. /\ charged \in PoolRecord /\ Even(p, charged)
        /\ \A s \in Soul : charged.balances[s] <= p.balances[s]
    BY <2>2, <2>3, AccrueCirculationType, AccrueEven
  <2> HIDE DEF charged, accrued
  <2>6. /\ SameMoney(charged, accrued)
        /\ accrued.members = charged.members /\ accrued.frozen = charged.frozen
        /\ accrued.inviters = charged.inviters
        /\ accrued.lastActiveTimestamp = charged.lastActiveTimestamp
        /\ accrued.lastRedistributionTimestamp = charged.lastRedistributionTimestamp
    BY <2>1, <2>5 DEF SameMoney, PoolRecord
  <2>7. Even(p, accrued)
    BY <2>5, <2>6, SameMoneyEven, EvenIsTransitive
  <2> QED BY <2>4, <2>5, <2>6, <2>7 DEF SameMoney, accrued
<1> QED BY <1>1, <1>2

\* Everything reduceOneSync does after a handler only moves points.
LEMMA CommittedEven ==
  ASSUME NEW p \in PoolRecord, NEW author \in Soul, NEW ts \in Nat, Orderly(p)
  PROVE  Even(p, Committed(p, author, ts))
<1> DEFINE counted == CountedEvent(p, author, ts)
           accrued == MaybeAccrueCirculation(counted, ts)
           flushed == RunRedistributionCycle(accrued, ts)
           settled == MaybeRedistribute(accrued, ts)
<1>1. counted \in PoolRecord
  <2>1. p.eventCount + 1 \in Nat /\ Greatest(p.maxEventTimestamp, ts) \in Nat
    BY ValuesOfPoints DEF Greatest
  <2> QED BY <2>1 DEF PoolRecord, CountedEvent
<1>2. Even(p, counted)
  <2>1. SameMoney(p, counted)
    BY DEF SameMoney, PoolRecord, CountedEvent
  <2> QED BY <2>1, SameMoneyEven
<1>3. Committed(p, author, ts) = settled
  BY DEF Committed, CountedEvent
<1> HIDE DEF counted
<1>4. accrued \in PoolRecord /\ Even(counted, accrued)
  BY <1>1, MaybeAccrueType, MaybeAccrueEven
<1> HIDE DEF accrued
<1>5. Even(p, accrued)
  BY <1>2, <1>4, EvenIsTransitive
<1>6. Orderly(accrued)
  BY <1>5 DEF Even
<1>7. flushed \in PoolRecord /\ Even(accrued, flushed)
  BY <1>4, <1>6, RunRedistributionCycleType, FlushEven
<1>8. Even(accrued, settled)
  <2>1. settled = accrued \/ \E x : settled = [flushed EXCEPT !.lastRedistributionTimestamp = x]
    BY DEF MaybeRedistribute
  <2> HIDE DEF settled, flushed
  <2>2. Even(accrued, accrued)
    BY SameMoneyEven DEF SameMoney
  <2>3. ASSUME NEW x PROVE Even(flushed, [flushed EXCEPT !.lastRedistributionTimestamp = x])
    <3>1. SameMoney(flushed, [flushed EXCEPT !.lastRedistributionTimestamp = x])
      BY <1>7 DEF SameMoney, PoolRecord
    <3> QED BY <3>1, SameMoneyEven
  <2> QED BY <1>7, <2>1, <2>2, <2>3, EvenIsTransitive
<1> HIDE DEF settled
<1> QED BY <1>3, <1>5, <1>8, EvenIsTransitive

\* Handlers that hold no points and no liens.
LEMMA RolesSameMoney ==
  ASSUME NEW p \in PoolRecord, NEW author, NEW key, NEW value, NEW row
  PROVE  /\ SameMoney(p, Founded(p, author, value, row))
         /\ SameMoney(p, Joined(p, author, key))
         /\ SameMoney(p, Reelected(p))
         /\ SameMoney(p, GovernanceMoved(p, author, key, value))
         /\ SameMoney(p, ShareMoved(p, author, key, value))
         /\ SameMoney(p, VouchMoved(p, author, key, value))
         /\ SameMoney(p, ChildHeard(p, key, row, value))
<1> USE DEF SameMoney, PoolRecord
<1>1. SameMoney(p, Founded(p, author, value, row))
  BY DEF Founded
<1>2. SameMoney(p, Joined(p, author, key))
  BY DEF Joined
<1>3. SameMoney(p, Reelected(p))
  BY DEF Reelected
<1>4. SameMoney(p, GovernanceMoved(p, author, key, value))
  BY DEF GovernanceMoved
<1>5. SameMoney(p, ShareMoved(p, author, key, value))
  BY DEF ShareMoved
<1>6. SameMoney(p, VouchMoved(p, author, key, value))
  BY DEF VouchMoved
<1>7. SameMoney(p, ChildHeard(p, key, row, value))
  BY DEF ChildHeard
<1> QED BY <1>1, <1>2, <1>3, <1>4, <1>5, <1>6, <1>7

\* Proposals, mailboxes and links hold no points either.
LEMMA PapersSameMoney ==
  ASSUME NEW p \in PoolRecord
  PROVE  /\ \A x : /\ SameMoney(p, [p EXCEPT !.proposals = x])
                   /\ SameMoney(p, [p EXCEPT !.communityRelayAuthors = x])
                   /\ SameMoney(p, [p EXCEPT !.frozen = x])
                   /\ SameMoney(p, [p EXCEPT !.pendingInvites = x])
         /\ \A author, cell, conform, row :
               SameMoney(p, JoinedSuperstructure(p, author, cell, conform, row))
         /\ \A cell : SameMoney(p, LeftSuperstructure(p, cell))
         /\ \A cell, population, bridge :
               SameMoney(p, LinkedSubcell(p, cell, population, bridge))
<1> USE DEF SameMoney, PoolRecord
<1>1. ASSUME NEW x
      PROVE  /\ SameMoney(p, [p EXCEPT !.proposals = x])
             /\ SameMoney(p, [p EXCEPT !.communityRelayAuthors = x])
             /\ SameMoney(p, [p EXCEPT !.frozen = x])
             /\ SameMoney(p, [p EXCEPT !.pendingInvites = x])
  OBVIOUS
<1>2. ASSUME NEW author, NEW cell, NEW conform, NEW row
      PROVE  SameMoney(p, JoinedSuperstructure(p, author, cell, conform, row))
  BY DEF JoinedSuperstructure
<1>3. ASSUME NEW cell PROVE SameMoney(p, LeftSuperstructure(p, cell))
  BY DEF LeftSuperstructure
<1>4. ASSUME NEW cell, NEW population, NEW bridge
      PROVE  SameMoney(p, LinkedSubcell(p, cell, population, bridge))
  BY DEF LinkedSubcell
<1> QED BY <1>1, <1>2, <1>3, <1>4

\* A Pool with one balance changed.
LEMMA BalanceChanged ==
  ASSUME NEW p \in PoolRecord, NEW s \in Soul, NEW v \in Int
  PROVE  LET q == [p EXCEPT !.balances[s] = v]
         IN  /\ q \in PoolRecord
             /\ Surplus(q) = Surplus(p) + (v - p.balances[s])
             /\ Orderly(p) => Orderly(q)
             /\ q.balances = [p.balances EXCEPT ![s] = v]
             /\ q.totalSupply = p.totalSupply
<1> DEFINE q == [p EXCEPT !.balances[s] = v]
           changed == [p.balances EXCEPT ![s] = v]
<1>1. q \in PoolRecord
  BY DEF PoolRecord
<1>2. /\ q.balances = changed /\ q.commons = p.commons
      /\ q.superstructureEscrow = p.superstructureEscrow
      /\ q.childCellEscrow = p.childCellEscrow
      /\ q.totalSupply = p.totalSupply /\ q.vouchLiens = p.vouchLiens
  BY DEF PoolRecord
<1> HIDE DEF q
<1>3. Sum(changed, N) = Sum(p.balances, N) + (v - p.balances[s])
  <2>1. p.balances \in [1 .. N -> Int] /\ s \in 1 .. N /\ N \in Nat
    BY AccountsInt, SizeAssumption DEF Soul
  <2> QED BY <2>1, SumUpdate
<1>4. p.balances[s] \in Int
  BY PoolFields
<1> HIDE DEF changed
<1>5. TotalPoolPoints(q) = TotalPoolPoints(p) + (v - p.balances[s])
  <2>1. /\ Sum(p.balances, N) \in Int /\ p.commons \in Int
        /\ Sum(p.superstructureEscrow, M) \in Int /\ Sum(p.childCellEscrow, M) \in Int
    BY AccountsInt
  <2>2. /\ TotalPoolPoints(p) = Sum(p.balances, N) + p.commons
                                  + Sum(p.superstructureEscrow, M) + Sum(p.childCellEscrow, M)
        /\ TotalPoolPoints(q) = Sum(changed, N) + p.commons
                                  + Sum(p.superstructureEscrow, M) + Sum(p.childCellEscrow, M)
    BY <1>2, Zenon DEF TotalPoolPoints
  <2> QED BY <1>3, <1>4, <2>1, <2>2
<1>6. Surplus(q) = Surplus(p) + (v - p.balances[s])
  BY <1>2, <1>4, <1>5, AccountsInt DEF Surplus
<1> QED BY <1>1, <1>2, <1>6 DEF Orderly, q, changed

\* A transfer takes from one what it gives to the other.
LEMMA TransferEven ==
  ASSUME NEW p \in PoolRecord, NEW from \in Soul, NEW to \in Soul, NEW amount \in Nat
  PROVE  Even(p, TransferPoints(p, from, to, amount))
<1> DEFINE left == p.balances[from] - amount
           debited == [p EXCEPT !.balances[from] = left]
           got == debited.balances[to] + amount
           credited == [debited EXCEPT !.balances[to] = got]
<1>1. p.balances[from] \in Int /\ left \in Int /\ left - p.balances[from] = 0 - amount
  <2>1. p.balances[from] \in Int
    BY PoolFields
  <2> QED BY <2>1
<1>2. /\ TransferPoints(p, from, to, amount) \in
           {p, [p EXCEPT !.frozen = p.frozen \cup {from}], credited}
  BY DEF TransferPoints
<1> HIDE DEF left
<1>3. /\ debited \in PoolRecord /\ Surplus(debited) = Surplus(p) + (left - p.balances[from])
      /\ Orderly(p) => Orderly(debited)
  BY <1>1, BalanceChanged
<1> HIDE DEF debited
<1>4. /\ debited.balances[to] \in Int /\ got \in Int
      /\ got - debited.balances[to] = amount
  <2>1. debited.balances[to] \in Int
    BY <1>3, PoolFields
  <2> QED BY <2>1
<1> HIDE DEF got
<1>5. /\ Surplus(credited) = Surplus(debited) + (got - debited.balances[to])
      /\ Orderly(debited) => Orderly(credited)
  BY <1>3, <1>4, BalanceChanged
<1> HIDE DEF credited
<1>6. Surplus(credited) = Surplus(p)
  <2>1. Surplus(p) \in Int
    BY AccountsInt
  <2> QED BY <1>1, <1>3, <1>4, <1>5, <2>1
<1>7. Even(p, credited)
  BY <1>3, <1>5, <1>6 DEF Even
<1>8. Even(p, p)
  BY SameMoneyEven DEF SameMoney
<1>9. Even(p, [p EXCEPT !.frozen = p.frozen \cup {from}])
  BY SameMoneyEven, PapersSameMoney
<1> QED BY <1>2, <1>7, <1>8, <1>9

\* What is minted is in an account and in the supply.
LEMMA MintEven ==
  ASSUME NEW p \in PoolRecord, NEW to \in Soul, NEW amount \in Nat
  PROVE  Even(p, MintPoints(p, to, amount))
<1> DEFINE got == p.balances[to] + amount
           credited == [p EXCEPT !.balances[to] = got]
           q == MintPoints(p, to, amount)
<1>1. p.balances[to] \in Int /\ got \in Int /\ got - p.balances[to] = amount
  <2>1. p.balances[to] \in Int
    BY PoolFields
  <2> QED BY <2>1
<1>2. /\ credited \in PoolRecord /\ Surplus(credited) = Surplus(p) + amount
      /\ Orderly(p) => Orderly(credited)
  <2> HIDE DEF got
  <2> QED BY <1>1, BalanceChanged
<1>3. /\ q.balances = credited.balances /\ q.commons = credited.commons
      /\ q.superstructureEscrow = credited.superstructureEscrow
      /\ q.childCellEscrow = credited.childCellEscrow
      /\ q.vouchLiens = credited.vouchLiens
      /\ q.totalSupply = credited.totalSupply + amount
  BY DEF MintPoints, PoolRecord
<1> HIDE DEF credited, q
<1>4. TotalPoolPoints(q) = TotalPoolPoints(credited)
  BY <1>3 DEF TotalPoolPoints
<1>5. Surplus(q) = Surplus(credited) - amount
  BY <1>2, <1>3, <1>4, AccountsInt DEF Surplus
<1>6. Surplus(q) = Surplus(p)
  BY <1>2, <1>5, AccountsInt
<1> QED BY <1>2, <1>3, <1>6 DEF Even, Orderly, q

\* What a release pays leaves the escrow it is paid from.
LEMMA PaidTotal ==
  ASSUME NEW p \in PoolRecord, NEW cell \in Cell, NEW amount \in Nat
  PROVE  LET q == Paid(p, cell, amount)
         IN  /\ Surplus(q) = Surplus(p) - amount
             /\ Orderly(p) => Orderly(q)
<1> DEFINE parent == [p EXCEPT !.superstructureEscrow[cell] = @ - amount]
           child == [p EXCEPT !.childCellEscrow[cell] = @ - amount]
           parents == [p.superstructureEscrow EXCEPT ![cell] = p.superstructureEscrow[cell] - amount]
           children == [p.childCellEscrow EXCEPT ![cell] = p.childCellEscrow[cell] - amount]
<1>1. /\ p.superstructureEscrow \in [1 .. M -> Int] /\ p.childCellEscrow \in [1 .. M -> Int]
      /\ cell \in 1 .. M /\ M \in Nat
      /\ p.superstructureEscrow[cell] \in Int /\ p.childCellEscrow[cell] \in Int
      /\ p.superstructureEscrow[cell] - amount \in Int /\ p.childCellEscrow[cell] - amount \in Int
  BY AccountsInt, ValuesOfPoints, SizeAssumption DEF Cell
<1>2. /\ Sum(parents, M) = Sum(p.superstructureEscrow, M)
                             + (p.superstructureEscrow[cell] - amount - p.superstructureEscrow[cell])
      /\ Sum(children, M) = Sum(p.childCellEscrow, M)
                              + (p.childCellEscrow[cell] - amount - p.childCellEscrow[cell])
  BY <1>1, SumUpdate
<1>3. /\ parent.superstructureEscrow = parents /\ parent.childCellEscrow = p.childCellEscrow
      /\ child.superstructureEscrow = p.superstructureEscrow /\ child.childCellEscrow = children
      /\ parent.balances = p.balances /\ child.balances = p.balances
      /\ parent.commons = p.commons /\ child.commons = p.commons
      /\ parent.totalSupply = p.totalSupply /\ child.totalSupply = p.totalSupply
      /\ parent.vouchLiens = p.vouchLiens /\ child.vouchLiens = p.vouchLiens
  BY DEF PoolRecord
<1> HIDE DEF parent, child, parents, children
<1>4. /\ Surplus(p) = (Sum(p.balances, N) + p.commons + Sum(p.superstructureEscrow, M)
                        + Sum(p.childCellEscrow, M)) - p.totalSupply
      /\ Surplus(parent) = (Sum(p.balances, N) + p.commons + Sum(parents, M)
                             + Sum(p.childCellEscrow, M)) - p.totalSupply
      /\ Surplus(child) = (Sum(p.balances, N) + p.commons + Sum(p.superstructureEscrow, M)
                            + Sum(children, M)) - p.totalSupply
  BY <1>3 DEF TotalPoolPoints, Surplus
<1>5. Surplus(parent) = Surplus(p) - amount /\ Surplus(child) = Surplus(p) - amount
  <2>1. /\ Sum(p.balances, N) \in Int /\ p.commons \in Int /\ p.totalSupply \in Int
        /\ Sum(p.superstructureEscrow, M) \in Int /\ Sum(p.childCellEscrow, M) \in Int
    BY AccountsInt
  <2>2. p.superstructureEscrow[cell] \in Int /\ p.childCellEscrow[cell] \in Int
    BY <1>1
  <2> QED BY <1>2, <1>4, <2>1, <2>2
<1>6. Paid(p, cell, amount) \in {parent, child}
  BY DEF Paid, parent, child
<1> QED BY <1>3, <1>5, <1>6 DEF Orderly

\* Invitations take no points; what is withdrawn takes its lien with it.
LEMMA CancelledEven ==
  ASSUME NEW p \in PoolRecord, NEW invitee \in Soul
  PROVE  Even(p, Cancelled(p, invitee))
<1> DEFINE q == Cancelled(p, invitee)
<1>1. /\ q.balances = p.balances /\ q.commons = p.commons
      /\ q.superstructureEscrow = p.superstructureEscrow
      /\ q.childCellEscrow = p.childCellEscrow
      /\ q.totalSupply = p.totalSupply
  BY DEF Cancelled, CloseAdmission, ReleaseVouchLien, PoolRecord
<1>2. q.vouchLiens = [p.vouchLiens EXCEPT ![invitee] = NoLien]
  BY CancelledModerate
<1> HIDE DEF q
<1>3. \A s \in Soul : q.vouchLiens[s] \in {p.vouchLiens[s], NoLien}
  BY <1>2, PoolFields
<1>4. \A s \in Soul : NoLien.inviter # s
  BY SizeAssumption DEF NoLien, None, Soul
<1>5. Orderly(p) => Orderly(q)
  BY <1>1, <1>3, <1>4 DEF Orderly
<1> QED BY <1>1, <1>5 DEF Even, Surplus, TotalPoolPoints, q

\* Nobody can vouch for himself: who is invited is no member, who invites is.
LEMMA InvitedEven ==
  ASSUME NEW p \in PoolRecord, NEW author \in Soul, NEW invitee \in Soul, NEW row,
         author # invitee
  PROVE  Even(p, Invited(p, author, invitee, row))
<1> DEFINE q == Invited(p, author, invitee, row)
           lien == [inviter |-> author, amount |-> RequiredVouchLien(p, author)]
<1>1. /\ q.balances = p.balances /\ q.commons = p.commons
      /\ q.superstructureEscrow = p.superstructureEscrow
      /\ q.childCellEscrow = p.childCellEscrow
      /\ q.totalSupply = p.totalSupply
      /\ q.vouchLiens = [p.vouchLiens EXCEPT ![invitee] = lien]
  BY DEF Invited, PlaceVouchLien, PoolRecord
<1>2. lien.inviter = author
  OBVIOUS
<1> HIDE DEF q, lien
<1>3. Orderly(p) => Orderly(q)
  BY <1>1, <1>2, PoolFields DEF Orderly
<1> QED BY <1>1, <1>3 DEF Even, Surplus, TotalPoolPoints, q

\* No Share is overdrawn.
Solvent(p) == \A s \in Soul : p.balances[s] >= 0

\* A Pool with one parent's escrow or with its commons raised.
LEMMA EscrowRaised ==
  ASSUME NEW p \in PoolRecord, NEW v \in Nat
  PROVE  /\ \A cell \in Cell :
              LET q == [p EXCEPT !.superstructureEscrow[cell] = @ + v]
              IN  /\ Surplus(q) = Surplus(p) + v /\ q.commons = p.commons
                  /\ q.vouchLiens = p.vouchLiens
         /\ LET q == [p EXCEPT !.commons = @ + v]
            IN  /\ Surplus(q) = Surplus(p) + v /\ q.commons = p.commons + v
                /\ q.vouchLiens = p.vouchLiens
<1>1. /\ Sum(p.balances, N) \in Int /\ p.commons \in Int /\ p.totalSupply \in Int
      /\ Sum(p.superstructureEscrow, M) \in Int /\ Sum(p.childCellEscrow, M) \in Int
  BY AccountsInt
<1>2. Surplus(p) = (Sum(p.balances, N) + p.commons + Sum(p.superstructureEscrow, M)
                      + Sum(p.childCellEscrow, M)) - p.totalSupply
  BY DEF TotalPoolPoints, Surplus
<1>3. ASSUME NEW cell \in Cell
      PROVE  LET q == [p EXCEPT !.superstructureEscrow[cell] = @ + v]
             IN  /\ Surplus(q) = Surplus(p) + v /\ q.commons = p.commons
                 /\ q.vouchLiens = p.vouchLiens
  <2> DEFINE raised == p.superstructureEscrow[cell] + v
             escrow == [p.superstructureEscrow EXCEPT ![cell] = raised]
             q == [p EXCEPT !.superstructureEscrow[cell] = @ + v]
  <2>1. p.superstructureEscrow[cell] \in Int /\ raised \in Int
    BY ValuesOfPoints
  <2>2. Sum(escrow, M) = Sum(p.superstructureEscrow, M) + (raised - p.superstructureEscrow[cell])
    <3> HIDE DEF raised
    <3>1. /\ p.superstructureEscrow \in [1 .. M -> Int] /\ cell \in 1 .. M /\ M \in Nat
      BY AccountsInt, SizeAssumption DEF Cell
    <3> QED BY <2>1, <3>1, SumUpdate
  <2>3. /\ q.balances = p.balances /\ q.superstructureEscrow = escrow
        /\ q.childCellEscrow = p.childCellEscrow
        /\ q.totalSupply = p.totalSupply /\ q.commons = p.commons
        /\ q.vouchLiens = p.vouchLiens
    BY DEF PoolRecord
  <2> HIDE DEF q, escrow
  <2>4. Surplus(q) = (Sum(p.balances, N) + p.commons + Sum(escrow, M)
                        + Sum(p.childCellEscrow, M)) - p.totalSupply
    BY <2>3 DEF TotalPoolPoints, Surplus
  <2>5. Surplus(q) = Surplus(p) + v
    BY <1>1, <1>2, <2>1, <2>2, <2>4
  <2> QED BY <2>3, <2>5 DEF q
<1>4. LET q == [p EXCEPT !.commons = @ + v]
      IN  /\ Surplus(q) = Surplus(p) + v /\ q.commons = p.commons + v
          /\ q.vouchLiens = p.vouchLiens
  <2> DEFINE q == [p EXCEPT !.commons = @ + v]
  <2>3. /\ q.balances = p.balances /\ q.superstructureEscrow = p.superstructureEscrow
        /\ q.childCellEscrow = p.childCellEscrow
        /\ q.totalSupply = p.totalSupply /\ q.commons = p.commons + v
        /\ q.vouchLiens = p.vouchLiens
    BY DEF PoolRecord
  <2> HIDE DEF q
  <2>4. Surplus(q) = (Sum(p.balances, N) + (p.commons + v) + Sum(p.superstructureEscrow, M)
                        + Sum(p.childCellEscrow, M)) - p.totalSupply
    BY <2>3 DEF TotalPoolPoints, Surplus
  <2>5. Surplus(q) = Surplus(p) + v
    BY <1>1, <1>2, <2>4
  <2> QED BY <2>3, <2>5 DEF q
<1> QED BY <1>3, <1>4

\* What was severed is paid out whole.
LEMMA SettledTotal ==
  ASSUME NEW p \in PoolRecord, NEW pot \in Int
  PROVE  LET q == Settled(p, pot)
         IN  /\ Surplus(q) = Surplus(p) + (IF pot <= 0 THEN 0 ELSE pot)
             /\ q.commons >= p.commons
             /\ q.vouchLiens = p.vouchLiens
<1> DEFINE q == Settled(p, pot)
<1>1. p.commons \in Int /\ Surplus(p) \in Int
  BY AccountsInt
<1>2. CASE pot <= 0
  <2>1. q = p
    BY <1>2 DEF Settled
  <2> QED BY <1>1, <1>2, <2>1
<1>3. CASE pot > 0 /\ Parents(p) # {}
  <2> DEFINE parent == LastOf(p.parentSuperstructures, Parents(p))
  <2>1. parent \in Cell
    BY <1>3, PoolFields, SubsetsOfKeys, LastOfIn, SizeAssumption DEF Cell
  <2>2. q = [p EXCEPT !.superstructureEscrow[parent] = @ + pot]
    BY <1>3 DEF Settled
  <2> HIDE DEF parent, q
  <2>3. pot \in Nat
    BY <1>3
  <2>4. Surplus(q) = Surplus(p) + pot /\ q.commons = p.commons /\ q.vouchLiens = p.vouchLiens
    BY <2>1, <2>2, <2>3, EscrowRaised
  <2> QED BY <1>1, <1>3, <2>4 DEF q
<1>4. CASE pot > 0 /\ Parents(p) = {} /\ Members(p) # {}
  <2> DEFINE members == Members(p)
             weights == [m \in members |-> 1]
  <2>1. q = DistributeRedistribution(p, pot, weights)
    BY <1>4 DEF Settled
  <2>2. members \in SUBSET Soul /\ members # {}
    BY <1>4, SubsetsOfKeys
  <2> HIDE DEF members
  <2>3. weights \in [members -> Nat] /\ \E m \in members : weights[m] > 0
    BY <2>2
  <2>4. pot \in Nat /\ pot > 0
    BY <1>4
  <2> HIDE DEF weights, q
  <2>5. Surplus(q) = Surplus(p) + pot /\ q.commons = p.commons /\ q.vouchLiens = p.vouchLiens
    BY <2>1, <2>2, <2>3, <2>4, DistributeTotal
  <2> QED BY <1>1, <1>4, <2>5 DEF q
<1>5. CASE pot > 0 /\ Parents(p) = {} /\ Members(p) = {}
  <2>1. q = [p EXCEPT !.commons = @ + pot]
    BY <1>5 DEF Settled
  <2>2. pot \in Nat
    BY <1>5
  <2> HIDE DEF q
  <2>3. /\ Surplus(q) = Surplus(p) + pot /\ q.commons = p.commons + pot
        /\ q.vouchLiens = p.vouchLiens
    BY <2>1, <2>2, EscrowRaised
  <2> QED BY <1>1, <1>5, <2>3 DEF q
<1> QED BY <1>2, <1>3, <1>4, <1>5

\* An expulsion keeps the Pool orderly, and severs no more from the souls than
\* it pays out if no Share is overdrawn.
LEMMA ExpelledEven ==
  ASSUME NEW p \in PoolRecord, NEW target \in Soul, Orderly(p)
  PROVE  LET q == Expelled(p, target)
         IN  Orderly(q) /\ (Solvent(p) => Surplus(q) = Surplus(p))
<1> SUFFICES ASSUME target \in Members(p)
             PROVE  LET q == Expelled(p, target)
                    IN  Orderly(q) /\ (Solvent(p) => Surplus(q) = Surplus(p))
  BY DEF Expelled
<1> DEFINE lien == p.vouchLiens[target]
           inviter == lien.inviter
           forfeit == Forfeited(p, target)
           severed == Severed(p, target)
           backed == ForgetBacking(severed, target)
           muted == ForgetSliders(backed, target)
           forgotten == ForgetStanding(muted, target)
           pot == p.balances[target] + forfeit
           settled == Settled(forgotten, pot)
           left == [s \in Soul |->
                      IF s = target THEN 0
                      ELSE IF s = p.vouchLiens[target].inviter
                      THEN p.balances[s] - Greatest(Forfeited(p, target), 0)
                      ELSE p.balances[s]]
<1>1. Expelled(p, target) = IF settled.head = target THEN Reelected(settled) ELSE settled
  BY DEF Expelled
<1>2. severed \in PoolRecord /\ forfeit \in Int /\ pot \in Int /\ p.balances[target] \in Int
  BY SeveredType, PoolFields
<1>3. forgotten \in PoolRecord
  <2>1. backed \in PoolRecord
    BY <1>2, ForgottenType
  <2>2. muted \in PoolRecord
    BY <2>1, ForgottenType
  <2> QED BY <2>2, ForgottenType
<1>4. /\ forgotten.balances = left /\ forgotten.commons = p.commons
      /\ forgotten.superstructureEscrow = p.superstructureEscrow
      /\ forgotten.childCellEscrow = p.childCellEscrow
      /\ forgotten.totalSupply = p.totalSupply
      /\ forgotten.vouchLiens = [p.vouchLiens EXCEPT ![target] = NoLien]
  <2>1. /\ severed.balances = left /\ severed.commons = p.commons
        /\ severed.superstructureEscrow = p.superstructureEscrow
        /\ severed.childCellEscrow = p.childCellEscrow
        /\ severed.totalSupply = p.totalSupply /\ severed.vouchLiens = p.vouchLiens
    BY DEF Severed, PoolRecord
  <2>2. /\ backed.balances = severed.balances /\ backed.commons = severed.commons
        /\ backed.superstructureEscrow = severed.superstructureEscrow
        /\ backed.childCellEscrow = severed.childCellEscrow
        /\ backed.totalSupply = severed.totalSupply
        /\ backed.vouchLiens = [severed.vouchLiens EXCEPT ![target] = NoLien]
    <3> HIDE DEF severed
    <3> QED BY <1>2 DEF ForgetBacking, PoolRecord
  <2>3. SameMoney(backed, muted)
    <3>1. backed \in PoolRecord
      BY <1>2, ForgottenType
    <3> HIDE DEF backed
    <3> QED BY <3>1 DEF ForgetSliders, SameMoney, PoolRecord
  <2>4. SameMoney(muted, forgotten)
    <3>1. muted \in PoolRecord
      BY <1>2, ForgottenType
    <3> HIDE DEF muted
    <3> QED BY <3>1 DEF ForgetStanding, SameMoney, PoolRecord
  <2> HIDE DEF severed, backed, muted, forgotten, left
  <2> QED BY <2>1, <2>2, <2>3, <2>4 DEF SameMoney
<1> HIDE DEF severed, backed, muted, forgotten, left
<1>5. settled \in PoolRecord
  BY <1>2, <1>3, SettledType
<1>6. /\ Surplus(settled) = Surplus(forgotten) + (IF pot <= 0 THEN 0 ELSE pot)
      /\ settled.commons >= p.commons
      /\ settled.vouchLiens = [p.vouchLiens EXCEPT ![target] = NoLien]
  <2> HIDE DEF pot
  <2> QED BY <1>2, <1>3, <1>4, SettledTotal
<1> HIDE DEF settled
<1>7. Orderly(settled)
  <2>1. \A s \in Soul : NoLien.inviter # s
    BY SizeAssumption DEF NoLien, None, Soul
  <2>2. p.commons >= 0 /\ p.commons \in Int /\ settled.commons \in Int
    BY <1>5, AccountsInt DEF Orderly
  <2>3. settled.commons >= 0
    BY <1>6, <2>2
  <2>4. \A s \in Soul : settled.vouchLiens[s].inviter # s
    BY <1>6, <2>1, PoolFields DEF Orderly
  <2> QED BY <2>3, <2>4 DEF Orderly
<1>8. ASSUME Solvent(p) PROVE Surplus(settled) = Surplus(p)
  <2> DEFINE own == p.balances[target]
             cleared == [p.balances EXCEPT ![target] = 0]
  <2>1. /\ p.balances \in [1 .. N -> Int] /\ target \in 1 .. N /\ N \in Nat
        /\ own \in Int /\ own >= 0 /\ cleared \in [1 .. N -> Int]
    BY <1>8, AccountsInt, SizeAssumption DEF Soul, Solvent
  <2>2. Sum(cleared, N) = Sum(p.balances, N) + (0 - own)
    BY <2>1, SumUpdate
  <2>3. Sum(left, N) = Sum(p.balances, N) + (0 - (own + forfeit)) /\ forfeit >= 0
    <3>1. CASE lien = NoLien
      <4>1. inviter = None /\ forfeit = 0 /\ None \notin Soul
        BY <3>1, SizeAssumption DEF Forfeited, NoLien, None, Soul
      <4>2. left = [s \in Soul |-> IF s = target THEN 0 ELSE p.balances[s]]
        BY <4>1 DEF left
      <4>3. left = cleared
        BY <2>1, <4>2 DEF Soul
      <4> HIDE DEF left, cleared, own, forfeit
      <4>4. Sum(p.balances, N) \in Int
        BY AccountsInt
      <4> QED BY <2>1, <2>2, <4>1, <4>3, <4>4
    <3>2. CASE lien # NoLien
      <4>1. lien \in VouchLien /\ inviter \in Soul /\ lien.amount \in Nat
        BY <3>2, PoolFields DEF VouchLien
      <4>2. inviter # target
        BY DEF Orderly
      <4>3. p.balances[inviter] \in Int /\ p.balances[inviter] >= 0
        BY <1>8, <4>1, PoolFields DEF Solvent
      <4>4. forfeit \in Nat
        BY <3>2, <4>1, <4>3 DEF Forfeited, Least
      <4> DEFINE less == p.balances[inviter] - forfeit
      <4>5. Greatest(forfeit, 0) = forfeit
        BY <4>4 DEF Greatest
      <4>6. left = [s \in Soul |-> IF s = target THEN 0
                                   ELSE IF s = inviter THEN p.balances[inviter] - forfeit
                                   ELSE p.balances[s]]
        BY <4>5 DEF left
      <4>7. less \in Int /\ cleared[inviter] = p.balances[inviter] /\ inviter \in 1 .. N
        BY <2>1, <4>1, <4>2, <4>3, <4>4 DEF Soul
      <4> HIDE DEF forfeit
      <4>8. left = [cleared EXCEPT ![inviter] = less]
        <5> HIDE DEF lien
        <5> QED BY <2>1, <4>2, <4>6 DEF Soul
      <4> HIDE DEF less, left, cleared, inviter, own
      <4>9. Sum(left, N) = Sum(cleared, N) + (less - cleared[inviter])
        <5>1. Sum([cleared EXCEPT ![inviter] = less], N)
                 = Sum(cleared, N) + (less - cleared[inviter])
          BY <2>1, <4>7, SumUpdate
        <5> QED BY <4>8, <5>1, Zenon
      <4>10. less - cleared[inviter] = 0 - forfeit
        BY <4>3, <4>4, <4>7 DEF less
      <4>11. Sum(p.balances, N) \in Int
        BY AccountsInt
      <4> QED BY <2>1, <2>2, <4>4, <4>9, <4>10, <4>11
    <3> QED BY <3>1, <3>2
  <2> HIDE DEF own, forfeit, cleared, lien, inviter
  <2>4. /\ Surplus(p) = (Sum(p.balances, N) + p.commons + Sum(p.superstructureEscrow, M)
                           + Sum(p.childCellEscrow, M)) - p.totalSupply
        /\ Surplus(forgotten) = (Sum(left, N) + p.commons + Sum(p.superstructureEscrow, M)
                                   + Sum(p.childCellEscrow, M)) - p.totalSupply
    BY <1>4 DEF TotalPoolPoints, Surplus
  <2>5. /\ Sum(p.balances, N) \in Int /\ p.commons \in Int /\ p.totalSupply \in Int
        /\ Sum(p.superstructureEscrow, M) \in Int /\ Sum(p.childCellEscrow, M) \in Int
    BY AccountsInt
  <2>6. pot = own + forfeit /\ forfeit \in Int
    BY <1>2 DEF own
  <2> HIDE DEF pot
  <2>7. Surplus(forgotten) = Surplus(p) + (0 - pot) /\ pot >= 0
    BY <2>1, <2>3, <2>4, <2>5, <2>6
  <2> QED BY <1>2, <1>6, <2>7, AccountsInt
<1>9. SameMoney(settled, Reelected(settled))
  BY <1>5, RolesSameMoney
<1>10. Even(settled, Reelected(settled))
  BY <1>9, SameMoneyEven
<1> QED BY <1>1, <1>7, <1>8, <1>10 DEF Even

\* Points only move, if no Share is overdrawn, and what is orderly stays so.
Conserves(p, q) == Orderly(q) /\ (Solvent(p) => Surplus(q) = Surplus(p))

\* What a proposal does creates and loses no point.
LEMMA EffectConserves ==
  ASSUME NEW p \in PoolRecord, NEW q \in ProposalState, Orderly(p)
  PROVE  Conserves(p, Effect(p, q.motion, q.author))
<1> DEFINE motion == q.motion
           effect == Effect(p, motion, q.author)
<1>1. CASE motion.kind = "expel_member"
  <2>1. motion.target \in Soul
    BY <1>1, ProposalFields DEF SoulKind
  <2>2. effect = Expelled(p, motion.target)
    BY <1>1 DEF Effect
  <2> HIDE DEF effect, motion
  <2> QED BY <2>1, <2>2, ExpelledEven DEF effect, motion, Conserves
<1>2. CASE motion.kind # "expel_member"
  <2>1. motion.kind \in ProposalKind \cup {"none"}
    BY ProposalFields DEF Motion
  <2>2. \/ effect = p
        \/ \E x : effect = [p EXCEPT !.pendingInvites = x]
        \/ \E x : effect = [p EXCEPT !.frozen = x]
        \/ effect = JoinedSuperstructure(p, q.author, motion.target, motion.conform,
                                         motion.parameters)
        \/ effect = LeftSuperstructure(p, motion.target)
        \/ effect = LinkedSubcell(p, motion.target, motion.population, motion.bridge)
    BY <1>2, <2>1 DEF Effect, ProposalKind, PoolRecord
  <2> HIDE DEF effect, motion
  <2>3. SameMoney(p, effect)
    <3>1. SameMoney(p, p)
      BY DEF SameMoney
    <3>2. /\ \A x : SameMoney(p, [p EXCEPT !.pendingInvites = x])
          /\ \A x : SameMoney(p, [p EXCEPT !.frozen = x])
      BY PapersSameMoney
    <3>3. /\ SameMoney(p, JoinedSuperstructure(p, q.author, motion.target, motion.conform,
                                              motion.parameters))
          /\ SameMoney(p, LeftSuperstructure(p, motion.target))
          /\ SameMoney(p, LinkedSubcell(p, motion.target, motion.population, motion.bridge))
      BY PapersSameMoney
    <3> QED BY <2>2, <3>1, <3>2, <3>3
  <2> QED BY <2>3, SameMoneyEven DEF Even, Conserves, effect, motion
<1> QED BY <1>1, <1>2

\* Setting one proposal moves no point.
LEMMA SetProposalSameMoney ==
  ASSUME NEW p \in PoolRecord, NEW id, NEW proposal
  PROVE  SameMoney(p, [p EXCEPT !.proposals[id] = proposal])
BY DEF SameMoney, PoolRecord

\* Executing a proposal conserves the points.
LEMMA TryExecuteConserves ==
  ASSUME NEW p \in PoolRecord, NEW id \in ProposalId, Orderly(p)
  PROVE  Conserves(p, TryExecuteProposal(p, id))
<1> DEFINE effect == Effect(p, p.proposals[id].motion, p.proposals[id].author)
           decided == [effect.proposals[id] EXCEPT !.executed = TRUE, !.closed = TRUE]
<1>1. p.proposals[id] \in ProposalState
  BY MarkedProposalType
<1>2. effect \in PoolRecord /\ Conserves(p, effect)
  BY <1>1, EffectType, EffectConserves
<1>3. TryExecuteProposal(p, id) = IF ~ Approved(p, p.proposals[id]) THEN p
        ELSE [effect EXCEPT !.proposals[id] = decided]
  BY DEF TryExecuteProposal
<1> HIDE DEF effect, decided
<1>4. Even(effect, [effect EXCEPT !.proposals[id] = decided])
  BY <1>2, SetProposalSameMoney, SameMoneyEven
<1> QED BY <1>2, <1>3, <1>4 DEF Conserves, Even

-----------------------------------------------------------------------------
(* No event creates or loses a point.                                      *)

\* The commons stay free of debt, nobody comes to vouch for himself, and what
\* there is beyond the supply is what bridges did not send out.
Accounted ==
  /\ Orderly(pool')
  /\ Solvent(pool) => Surplus(pool') + released' = Surplus(pool) + released

\* A step that commits a Pool whose handler conserved the points.
LEMMA CommitAccounted ==
  ASSUME NEW p \in PoolRecord, NEW author \in Soul, NEW ts \in Timestamps,
         Conserves(pool, p), Commit(p, author, ts)
  PROVE  Accounted
<1>1. Even(p, pool') /\ released' = released
  BY CommittedEven, InputAssumption DEF Commit, Conserves
<1> QED BY <1>1 DEF Even, Accounted, Conserves

\* A step that commits a Pool whose handler moved points only.
LEMMA CommitEven ==
  ASSUME NEW p \in PoolRecord, NEW author \in Soul, NEW ts \in Timestamps,
         Orderly(pool), Even(pool, p), Commit(p, author, ts)
  PROVE  Accounted
<1>1. Conserves(pool, p)
  BY DEF Even, Conserves
<1> QED BY <1>1, CommitAccounted

\* genesis, invite, cancel_invite and accept_invite.
LEMMA AdmissionAccounted ==
  ASSUME TypeOK, Orderly(pool), NEW author \in Soul, NEW ts \in Timestamps,
         AdmissionStep(author, ts)
  PROVE  Accounted
<1>1. pool \in PoolRecord /\ ts \in Nat \ {0}
  BY InputAssumption DEF TypeOK
<1>2. ASSUME NEW points \in InitialPoints, NEW row \in Rows, Genesis(author, ts, points, row)
      PROVE  Accounted
  <2> DEFINE founded == Founded(pool, author, ts, row)
             funded == MintPoints(founded, author, points)
  <2>1. founded \in PoolRecord /\ points \in Nat
    BY <1>1, FoundedType, InputAssumption
  <2>2. Even(pool, founded)
    BY <1>1, RolesSameMoney, SameMoneyEven
  <2>3. Commit(funded, author, ts)
    BY <1>2 DEF Genesis
  <2> HIDE DEF founded
  <2>4. Even(founded, funded) /\ funded \in PoolRecord
    BY <2>1, MintEven, MintPointsType
  <2> HIDE DEF funded
  <2>5. Even(pool, funded)
    BY <2>2, <2>4, EvenIsTransitive
  <2> QED BY <2>3, <2>4, <2>5, CommitEven
<1>3. ASSUME NEW invitee \in Invitees, NEW row \in Rows, Invite(author, ts, invitee, row)
      PROVE  Accounted
  <2> DEFINE p == Withdrawn(pool, invitee)
             q == Invited(p, author, invitee, row)
  <2>1. invitee \in Soul /\ row \in Row
    BY InputAssumption
  <2>2. p \in PoolRecord
    BY <1>1, <2>1, CancelledType
  <2>3. Even(pool, p)
    <3>1. Even(pool, Cancelled(pool, invitee))
      BY <1>1, <2>1, CancelledEven
    <3>2. Even(pool, pool)
      BY SameMoneyEven DEF SameMoney
    <3> QED BY <3>1, <3>2 DEF Withdrawn
  <2>4. /\ CanPlaceVouchLien(p, author, RequiredVouchLien(p, author))
        /\ Commit(q, author, ts) /\ author # invitee
    BY <1>3 DEF Invite, TakesInvite, IsMember
  <2> HIDE DEF p
  <2>5. q \in PoolRecord
    BY <2>1, <2>2, <2>4, InvitedType
  <2>6. Even(p, q)
    BY <2>1, <2>2, <2>4, InvitedEven
  <2> HIDE DEF q
  <2>7. Even(pool, q)
    BY <2>3, <2>6, EvenIsTransitive
  <2> QED BY <2>4, <2>5, <2>7, CommitEven
<1>4. ASSUME NEW invitee \in Invitees, CancelInvite(author, ts, invitee)
      PROVE  Accounted
  <2> DEFINE p == Cancelled(pool, invitee)
  <2>1. invitee \in Soul
    BY InputAssumption
  <2>2. p \in PoolRecord
    BY <1>1, <2>1, CancelledType
  <2>3. Even(pool, p)
    BY <1>1, <2>1, CancelledEven
  <2>4. Commit(p, author, ts)
    BY <1>4 DEF CancelInvite, TakesCancelInvite
  <2> HIDE DEF p
  <2> QED BY <2>2, <2>3, <2>4, CommitEven
<1>5. ASSUME NEW inviter \in Soul, AcceptInvite(author, ts, inviter)
      PROVE  Accounted
  <2> DEFINE joined == Joined(pool, author, inviter)
             elected == Reelected(joined)
  <2>1. joined \in PoolRecord
    BY <1>1, <1>5, JoinedType DEF AcceptInvite, TakesAcceptInvite, IsMember
  <2>2. Even(pool, joined)
    BY <1>1, RolesSameMoney, SameMoneyEven
  <2>3. Commit(elected, author, ts)
    BY <1>5 DEF AcceptInvite, TakesAcceptInvite
  <2> HIDE DEF joined
  <2>4. elected \in PoolRecord /\ Even(joined, elected)
    BY <2>1, ReelectedType, RolesSameMoney, SameMoneyEven
  <2> HIDE DEF elected
  <2>5. Even(pool, elected)
    BY <2>2, <2>4, EvenIsTransitive
  <2> QED BY <2>3, <2>4, <2>5, CommitEven
<1> QED BY <1>2, <1>3, <1>4, <1>5 DEF AdmissionStep

\* transaction, epoch_close and the slider and vouch events.
LEMMA LedgerAccounted ==
  ASSUME TypeOK, Orderly(pool), NEW author \in Soul, NEW ts \in Timestamps,
         LedgerStep(author, ts) \/ SliderStep(author, ts)
  PROVE  Accounted
<1>1. pool \in PoolRecord
  BY DEF TypeOK
<1>2. ASSUME NEW to \in Soul, NEW amount \in Amounts, Transaction(author, ts, to, amount)
      PROVE  Accounted
  <2>1. TransferPoints(pool, author, to, amount) \in PoolRecord
    BY <1>1, TransferPointsType, InputAssumption
  <2>2. Even(pool, TransferPoints(pool, author, to, amount))
    BY <1>1, TransferEven, InputAssumption
  <2> QED BY <1>2, <2>1, <2>2, CommitEven DEF Transaction, TakesTransaction
<1>3. ASSUME NEW n \in EpochNumbers, EpochClose(author, ts, n) PROVE Accounted
  <2>1. Even(pool, pool)
    BY SameMoneyEven DEF SameMoney
  <2> QED BY <1>1, <1>3, <2>1, CommitEven DEF EpochClose
<1>4. ASSUME NEW p \in PoolRecord, SameMoney(pool, p), Commit(p, author, ts)
      PROVE  Accounted
  BY <1>4, SameMoneyEven, CommitEven
<1>5. ASSUME NEW setting \in Settings,
             GovernanceSliderUpdate(author, ts, setting[1], setting[2])
      PROVE  Accounted
  <2>1. setting[1] \in GovernanceParameter /\ setting[2] \in Int
    BY InputAssumption
  <2>2. GovernanceMoved(pool, author, setting[1], setting[2]) \in PoolRecord
    BY <1>1, <2>1, GovernanceMovedType
  <2> QED BY <1>1, <1>4, <1>5, <2>2, RolesSameMoney DEF GovernanceSliderUpdate, TakesSliderUpdate
<1>6. ASSUME NEW target \in Soul, NEW value \in ShareWeights,
             RedistributionSliderUpdate(author, ts, target, value)
      PROVE  Accounted
  <2>1. ShareMoved(pool, author, target, value) \in PoolRecord
    BY <1>1, ShareMovedType, InputAssumption
  <2> QED BY <1>1, <1>4, <1>6, <2>1, RolesSameMoney DEF RedistributionSliderUpdate, TakesSliderUpdate
<1>7. ASSUME NEW target \in Soul, NEW weight \in VouchWeights,
             VouchUpdate(author, ts, target, weight)
      PROVE  Accounted
  <2> DEFINE vouched == VouchMoved(pool, author, target, weight)
             elected == Reelected(vouched)
  <2>1. vouched \in PoolRecord /\ Even(pool, vouched)
    BY <1>1, VouchMovedType, RolesSameMoney, SameMoneyEven, InputAssumption
  <2>2. Commit(elected, author, ts)
    BY <1>7 DEF VouchUpdate, TakesVouchUpdate
  <2> HIDE DEF vouched
  <2>3. elected \in PoolRecord
    BY <2>1, ReelectedType
  <2>4. Even(vouched, elected)
    BY <2>1, RolesSameMoney, SameMoneyEven
  <2> HIDE DEF elected
  <2>5. Even(pool, elected)
    BY <2>1, <2>4, EvenIsTransitive
  <2> QED BY <2>2, <2>3, <2>5, CommitEven
<1> QED BY <1>2, <1>3, <1>5, <1>6, <1>7 DEF LedgerStep, SliderStep

\* The proposal events.
LEMMA ProposalAccounted ==
  ASSUME TypeOK, Orderly(pool), NEW author \in Soul, NEW ts \in Timestamps,
         ProposalStep(author, ts)
  PROVE  Accounted
<1>1. pool \in PoolRecord
  BY DEF TypeOK
<1>2. ASSUME NEW id \in CreateIds, NEW motion \in Motions,
             ProposalCreate(author, ts, id, motion)
      PROVE  Accounted
  <2> DEFINE q == NewProposal(motion, author)
  <2>1. motion \in Motion /\ author \in Key /\ id \in ProposalId
    BY InputAssumption DEF Key, Soul
  <2>2. q \in ProposalState
    BY <2>1 DEF NewProposal, ProposalState, NoVote, ProposalVoteRecord
  <2>3. Commit([pool EXCEPT !.proposals[id] = q], author, ts)
    BY <1>2 DEF ProposalCreate, TakesProposalCreate
  <2> HIDE DEF q
  <2>4. [pool EXCEPT !.proposals[id] = q] \in PoolRecord
    BY <1>1, <2>2, SetProposalType
  <2> QED BY <1>1, <2>3, <2>4, SetProposalSameMoney, SameMoneyEven, CommitEven
<1>3. ASSUME NEW id \in ProposalId, NEW approve \in Ballots,
             ProposalVote(author, ts, id, approve)
      PROVE  Accounted
  <2> DEFINE voted == Voted(pool.proposals[id], author, approve, pool.balances[author])
             counted == [pool EXCEPT !.proposals[id] = voted]
  <2>1. pool.proposals[id] \in ProposalState
    BY <1>1, MarkedProposalType
  <2>2. voted \in ProposalState
    BY <1>1, <2>1, VotedType, PoolFields, InputAssumption
  <2>3. Commit(TryExecuteProposal(counted, id), author, ts)
    BY <1>3 DEF ProposalVote, TakesProposalVote
  <2> HIDE DEF voted
  <2>4. counted \in PoolRecord
    BY <1>1, <2>2, SetProposalType
  <2>5. /\ Orderly(counted) /\ Surplus(counted) = Surplus(pool)
        /\ Solvent(pool) => Solvent(counted)
    <3>1. SameMoney(pool, counted)
      BY <1>1, SetProposalSameMoney
    <3> HIDE DEF counted
    <3>2. Even(pool, counted)
      BY <3>1, SameMoneyEven
    <3> QED BY <3>1, <3>2 DEF SameMoney, Even, Solvent
  <2> HIDE DEF counted
  <2>6. TryExecuteProposal(counted, id) \in PoolRecord /\ Conserves(pool, TryExecuteProposal(counted, id))
    <3>1. Conserves(counted, TryExecuteProposal(counted, id))
      BY <2>4, <2>5, TryExecuteConserves
    <3> QED BY <2>4, <2>5, <3>1, TryExecuteProposalType DEF Conserves
  <2> QED BY <2>3, <2>6, CommitAccounted
<1>4. ASSUME NEW id \in CloseIds, ProposalClose(author, ts, id) PROVE Accounted
  <2> DEFINE q == [pool EXCEPT !.proposals[id].closed = TRUE]
  <2>1. q \in PoolRecord
    BY <1>1, MarkedProposalType, InputAssumption
  <2>2. SameMoney(pool, q)
    BY <1>1 DEF SameMoney, PoolRecord
  <2>3. Commit(q, author, ts)
    BY <1>4 DEF ProposalClose, TakesProposalClose
  <2> HIDE DEF q
  <2> QED BY <2>1, <2>2, <2>3, SameMoneyEven, CommitEven
<1> QED BY <1>2, <1>3, <1>4 DEF ProposalStep

\* The governance relay, the bridge events and the mailbox events.
LEMMA FederationAccounted ==
  ASSUME TypeOK, Orderly(pool), NEW author \in Soul, NEW ts \in Timestamps,
         FederationStep(author, ts) \/ RelayStep(author, ts)
  PROVE  Accounted
<1>1. pool \in PoolRecord
  BY DEF TypeOK
<1>2. ASSUME NEW cell \in Cell, NEW row \in Rows, NEW population \in Populations,
             RelayChildGovernance(author, ts, cell, row, population)
      PROVE  Accounted
  <2>1. ChildHeard(pool, cell, row, population) \in PoolRecord
    BY <1>1, ChildHeardType, InputAssumption
  <2>2. Even(pool, ChildHeard(pool, cell, row, population))
    BY <1>1, RolesSameMoney, SameMoneyEven
  <2> QED BY <1>2, <2>1, <2>2, CommitEven DEF RelayChildGovernance
<1>3. ASSUME RelayOwnGovernance(author, ts) PROVE Accounted
  <2>1. Even(pool, pool)
    BY SameMoneyEven DEF SameMoney
  <2> QED BY <1>1, <1>3, <2>1, CommitEven DEF RelayOwnGovernance
<1>4. ASSUME NEW p \in PoolRecord, NEW id \in ProposalId
      PROVE  /\ MarkBridgeProposalCompleted(p, id) \in PoolRecord
             /\ Even(p, MarkBridgeProposalCompleted(p, id))
  <2> DEFINE delivered == MarkBridgeProposalCompleted(p, id)
  <2>1. delivered \in PoolRecord
    BY MarkedProposalType DEF MarkBridgeProposalCompleted
  <2>2. SameMoney(p, delivered)
    BY DEF MarkBridgeProposalCompleted, SameMoney, PoolRecord
  <2> QED BY <2>1, <2>2, SameMoneyEven
<1>5. ASSUME NEW d \in Deliveries
      PROVE  d.cell \in Cell /\ d.id \in ProposalId /\ d.to \in Soul /\ d.amount \in Nat
  BY InputAssumption
<1>6. ASSUME NEW d \in Deliveries, BridgeInbound(author, ts, d) PROVE Accounted
  <2> DEFINE p == MintPoints(pool, d.to, d.amount)
             q == MarkBridgeProposalCompleted(p, d.id)
  <2>1. p \in PoolRecord /\ Even(pool, p)
    BY <1>1, <1>5, MintPointsType, MintEven
  <2>2. Commit(q, author, ts)
    BY <1>6 DEF BridgeInbound
  <2> HIDE DEF p
  <2>3. q \in PoolRecord /\ Even(pool, q)
    BY <1>4, <1>5, <2>1, EvenIsTransitive
  <2> QED BY <2>2, <2>3, CommitEven
<1>7. ASSUME NEW d \in Deliveries, BridgeUnlinked(author, ts, d) PROVE Accounted
  <2> DEFINE p == TransferPoints(pool, author, d.to, d.amount)
             q == MarkBridgeProposalCompleted(p, d.id)
  <2>1. p \in PoolRecord /\ Even(pool, p)
    BY <1>1, <1>5, TransferPointsType, TransferEven
  <2>2. Commit(q, author, ts)
    BY <1>7 DEF BridgeUnlinked
  <2> HIDE DEF p
  <2>3. q \in PoolRecord /\ Even(pool, q)
    BY <1>4, <1>5, <2>1, EvenIsTransitive
  <2> QED BY <2>2, <2>3, CommitEven
<1>8. ASSUME NEW d \in Deliveries, BridgeOutbound(author, ts, d) PROVE Accounted
  <2> DEFINE p == Paid(pool, d.cell, d.amount)
             q == MarkBridgeProposalCompleted(p, d.id)
             amount == d.amount
  <2>1. p \in PoolRecord
    BY <1>1, <1>5, PaidType
  <2>2. Surplus(p) = Surplus(pool) - amount /\ Orderly(p)
    BY <1>1, <1>5, PaidTotal
  <2>3. pool' = Committed(q, author, ts) /\ released' = released + amount
    BY <1>8 DEF BridgeOutbound
  <2>4. amount \in Nat
    BY <1>5
  <2> HIDE DEF p, amount
  <2>5. q \in PoolRecord /\ Even(p, q)
    BY <1>4, <1>5, <2>1
  <2> HIDE DEF q
  <2>6. Even(q, pool')
    <3>1. Orderly(q)
      BY <2>2, <2>5 DEF Even
    <3> QED BY <2>3, <2>5, <3>1, CommittedEven, InputAssumption
  <2>7. Even(p, pool')
    BY <2>5, <2>6, EvenIsTransitive
  <2>8. Surplus(pool') = Surplus(pool) - amount /\ Orderly(pool')
    BY <2>2, <2>7 DEF Even
  <2>9. Surplus(pool) \in Int /\ released \in Int
    BY <1>1, AccountsInt DEF TypeOK
  <2>10. Surplus(pool') + released' = Surplus(pool) + released
    BY <2>3, <2>4, <2>8, <2>9
  <2> QED BY <2>8, <2>10 DEF Accounted
<1>9. ASSUME NEW authors \in [RelayUrl -> Key],
             Commit([pool EXCEPT !.communityRelayAuthors = authors], author, ts)
      PROVE  Accounted
  <2>1. [pool EXCEPT !.communityRelayAuthors = authors] \in PoolRecord
    BY <1>1 DEF PoolRecord
  <2>2. SameMoney(pool, [pool EXCEPT !.communityRelayAuthors = authors])
    BY <1>1 DEF SameMoney, PoolRecord
  <2> QED BY <1>9, <2>1, <2>2, SameMoneyEven, CommitEven
<1>10. author \in Key /\ None \in Key
  BY SizeAssumption DEF Key, Soul, None
<1>11. ASSUME NEW url \in RelayUrl, RelayContribute(author, ts, url) PROVE Accounted
  <2> DEFINE kept == KeptRelays(pool, author)
             authors == IF kept[url] = None THEN [kept EXCEPT ![url] = author] ELSE kept
  <2>1. kept \in [RelayUrl -> Key]
    BY <1>1, <1>10 DEF KeptRelays, PoolRecord
  <2> HIDE DEF kept
  <2>2. authors \in [RelayUrl -> Key]
    BY <1>10, <2>1
  <2>3. Commit([pool EXCEPT !.communityRelayAuthors = authors], author, ts)
    BY <1>11 DEF RelayContribute, kept
  <2> HIDE DEF authors
  <2> QED BY <1>9, <2>2, <2>3
<1>12. ASSUME NEW url \in RelayUrl, RelayRevoke(author, ts, url) PROVE Accounted
  <2> DEFINE authors == [pool.communityRelayAuthors EXCEPT ![url] = None]
  <2>1. authors \in [RelayUrl -> Key]
    BY <1>1, <1>10 DEF PoolRecord
  <2>2. Commit([pool EXCEPT !.communityRelayAuthors = authors], author, ts)
    BY <1>12 DEF RelayRevoke
  <2> HIDE DEF authors
  <2> QED BY <1>9, <2>1, <2>2
<1> QED BY <1>2, <1>3, <1>6, <1>7, <1>8, <1>11, <1>12 DEF FederationStep, RelayStep

\* The empty Pool has no commons and no liens.
LEMMA InitOrderly == Init => Orderly(pool) /\ PointsConserved
<1> SUFFICES ASSUME Init PROVE Orderly(pool) /\ PointsConserved
  OBVIOUS
<1> DEFINE nothing == [s \in Soul |-> 0]
           empty == [c \in Cell |-> 0]
<1>1. /\ pool.balances = nothing /\ pool.commons = 0 /\ pool.totalSupply = 0
      /\ pool.superstructureEscrow = empty /\ pool.childCellEscrow = empty
      /\ pool.vouchLiens = [s \in Soul |-> NoLien] /\ released = 0
  BY DEF Init, CreateInitialState
<1>2. \A s \in Soul : NoLien.inviter # s
  BY SizeAssumption DEF NoLien, None, Soul
<1>3. Sum(nothing, N) = 0 /\ Sum(empty, M) = 0
  <2>1. nothing \in [1 .. N -> Nat] /\ empty \in [1 .. M -> Nat]
    BY DEF Soul, Cell
  <2>2. nothing \in [1 .. N -> Int] /\ (\A i \in 1 .. N : nothing[i] = 0)
        /\ empty \in [1 .. M -> Int] /\ (\A i \in 1 .. M : empty[i] = 0)
    BY DEF Soul, Cell
  <2> HIDE DEF nothing, empty
  <2>3. /\ Sum(nothing, N) = Sum(nothing, N) + Sum(nothing, N)
        /\ Sum(empty, M) = Sum(empty, M) + Sum(empty, M)
    BY <2>2, SumPlus, SizeAssumption
  <2>4. Sum(nothing, N) \in Nat /\ Sum(empty, M) \in Nat
    BY <2>1, SumNat, SizeAssumption
  <2>5. \A x \in Nat : x = x + x => x = 0
    OBVIOUS
  <2> QED BY <2>3, <2>4, <2>5
<1> HIDE DEF nothing, empty
<1>4. Orderly(pool)
  BY <1>1, <1>2 DEF Orderly
<1>5. TotalPoolPoints(pool) = 0
  BY <1>1, <1>3 DEF TotalPoolPoints
<1> QED BY <1>1, <1>4, <1>5 DEF PointsConserved

\* Every event, and a stutter, accounts for every point.
LEMMA NextAccounted ==
  ASSUME TypeOK, Orderly(pool), [Next]_vars
  PROVE  Accounted
<1>1. CASE UNCHANGED vars
  BY <1>1 DEF vars, Accounted
<1>2. CASE Next
  BY <1>2, AdmissionAccounted, LedgerAccounted, ProposalAccounted, FederationAccounted
     DEF Next
<1> QED BY <1>1, <1>2

PoolOrderly == Orderly(pool)
PoolSolvent == Solvent(pool)

\* The commons are never overdrawn, and nobody vouches for himself.
LEMMA OrderStays == Spec => []PoolOrderly
<1>1. Init => PoolOrderly
  BY InitOrderly DEF PoolOrderly
<1>2. TypeOK /\ PoolOrderly /\ [Next]_vars => PoolOrderly'
  BY NextAccounted DEF PoolOrderly, Accounted
<1> QED BY <1>1, <1>2, TypeCorrect, PTL DEF Spec

\* While no Share is overdrawn, no point is created, destroyed or lost to
\* rounding, whatever the events: a flush rounds, transferPoints,
\* accrueCirculation, expelMemberReducer and bridge_transaction all move points
\* on their own, and the books balance after each.  The hypothesis is needed:
\* rounded shares can leave the last target one point in debt, and an expulsion
\* drops the debt of whom it expels.
THEOREM ConservedWhileSolvent == Spec /\ []PoolSolvent => []PointsConserved
<1>1. Init => PointsConserved
  BY InitOrderly
<1>2. TypeOK /\ TypeOK' /\ PoolOrderly /\ PoolSolvent /\ PointsConserved /\ [Next]_vars
        => PointsConserved'
  <2> SUFFICES ASSUME TypeOK, TypeOK', Orderly(pool), Solvent(pool), PointsConserved, [Next]_vars
               PROVE  PointsConserved'
    BY DEF PoolOrderly, PoolSolvent
  <2>1. Surplus(pool') + released' = Surplus(pool) + released
    BY NextAccounted DEF Accounted
  <2>2. /\ TotalPoolPoints(pool) \in Int /\ TotalPoolPoints(pool') \in Int
        /\ pool.totalSupply \in Int /\ pool'.totalSupply \in Int
        /\ released \in Int /\ released' \in Int
    BY AccountsInt DEF TypeOK
  <2>3. TotalPoolPoints(pool) + released = pool.totalSupply
    BY DEF PointsConserved
  <2>4. TotalPoolPoints(pool') + released' = pool'.totalSupply
    BY <2>1, <2>2, <2>3 DEF Surplus
  <2> QED BY <2>4 DEF PointsConserved
<1> QED BY <1>1, <1>2, TypeCorrect, OrderStays, PTL DEF Spec

\* The souls a flush of an epoch_close enriches were eligible when it settled.
LEMMA EpochCloseFlush ==
  ASSUME TypeOK, Orderly(pool), NEW author \in Soul, NEW ts \in Timestamps,
         NEW n \in EpochNumbers, EpochClose(author, ts, n),
         pool'.lastRedistributionTimestamp # pool.lastRedistributionTimestamp,
         NEW s \in Soul, pool'.balances[s] > pool.balances[s]
  PROVE  /\ s \in Members(pool) \ pool.frozen
         /\ pool.inviters[s] # None => pool.vouchLiens[s] # NoLien
         /\ pool'.lastActiveTimestamp[s] # 0
         /\ ts - pool'.lastActiveTimestamp[s]
              <= pool'.lastRedistributionTimestamp - pool.lastRedistributionTimestamp
<1> DEFINE counted == CountedEvent(pool, author, ts)
           accrued == MaybeAccrueCirculation(counted, ts)
           flushed == RunRedistributionCycle(accrued, ts)
           interval == CirculationInterval(accrued)
           due == (ts - accrued.lastRedistributionTimestamp) \div interval
           cycles == Least(due, MAX_REDISTRIBUTION_CATCHUP)
           span == cycles * interval
           settled == MaybeRedistribute(accrued, ts)
<1>1. pool \in PoolRecord /\ ts \in Nat
  BY InputAssumption DEF TypeOK
<1>2. pool' = settled
  BY DEF EpochClose, Commit, Committed, CountedEvent
<1>3. /\ counted \in PoolRecord /\ counted.balances = pool.balances
      /\ counted.members = pool.members /\ counted.frozen = pool.frozen
      /\ counted.inviters = pool.inviters /\ counted.vouchLiens = pool.vouchLiens
      /\ counted.lastRedistributionTimestamp = pool.lastRedistributionTimestamp
      /\ Even(pool, counted)
  <2>1. pool.eventCount + 1 \in Nat /\ Greatest(pool.maxEventTimestamp, ts) \in Nat
    BY <1>1, ValuesOfPoints DEF Greatest
  <2>2. counted \in PoolRecord /\ SameMoney(pool, counted)
    BY <1>1, <2>1 DEF PoolRecord, CountedEvent, SameMoney
  <2> QED BY <1>1, <2>2, SameMoneyEven DEF PoolRecord, CountedEvent
<1> HIDE DEF counted
<1>4. /\ accrued \in PoolRecord /\ Even(counted, accrued)
      /\ accrued.balances[s] <= pool.balances[s]
      /\ accrued.members = pool.members /\ accrued.frozen = pool.frozen
      /\ accrued.inviters = pool.inviters /\ accrued.vouchLiens = pool.vouchLiens
      /\ accrued.lastRedistributionTimestamp = pool.lastRedistributionTimestamp
  BY <1>1, <1>3, MaybeAccrueType, MaybeAccrueEven
<1>5. Orderly(accrued)
  BY <1>3, <1>4 DEF Even
<1> HIDE DEF accrued
<1>6. /\ flushed \in PoolRecord
      /\ flushed.lastRedistributionTimestamp = accrued.lastRedistributionTimestamp
      /\ flushed.lastActiveTimestamp = accrued.lastActiveTimestamp
      /\ \A t \in Soul \ EligibleRecipients(accrued, ts) : flushed.balances[t] = accrued.balances[t]
  BY <1>1, <1>4, <1>5, RunRedistributionCycleType, FlushEven, RedistributeSame
     DEF Same, SameClocks
<1>7. settled = IF accrued.lastRedistributionTimestamp <= 0 \/ cycles <= 0 THEN accrued
                ELSE [flushed EXCEPT !.lastRedistributionTimestamp = @ + span]
  BY DEF MaybeRedistribute
<1>8. interval \in Nat \ {0}
  BY <1>4, CirculationIntervalPositive
<1> HIDE DEF settled, flushed, interval
<1>9. cycles \in Int /\ cycles > 0
  <2>1. cycles \in Int
    <3>1. accrued.lastRedistributionTimestamp \in Int /\ MAX_REDISTRIBUTION_CATCHUP \in Int
      BY <1>4, SizeAssumption DEF PoolRecord
    <3>2. due \in Int
      BY <1>1, <1>8, <3>1
    <3> QED BY <3>1, <3>2 DEF Least
  <2> HIDE DEF cycles
  <2> QED BY <1>2, <1>4, <1>7, <2>1
<1>10. /\ settled.balances = flushed.balances
       /\ settled.lastActiveTimestamp = accrued.lastActiveTimestamp
       /\ settled.lastRedistributionTimestamp = accrued.lastRedistributionTimestamp + span
  <2> HIDE DEF cycles, span
  <2>1. settled = [flushed EXCEPT !.lastRedistributionTimestamp = @ + span]
    BY <1>2, <1>4, <1>7, <1>9
  <2> QED BY <1>6, <2>1 DEF PoolRecord
<1>11. span \in Int /\ span >= interval
  <2> HIDE DEF cycles
  <2> QED BY <1>8, <1>9
<1> HIDE DEF span, cycles, due
<1>12. s \in EligibleRecipients(accrued, ts)
  <2> SUFFICES ASSUME s \notin EligibleRecipients(accrued, ts) PROVE FALSE
    OBVIOUS
  <2>1. pool'.balances[s] = accrued.balances[s]
    BY <1>2, <1>6, <1>10
  <2>2. pool.balances[s] \in Int /\ accrued.balances[s] \in Int
    BY <1>1, <1>4, PoolFields
  <2> QED BY <1>4, <2>1, <2>2
<1>13. /\ s \in Members(pool) \ pool.frozen
       /\ pool.inviters[s] # None => pool.vouchLiens[s] # NoLien
       /\ accrued.lastActiveTimestamp[s] # 0
       /\ ts - accrued.lastActiveTimestamp[s] <= interval
  BY <1>4, <1>12
     DEF EligibleRecipients, Unfrozen, Members, IsLiveSoul, IsVouchedSoul, interval
<1>14. pool'.lastRedistributionTimestamp - pool.lastRedistributionTimestamp = span
  BY <1>1, <1>2, <1>4, <1>10, <1>11, ValuesOfPoints
<1>15. ts - accrued.lastActiveTimestamp[s] <= span
  <2>1. accrued.lastActiveTimestamp[s] \in Int
    BY <1>4 DEF PoolRecord
  <2> QED BY <1>1, <1>8, <1>11, <1>13, <2>1
<1> QED BY <1>2, <1>10, <1>13, <1>14, <1>15

\* Flushed commons reach only souls that were unfrozen, vouched and active within
\* the span the flush settles, whatever rates, Shares and intervals a log sets.
THEOREM FlushIsForTheLiving == Spec => FlushReachesEligible
<1>1. TypeOK /\ PoolOrderly /\ [Next]_vars =>
        (pool'.lastRedistributionTimestamp # pool.lastRedistributionTimestamp =>
           \A author \in Soul, ts \in Timestamps, n \in EpochNumbers :
             EpochClose(author, ts, n) =>
               \A s \in Soul : pool'.balances[s] > pool.balances[s] =>
                 /\ s \in Members(pool) \ pool.frozen
                 /\ pool.inviters[s] # None => pool.vouchLiens[s] # NoLien
                 /\ pool'.lastActiveTimestamp[s] # 0
                 /\ ts - pool'.lastActiveTimestamp[s]
                      <= pool'.lastRedistributionTimestamp - pool.lastRedistributionTimestamp)
  BY EpochCloseFlush DEF PoolOrderly
<1> QED BY <1>1, TypeCorrect, OrderStays, PTL DEF Spec, FlushReachesEligible

-----------------------------------------------------------------------------
(* The law is a mean of what people say.                                   *)

\* A mean is not on one side of everything it is the mean of: a the sign of one
\* side times the denominator of the mean, b the sign times its numerator.
LEMMA MeanOfAll ==
  ASSUME NEW a \in Int, NEW b \in Int, NEW num \in Nat, NEW den \in Nat \ {0},
         NEW terms \in Nat, NEW heard \in Nat, NEW silent \in Nat,
         NEW fnum \in Nat, NEW fden \in Nat \ {0},
         a * num = b * den,
         (b + 1) * heard <= a * terms,
         \/ silent = 0 /\ num = terms /\ den = heard
         \/ /\ silent > 0 /\ b * fden + 1 <= a * fnum
            /\ num = terms * fden + silent * fnum
            /\ den = (heard + silent) * fden
  PROVE  FALSE
<1>1. CASE silent = 0 /\ num = terms /\ den = heard
  <2>1. (b + 1) * den = b * den + den
    OBVIOUS
  <2> QED BY <1>1, <2>1
<1>2. CASE /\ silent > 0 /\ b * fden + 1 <= a * fnum
           /\ num = terms * fden + silent * fnum
           /\ den = (heard + silent) * fden
  <2> DEFINE x == a * terms
             y == a * fnum
             z == b * (heard * fden)
             w == b * (silent * fden)
             u == heard * fden
  <2>1. a * num = x * fden + silent * y
    <3>1. a * (terms * fden) = x * fden /\ a * (silent * fnum) = silent * y
      OBVIOUS
    <3>2. a * (terms * fden + silent * fnum) = a * (terms * fden) + a * (silent * fnum)
      OBVIOUS
    <3> QED BY <1>2, <3>1, <3>2
  <2>2. b * den = z + w
    <3>1. (heard + silent) * fden = heard * fden + silent * fden
      OBVIOUS
    <3>2. b * (heard * fden + silent * fden) = b * (heard * fden) + b * (silent * fden)
      OBVIOUS
    <3> QED BY <1>2, <3>1, <3>2
  <2>3. ((b + 1) * heard) * fden = z + u
    OBVIOUS
  <2>4. silent * (b * fden + 1) = w + silent
    OBVIOUS
  <2>5. x \in Int /\ y \in Int /\ z \in Int /\ w \in Int /\ u \in Nat
    OBVIOUS
  <2>6. ((b + 1) * heard) * fden <= x * fden
    <3>1. (b + 1) * heard \in Int /\ (b + 1) * heard <= x
      OBVIOUS
    <3> HIDE DEF x
    <3> QED BY <2>5, <3>1
  <2>7. silent * (b * fden + 1) <= silent * y
    <3>1. b * fden + 1 \in Int /\ b * fden + 1 <= y
      BY <1>2
    <3> HIDE DEF y
    <3> QED BY <2>5, <3>1
  <2>8. x * fden \in Int /\ silent * y \in Int
    BY <2>5
  <2> HIDE DEF x, y, z, w, u
  <2> QED BY <1>2, <2>1, <2>2, <2>3, <2>4, <2>5, <2>6, <2>7, <2>8
<1> QED BY <1>1, <1>2

\* Somebody's value is no further to one side than the law is.
LEMMA SomebodyAgrees ==
  ASSUME pool \in PoolRecord, NEW param \in GovernanceParameter, NEW sign \in {0 - 1, 1}
  PROVE  LET law == ResolveGovernanceParameter(pool, param)
         IN  \E v \in Voices(param) : sign * (v.num * law.den) <= sign * (law.num * v.den)
<1> DEFINE law == ResolveGovernanceParameter(pool, param)
           fallback == pool.parameters[param]
           stake == [m \in Soul |-> StakeWeight(pool, m)]
           people == ChildWeight(pool)
           voiced == [m \in Soul |-> pool.governanceSliders[m][param] * stake[m]]
           relayed == [c \in Cell |-> IF pool.childSliderRelay[c].relayed
                                      THEN pool.childSliderRelay[c].row[param] * people[c]
                                      ELSE 0]
           quiet == [c \in Cell |-> IF pool.childSliderRelay[c].relayed
                                    THEN 0 ELSE people[c]]
           spoken == [c \in Cell |-> IF pool.childSliderRelay[c].relayed
                                     THEN people[c] ELSE 0]
           weight == GovernanceWeight(pool)
           sliders == Sum(voiced, N)
           relays == Sum(relayed, M)
           silent == Sum(quiet, M)
           here == Sum(stake, N)
           there == Sum(spoken, M)
           a == sign * law.den
           b == sign * law.num
<1> SUFFICES ASSUME \A v \in Voices(param) :
                      ~ (sign * (v.num * law.den) <= sign * (law.num * v.den))
             PROVE  FALSE
  OBVIOUS
<1>1. /\ law \in Ratio /\ fallback \in Ratio /\ weight \in Nat
      /\ fallback \in Voices(param)
  BY ParameterRatio, PoolFields, GovernanceWeightNat DEF Voices
<1>2. law.num \in Nat /\ law.den \in Nat \ {0} /\ fallback.num \in Nat /\ fallback.den \in Nat \ {0}
  BY <1>1 DEF Ratio
<1>3. law = IF weight = 0 THEN fallback
            ELSE IF silent = 0 THEN [num |-> sliders + relays, den |-> weight]
            ELSE [num |-> (sliders + relays) * fallback.den + silent * fallback.num,
                  den |-> weight * fallback.den]
  BY DEF ResolveGovernanceParameter
<1>4. weight = here + Sum(people, M)
  BY DEF GovernanceWeight
<1>5. /\ stake \in [1 .. N -> Int] /\ stake \in [1 .. N -> Nat]
      /\ \A m \in Soul : stake[m] \in Nat /\ (m \notin Unfrozen(pool) => stake[m] = 0)
  <2>1. \A m \in Soul : StakeWeight(pool, m) \in Nat
    BY StakeWeightNat
  <2>2. \A m \in Soul : m \notin Unfrozen(pool) => StakeWeight(pool, m) = 0
    BY DEF StakeWeight, VotingWeight, Greatest
  <2> QED BY <2>1, <2>2 DEF Soul
<1>6. people \in [Cell -> Nat] /\ \A c \in Cell : c \notin Children(pool) => people[c] = 0
  BY ChildWeightNat DEF ChildWeight
<1> HIDE DEF stake, people, law, fallback, weight
<1>7. a \in Int /\ b \in Int /\ a * law.num = b * law.den
  <2>1. CASE sign = 1
    BY <1>2, <2>1
  <2>2. CASE sign = 0 - 1
    BY <1>2, <2>2
  <2> QED BY <2>1, <2>2
<1>8. ASSUME NEW v \in Voices(param), v.num \in Nat, v.den \in Nat
      PROVE  b * v.den + 1 <= a * v.num
  <2> DEFINE x == v.num * law.den
             y == law.num * v.den
  <2>1. ~ (sign * x <= sign * y)
    OBVIOUS
  <2>2. x \in Int /\ y \in Int
    BY <1>2, <1>8
  <2>3. sign * y = b * v.den /\ sign * x = a * v.num
    <3>1. CASE sign = 1
      BY <1>2, <1>8, <3>1
    <3>2. CASE sign = 0 - 1
      BY <1>2, <1>8, <3>2
    <3> QED BY <3>1, <3>2
  <2>4. sign * x \in Int /\ sign * y \in Int
    BY <2>2
  <2> HIDE DEF x, y, a, b
  <2> QED BY <2>1, <2>3, <2>4
<1>9. ASSUME NEW x \in Nat, Whole(x) \in Voices(param)
      PROVE  b + 1 <= a * x
  <2>1. Whole(x).num = x /\ Whole(x).den = 1
    BY DEF Whole
  <2>2. b * 1 + 1 <= a * x
    BY <1>8, <1>9, <2>1
  <2> HIDE DEF a, b
  <2> QED BY <1>7, <2>2
<1> HIDE DEF a, b
<1>10. ASSUME NEW x \in Nat, NEW k \in Nat, b + 1 <= a * x
       PROVE  (b + 1) * k <= a * (x * k)
  <2> DEFINE y == a * x
  <2>1. y \in Int /\ b + 1 \in Int /\ a * (x * k) = y * k
    BY <1>7
  <2> HIDE DEF y
  <2>2. (b + 1) * k <= y * k
    <3> DEFINE z == b + 1
    <3>1. z \in Int /\ z <= y
      BY <1>10, <2>1 DEF y
    <3> HIDE DEF z
    <3>2. z * k <= y * k
      BY <2>1, <3>1
    <3> QED BY <3>2 DEF z
  <2> QED BY <2>1, <2>2
<1>11. /\ voiced \in [1 .. N -> Nat] /\ voiced \in [1 .. N -> Int]
       /\ \A m \in 1 .. N : (b + 1) * stake[m] <= a * voiced[m]
  <2>1. ASSUME NEW m \in Soul
        PROVE  voiced[m] \in Nat /\ (b + 1) * stake[m] <= a * voiced[m]
    <3> DEFINE x == pool.governanceSliders[m][param]
    <3>1. x \in Nat /\ stake[m] \in Nat /\ voiced[m] = x * stake[m]
      BY <1>5, PoolFields DEF Row
    <3>2. CASE m \in Unfrozen(pool)
      <4>1. Whole(x) \in Voices(param)
        BY <3>2 DEF Voices
      <4>2. b + 1 <= a * x
        <5> HIDE DEF x
        <5> QED BY <1>9, <3>1, <4>1
      <4> HIDE DEF x, voiced
      <4> QED BY <1>10, <3>1, <4>2
    <3>3. CASE m \notin Unfrozen(pool)
      <4>1. stake[m] = 0
        BY <1>5, <3>3
      <4> HIDE DEF x, voiced
      <4> QED BY <1>7, <3>1, <4>1
    <3>4. voiced[m] \in Nat
      <4> HIDE DEF x, voiced
      <4> QED BY <3>1
    <3> QED BY <3>2, <3>3, <3>4
  <2>2. voiced = [m \in Soul |-> voiced[m]]
    OBVIOUS
  <2> HIDE DEF voiced
  <2> QED BY <2>1, <2>2 DEF Soul
<1>12. /\ relayed \in [1 .. M -> Nat] /\ relayed \in [1 .. M -> Int]
       /\ spoken \in [1 .. M -> Nat] /\ spoken \in [1 .. M -> Int]
       /\ \A c \in 1 .. M : (b + 1) * spoken[c] <= a * relayed[c]
  <2>1. ASSUME NEW c \in Cell
        PROVE  /\ relayed[c] \in Nat /\ spoken[c] \in Nat
               /\ (b + 1) * spoken[c] <= a * relayed[c]
    <3> DEFINE x == pool.childSliderRelay[c].row[param]
    <3>1. x \in Nat /\ people[c] \in Nat
      BY <1>6, PoolFields DEF Row
    <3>2. CASE ~ pool.childSliderRelay[c].relayed
      <4>1. relayed[c] = 0 /\ spoken[c] = 0
        BY <3>2
      <4> HIDE DEF relayed, spoken
      <4> QED BY <1>7, <4>1
    <3>3. CASE pool.childSliderRelay[c].relayed
      <4>1. relayed[c] = x * people[c] /\ spoken[c] = people[c]
        BY <3>3
      <4>2. c \in Children(pool) => Whole(x) \in Voices(param)
        BY <3>3 DEF Voices
      <4> HIDE DEF relayed, spoken, x
      <4>3. CASE c \in Children(pool)
        <5>1. b + 1 <= a * x
          BY <1>9, <3>1, <4>2, <4>3
        <5> QED BY <1>10, <3>1, <4>1, <5>1
      <4>4. CASE c \notin Children(pool)
        <5>1. people[c] = 0
          BY <1>6, <4>4
        <5> QED BY <1>7, <3>1, <4>1, <5>1
      <4> QED BY <4>3, <4>4
    <3> QED BY <3>2, <3>3
  <2>2. relayed = [c \in Cell |-> relayed[c]] /\ spoken = [c \in Cell |-> spoken[c]]
    OBVIOUS
  <2> HIDE DEF relayed, spoken
  <2> QED BY <2>1, <2>2 DEF Cell
<1>13. quiet \in [1 .. M -> Nat] /\ quiet \in [1 .. M -> Int]
  BY <1>6 DEF Cell
<1>14. Sum(people, M) = there + silent
  <2>1. people \in [1 .. M -> Int] /\ \A c \in 1 .. M : people[c] = spoken[c] + quiet[c]
    BY <1>6 DEF Cell
  <2> HIDE DEF spoken, quiet
  <2> QED BY <1>12, <1>13, <2>1, SumPlus, SizeAssumption
<1> HIDE DEF voiced, relayed, quiet, spoken
<1>15. /\ sliders \in Nat /\ relays \in Nat /\ silent \in Nat /\ here \in Nat /\ there \in Nat
  BY <1>5, <1>11, <1>12, <1>13, SumNat, SizeAssumption
<1>16. (b + 1) * here <= a * sliders /\ (b + 1) * there <= a * relays
  <2>1. b + 1 \in Int
    BY <1>7
  <2> QED BY <1>5, <1>7, <1>11, <1>12, <2>1, SumFar, SizeAssumption
<1> HIDE DEF sliders, relays, silent, here, there
<1>17. (b + 1) * (here + there) <= a * (sliders + relays)
  <2>1. /\ (b + 1) * (here + there) = (b + 1) * here + (b + 1) * there
        /\ a * (sliders + relays) = a * sliders + a * relays
    BY <1>7, <1>15
  <2>2. /\ (b + 1) * here \in Int /\ (b + 1) * there \in Int
        /\ a * sliders \in Int /\ a * relays \in Int
    BY <1>7, <1>15
  <2> QED BY <1>16, <2>1, <2>2
<1>18. b * fallback.den + 1 <= a * fallback.num
  BY <1>1, <1>2, <1>8
<1>19. CASE weight = 0
  <2>1. law = fallback
    BY <1>3, <1>19
  <2>2. b * law.den + 1 <= a * law.num
    BY <1>18, <2>1
  <2> DEFINE x == a * law.num
  <2>3. x \in Int /\ x + 1 <= x
    BY <1>2, <1>7, <2>2
  <2> HIDE DEF x
  <2> QED BY <2>3
<1>20. CASE weight # 0 /\ silent = 0
  <2>1. law.num = sliders + relays /\ law.den = weight
    BY <1>3, <1>20
  <2>2. weight = here + there
    BY <1>4, <1>14, <1>15, <1>20
  <2>3. sliders + relays \in Nat /\ here + there \in Nat
    BY <1>15
  <2> QED BY <1>2, <1>7, <1>15, <1>17, <1>20, <2>1, <2>2, <2>3, MeanOfAll
<1>21. CASE weight # 0 /\ silent # 0
  <2>1. /\ law.num = (sliders + relays) * fallback.den + silent * fallback.num
        /\ law.den = weight * fallback.den
    BY <1>3, <1>21
  <2>2. weight = (here + there) + silent
    BY <1>4, <1>14, <1>15
  <2>3. sliders + relays \in Nat /\ here + there \in Nat /\ silent > 0
    BY <1>15, <1>21
  <2>4. law.den = ((here + there) + silent) * fallback.den
    BY <2>1, <2>2
  <2> QED BY <1>2, <1>7, <1>15, <1>17, <1>18, <2>1, <2>3, <2>4, MeanOfAll
<1> QED BY <1>19, <1>20, <1>21

\* Every parameter in force lies between the lowest and the highest slider that
\* counts, however Shares, freezes and populations weigh them.
THEOREM LawIsAMean == Spec => []ParametersAreMeans
<1>1. TypeOK => ParametersAreMeans
  <2> SUFFICES ASSUME TypeOK, NEW param \in GovernanceParameter
               PROVE  LET law == ResolveGovernanceParameter(pool, param)
                      IN  /\ \E v \in Voices(param) : v.num * law.den <= law.num * v.den
                          /\ \E v \in Voices(param) : law.num * v.den <= v.num * law.den
    BY DEF ParametersAreMeans
  <2> DEFINE law == ResolveGovernanceParameter(pool, param)
  <2>1. pool \in PoolRecord
    BY DEF TypeOK
  <2>2. law \in Ratio /\ Voices(param) \subseteq Ratio
    <3>1. \A m \in Soul : pool.governanceSliders[m][param] \in Nat
      BY <2>1, PoolFields DEF Row
    <3>2. \A c \in Cell : pool.childSliderRelay[c].row[param] \in Nat
      BY <2>1, PoolFields DEF Row
    <3>3. Unfrozen(pool) \in SUBSET Soul /\ Children(pool) \in SUBSET Cell
      BY <2>1, SubsetsOfKeys
    <3>4. \A x \in Nat : Whole(x) \in Ratio
      BY DEF Whole, Ratio
    <3>5. pool.parameters[param] \in Ratio
      BY <2>1, PoolFields
    <3> QED BY <2>1, <3>1, <3>2, <3>3, <3>4, <3>5, ParameterRatio DEF Voices
  <2>3. /\ \E v \in Voices(param) : 1 * (v.num * law.den) <= 1 * (law.num * v.den)
        /\ \E v \in Voices(param) :
             (0 - 1) * (v.num * law.den) <= (0 - 1) * (law.num * v.den)
    BY <2>1, SomebodyAgrees
  <2> HIDE DEF law
  <2>4. ASSUME NEW v \in Voices(param)
        PROVE  v.num * law.den \in Int /\ law.num * v.den \in Int
    BY <2>2, <2>4 DEF Ratio
  <2>5. \E v \in Voices(param) : v.num * law.den <= law.num * v.den
    BY <2>3, <2>4
  <2>6. \E v \in Voices(param) : law.num * v.den <= v.num * law.den
    <3>1. PICK v \in Voices(param) :
            (0 - 1) * (v.num * law.den) <= (0 - 1) * (law.num * v.den)
      BY <2>3
    <3>2. \A x, y \in Int : (0 - 1) * x <= (0 - 1) * y => y <= x
      OBVIOUS
    <3> QED BY <2>4, <3>1, <3>2
  <2> QED BY <2>5, <2>6 DEF law
<1> QED BY <1>1, TypeCorrect, PTL

-----------------------------------------------------------------------------
(* What the application offers the reducer accepts.                        *)

\* Withdrawing an invitation leaves the law, the Shares and all other liens.
LEMMA WithdrawnLaw ==
  ASSUME NEW p \in PoolRecord, NEW invitee \in Soul
  PROVE  LET w == Withdrawn(p, invitee)
         IN  /\ w \in PoolRecord
             /\ w.balances = p.balances
             /\ w.vouchLiens \in {p.vouchLiens, [p.vouchLiens EXCEPT ![invitee] = NoLien]}
             /\ \A param \in GovernanceParameter :
                  ResolveGovernanceParameter(w, param) = ResolveGovernanceParameter(p, param)
<1> DEFINE w == Withdrawn(p, invitee)
           q == Cancelled(p, invitee)
<1>1. w \in {p, q}
  BY DEF Withdrawn
<1>2. /\ q \in PoolRecord /\ q.balances = p.balances
      /\ q.vouchLiens = [p.vouchLiens EXCEPT ![invitee] = NoLien]
  BY CancelledModerate
<1>3. /\ q.members = p.members /\ q.frozen = p.frozen
      /\ q.parameters = p.parameters /\ q.governanceSliders = p.governanceSliders
      /\ q.childCells = p.childCells /\ q.childPopulation = p.childPopulation
      /\ q.childSliderRelay = p.childSliderRelay
  BY DEF Cancelled, CloseAdmission, ReleaseVouchLien, PoolRecord
<1> HIDE DEF q, w
<1>4. /\ ChildWeight(q) = ChildWeight(p)
      /\ \A m : StakeWeight(q, m) = StakeWeight(p, m)
  BY <1>2, <1>3 DEF ChildWeight, Children, StakeWeight, VotingWeight, Unfrozen, Members
<1>5. GovernanceWeight(q) = GovernanceWeight(p)
  BY <1>4 DEF GovernanceWeight
<1>6. \A param : ResolveGovernanceParameter(q, param) = ResolveGovernanceParameter(p, param)
  BY <1>3, <1>4, <1>5 DEF ResolveGovernanceParameter
<1> QED BY <1>1, <1>2, <1>6 DEF w

\* A lien that fits stays one that fits when an earlier invitation is withdrawn:
\* the next bond is no dearer and there is no less to pledge.
LEMMA WithdrawnFits ==
  ASSUME NEW p \in PoolRecord, NEW me \in Soul, NEW invitee \in Soul,
         CanPlaceVouchLien(p, me, RequiredVouchLien(p, me))
  PROVE  LET w == Withdrawn(p, invitee)
         IN  CanPlaceVouchLien(w, me, RequiredVouchLien(w, me))
<1> DEFINE w == Withdrawn(p, invitee)
           rate == ResolveGovernanceParameter(p, "vouch_bond_rate")
           base == Quotient(p.balances[me] * RoundDiv(rate.num, rate.den), 100)
           backed(q) == {s \in Soul : q.vouchLiens[s].inviter = me}
           pledge(q) == [s \in Soul |-> IF q.vouchLiens[s].inviter = me
                                        THEN q.vouchLiens[s].amount ELSE 0]
           before == Cardinality(backed(p))
           after == Cardinality(backed(w))
<1>1. /\ w \in PoolRecord /\ w.balances = p.balances
      /\ w.vouchLiens \in {p.vouchLiens, [p.vouchLiens EXCEPT ![invitee] = NoLien]}
      /\ ResolveGovernanceParameter(w, "vouch_bond_rate") = rate
  BY WithdrawnLaw DEF GovernanceParameter
<1> HIDE DEF w
<1>2. base \in Int
  <2>1. rate \in Ratio
    BY ParameterRatio DEF GovernanceParameter
  <2> HIDE DEF rate
  <2>2. RoundDiv(rate.num, rate.den) \in Nat
    BY <2>1, RoundDivNat DEF Ratio
  <2>3. p.balances[me] * RoundDiv(rate.num, rate.den) \in Int
    BY <2>2, PoolFields
  <2> QED BY <2>3, QuotientInt
<1>3. /\ RequiredVouchLien(p, me) = base * (before + 1)
      /\ RequiredVouchLien(w, me) = base * (after + 1)
  BY <1>1 DEF RequiredVouchLien, CountActiveVouches
<1> HIDE DEF base
<1>4. \A s \in Soul : w.vouchLiens[s] \in {p.vouchLiens[s], NoLien}
  BY <1>1, PoolFields
<1>5. NoLien.inviter # me /\ NoLien.amount = 0
  BY SizeAssumption DEF NoLien, None, Soul
<1>6. before \in Nat /\ after \in Nat /\ after <= before
  <2>1. backed(w) \subseteq backed(p) /\ backed(p) \in SUBSET (1 .. N)
        /\ backed(w) \in SUBSET (1 .. N)
    BY <1>4, <1>5 DEF Soul
  <2> HIDE DEF backed
  <2>2. IsFiniteSet(backed(p)) /\ before \in Nat /\ after \in Nat
    BY <2>1, SubsetFinite, SizeAssumption
  <2> QED BY <2>1, <2>2, FS_Subset
<1>7. /\ pledge(p) \in [1 .. N -> Int] /\ pledge(w) \in [1 .. N -> Int]
      /\ \A s \in 1 .. N : pledge(w)[s] <= pledge(p)[s]
  <2>1. ASSUME NEW s \in Soul
        PROVE  /\ p.vouchLiens[s].amount \in Nat /\ w.vouchLiens[s].amount \in Nat
               /\ pledge(w)[s] <= pledge(p)[s]
    <3>1. p.vouchLiens[s] \in VouchLien /\ w.vouchLiens[s] \in VouchLien
      BY <1>1, PoolFields
    <3>2. p.vouchLiens[s].amount \in Nat /\ w.vouchLiens[s].amount \in Nat
      BY <3>1 DEF VouchLien, NoLien
    <3>3. w.vouchLiens[s] = p.vouchLiens[s] \/ w.vouchLiens[s].inviter # me
      BY <1>4, <1>5
    <3> QED BY <3>2, <3>3
  <2> QED BY <2>1 DEF Soul
<1>8. /\ PledgedLienTotal(p, me) = Sum(pledge(p), N)
      /\ PledgedLienTotal(w, me) = Sum(pledge(w), N)
  BY DEF PledgedLienTotal
<1> HIDE DEF pledge, before, after
<1>9. /\ PledgedLienTotal(p, me) \in Int /\ PledgedLienTotal(w, me) \in Int
      /\ PledgedLienTotal(w, me) <= PledgedLienTotal(p, me)
  BY <1>7, <1>8, SumInt, SumMonotone, SizeAssumption
<1>10. AvailableToPledge(p, me) \in Int /\ AvailableToPledge(w, me) \in Int
       /\ AvailableToPledge(p, me) <= AvailableToPledge(w, me)
  <2>1. p.balances[me] \in Int
    BY PoolFields
  <2> QED BY <1>1, <1>9, <2>1 DEF AvailableToPledge, Greatest
<1>11. base * (before + 1) > 0 /\ base * (before + 1) <= AvailableToPledge(p, me)
  BY <1>3 DEF CanPlaceVouchLien
<1>12. base > 0
  BY <1>2, <1>6, <1>11
<1>13. base * (after + 1) > 0 /\ base * (after + 1) <= base * (before + 1)
  <2>1. after + 1 <= before + 1 /\ after + 1 > 0
    BY <1>6
  <2> QED BY <1>2, <1>6, <1>12, <2>1
<1>14. base * (after + 1) \in Int /\ base * (before + 1) \in Int
  BY <1>2, <1>6
<1>15. base * (after + 1) <= AvailableToPledge(w, me)
  <2> DEFINE x == base * (after + 1)
             y == base * (before + 1)
  <2>1. /\ x \in Int /\ y \in Int /\ x <= y /\ y <= AvailableToPledge(p, me)
    BY <1>11, <1>13, <1>14
  <2> HIDE DEF x, y
  <2>2. x <= AvailableToPledge(w, me)
    BY <1>10, <2>1
  <2> QED BY <2>2 DEF x
<1> QED BY <1>3, <1>13, <1>15 DEF CanPlaceVouchLien, w

\* At the present time the reducer turns away the frozen and nobody else.
LEMMA AdmissibleNow ==
  ASSUME TypeOK, SoundPool, pool.eventCount < MaxEvents, NEW me \in Soul
  PROVE  Admissible(me, Now) <=> me \notin pool.frozen
<1>1. /\ pool.genesisTimestamp \in Int /\ pool.maxEventTimestamp \in Int
      /\ pool.lastRedistributionTimestamp \in Int
  BY DEF TypeOK, PoolRecord
<1>2. pool.initialized => pool.genesisTimestamp <= pool.maxEventTimestamp
  BY <1>1 DEF SoundPool, Sound, ClocksInOrder
<1>3. TIMESTAMP_FORWARD_SKEW \in Nat
  BY SizeAssumption
<1> QED BY <1>1, <1>2, <1>3 DEF Admissible, Now

\* What the application offers and lets through the reducer accepts, in the Pool
\* it is offered in, and a transfer neither fails nor freezes its author.
THEOREM OffersAreAccepted == Spec => []OfferedIsAccepted
<1>1. TypeOK /\ SoundPool /\ StandingIsMembership => OfferedIsAccepted
  <2> SUFFICES ASSUME TypeOK, SoundPool, StandingIsMembership, pool.eventCount < MaxEvents
               PROVE  InviteFits /\ CancelFits /\ AcceptFits /\ TransferFits
                        /\ SlidersFit /\ ProposalsFit
    BY DEF OfferedIsAccepted
  <2>1. pool \in PoolRecord
    BY DEF TypeOK
  <2>2. \A me \in Soul : Admissible(me, Now) <=> me \notin pool.frozen
    BY AdmissibleNow
  <2>3. InviteFits
    <3> SUFFICES ASSUME NEW me \in Soul, NEW s \in Invitees, OffersInvite(me, s)
                 PROVE  TakesInvite(me, Now, s)
                          <=> ~ IsMember(s) /\ PriorInviter(pool, s) \in {None, me}
      BY DEF InviteFits
    <3>1. s \in Soul
      BY InputAssumption
    <3>2. /\ Admissible(me, Now) /\ IsMember(me)
          /\ Cardinality(Members(pool)) < SOFT_CELL_CAP
          /\ CanPlaceVouchLien(pool, me, RequiredVouchLien(pool, me))
      BY <2>2 DEF OffersInvite, InGoodStanding, CanPlaceVouchLien
    <3>3. CanPlaceVouchLien(Withdrawn(pool, s), me, RequiredVouchLien(Withdrawn(pool, s), me))
      BY <2>1, <3>1, <3>2, WithdrawnFits
    <3> QED BY <3>2, <3>3 DEF TakesInvite
  <2>4. CancelFits
    <3> SUFFICES ASSUME NEW me \in Soul, NEW s \in Invitees, OffersCancel(me, s)
                 PROVE  TakesCancelInvite(me, Now, s)
      BY DEF CancelFits
    <3>1. s \in Soul /\ LienCovers(pool, s)
      BY InputAssumption DEF SoundPool, Sound, LiensInOrder
    <3>2. pool.pendingInvites[s] # NoInvite
      BY SizeAssumption DEF OffersCancel, NoInvite, None, Soul
    <3> QED BY <2>2, <3>1, <3>2
            DEF OffersCancel, InGoodStanding, TakesCancelInvite, LienCovers, IsMember
  <2>5. AcceptFits
    <3> SUFFICES ASSUME NEW me \in Soul, OffersAccept(me)
                 PROVE  TakesAcceptInvite(me, Now, pool.pendingInvites[me].inviter)
                          <=> Cardinality(Members(pool)) < SOFT_CELL_CAP
      BY DEF AcceptFits
    <3>1. me \notin pool.frozen
      BY DEF OffersAccept, IsMember, StandingIsMembership
    <3> QED BY <2>2, <3>1 DEF OffersAccept, TakesAcceptInvite
  <2>6. TransferFits
    <3> SUFFICES ASSUME NEW me \in Soul, NEW to \in Soul, NEW amount \in Amounts,
                        OffersTransfer(me, to, amount)
                 PROVE  LET paid == TransferPoints(pool, me, to, amount)
                        IN  /\ TakesTransaction(me, Now, to)
                            /\ paid.balances[to] > pool.balances[to]
                            /\ paid.frozen = pool.frozen
      BY DEF TransferFits
    <3> DEFINE debited == [pool EXCEPT !.balances[me] = @ - amount]
               credited == [debited EXCEPT !.balances[to] = @ + amount]
    <3>1. /\ amount \in Nat /\ amount > 0
          /\ pool.balances[me] \in Int /\ pool.balances[to] \in Int
      BY <2>1, PoolFields, InputAssumption
    <3>2. /\ me \in Unfrozen(pool) /\ IsMember(to) /\ to # me
          /\ ~ (pool.balances[me] < amount)
      BY <3>1 DEF OffersTransfer, InGoodStanding, IsMember, Unfrozen
    <3>3. TransferPoints(pool, me, to, amount) = credited
      BY <3>2 DEF TransferPoints, IsMember
    <3>4. credited.frozen = pool.frozen /\ credited.balances[to] = pool.balances[to] + amount
      BY <2>1, <3>2 DEF PoolRecord
    <3> HIDE DEF credited, debited
    <3>5. credited.balances[to] > pool.balances[to]
      BY <3>1, <3>4
    <3> QED BY <2>2, <3>2, <3>3, <3>4, <3>5 DEF TakesTransaction, Unfrozen
  <2>7. SlidersFit
    BY <2>2 DEF SlidersFit, OffersRules, OffersShare, OffersVouch, TakesSliderUpdate,
                TakesVouchUpdate
  <2>8. ProposalsFit
    <3>1. ASSUME NEW me \in Soul, NEW motion \in Motions, OffersMotion(me, motion)
          PROVE  TakesProposalCreate(me, Now, motion)
                   <=> /\ InGoodStanding(me)
                       /\ motion.kind = "bridge_transfer" =>
                            motion.target \in Linked(pool) /\ motion.amount > 0
      <4>1. motion.kind = "bridge_transfer" => motion.to # None
        BY <3>1 DEF OffersMotion, OffersForm, OffersChapterLink, OffersBridgeTransfer
      <4> QED BY <2>2, <4>1 DEF TakesProposalCreate, InGoodStanding
    <3>2. ASSUME NEW me \in Soul, NEW id \in ProposalId
          PROVE  /\ OffersBallot(me, id) =>
                      (TakesProposalVote(me, Now, id) <=> me \notin pool.frozen)
                 /\ OffersClose(me, id) =>
                      (TakesProposalClose(me, Now, id) <=> me \notin pool.frozen)
      BY <2>2 DEF OffersBallot, OffersClose, TakesProposalVote, TakesProposalClose
    <3> QED BY <3>1, <3>2 DEF ProposalsFit
  <2> QED BY <2>3, <2>4, <2>5, <2>6, <2>7, <2>8
<1> QED BY <1>1, TypeCorrect, PoolStaysSound, StandingHolds, PTL
=============================================================================
