------------------------------ MODULE Economy ------------------------------
(***************************************************************************)
(* How points move inside a Pool: packages/core/src/economy/index.ts and   *)
(* the routing of commons to child Cells in governance/index.ts.  Pure     *)
(* functions of a Pool record p.                                           *)
(***************************************************************************)
EXTENDS PoolState

-----------------------------------------------------------------------------
(* Circulation: decay accrues from the unfrozen balances into commons.     *)

\* One round of allocateProportionalDecay.  Every member of the round gets
\* its floored proportional share, the last key the remainder, nobody more
\* than it holds; who still holds something plays the next round.
DecayRound(r, num, bal) ==
  LET weight == Sum([m \in Soul |-> IF m \in r.pool THEN num[m] ELSE 0], N)
      last == CHOOSE m \in r.pool : \A o \in r.pool : o <= m
      headroom(m) == bal[m] - r.taken[m]
      floored == [m \in Soul |->
                    IF m \in r.pool \ {last}
                    THEN Least(headroom(m), (r.remaining * num[m]) \div weight)
                    ELSE 0]
      share == [floored EXCEPT ![last] =
                  Least(headroom(last), r.remaining - Sum(floored, N))]
      taken == [m \in Soul |-> r.taken[m] + share[m]]
  IN  IF r.remaining = 0 \/ r.pool = {} \/ weight = 0 THEN r
      ELSE [remaining |-> r.remaining - Sum(share, N),
            taken |-> taken,
            pool |-> {m \in r.pool : taken[m] < bal[m]}]

\* Each round but the last one exhausts a member, so N rounds are enough.
AllocateProportionalDecay(totalDecay, holders, num, bal) ==
  LET rounds[k \in 0 .. N] ==
        IF k = 0 THEN [remaining |-> totalDecay,
                       taken |-> [m \in Soul |-> 0],
                       pool |-> holders]
        ELSE DecayRound(rounds[k - 1], num, bal)
  IN  rounds[N].taken

\* Who pays: a frozen Share is held still.
Holders(p) == {m \in Unfrozen(p) : p.balances[m] > 0}

\* What is collected of a numerator, and what is carried to the next accrual.
Carry(numerator, collected) == numerator - collected * YEAR_DENOMINATOR

AccrueCirculation(p, annualPercent, elapsed) ==
  LET annualBps == RoundDiv(100 * annualPercent.num, annualPercent.den)
      holders == Holders(p)
      held == [m \in Soul |-> IF m \in holders THEN p.balances[m] ELSE 0]
      num == [m \in Soul |-> held[m] * annualBps * elapsed]
      numerator == p.circulationCarry + Sum(num, N)
      totalDecay == Least(numerator \div YEAR_DENOMINATOR, Sum(held, N))
      decay == AllocateProportionalDecay(totalDecay, holders, num, held)
  IN  IF holders = {} \/ numerator <= 0 THEN p
      ELSE [p EXCEPT
              !.balances = [m \in Soul |-> p.balances[m] - decay[m]],
              !.commons = p.commons + Sum(decay, N),
              !.circulationCarry = Carry(numerator, totalDecay)]

-----------------------------------------------------------------------------
(* Redistribution.                                                         *)

\* The part of pool each target gets: its percentage rounded to a basis
\* point and floored, and for the last member whatever is left.
RedistributionShares(p, pool, weights) ==
  LET targets == DOMAIN weights
      total == Sum([m \in Soul |-> IF m \in targets THEN weights[m] ELSE 0], N)
      last == LastOf(p.members, targets)
      share == [m \in Soul |->
                  IF m \in targets \ {last}
                  THEN (pool * RoundDiv(10000 * weights[m], total)) \div 10000
                  ELSE 0]
  IN  [share EXCEPT ![last] = pool - Sum(share, N)]

DistributeRedistribution(p, pool, weights) ==
  LET shares == RedistributionShares(p, pool, weights)
  IN  IF pool <= 0 \/ DOMAIN weights = {} THEN p
      ELSE [p EXCEPT !.balances = [m \in Soul |-> p.balances[m] + shares[m]]]

\* What each child Cell gets of pool: by population, the last one the rest.
ChildAllocation(p, pool) ==
  LET people == [c \in Cell |-> IF c \in Children(p)
                                THEN Greatest(1, p.childPopulation[c]) ELSE 0]
      last == LastOf(p.childCells, Children(p))
      share == [c \in Cell |-> IF c = last THEN 0
                               ELSE (pool * people[c]) \div Sum(people, M)]
  IN  [share EXCEPT ![last] = pool - Sum(share, M)]

AllocateCommonsToChildCells(p, pool) ==
  LET allocation == ChildAllocation(p, pool)
  IN  [p EXCEPT !.childCellEscrow =
         [c \in Cell |-> p.childCellEscrow[c] + Greatest(allocation[c], 0)]]

-----------------------------------------------------------------------------
(* Transfers, minting and Vouch Liens.                                     *)

\* An overspend moves nothing: it freezes the spender (a Fracture).
TransferPoints(p, from, to, amount) ==
  LET debited == [p EXCEPT !.balances[from] = @ - amount]
  IN  IF from \notin Unfrozen(p) \/ to \notin Members(p) THEN p
      ELSE IF p.balances[from] < amount
      THEN [p EXCEPT !.frozen = @ \cup {from}]
      ELSE [debited EXCEPT !.balances[to] = @ + amount]

Overspends(p, from, to, amount) ==
  /\ from \in Unfrozen(p) /\ to \in Members(p)
  /\ p.balances[from] < amount

CreditOnly(p, to, amount) == [p EXCEPT !.balances[to] = @ + amount] \* mutant
MintPoints(p, to, amount) ==
  [p EXCEPT !.balances[to] = @ + amount, !.totalSupply = @ + amount]

ReleaseVouchLien(p, invitee) ==
  IF p.vouchLiens[invitee] = NoLien THEN p
  ELSE [p EXCEPT !.vouchLiens[invitee] = NoLien,
                 !.pendingInvites[invitee] = NoInvite]

CanPlaceOneLien(p, inviter, amount) == \* mutant
  amount > 0 /\ amount <= p.balances[inviter]
CanPlaceVouchLien(p, inviter, amount) ==
  amount > 0 /\ amount <= AvailableToPledge(p, inviter)

PlaceVouchLien(p, inviter, invitee, amount) ==
  [p EXCEPT !.vouchLiens[invitee] = [inviter |-> inviter, amount |-> amount]]
=============================================================================
