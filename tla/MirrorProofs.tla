---------------------------- MODULE MirrorProofs ----------------------------
(***************************************************************************)
(* What the mirror delivers and remembers, for any number of devices and   *)
(* controllers, any transfers and any faults.                              *)
(***************************************************************************)
EXTENDS Mirror, Lemmas, SequenceTheorems

-----------------------------------------------------------------------------
(* Types.                                                                  *)

Transfer == {"manual", "auto"} \X Nat

EventRecord == [type : {"fund", "create", "vote", "bridge"}, p : Transfer,
                by : Node \cup {"members"}]

\* The state of a ledger that knows of these proposals.
Ledger(P) ==
  [escrow : Nat, open : SUBSET P, executed : SUBSET P, completed : SUBSET P,
   moved : Nat]

\* A task that knows of these positions.
TaskRecord(P) ==
  [at : {"idle", "engines", "mirror", "vote", "deliver", "flush", "flushVote",
         "execute"},
   pool : SUBSET P, count : Nat, todo : SUBSET P, done : SUBSET P]

\* Nobody knows of other positions of the origin than these.
KnownIn(P) ==
  /\ destination \in Ledger(P)
  /\ seen \in [Node -> SUBSET P]
  /\ shown \in [Controller -> SUBSET P]
  /\ task \in [Controller -> TaskRecord(P)]
  /\ mirrored \in [Controller -> SUBSET P]
  /\ saved \in [Node -> SUBSET P]

TypeOK ==
  /\ origin \in Seq(EventRecord) /\ Len(origin) <= MaxEvents
  /\ KnownIn(Position)
  /\ deliveries \in [Controller -> [1 .. MaxEvents -> Nat]]
  /\ status \in [Controller -> {"new", "running", "stopped", "dead"}]
  /\ linked \in [Controller -> BOOLEAN]
  /\ bridged \in [Controller -> SUBSET Transfer]
  /\ flushed \in [Controller -> Nat]
  /\ missed \in [Controller -> BOOLEAN]
  /\ threw \subseteq Controller
  /\ disturbances \in 0 .. MaxDisturbances

\* A call to vote or to deliver is about a transaction.
Occupied ==
  \A c \in Controller : task[c].at \in {"vote", "deliver"} => task[c].todo # {}

MarkedAreDelivered ==
  /\ \A c \in Controller : \A i \in mirrored[c] : IsDelivered(i)
  /\ \A n \in Node : \A i \in saved[n] : IsDelivered(i)

\* What a controller delivered it marks, and what it marks it does not take up.
DeliveredAreMarked ==
  \A c \in Controller \ threw :
    /\ task[c].todo \cap mirrored[c] = {}
    /\ \A i \in 1 .. MaxEvents :
         /\ deliveries[c][i] <= 1
         /\ deliveries[c][i] > 0 => i \in mirrored[c]

Inv == TypeOK /\ Occupied /\ MarkedAreDelivered /\ DeliveredAreMarked

-----------------------------------------------------------------------------
(* Positions, events and folds.                                            *)

LEMMA PositionIs ==
  ASSUME TypeOK
  PROVE  /\ Len(origin) \in Nat /\ Position = 1 .. Len(origin)
         /\ Position \subseteq 1 .. MaxEvents
BY MirrorAssumption DEF TypeOK, Position

LEMMA CountNat ==
  ASSUME TypeOK, NEW S \in SUBSET (1 .. Len(origin) + 1)
  PROVE  Cardinality(S) \in Nat
<1>1. IsFiniteSet(1 .. Len(origin) + 1)
  BY PositionIs, FS_Interval
<1> QED BY <1>1, FS_Subset, FS_CardinalityType

\* More positions, more room.
LEMMA KnownWider ==
  ASSUME NEW P, NEW Q, P \subseteq Q
  PROVE  /\ KnownIn(P) => KnownIn(Q)
         /\ TaskRecord(P) \subseteq TaskRecord(Q)
         /\ Ledger(P) \subseteq Ledger(Q)
BY DEF KnownIn, TaskRecord, Ledger

\* A set of numbers below a bound that is not empty has a least element.
LEMMA LeastElement ==
  ASSUME NEW m \in Nat, NEW S \in SUBSET (1 .. m), S # {}
  PROVE  \E i \in S : \A j \in S : i <= j
<1> DEFINE T == {k \in 0 .. m : \/ \A j \in S : k < j
                                \/ \E i \in S : \A j \in S : i <= j}
<1>1. 0 \in T
  OBVIOUS
<1>2. ASSUME NEW k \in 0 .. m - 1, k \in T PROVE k + 1 \in T
  <2>1. CASE \A j \in S : k < j
    <3>1. CASE k + 1 \in S
      BY <2>1, <3>1
    <3>2. CASE k + 1 \notin S
      BY <2>1, <3>2
    <3> QED BY <3>1, <3>2
  <2> QED BY <1>2, <2>1
<1> HIDE DEF T
<1>3. m \in T
  BY <1>1, <1>2, IntervalInduction
<1>4. \E j \in S : ~(m < j)
  <2>1. PICK j \in S : TRUE
    OBVIOUS
  <2>2. j \in 1 .. m
    OBVIOUS
  <2> QED BY <2>2
<1> QED BY <1>3, <1>4 DEF T

LEMMA CurrentIsTodo ==
  ASSUME TypeOK, NEW c \in Controller, task[c].todo # {}
  PROVE  /\ Current(c) \in task[c].todo
         /\ Current(c) \in Position /\ Current(c) \in 1 .. MaxEvents
<1>1. task[c].todo \in SUBSET (1 .. MaxEvents) /\ task[c].todo \subseteq Position
  BY PositionIs DEF TypeOK, KnownIn, TaskRecord
<1>2. \E i \in task[c].todo : \A j \in task[c].todo : i <= j
  BY <1>1, LeastElement, MirrorAssumption
<1> QED BY <1>1, <1>2 DEF Current

\* An event keeps the type of a ledger.
LEMMA AfterEventType ==
  ASSUME NEW s \in Ledger(Transfer), NEW e \in EventRecord
  PROVE  AfterEvent(s, e) \in Ledger(Transfer)
<1>1. e.p \in Transfer /\ Amount(e.p) \in Nat
  BY DEF EventRecord, Transfer, Amount
<1>2. e.type \in {"fund", "create", "vote", "bridge"}
  BY DEF EventRecord
<1>3. CASE e.type = "fund"
  BY <1>3 DEF AfterEvent, Ledger
<1>4. CASE e.type = "create"
  BY <1>1, <1>4 DEF AfterEvent, Created, Ledger
<1>5. CASE e.type = "vote"
  BY <1>1, <1>5 DEF AfterEvent, Voted, Ledger
<1>6. CASE e.type = "bridge"
  <2>1. AfterEvent(s, e) = Released(s, e.p)
    BY <1>6 DEF AfterEvent
  <2>2. CASE e.p \in s.executed \ s.completed /\ s.escrow >= Amount(e.p)
    <3>1. s.escrow - Amount(e.p) \in Nat /\ s.moved + Amount(e.p) \in Nat
      BY <1>1, <2>2 DEF Ledger
    <3> QED BY <1>1, <2>1, <2>2, <3>1, ZenonT(40) DEF Released, Ledger
  <2>3. CASE ~(e.p \in s.executed \ s.completed /\ s.escrow >= Amount(e.p))
    BY <2>1, <2>3 DEF Released
  <2> QED BY <2>2, <2>3
<1> QED BY <1>2, <1>3, <1>4, <1>5, <1>6

\* What the events of the origin amount to is the state of a ledger.
LEMMA OriginType ==
  ASSUME TypeOK, NEW S
  PROVE  Origin(S) \in Ledger(Transfer)
<1> DEFINE n == Len(origin)
           T == {{s} : s \in Ledger(Transfer)}
           After(t, k) == {AfterEvent(s, origin[k]) : s \in t}
           step == [k \in 1 .. n |-> [t \in T |-> IF k \in S THEN After(t, k) ELSE t]]
           upTo == CHOOSE g : g = [k \in 0 .. n |->
                     IF k = 0 THEN {NoEvents}
                     ELSE IF k \in S
                          THEN {AfterEvent(s, origin[k]) : s \in g[k - 1]}
                          ELSE g[k - 1]]
<1>1. n \in Nat /\ \A k \in 1 .. n : origin[k] \in EventRecord
  BY DEF TypeOK
<1>2. {NoEvents} \in T
  BY DEF NoEvents, Ledger
<1>3. ASSUME NEW t \in T, NEW k \in 1 .. n PROVE After(t, k) \in T
  <2>1. PICK s \in Ledger(Transfer) : t = {s}
    OBVIOUS
  <2>2. After(t, k) = {AfterEvent(s, origin[k])}
    BY <2>1
  <2> QED BY <1>1, <2>2, AfterEventType
<1> HIDE DEF T, n, After
<1>4. step \in [1 .. n -> [T -> T]]
  BY <1>3
<1>5. PICK g \in [0 .. n -> T] : Recurs(g, n, {NoEvents}, step)
  <2> HIDE DEF step
  <2> QED BY <1>1, <1>2, <1>4, RecursionDefined
<1>6. g = [k \in 0 .. n |-> IF k = 0 THEN {NoEvents}
                            ELSE IF k \in S THEN After(g[k - 1], k) ELSE g[k - 1]]
  <2>1. ASSUME NEW k \in 0 .. n, k # 0
        PROVE  step[k][g[k - 1]] = IF k \in S THEN After(g[k - 1], k) ELSE g[k - 1]
    <3>1. k \in 1 .. n /\ g[k - 1] \in T
      BY <1>1, <1>5, <2>1
    <3> QED BY <3>1
  <2> HIDE DEF step
  <2> QED BY <1>5, <2>1 DEF Recurs
<1> HIDE DEF step
<1>7. upTo = [k \in 0 .. n |-> IF k = 0 THEN {NoEvents}
                     ELSE IF k \in S
                          THEN {AfterEvent(s, origin[k]) : s \in upTo[k - 1]}
                          ELSE upTo[k - 1]]
  BY <1>6 DEF After
<1>8. Origin(S) = CHOOSE s \in upTo[n] : TRUE
  BY DEF Origin, n
<1> HIDE DEF upTo
<1> DEFINE R == {k \in 0 .. n : upTo[k] \in T}
<1>9. 0 \in R
  BY <1>1, <1>2, <1>7
<1>10. ASSUME NEW k \in 0 .. n - 1, k \in R PROVE k + 1 \in R
  <2>1. k + 1 \in 1 .. n /\ k + 1 \in 0 .. n /\ k + 1 # 0 /\ (k + 1) - 1 = k
    BY <1>1
  <2>2. upTo[k + 1] = IF k + 1 \in S THEN After(upTo[k], k + 1) ELSE upTo[k]
    BY <1>7, <2>1 DEF After
  <2> QED BY <1>3, <1>10, <2>1, <2>2
<1> HIDE DEF R
<1>11. 0 .. n \subseteq R
  <2>1. n \in Nat
    BY <1>1
  <2> QED BY <2>1, <1>9, <1>10, IntervalInduction
<1>12. upTo[n] \in T
  BY <1>1, <1>11 DEF R
<1>13. PICK s \in Ledger(Transfer) : upTo[n] = {s}
  BY <1>12 DEF T
<1> QED BY <1>8, <1>13

-----------------------------------------------------------------------------
(* What keeps the invariant.                                               *)

\* The types of a step that lets nodes know of new positions, at most.
LEMMA SafeStep ==
  ASSUME Inv, TypeOK', Position \subseteq Position', threw \subseteq threw',
         deliveries' = deliveries,
         \A c \in Controller :
            \/ mirrored'[c] = mirrored[c]
            \/ mirrored[c] = {} /\ mirrored'[c] = saved[OwnerOf[c]],
         \A n \in Node : \/ saved'[n] \in {saved[n], {}}
                         \/ \E c \in Controller : saved'[n] = mirrored[c],
         \A c \in Controller :
            /\ task'[c].at \in {"vote", "deliver"} => task'[c].todo # {}
            /\ c \notin threw' => task'[c].todo \cap mirrored'[c] = {}
  PROVE  Inv'
<1>1. \A i : IsDelivered(i)' = IsDelivered(i)
  BY DEF IsDelivered
<1>2. MarkedAreDelivered'
  BY <1>1, MirrorAssumption DEF Inv, MarkedAreDelivered
<1>3. DeliveredAreMarked'
  BY DEF Inv, DeliveredAreMarked
<1>4. Occupied'
  BY DEF Occupied
<1> QED BY <1>2, <1>3, <1>4 DEF Inv

\* Once more, when nobody learns of a new position.
LEMMA IdleIn == \A P : Idle \in TaskRecord(P) /\ Idle.at = "idle" /\ Idle.todo = {}
BY DEF Idle, TaskRecord

LEMMA BegunType ==
  ASSUME TypeOK, NEW P, NEW pool \in SUBSET P, NEW log \in SUBSET (1 .. Len(origin) + 1)
  PROVE  /\ Begun(pool, log) \in TaskRecord(P)
         /\ Begun(pool, log).at = "engines" /\ Begun(pool, log).todo = {}
<1>1. Cardinality(log) \in Nat
  BY CountNat
<1> QED BY <1>1 DEF Begun, Idle, TaskRecord

LEMMA KnownPositions ==
  ASSUME TypeOK
  PROVE  /\ Position \subseteq 1 .. Len(origin) + 1
         /\ \A c \in Controller : /\ OwnerOf[c] \in Node
                                  /\ seen[OwnerOf[c]] \in SUBSET (1 .. Len(origin) + 1)
                                  /\ seen[OwnerOf[c]] \in SUBSET Position
                                  /\ shown[c] \in SUBSET Position
                                  /\ task[c] \in TaskRecord(Position)
                                  /\ saved[OwnerOf[c]] \in SUBSET Position
                                  /\ mirrored[c] \in SUBSET Position
<1>1. Position \subseteq 1 .. Len(origin) + 1
  BY PositionIs
<1>2. \A c \in Controller : OwnerOf[c] \in Node
  BY MirrorAssumption
<1> QED BY <1>1, <1>2 DEF TypeOK, KnownIn

LEMMA EndedType ==
  ASSUME TypeOK, NEW c \in Controller
  PROVE  /\ Ended(c) \in TaskRecord(Position)
         /\ Ended(c).at \in {"idle", "engines"} /\ Ended(c).todo = {}
<1>1. /\ seen[OwnerOf[c]] \in SUBSET (1 .. Len(origin) + 1)
      /\ shown[c] \in SUBSET Position
  BY KnownPositions
<1>2. /\ Begun(shown[c], seen[OwnerOf[c]]) \in TaskRecord(Position)
      /\ Begun(shown[c], seen[OwnerOf[c]]).at = "engines"
      /\ Begun(shown[c], seen[OwnerOf[c]]).todo = {}
  BY <1>1, BegunType
<1> QED BY <1>2, IdleIn DEF Ended

\* A publication ends as planned, or ends the task.
LEMMA PublishingTo ==
  ASSUME TypeOK, NEW c \in Controller, NEW next \in TaskRecord(Position),
         Publishing(c, next)
  PROVE  /\ task' \in [Controller -> TaskRecord(Position)]
         /\ \A d \in Controller \ {c} : task'[d] = task[d]
         /\ threw \subseteq threw' /\ threw' \subseteq Controller
         /\ disturbances' \in 0 .. MaxDisturbances
         /\ \/ task' = [task EXCEPT ![c] = next] /\ task'[c] = next /\ threw' = threw
            \/ /\ task'[c].at \in {"idle", "engines"} /\ task'[c].todo = {}
               /\ c \in threw'
<1>1. task \in [Controller -> TaskRecord(Position)]
  BY DEF TypeOK, KnownIn
<1>2. CASE task' = [task EXCEPT ![c] = next] /\ UNCHANGED <<threw, disturbances>>
  BY <1>1, <1>2 DEF TypeOK
<1>3. CASE /\ task' = [task EXCEPT ![c] = Ended(c)]
           /\ threw' = threw \cup {c} /\ Disturb
  <2>1. disturbances' \in 0 .. MaxDisturbances
    BY <1>3, MirrorAssumption DEF TypeOK, Disturb
  <2> QED BY <1>1, <1>3, <2>1, EndedType DEF TypeOK
<1> QED BY <1>2, <1>3 DEF Publishing

\* A task changes, by a step that leaves alone what controllers remember.
LEMMA TaskStep ==
  ASSUME Inv, NEW c \in Controller,
         UNCHANGED <<origin, deliveries, seen, shown, status, bridged, flushed, missed>>,
         destination' \in Ledger(Position), linked' \in [Controller -> BOOLEAN],
         task' \in [Controller -> TaskRecord(Position)],
         \A d \in Controller \ {c} : task'[d] = task[d],
         threw \subseteq threw', threw' \subseteq Controller,
         disturbances' \in 0 .. MaxDisturbances,
         task'[c].at \in {"vote", "deliver"} => task'[c].todo # {},
         mirrored' \in [Controller -> SUBSET Position],
         \A d \in Controller :
            \/ mirrored'[d] = mirrored[d]
            \/ d = c /\ mirrored[d] = {} /\ mirrored'[d] = saved[OwnerOf[d]],
         saved' \in [Node -> SUBSET Position],
         \A n \in Node : \/ saved'[n] = saved[n]
                         \/ \E d \in Controller : saved'[n] = mirrored[d],
         c \notin threw' => task'[c].todo \cap mirrored'[c] = {}
  PROVE  Inv'
<1>1. Position' = Position
  BY DEF Position
<1>2. TypeOK'
  BY <1>1 DEF Inv, TypeOK, KnownIn
<1>3. \A d \in Controller :
        /\ task'[d].at \in {"vote", "deliver"} => task'[d].todo # {}
        /\ d \notin threw' => task'[d].todo \cap mirrored'[d] = {}
  <2> TAKE d \in Controller
  <2>1. CASE d = c
    BY <2>1
  <2>2. CASE d # c
    BY <2>2 DEF Inv, Occupied, DeliveredAreMarked
  <2> QED BY <2>1, <2>2
<1> QED BY <1>1, <1>2, <1>3, SafeStep

-----------------------------------------------------------------------------
(* The mirror.                                                             *)

LEMMA EnginesReadyKeeps ==
  ASSUME Inv, NEW c \in Controller, EnginesReady(c)
  PROVE  Inv'
<1> DEFINE own == {i \in seen[OwnerOf[c]] :
                     origin[i].type = "bridge" /\ origin[i].by = OwnerOf[c]}
<1>1. own \ mirrored[c] \in SUBSET Position /\ task[c] \in TaskRecord(Position)
  BY KnownPositions DEF Inv
<1>2. task' = [task EXCEPT ![c].at = "mirror", ![c].todo = own \ mirrored[c]]
  BY DEF EnginesReady
<1> HIDE DEF own
<1>3. /\ task' \in [Controller -> TaskRecord(Position)]
      /\ task'[c].at = "mirror" /\ task'[c].todo = own \ mirrored[c]
      /\ \A d \in Controller \ {c} : task'[d] = task[d]
  BY <1>1, <1>2 DEF Inv, TypeOK, KnownIn, TaskRecord
<1>4. /\ destination' \in Ledger(Position) /\ linked' \in [Controller -> BOOLEAN]
      /\ mirrored' \in [Controller -> SUBSET Position]
      /\ saved' \in [Node -> SUBSET Position]
      /\ threw' = threw /\ mirrored' = mirrored /\ saved' = saved
      /\ threw' \subseteq Controller /\ disturbances' \in 0 .. MaxDisturbances
  BY DEF Inv, TypeOK, KnownIn, EnginesReady, ledgers
<1>5. UNCHANGED <<origin, deliveries, seen, shown, status, bridged, flushed, missed>>
  BY DEF EnginesReady, ledgers
<1>6. task'[c].todo \cap mirrored'[c] = {}
  BY <1>3, <1>4
<1> QED BY <1>3, <1>4, <1>5, <1>6, TaskStep

\* A publication at the destination that is not the delivery.
LEMMA AtDestination ==
  ASSUME Inv, NEW c \in Controller, NEW step \in {"vote", "deliver"},
         task[c].todo # {},
         destination' \in Ledger(Position),
         Publishing(c, [task[c] EXCEPT !.at = step]),
         UNCHANGED <<origin, deliveries, seen, shown, status, memory, mirrored, saved,
                     missed>>
  PROVE  Inv'
<1> DEFINE next == [task[c] EXCEPT !.at = step]
<1>1. next \in TaskRecord(Position) /\ next.todo = task[c].todo
  <2>1. task[c] \in TaskRecord(Position)
    BY KnownPositions DEF Inv
  <2> QED BY <2>1 DEF TaskRecord
<1>2. Publishing(c, next)
  OBVIOUS
<1> HIDE DEF next
<1>3. /\ task' \in [Controller -> TaskRecord(Position)]
      /\ \A d \in Controller \ {c} : task'[d] = task[d]
      /\ threw \subseteq threw' /\ threw' \subseteq Controller
      /\ disturbances' \in 0 .. MaxDisturbances
      /\ \/ task'[c] = next /\ threw' = threw
         \/ /\ task'[c].at \in {"idle", "engines"} /\ task'[c].todo = {}
            /\ c \in threw'
  BY <1>1, <1>2, PublishingTo DEF Inv
<1>4. /\ mirrored' \in [Controller -> SUBSET Position] /\ mirrored' = mirrored
      /\ saved' \in [Node -> SUBSET Position] /\ saved' = saved
      /\ linked' \in [Controller -> BOOLEAN] /\ bridged' = bridged /\ flushed' = flushed
  BY DEF Inv, TypeOK, KnownIn, memory
<1>5. c \notin threw' => task'[c].todo \cap mirrored'[c] = {}
  BY <1>1, <1>3, <1>4 DEF Inv, DeliveredAreMarked
<1>6. task'[c].at \in {"vote", "deliver"} => task'[c].todo # {}
  BY <1>1, <1>3
<1> QED BY <1>3, <1>4, <1>5, <1>6, TaskStep

LEMMA MirrorCreateKeeps ==
  ASSUME Inv, NEW c \in Controller, MirrorCreate(c)
  PROVE  Inv'
<1>1. task[c].todo # {} /\ Current(c) \in Position
  BY CurrentIsTodo DEF MirrorCreate, Inv
<1>2. destination' \in Ledger(Position)
  BY <1>1 DEF Inv, TypeOK, KnownIn, MirrorCreate, Created, Ledger
<1> QED BY <1>1, <1>2, AtDestination DEF MirrorCreate

LEMMA MirrorVoteKeeps ==
  ASSUME Inv, NEW c \in Controller, MirrorVote(c)
  PROVE  Inv'
<1>1. task[c].todo # {} /\ Current(c) \in Position
  BY CurrentIsTodo DEF MirrorVote, At, Inv, Occupied
<1>2. destination' \in Ledger(Position)
  BY <1>1 DEF Inv, TypeOK, KnownIn, MirrorVote, Voted, Ledger
<1> QED BY <1>1, <1>2, AtDestination DEF MirrorVote

LEMMA CreditedType ==
  ASSUME TypeOK, NEW i \in Position
  PROVE  Credited(destination, i) \in Ledger(Position)
<1>1. origin[i] \in EventRecord
  BY PositionIs DEF TypeOK
<1>2. Amount(origin[i].p) \in Nat
  BY <1>1 DEF EventRecord, Transfer, Amount
<1>3. destination \in Ledger(Position)
  BY DEF TypeOK, KnownIn
<1>4. destination.moved + Amount(origin[i].p) \in Nat
  BY <1>2, <1>3 DEF Ledger
<1> QED BY <1>3, <1>4 DEF Credited, Ledger

\* What is delivered was not marked, so it had not been delivered before; it is
\* marked unless the publication fails.
LEMMA MirrorDeliverKeeps ==
  ASSUME Inv, NEW c \in Controller, MirrorDeliver(c)
  PROVE  Inv'
<1>1. PICK i \in 1 .. MaxEvents : i = Current(c) /\ i \in task[c].todo /\ i \in Position
  BY CurrentIsTodo DEF MirrorDeliver, At, Inv, Occupied
<1> DEFINE next == [task[c] EXCEPT !.at = "mirror", !.todo = @ \ {i},
                                   !.done = @ \cup {i}]
<1>2. /\ next \in TaskRecord(Position) /\ next.todo = task[c].todo \ {i}
      /\ next.at = "mirror"
  <2>1. task[c] \in TaskRecord(Position)
    BY KnownPositions DEF Inv
  <2> QED BY <1>1, <2>1 DEF TaskRecord
<1>3. /\ Publishing(c, next)
      /\ deliveries' = [deliveries EXCEPT ![c][i] = @ + 1]
      /\ destination' = Credited(destination, i)
      /\ mirrored' = IF task'[c] = next
                     THEN [mirrored EXCEPT ![c] = @ \cup {i}] ELSE mirrored
      /\ UNCHANGED <<origin, seen, shown, status, memory, saved, missed>>
  BY <1>1 DEF MirrorDeliver
<1> HIDE DEF next
<1>4. /\ task' \in [Controller -> TaskRecord(Position)]
      /\ \A d \in Controller \ {c} : task'[d] = task[d]
      /\ threw \subseteq threw' /\ threw' \subseteq Controller
      /\ disturbances' \in 0 .. MaxDisturbances
      /\ \/ task'[c] = next /\ threw' = threw
         \/ /\ task'[c].at \in {"idle", "engines"} /\ task'[c].todo = {}
            /\ c \in threw'
  BY <1>2, <1>3, PublishingTo DEF Inv
<1>5. /\ deliveries' \in [Controller -> [1 .. MaxEvents -> Nat]]
      /\ deliveries'[c][i] = deliveries[c][i] + 1 /\ deliveries[c][i] \in Nat
      /\ \A d \in Controller, j \in 1 .. MaxEvents :
           d # c \/ j # i => deliveries'[d][j] = deliveries[d][j]
  <2> DEFINE row == [deliveries[c] EXCEPT ![i] = @ + 1]
  <2>1. deliveries \in [Controller -> [1 .. MaxEvents -> Nat]]
    BY DEF Inv, TypeOK
  <2>2. deliveries' = [deliveries EXCEPT ![c] = row]
    BY <1>3
  <2>3. /\ row \in [1 .. MaxEvents -> Nat] /\ row[i] = deliveries[c][i] + 1
        /\ deliveries[c][i] \in Nat
        /\ \A j \in 1 .. MaxEvents : j # i => row[j] = deliveries[c][j]
    <3>1. deliveries[c] \in [1 .. MaxEvents -> Nat]
      BY <2>1
    <3>2. deliveries[c][i] \in Nat /\ deliveries[c][i] + 1 \in Nat
      BY <1>1, <3>1, MirrorAssumption
    <3>3. row \in [1 .. MaxEvents -> Nat]
      BY <3>1, <3>2
    <3>4. row[i] = deliveries[c][i] + 1
      BY <1>1, <3>1, MirrorAssumption
    <3>5. ASSUME NEW j \in 1 .. MaxEvents, j # i PROVE row[j] = deliveries[c][j]
      BY <3>1, <3>5
    <3> QED BY <3>2, <3>3, <3>4, <3>5
  <2> HIDE DEF row
  <2> QED BY <2>1, <2>2, <2>3
<1>6. /\ mirrored' \in [Controller -> SUBSET Position]
      /\ \A d \in Controller \ {c} : mirrored'[d] = mirrored[d]
      /\ mirrored'[c] \in {mirrored[c], mirrored[c] \cup {i}}
      /\ task'[c] = next => mirrored'[c] = mirrored[c] \cup {i}
  BY <1>1, <1>3 DEF Inv, TypeOK, KnownIn
<1>7. TypeOK'
  <2>1. destination' \in Ledger(Position)
    BY <1>1, <1>3, CreditedType DEF Inv
  <2>2. Position' = Position
    BY <1>3 DEF Position
  <2> QED BY <1>3, <1>4, <1>5, <1>6, <2>1, <2>2 DEF Inv, TypeOK, KnownIn, memory
<1>8. Occupied'
  BY <1>2, <1>4 DEF Inv, Occupied
<1>9. MarkedAreDelivered'
  <2>1. \A j : j \in Position /\ IsDelivered(j) => IsDelivered(j)'
    <3>1. Position \subseteq 1 .. MaxEvents
      BY PositionIs DEF Inv
    <3> SUFFICES ASSUME NEW j \in 1 .. MaxEvents, IsDelivered(j) PROVE IsDelivered(j)'
      BY <3>1
    <3>2. PICK d \in Controller : deliveries[d][j] > 0
      BY DEF IsDelivered
    <3>3. deliveries[d][j] \in Nat
      BY DEF Inv, TypeOK
    <3>4. deliveries'[d][j] > 0
      BY <1>5, <3>2, <3>3, SMTT(30)
    <3> QED BY <3>4 DEF IsDelivered
  <2>2. IsDelivered(i)'
    <3>1. deliveries'[c][i] > 0
      BY <1>5
    <3> QED BY <3>1 DEF IsDelivered
  <2>3. \A d \in Controller : \A j \in mirrored'[d] : IsDelivered(j)'
    BY <1>6, <2>1, <2>2 DEF Inv, TypeOK, KnownIn, MarkedAreDelivered
  <2>4. \A n \in Node : \A j \in saved'[n] : IsDelivered(j)'
    BY <1>3, <2>1 DEF Inv, TypeOK, KnownIn, MarkedAreDelivered
  <2> QED BY <2>3, <2>4 DEF MarkedAreDelivered
<1>10. DeliveredAreMarked'
  <2> SUFFICES ASSUME NEW d \in Controller, d \notin threw'
               PROVE  /\ task'[d].todo \cap mirrored'[d] = {}
                      /\ \A j \in 1 .. MaxEvents :
                           /\ deliveries'[d][j] <= 1
                           /\ deliveries'[d][j] > 0 => j \in mirrored'[d]
    BY DEF DeliveredAreMarked
  <2>1. /\ d \notin threw /\ task[d].todo \cap mirrored[d] = {}
        /\ \A j \in 1 .. MaxEvents :
             /\ deliveries[d][j] <= 1
             /\ deliveries[d][j] > 0 => j \in mirrored[d]
    BY <1>4 DEF Inv, DeliveredAreMarked
  <2>2. CASE d # c
    BY <1>4, <1>5, <1>6, <2>1, <2>2
  <2>3. CASE d = c
    <3>1. task'[c] = next /\ mirrored'[c] = mirrored[c] \cup {i}
      BY <1>4, <1>6, <2>3
    <3>2. deliveries[c][i] = 0
      BY <1>1, <1>5, <2>1, <2>3
    <3> QED BY <1>2, <1>5, <2>1, <2>3, <3>1, <3>2
  <2> QED BY <2>2, <2>3
<1> QED BY <1>7, <1>8, <1>9, <1>10 DEF Inv

LEMMA MirrorDoneKeeps ==
  ASSUME Inv, NEW c \in Controller, MirrorDone(c)
  PROVE  Inv'
<1>1. task[c] \in TaskRecord(Position) /\ OwnerOf[c] \in Node
  BY KnownPositions DEF Inv
<1>2. /\ task' \in [Controller -> TaskRecord(Position)]
      /\ task'[c].at = "flush" /\ task'[c].todo = task[c].todo
      /\ \A d \in Controller \ {c} : task'[d] = task[d]
  BY <1>1 DEF Inv, TypeOK, KnownIn, TaskRecord, MirrorDone
<1>3. /\ saved' \in [Node -> SUBSET Position]
      /\ \A n \in Node : \/ saved'[n] = saved[n]
                         \/ \E d \in Controller : saved'[n] = mirrored[d]
  BY <1>1 DEF Inv, TypeOK, KnownIn, MirrorDone
<1>4. /\ destination' \in Ledger(Position) /\ linked' \in [Controller -> BOOLEAN]
      /\ mirrored' \in [Controller -> SUBSET Position]
      /\ threw' = threw /\ mirrored' = mirrored
      /\ threw' \subseteq Controller /\ disturbances' \in 0 .. MaxDisturbances
  BY DEF Inv, TypeOK, KnownIn, MirrorDone, ledgers, memory
<1>5. UNCHANGED <<origin, deliveries, seen, shown, status, bridged, flushed, missed>>
  BY DEF MirrorDone, ledgers, memory
<1>6. c \notin threw' => task'[c].todo \cap mirrored'[c] = {}
  BY <1>2, <1>4 DEF Inv, DeliveredAreMarked
<1> QED BY <1>2, <1>3, <1>4, <1>5, <1>6, TaskStep

-----------------------------------------------------------------------------
(* Transactions of one's own, and what wakes a controller.                 *)

\* Tasks go on with what is left to mirror, or end, or begin.
LEMMA WakeStep ==
  ASSUME Inv, TypeOK', Position \subseteq Position', threw \subseteq threw',
         deliveries' = deliveries, saved' = saved,
         \A c \in Controller :
            \/ mirrored'[c] = mirrored[c]
            \/ mirrored[c] = {} /\ mirrored'[c] = saved[OwnerOf[c]],
         \A c \in Controller :
            \/ task'[c].todo = {} /\ task'[c].at \in {"idle", "engines"}
            \/ /\ task'[c].todo = task[c].todo /\ mirrored'[c] = mirrored[c]
               /\ task'[c].at \in {"vote", "deliver"} => task'[c].at = task[c].at
  PROVE  Inv'
<1>1. \A c \in Controller :
        /\ task'[c].at \in {"vote", "deliver"} => task'[c].todo # {}
        /\ c \notin threw' => task'[c].todo \cap mirrored'[c] = {}
  BY DEF Inv, Occupied, DeliveredAreMarked
<1> QED BY <1>1, SafeStep

\* A log grew and tasks began, within these positions.
Grown(Q, tasks) ==
  /\ seen' \in [Node -> SUBSET Q] /\ shown' \in [Controller -> SUBSET Q]
  /\ task' \in [Controller -> TaskRecord(Q)]
  /\ \A c \in Controller :
       \/ task'[c] = tasks[c]
       \/ tasks[c].at = "idle" /\ task'[c].at = "engines" /\ task'[c].todo = {}

LEMMA GrowsTo ==
  ASSUME TypeOK, NEW n \in Node, NEW Q, Position \subseteq Q,
         NEW log \in SUBSET Q, log \subseteq 1 .. Len(origin) + 1,
         NEW tasks \in [Controller -> TaskRecord(Q)], Grows(n, log, tasks)
  PROVE  Grown(Q, tasks)
<1>1. seen \in [Node -> SUBSET Q] /\ shown \in [Controller -> SUBSET Q]
  BY DEF TypeOK, KnownIn
<1>2. /\ Begun(log, log) \in TaskRecord(Q)
      /\ Begun(log, log).at = "engines" /\ Begun(log, log).todo = {}
  BY BegunType
<1>3. \A c \in Controller : BegunUnlessPending(tasks, c, log) \in TaskRecord(Q)
  BY <1>2 DEF BegunUnlessPending
<1> QED BY <1>1, <1>2, <1>3 DEF Grows, BegunUnlessPending, Grown

LEMMA LoadsTo ==
  ASSUME TypeOK, Loads
  PROVE  /\ mirrored' \in [Controller -> SUBSET Position]
         /\ \A c \in Controller :
              \/ mirrored'[c] = mirrored[c]
              \/ /\ mirrored[c] = {} /\ mirrored'[c] = saved[OwnerOf[c]]
                 /\ task[c].at = "idle" /\ task'[c].at # "idle"
<1>1. \A c \in Controller : /\ mirrored[c] \in SUBSET Position
                            /\ Loaded(c) \in SUBSET Position
  BY KnownPositions DEF Loaded
<1> QED BY <1>1 DEF Loads, Loaded

LEMMA AtOriginKeeps ==
  ASSUME Inv, NEW c \in Controller, NEW e \in EventRecord,
         NEW next \in TaskRecord(Position),
         task[c].at # "idle", next.todo = task[c].todo,
         next.at \notin {"vote", "deliver", "idle"},
         AtOrigin(c, e, next),
         bridged' \in [Controller -> SUBSET Transfer],
         flushed' \in [Controller -> Nat]
  PROVE  Inv'
<1> DEFINE Q == 1 .. Len(origin) + 1
           log == seen[OwnerOf[c]] \cup {Len(origin) + 1}
           ended == IF Cardinality(log) > task[c].count
                    THEN Begun(IF Prompt(c) THEN log ELSE shown[c], log) ELSE Idle
<1>1. /\ Len(origin) \in Nat /\ Position \subseteq Q /\ log \in SUBSET Q
      /\ OwnerOf[c] \in Node /\ shown[c] \in SUBSET Q /\ next \in TaskRecord(Q)
      /\ task \in [Controller -> TaskRecord(Q)]
  <2>1. Len(origin) \in Nat /\ Position \subseteq Q /\ OwnerOf[c] \in Node
    BY PositionIs, KnownPositions DEF Inv
  <2>2. seen[OwnerOf[c]] \in SUBSET Q /\ shown[c] \in SUBSET Q
    BY <2>1, KnownPositions DEF Inv
  <2>3. TaskRecord(Position) \subseteq TaskRecord(Q)
    BY <2>1, KnownWider
  <2>4. task \in [Controller -> TaskRecord(Q)]
    BY <2>3 DEF Inv, TypeOK, KnownIn
  <2> QED BY <2>1, <2>2, <2>3, <2>4
<1>2. /\ ended \in TaskRecord(Q) /\ ended.todo = {}
      /\ ended.at \in {"idle", "engines"}
  <2> DEFINE pool == IF Prompt(c) THEN log ELSE shown[c]
  <2>1. pool \in SUBSET Q /\ Cardinality(log) \in Nat
    BY <1>1, CountNat DEF Inv
  <2> HIDE DEF pool, Q, log
  <2>2. /\ Begun(pool, log) \in TaskRecord(Q)
        /\ Begun(pool, log).todo = {} /\ Begun(pool, log).at = "engines"
    BY <2>1 DEF Begun, Idle, TaskRecord
  <2> QED BY <2>2, IdleIn DEF pool
<1>3. /\ Len(origin) < MaxEvents /\ origin' = Append(origin, e) /\ Loads
      /\ \/ /\ Grows(OwnerOf[c], log, [task EXCEPT ![c] = next])
            /\ UNCHANGED <<threw, disturbances>>
         \/ /\ Grows(OwnerOf[c], log, [task EXCEPT ![c] = ended])
            /\ threw' = threw \cup {c} /\ Disturb
      /\ UNCHANGED <<destination, deliveries, status, linked, saved, missed>>
  BY DEF AtOrigin
<1> HIDE DEF log, ended
<1>4. Position' = Q /\ origin' \in Seq(EventRecord) /\ Len(origin') <= MaxEvents
  BY <1>1, <1>3, MirrorAssumption DEF Inv, TypeOK, Position
<1> HIDE DEF Q
<1>5. PICK mid \in {next, ended} : Grows(OwnerOf[c], log, [task EXCEPT ![c] = mid])
  BY <1>3
<1>6. /\ mid \in TaskRecord(Q)
      /\ \/ mid.todo = task[c].todo /\ mid.at \notin {"vote", "deliver", "idle"}
         \/ mid.todo = {} /\ mid.at \in {"idle", "engines"}
  BY <1>1, <1>2, <1>5
<1> DEFINE tasks == [task EXCEPT ![c] = mid]
<1>7. /\ tasks \in [Controller -> TaskRecord(Q)] /\ tasks[c] = mid
      /\ \A d \in Controller \ {c} : tasks[d] = task[d]
      /\ Grows(OwnerOf[c], log, tasks)
  BY <1>1, <1>5, <1>6
<1> HIDE DEF tasks
<1>8. Grown(Q, tasks)
  <2>1. TypeOK /\ log \subseteq 1 .. Len(origin) + 1
    BY <1>1 DEF Inv, Q
  <2> QED BY ONLY <1>1, <1>7, <2>1, GrowsTo
<1>9. /\ mirrored' \in [Controller -> SUBSET Position]
      /\ \A d \in Controller :
           \/ mirrored'[d] = mirrored[d]
           \/ /\ mirrored[d] = {} /\ mirrored'[d] = saved[OwnerOf[d]]
              /\ task[d].at = "idle" /\ task'[d].at # "idle"
  BY <1>3, LoadsTo DEF Inv
<1>10. /\ threw \subseteq threw' /\ threw' \subseteq Controller
       /\ disturbances' \in 0 .. MaxDisturbances
  BY <1>3, MirrorAssumption DEF Inv, TypeOK, Disturb
<1>11. TypeOK'
  <2>1. /\ destination' \in Ledger(Q) /\ saved' \in [Node -> SUBSET Q]
        /\ mirrored' \in [Controller -> SUBSET Q]
    BY <1>1, <1>3, <1>9, KnownWider DEF Inv, TypeOK, KnownIn
  <2>2. KnownIn(Position)'
    BY <1>4, <1>8, <2>1 DEF KnownIn, Grown
  <2> QED BY <1>3, <1>4, <1>10, <2>2 DEF Inv, TypeOK
<1>12. \A d \in Controller :
         \/ task'[d].todo = {} /\ task'[d].at \in {"idle", "engines"}
         \/ /\ task'[d].todo = task[d].todo /\ mirrored'[d] = mirrored[d]
            /\ task'[d].at \in {"vote", "deliver"} => task'[d].at = task[d].at
  <2> TAKE d \in Controller
  <2>1. CASE d = c
    BY <1>6, <1>7, <1>8, <1>9, <2>1 DEF Grown
  <2>2. CASE d # c
    BY <1>7, <1>8, <1>9, <2>2 DEF Grown
  <2> QED BY <2>1, <2>2
<1> QED BY <1>1, <1>3, <1>4, <1>9, <1>10, <1>11, <1>12, WakeStep

\* The flush names the escrow its task knows of.
LEMMA FlushIdType ==
  ASSUME TypeOK, NEW c \in Controller
  PROVE  /\ FlushId(c) \in Transfer /\ Amount(FlushId(c)) \in Nat
         /\ Origin(task[c].pool).executed \subseteq Transfer
<1>1. Origin(task[c].pool) \in Ledger(Transfer)
  BY OriginType
<1> QED BY <1>1 DEF FlushId, Transfer, Amount, Ledger

LEMMA OwnEvent ==
  ASSUME NEW c \in Controller, NEW type \in {"create", "vote", "bridge"},
         NEW p \in Transfer
  PROVE  Event(type, p, OwnerOf[c]) \in EventRecord
BY MirrorAssumption DEF Event, EventRecord

\* The task after a step that publishes nothing more to vote on or deliver.
LEMMA NextTask ==
  ASSUME TypeOK, NEW c \in Controller, NEW step \in {"flushVote", "execute"}
  PROVE  /\ [task[c] EXCEPT !.at = step] \in TaskRecord(Position)
         /\ [task[c] EXCEPT !.at = step].todo = task[c].todo
         /\ [task[c] EXCEPT !.at = step].at = step
<1>1. task[c] \in TaskRecord(Position)
  BY KnownPositions
<1> QED BY <1>1 DEF TaskRecord

LEMMA FlushCreateKeeps ==
  ASSUME Inv, NEW c \in Controller, FlushCreate(c)
  PROVE  Inv'
<1> DEFINE next == [task[c] EXCEPT !.at = "flushVote"]
           e == Event("create", FlushId(c), OwnerOf[c])
<1>1. next \in TaskRecord(Position) /\ next.todo = task[c].todo /\ next.at = "flushVote"
  BY NextTask DEF Inv
<1>2. e \in EventRecord
  BY FlushIdType, OwnEvent DEF Inv
<1>3. AtOrigin(c, e, next) /\ task[c].at # "idle"
  BY DEF FlushCreate, FlushDue, At
<1> HIDE DEF next, e
<1>4. bridged' \in [Controller -> SUBSET Transfer] /\ flushed' \in [Controller -> Nat]
  BY DEF FlushCreate, Inv, TypeOK
<1> QED BY <1>1, <1>2, <1>3, <1>4, AtOriginKeeps

LEMMA FlushVoteKeeps ==
  ASSUME Inv, NEW c \in Controller, FlushVote(c)
  PROVE  Inv'
<1> DEFINE next == [task[c] EXCEPT !.at = "execute"]
           e == Event("vote", FlushId(c), OwnerOf[c])
<1>1. next \in TaskRecord(Position) /\ next.todo = task[c].todo /\ next.at = "execute"
  BY NextTask DEF Inv
<1>2. e \in EventRecord
  BY FlushIdType, OwnEvent DEF Inv
<1>3. AtOrigin(c, e, next) /\ task[c].at # "idle"
  BY DEF FlushVote, At
<1> HIDE DEF next, e
<1>4. bridged' \in [Controller -> SUBSET Transfer] /\ flushed' \in [Controller -> Nat]
  BY DEF FlushVote, Inv, TypeOK
<1> QED BY <1>1, <1>2, <1>3, <1>4, AtOriginKeeps

LEMMA FlushDeliverKeeps ==
  ASSUME Inv, NEW c \in Controller, FlushDeliver(c)
  PROVE  Inv'
<1> DEFINE next == [task[c] EXCEPT !.at = "execute"]
           e == Event("bridge", FlushId(c), OwnerOf[c])
<1>1. next \in TaskRecord(Position) /\ next.todo = task[c].todo /\ next.at = "execute"
  BY NextTask DEF Inv
<1>2. e \in EventRecord
  BY FlushIdType, OwnEvent DEF Inv
<1>3. AtOrigin(c, e, next) /\ task[c].at # "idle"
  BY DEF FlushDeliver, FlushDue, At
<1> HIDE DEF next, e
<1>4. bridged' \in [Controller -> SUBSET Transfer] /\ flushed' \in [Controller -> Nat]
  BY FlushIdType DEF FlushDeliver, Inv, TypeOK
<1> QED BY <1>1, <1>2, <1>3, <1>4, AtOriginKeeps

LEMMA ExecuteKeeps ==
  ASSUME Inv, NEW c \in Controller, Execute(c)
  PROVE  Inv'
<1>1. PICK p \in ToExecute(c) :
        /\ bridged' = [bridged EXCEPT ![c] = @ \cup {p}]
        /\ AtOrigin(c, Event("bridge", p, OwnerOf[c]), task[c])
  BY DEF Execute
<1>2. p \in Transfer
  BY FlushIdType DEF ToExecute, Approved, Inv
<1> DEFINE e == Event("bridge", p, OwnerOf[c])
<1>3. e \in EventRecord
  BY <1>2, OwnEvent
<1>4. AtOrigin(c, e, task[c]) /\ task[c].at = "execute"
  BY <1>1 DEF Execute, At
<1> HIDE DEF e
<1>5. bridged' \in [Controller -> SUBSET Transfer] /\ flushed' \in [Controller -> Nat]
  BY <1>1, <1>2 DEF Execute, Inv, TypeOK
<1>6. task[c] \in TaskRecord(Position)
  BY KnownPositions DEF Inv
<1> QED BY <1>3, <1>4, <1>5, <1>6, AtOriginKeeps

LEMMA FlushNothingKeeps ==
  ASSUME Inv, NEW c \in Controller, FlushNothing(c)
  PROVE  Inv'
<1>1. /\ task' = [task EXCEPT ![c] = [task[c] EXCEPT !.at = "execute"]]
      /\ UNCHANGED <<ledgers, seen, shown, status, memory, mirrored, saved, missed,
                     threw, disturbances>>
  BY DEF FlushNothing
<1>2. /\ task' \in [Controller -> TaskRecord(Position)]
      /\ task'[c].todo = task[c].todo /\ task'[c].at = "execute"
      /\ \A d \in Controller \ {c} : task'[d] = task[d]
  BY <1>1, NextTask DEF Inv, TypeOK, KnownIn
<1>3. Position' = Position /\ TypeOK'
  BY <1>1, <1>2 DEF Inv, TypeOK, KnownIn, Position, ledgers, memory
<1>4. \A d \in Controller :
        /\ task'[d].todo = task[d].todo /\ mirrored'[d] = mirrored[d]
        /\ task'[d].at \in {"vote", "deliver"} => task'[d].at = task[d].at
  BY <1>1, <1>2
<1> QED BY <1>1, <1>3, <1>4, WakeStep DEF ledgers

LEMMA FinishKeeps ==
  ASSUME Inv, NEW c \in Controller, Finish(c)
  PROVE  Inv'
<1>1. /\ task' \in [Controller -> TaskRecord(Position)]
      /\ task'[c].todo = {} /\ task'[c].at \in {"idle", "engines"}
      /\ \A d \in Controller \ {c} : task'[d] = task[d]
  BY EndedType DEF Finish, Inv, TypeOK, KnownIn
<1>2. Loaded(c) \in SUBSET Position
  BY KnownPositions DEF Loaded, Inv
<1>3. /\ mirrored' \in [Controller -> SUBSET Position]
      /\ \A d \in Controller \ {c} : mirrored'[d] = mirrored[d]
      /\ \/ mirrored'[c] = mirrored[c]
         \/ mirrored[c] = {} /\ mirrored'[c] = saved[OwnerOf[c]]
  BY <1>2 DEF Finish, Inv, TypeOK, KnownIn, Loaded
<1>4. UNCHANGED <<ledgers, seen, shown, status, memory, saved, missed, threw,
                  disturbances>>
  BY DEF Finish
<1>5. Position' = Position /\ TypeOK'
  BY <1>1, <1>3, <1>4 DEF Inv, TypeOK, KnownIn, Position, ledgers, memory
<1>6. \A d \in Controller :
        \/ task'[d].todo = {} /\ task'[d].at \in {"idle", "engines"}
        \/ /\ task'[d].todo = task[d].todo /\ mirrored'[d] = mirrored[d]
           /\ task'[d].at \in {"vote", "deliver"} => task'[d].at = task[d].at
  BY <1>1, <1>3
<1> QED BY <1>3, <1>4, <1>5, <1>6, WakeStep DEF ledgers

-----------------------------------------------------------------------------
(* The life of controllers and nodes.                                      *)

\* A step within the positions there are, in which a task may begin.
LEMMA LifeStep ==
  ASSUME Inv, UNCHANGED <<ledgers, memory, saved, threw, disturbances>>,
         seen' \in [Node -> SUBSET Position], shown' \in [Controller -> SUBSET Position],
         status' \in [Controller -> {"new", "running", "stopped", "dead"}],
         missed' \in [Controller -> BOOLEAN],
         task' \in [Controller -> TaskRecord(Position)],
         \A c \in Controller :
           \/ task'[c] = task[c]
           \/ task'[c].at = "engines" /\ task'[c].todo = {},
         Loads
  PROVE  Inv'
<1>1. /\ mirrored' \in [Controller -> SUBSET Position]
      /\ \A c \in Controller :
           \/ mirrored'[c] = mirrored[c]
           \/ /\ mirrored[c] = {} /\ mirrored'[c] = saved[OwnerOf[c]]
              /\ task[c].at = "idle" /\ task'[c].at # "idle"
  BY LoadsTo DEF Inv
<1>2. Position' = Position /\ TypeOK'
  BY <1>1 DEF Inv, TypeOK, KnownIn, Position, ledgers, memory
<1>3. \A d \in Controller :
        \/ task'[d].todo = {} /\ task'[d].at \in {"idle", "engines"}
        \/ /\ task'[d].todo = task[d].todo /\ mirrored'[d] = mirrored[d]
           /\ task'[d].at \in {"vote", "deliver"} => task'[d].at = task[d].at
  BY <1>1
<1> QED BY <1>1, <1>2, <1>3, WakeStep DEF ledgers

LEMMA BegunHere ==
  ASSUME TypeOK, NEW c \in Controller
  PROVE  /\ seen[OwnerOf[c]] \in SUBSET Position
         /\ Begun(seen[OwnerOf[c]], seen[OwnerOf[c]]) \in TaskRecord(Position)
         /\ Begun(seen[OwnerOf[c]], seen[OwnerOf[c]]).at = "engines"
         /\ Begun(seen[OwnerOf[c]], seen[OwnerOf[c]]).todo = {}
<1>1. /\ seen[OwnerOf[c]] \in SUBSET Position
      /\ seen[OwnerOf[c]] \in SUBSET (1 .. Len(origin) + 1)
  BY KnownPositions
<1>2. Cardinality(seen[OwnerOf[c]]) \in Nat
  BY <1>1, CountNat
<1> QED BY <1>1, <1>2 DEF Begun, Idle, TaskRecord

LEMMA StartKeeps ==
  ASSUME Inv, NEW c \in Controller, Start(c)
  PROVE  Inv'
<1>1. /\ shown' \in [Controller -> SUBSET Position]
      /\ task' \in [Controller -> TaskRecord(Position)]
      /\ \A d \in Controller :
           \/ task'[d] = task[d]
           \/ task'[d].at = "engines" /\ task'[d].todo = {}
  BY BegunHere DEF Start, Inv, TypeOK, KnownIn
<1>2. /\ seen' \in [Node -> SUBSET Position]
      /\ status' \in [Controller -> {"new", "running", "stopped", "dead"}]
      /\ missed' \in [Controller -> BOOLEAN]
  BY DEF Start, Inv, TypeOK, KnownIn
<1> QED BY <1>1, <1>2, LifeStep DEF Start

LEMMA AnswerKeeps ==
  ASSUME Inv, NEW c \in Controller, Answer(c)
  PROVE  Inv'
<1>1. /\ shown' \in [Controller -> SUBSET Position]
      /\ task' \in [Controller -> TaskRecord(Position)]
      /\ \A d \in Controller :
           \/ task'[d] = task[d]
           \/ task'[d].at = "engines" /\ task'[d].todo = {}
  BY BegunHere DEF Answer, BegunUnlessPending, Inv, TypeOK, KnownIn
<1>2. /\ seen' \in [Node -> SUBSET Position]
      /\ status' \in [Controller -> {"new", "running", "stopped", "dead"}]
      /\ missed' \in [Controller -> BOOLEAN]
  BY DEF Answer, Inv, TypeOK, KnownIn
<1> QED BY <1>1, <1>2, LifeStep DEF Answer

LEMMA HearKeeps ==
  ASSUME Inv, NEW n \in Node, Hear(n)
  PROVE  Inv'
<1>1. PICK i \in Position : Grows(n, seen[n] \cup {i}, task)
  BY DEF Hear
<1> DEFINE log == seen[n] \cup {i}
<1>2. /\ log \in SUBSET Position /\ log \subseteq 1 .. Len(origin) + 1
      /\ task \in [Controller -> TaskRecord(Position)] /\ TypeOK
  BY PositionIs DEF Inv, TypeOK, KnownIn
<1>3. Grows(n, log, task)
  BY <1>1
<1> HIDE DEF log
<1>4. Grown(Position, task)
  BY <1>2, <1>3, GrowsTo
<1>5. UNCHANGED <<ledgers, status, memory, saved, missed, threw, disturbances>> /\ Loads
  BY DEF Hear
<1>6. /\ status' \in [Controller -> {"new", "running", "stopped", "dead"}]
      /\ missed' \in [Controller -> BOOLEAN]
  BY <1>5 DEF Inv, TypeOK
<1> QED BY <1>4, <1>5, <1>6, LifeStep DEF Grown

LEMMA StopKeeps ==
  ASSUME Inv, NEW c \in Controller, Stop(c)
  PROVE  Inv'
<1>1. OwnerOf[c] \in Node
  BY MirrorAssumption
<1>2. /\ saved' \in [Node -> SUBSET Position]
      /\ \A n \in Node : \/ saved'[n] = saved[n]
                         \/ \E d \in Controller : saved'[n] = mirrored[d]
  BY <1>1 DEF Stop, Inv, TypeOK, KnownIn
<1>3. disturbances' \in 0 .. MaxDisturbances
  BY MirrorAssumption DEF Stop, Disturb, Inv, TypeOK
<1>4. Position' = Position /\ TypeOK'
  BY <1>2, <1>3 DEF Stop, Inv, TypeOK, KnownIn, Position, ledgers
<1>5. \A d \in Controller :
        /\ task'[d].at \in {"vote", "deliver"} => task'[d].todo # {}
        /\ d \notin threw' => task'[d].todo \cap mirrored'[d] = {}
  BY DEF Stop, Inv, Occupied, DeliveredAreMarked
<1>6. threw' = threw /\ deliveries' = deliveries /\ mirrored' = mirrored
  BY DEF Stop, ledgers
<1> QED BY <1>2, <1>4, <1>5, <1>6, SafeStep

\* sessionStorage is kept or lost, and every task of the node is gone.
LEMMA LeaveKeeps ==
  ASSUME Inv, NEW n \in Node, Leave(n)
  PROVE  Inv'
<1>1. /\ saved' \in [Node -> SUBSET Position]
      /\ \A m \in Node : saved'[m] \in {saved[m], {}}
  BY DEF Leave, Inv, TypeOK, KnownIn
<1>2. /\ task' \in [Controller -> TaskRecord(Position)]
      /\ \A c \in Controller : task'[c] \in {task[c], Idle}
  BY IdleIn DEF Leave, Inv, TypeOK, KnownIn
<1>3. disturbances' \in 0 .. MaxDisturbances
  BY MirrorAssumption DEF Leave, Disturb, Inv, TypeOK
<1>4. status' \in [Controller -> {"new", "running", "stopped", "dead"}]
  BY DEF Leave, Inv, TypeOK
<1>5. Position' = Position /\ TypeOK'
  BY <1>1, <1>2, <1>3, <1>4
  DEF Leave, Inv, TypeOK, KnownIn, Position, ledgers, memory
<1>6. \A d \in Controller :
        /\ task'[d].at \in {"vote", "deliver"} => task'[d].todo # {}
        /\ d \notin threw' => task'[d].todo \cap mirrored'[d] = {}
  BY <1>2, IdleIn DEF Leave, Inv, Occupied, DeliveredAreMarked
<1>7. threw' = threw /\ deliveries' = deliveries /\ mirrored' = mirrored
  BY DEF Leave, ledgers
<1> QED BY <1>1, <1>5, <1>6, <1>7, SafeStep

-----------------------------------------------------------------------------
(* Everybody else.                                                         *)

\* The origin only grows, or the child's state moves: controllers see nothing.
LEMMA OthersKeep ==
  ASSUME Inv, UNCHANGED Others,
         origin' \in Seq(EventRecord), Len(origin') <= MaxEvents,
         Position \subseteq Position', destination' \in Ledger(Position')
  PROVE  Inv'
<1>1. /\ deliveries' = deliveries /\ seen' = seen /\ shown' = shown
      /\ task' = task /\ mirrored' = mirrored /\ saved' = saved /\ threw' = threw
      /\ status' = status /\ linked' = linked /\ bridged' = bridged
      /\ flushed' = flushed /\ missed' = missed /\ disturbances' = disturbances
  BY DEF Others, memory
<1>2. TaskRecord(Position) \subseteq TaskRecord(Position')
  BY KnownWider
<1>3. KnownIn(Position)'
  BY <1>1, <1>2 DEF Inv, TypeOK, KnownIn
<1>4. TypeOK'
  BY <1>1, <1>3 DEF Inv, TypeOK
<1>5. \A d \in Controller :
        /\ task'[d].at \in {"vote", "deliver"} => task'[d].todo # {}
        /\ d \notin threw' => task'[d].todo \cap mirrored'[d] = {}
  BY <1>1 DEF Inv, Occupied, DeliveredAreMarked
<1> QED BY <1>1, <1>4, <1>5, SafeStep

\* An event is added at the end of the origin.
LEMMA AppendedKeeps ==
  ASSUME Inv, UNCHANGED <<destination, Others>>, NEW e \in EventRecord,
         Len(origin) < MaxEvents, origin' = Append(origin, e)
  PROVE  Inv'
<1>1. origin' \in Seq(EventRecord) /\ Len(origin') <= MaxEvents
  BY MirrorAssumption DEF Inv, TypeOK
<1>2. Position \subseteq Position'
  BY DEF Inv, TypeOK, Position
<1>3. destination' \in Ledger(Position')
  BY <1>2, KnownWider DEF Inv, TypeOK, KnownIn
<1> QED BY <1>1, <1>2, <1>3, OthersKeep

LEMMA ProposalIsTransfer == Proposal \subseteq Transfer
<1>1. {"manual"} \X Manual \subseteq {"manual", "auto"} \X Nat
  BY MirrorAssumption
<1>2. {"auto"} \X (1 .. MaxFundings) \subseteq {"manual", "auto"} \X Nat
  BY MirrorAssumption
<1> QED BY <1>1, <1>2 DEF Proposal, Transfer

LEMMA FundKeeps == ASSUME Inv, Fund PROVE Inv'
<1> DEFINE e == Event("fund", <<"auto", 1>>, "members")
<1>1. e \in EventRecord
  BY DEF Event, EventRecord, Transfer
<1>2. origin' = Append(origin, e) /\ Len(origin) < MaxEvents
  BY DEF Fund
<1> HIDE DEF e
<1> QED BY <1>1, <1>2, AppendedKeeps DEF Fund

LEMMA OriginVoteKeeps ==
  ASSUME Inv, NEW p \in Proposal, OriginVote(p)
  PROVE  Inv'
<1> DEFINE e == Event("vote", p, "members")
<1>1. e \in EventRecord
  BY ProposalIsTransfer DEF Event, EventRecord
<1>2. origin' = Append(origin, e) /\ Len(origin) < MaxEvents
  BY DEF OriginVote
<1> HIDE DEF e
<1> QED BY <1>1, <1>2, AppendedKeeps DEF OriginVote

LEMMA ProposeKeeps ==
  ASSUME Inv, NEW p \in Proposal, Propose(p)
  PROVE  Inv'
<1> DEFINE both == <<Event("create", p, "members"), Event("vote", p, "members")>>
<1>1. both \in Seq(EventRecord) /\ Len(both) = 2
  BY ProposalIsTransfer DEF Event, EventRecord
<1>2. origin' = origin \o both /\ Len(origin) + 2 <= MaxEvents
  BY DEF Propose
<1>3. origin \in Seq(EventRecord)
  BY DEF Inv, TypeOK
<1> HIDE DEF both
<1>4. origin' \in Seq(EventRecord) /\ Len(origin') = Len(origin) + Len(both)
  BY <1>1, <1>2, <1>3, ConcatProperties
<1>5. Position \subseteq Position'
  BY <1>1, <1>3, <1>4 DEF Position
<1>6. destination' \in Ledger(Position')
  BY <1>5, KnownWider DEF Propose, Inv, TypeOK, KnownIn
<1> QED BY <1>1, <1>2, <1>3, <1>4, <1>5, <1>6, OthersKeep DEF Propose

LEMMA DestinationVoteKeeps ==
  ASSUME Inv, NEW i \in Position, DestinationVote(i)
  PROVE  Inv'
<1>1. Position' = Position /\ origin' = origin
  BY DEF DestinationVote, Position
<1>2. destination' \in Ledger(Position')
  BY <1>1 DEF DestinationVote, Voted, Inv, TypeOK, KnownIn, Ledger
<1> QED BY <1>1, <1>2, OthersKeep DEF DestinationVote, Inv, TypeOK

-----------------------------------------------------------------------------
(* The theorems.                                                           *)

LEMMA InvInit == Init => Inv
<1> SUFFICES ASSUME Init PROVE Inv
  OBVIOUS
<1>1. origin \in Seq(EventRecord) /\ Len(origin) <= MaxEvents
  BY MirrorAssumption DEF Init
<1>2. KnownIn(Position)
  BY IdleIn DEF Init, KnownIn, Ledger, NoEvents
<1>3. /\ deliveries \in [Controller -> [1 .. MaxEvents -> Nat]]
      /\ \A c \in Controller : \A i \in 1 .. MaxEvents : deliveries[c][i] = 0
  BY DEF Init
<1>4. TypeOK
  BY <1>1, <1>2, <1>3, MirrorAssumption DEF Init, TypeOK
<1>5. Occupied /\ MarkedAreDelivered
  BY IdleIn DEF Init, Occupied, MarkedAreDelivered
<1>6. DeliveredAreMarked
  BY <1>3, IdleIn DEF Init, DeliveredAreMarked
<1> QED BY <1>4, <1>5, <1>6 DEF Inv

LEMMA InvNext == Inv /\ [Next]_vars => Inv'
<1> SUFFICES ASSUME Inv, [Next]_vars PROVE Inv'
  OBVIOUS
<1>1. ASSUME NEW c \in Controller, Step(c)
      PROVE  Inv'
  BY <1>1, EnginesReadyKeeps, MirrorCreateKeeps, MirrorVoteKeeps,
     MirrorDeliverKeeps, MirrorDoneKeeps, FlushCreateKeeps, FlushVoteKeeps,
     FlushDeliverKeeps, FlushNothingKeeps, ExecuteKeeps, FinishKeeps DEF Step
<1>2. CASE UNCHANGED vars
  <2>1. Position' = Position /\ TypeOK'
    BY <1>2 DEF Inv, TypeOK, KnownIn, Position, vars, ledgers, memory
  <2>2. \A d \in Controller :
          /\ task'[d].at \in {"vote", "deliver"} => task'[d].todo # {}
          /\ d \notin threw' => task'[d].todo \cap mirrored'[d] = {}
    BY <1>2 DEF Inv, Occupied, DeliveredAreMarked, vars
  <2>3. /\ threw' = threw /\ deliveries' = deliveries /\ mirrored' = mirrored
        /\ saved' = saved
    BY <1>2 DEF vars, ledgers
  <2> QED BY <2>1, <2>2, <2>3, SafeStep
<1> QED BY <1>1, <1>2, StartKeeps, AnswerKeeps, StopKeeps, HearKeeps, LeaveKeeps,
       FundKeeps, ProposeKeeps, OriginVoteKeeps, DestinationVoteKeeps DEF Next

LEMMA InvHolds == Spec => []Inv
BY InvInit, InvNext, PTL DEF Spec

\* Whatever fails and however tasks, restarts and votes interleave, nobody works
\* on a transaction the community's log does not have (bridge-mirror.ts).
THEOREM TypeCorrect == Spec => []TypeOK
<1>1. Inv => TypeOK
  BY DEF Inv
<1> QED BY <1>1, InvHolds, PTL

\* A controller none of whose publications failed delivers no transaction twice,
\* however often its tasks run and however many controllers share its marks
\* (mirrorPending, mirroredIds).
THEOREM DeliveredOnce == Spec => []OncePerController
<1>1. Inv => OncePerController
  BY PositionIs DEF Inv, DeliveredAreMarked, OncePerController
<1> QED BY <1>1, InvHolds, PTL

\* A mark, in memory or saved, is never without its delivery: a crash between
\* the two repeats a delivery, and skips none (mirroredIds.add, sessionStorage).
THEOREM NothingIsSkipped == Spec => []MarkedIsDelivered
<1>1. Inv => MarkedIsDelivered
  BY DEF Inv, MarkedAreDelivered, MarkedIsDelivered
<1> QED BY <1>1, InvHolds, PTL
=============================================================================
