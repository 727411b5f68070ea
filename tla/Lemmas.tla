------------------------------- MODULE Lemmas -------------------------------
(***************************************************************************)
(* What several proofs need: induction on an interval of numbers and the   *)
(* functions defined by it, and the two orders of the events of a log, for *)
(* every finite log.                                                       *)
(***************************************************************************)
EXTENDS Dag, FiniteSetTheorems, TLAPS

-----------------------------------------------------------------------------
(* Induction.                                                              *)

\* Induction over the numbers 0 .. n, as a statement about a set.
LEMMA IntervalInduction ==
  ASSUME NEW n \in Nat, NEW S, 0 \in S,
         \A k \in 0 .. n - 1 : k \in S => k + 1 \in S
  PROVE  0 .. n \subseteq S
<1> DEFINE T == (0 .. n) \ S
<1>1. SUFFICES ASSUME T # {} PROVE FALSE
  OBVIOUS
<1>2. PICK x \in T : \A y \in T : ~ (<<y, x>> \in OpToRel(<, Nat))
  <2>1. T \subseteq Nat
    OBVIOUS
  <2> QED BY <2>1, <1>1, NatLessThanWellFounded, WFMin
<1>3. x \in 1 .. n
  OBVIOUS
<1>4. x - 1 \notin T
  <2>1. x - 1 < x /\ x - 1 \in Nat /\ x \in Nat
    BY <1>3
  <2>2. <<x - 1, x>> \in OpToRel(<, Nat)
    BY <2>1 DEF OpToRel
  <2> QED BY <2>2, <1>2
<1> QED BY <1>3, <1>4

\* g is the function on 0 .. n that starts with first and goes on with step.
Recurs(g, n, first, step) ==
  g = [k \in 0 .. n |-> IF k = 0 THEN first ELSE step[k][g[k - 1]]]

\* A function defined by recursion on its argument exists and has its type.
LEMMA RecursionDefined ==
  ASSUME NEW n \in Nat, NEW T, NEW first \in T, NEW step \in [1 .. n -> [T -> T]]
  PROVE  \E g \in [0 .. n -> T] : Recurs(g, n, first, step)
<1> DEFINE Upto(m, g) ==
      /\ g \in [0 .. m -> T]
      /\ g = [k \in 0 .. m |-> IF k = 0 THEN first ELSE step[k][g[k - 1]]]
    S == {m \in 0 .. n : \E g : Upto(m, g)}
<1>1. 0 \in S
  <2> DEFINE g == [k \in 0 .. 0 |-> first]
  <2>1. Upto(0, g)
    OBVIOUS
  <2> HIDE DEF g, Upto
  <2> QED BY <2>1
<1>2. ASSUME NEW m \in 0 .. n - 1, m \in S PROVE m + 1 \in S
  <2>1. PICK g : Upto(m, g)
    BY <1>2
  <2> DEFINE h == [k \in 0 .. m + 1 |-> IF k = m + 1 THEN step[m + 1][g[m]] ELSE g[k]]
  <2>2. h \in [0 .. m + 1 -> T]
    <3>1. g[m] \in T /\ step[m + 1] \in [T -> T]
      BY <2>1
    <3>2. step[m + 1][g[m]] \in T
      BY <3>1
    <3> QED BY <3>2, <2>1
  <2>3. h = [k \in 0 .. m + 1 |-> IF k = 0 THEN first ELSE step[k][h[k - 1]]]
    <3> SUFFICES ASSUME NEW k \in 0 .. m + 1
                 PROVE  h[k] = IF k = 0 THEN first ELSE step[k][h[k - 1]]
      OBVIOUS
    <3>1. CASE k = m + 1
      <4>1. h[k] = step[m + 1][g[m]] /\ h[k - 1] = g[m]
        BY <3>1
      <4> QED BY <4>1, <3>1
    <3>2. CASE k # m + 1
      <4>1. k \in 0 .. m
        BY <3>2
      <4>2. h[k] = g[k] /\ g[k] = IF k = 0 THEN first ELSE step[k][g[k - 1]]
        BY <4>1, <2>1, <3>2
      <4>3. k # 0 => h[k - 1] = g[k - 1]
        BY <4>1
      <4> QED BY <4>2, <4>3
    <3> QED BY <3>1, <3>2
  <2> HIDE DEF h
  <2>4. Upto(m + 1, h)
    BY <2>2, <2>3
  <2> HIDE DEF Upto
  <2> QED BY <2>4
<1> HIDE DEF S
<1>3. 0 .. n \subseteq S
  BY <1>1, <1>2, IntervalInduction
<1> QED BY <1>3 DEF S, Recurs

-----------------------------------------------------------------------------
(* Logs.                                                                   *)

\* A log: finitely many events, each known by its hash.
Log(log) ==
  /\ IsFiniteSet(log)
  /\ \A e \in log : e.id \in Nat \ {None} /\ e.prevHash \in Nat /\ e.lamport \in Int
  /\ \A a, b \in log : a.id = b.id => a = b

-----------------------------------------------------------------------------
(* The total order.                                                        *)

LEMMA SmallerLog == ASSUME NEW log, Log(log), NEW part \in SUBSET log PROVE Log(part)
BY FS_Subset DEF Log

LEMMA BeforeIsTotal ==
  ASSUME NEW log, Log(log), NEW a \in log, NEW b \in log
  PROVE  /\ a # b => Before(a, b) \/ Before(b, a)
         /\ ~(Before(a, b) /\ Before(b, a))
         /\ ~Before(a, a)
BY DEF Log, Before

LEMMA BeforeIsTransitive ==
  ASSUME NEW log, Log(log), NEW a \in log, NEW b \in log, NEW c \in log,
         Before(a, b), Before(b, c)
  PROVE  Before(a, c)
BY DEF Log, Before

\* A log that is not empty has a first event.
LEMMA FirstIsFirst ==
  ASSUME NEW log, Log(log), log # {}
  PROVE  First(log) \in log /\ \A o \in log \ {First(log)} : Before(First(log), o)
<1> DEFINE Headed(Y) == \E e \in Y : \A o \in Y \ {e} : Before(e, o)
           n == Cardinality(log)
           S == {k \in 0 .. n : \A Y \in SUBSET log :
                                  Cardinality(Y) = k /\ Y # {} => Headed(Y)}
<1>1. IsFiniteSet(log) /\ n \in Nat
  BY FS_CardinalityType DEF Log
<1>2. \A Y \in SUBSET log : IsFiniteSet(Y)
  BY <1>1, FS_Subset
<1> HIDE DEF Headed, n
<1>3. 0 \in S
  BY <1>1, <1>2, FS_EmptySet
<1>4. ASSUME NEW k \in 0 .. n - 1, k \in S PROVE k + 1 \in S
  <2> SUFFICES ASSUME NEW Y \in SUBSET log, Cardinality(Y) = k + 1, Y # {}
               PROVE  Headed(Y)
    BY <1>1
  <2>1. PICK y \in Y : TRUE
    OBVIOUS
  <2> DEFINE Z == Y \ {y}
  <2>2. Z \in SUBSET log /\ Cardinality(Z) = k
    <3>1. IsFiniteSet(Y)
      BY <1>2
    <3>2. Cardinality(Z) = Cardinality(Y) - 1
      BY <3>1, <2>1, FS_RemoveElement
    <3> QED BY <3>2
  <2>3. CASE Z = {}
    BY <2>1, <2>3 DEF Headed
  <2>4. CASE Z # {}
    <3>1. Headed(Z)
      BY <1>4, <2>2, <2>4
    <3>2. PICK e \in Z : \A o \in Z \ {e} : Before(e, o)
      BY <3>1 DEF Headed
    <3>3. e \in log /\ y \in log /\ e # y /\ e \in Y /\ \A o \in Y : o = y \/ o \in Z
      BY <2>1
    <3>4. CASE Before(e, y)
      <4>1. \A o \in Y \ {e} : Before(e, o)
        BY <3>2, <3>3, <3>4
      <4> QED BY <4>1, <3>3 DEF Headed
    <3>5. CASE Before(y, e)
      <4>1. ASSUME NEW o \in Y \ {y} PROVE Before(y, o)
        <5>1. CASE o = e
          BY <5>1, <3>5
        <5>2. CASE o # e
          <6>1. Before(e, o) /\ o \in log
            BY <5>2, <3>2, <4>1
          <6> QED BY <6>1, <3>3, <3>5, BeforeIsTransitive
        <5> QED BY <5>1, <5>2
      <4> QED BY <4>1, <2>1 DEF Headed
    <3> QED BY <3>3, <3>4, <3>5, BeforeIsTotal
  <2> QED BY <2>3, <2>4
<1> HIDE DEF S
<1>5. 0 .. n \subseteq S
  BY <1>1, <1>3, <1>4, IntervalInduction
<1>6. n \in S
  BY <1>1, <1>5
<1>7. Headed(log)
  BY <1>6 DEF S, n
<1> QED BY <1>7 DEF Headed, First

\* What comes first in a log comes first in what is left of it.
LEMMA FirstIsUnique ==
  ASSUME NEW log, Log(log), NEW e \in log, \A o \in log \ {e} : Before(e, o)
  PROVE  First(log) = e
<1>1. First(log) \in log /\ \A o \in log \ {First(log)} : Before(First(log), o)
  BY FirstIsFirst
<1> QED BY <1>1, BeforeIsTotal

-----------------------------------------------------------------------------
(* The causal order.                                                       *)

\* The first n steps of the sort that follow each other.
Steps(steps, log) ==
  /\ steps \in [0 .. Cardinality(log) -> Seq(log)]
  /\ steps[0] = <<>>
  /\ \A n \in 1 .. Cardinality(log) : steps[n] = NextReady(log, steps[n - 1])

LEMMA ReadyAreEvents ==
  ASSUME NEW log, NEW done PROVE ReadyEvents(log, done) \subseteq log \ done
BY DEF ReadyEvents

LEMMA NextReadyType ==
  ASSUME NEW log, Log(log), NEW done \in Seq(log)
  PROVE  NextReady(log, done) \in Seq(log)
<1> DEFINE ready == ReadyEvents(log, {done[i] : i \in DOMAIN done})
<1>1. ready \in SUBSET log
  BY ReadyAreEvents
<1>2. ready # {} => First(ready) \in log
  BY <1>1, SmallerLog, FirstIsFirst
<1>3. NextReady(log, done) = IF ready = {} THEN done ELSE Append(done, First(ready))
  BY DEF NextReady, AppendFirst
<1> HIDE DEF ready
<1> QED BY <1>2, <1>3

\* The sort is the last of its steps.
LEMMA SortHasSteps ==
  ASSUME NEW log, Log(log)
  PROVE  \E steps : /\ Steps(steps, log)
                    /\ TopologicalSort(log) = steps[Cardinality(log)]
<1> DEFINE n == Cardinality(log)
           T == {{s} : s \in Seq(log)}
           After(t) == {NextReady(log, done) : done \in t}
           step == [k \in 1 .. n |-> [t \in T |-> After(t)]]
           all == CHOOSE g : g = [k \in 0 .. n |->
                     IF k = 0 THEN {<<>>}
                     ELSE {NextReady(log, done) : done \in g[k - 1]}]
<1>1. n \in Nat
  BY FS_CardinalityType DEF Log
<1>2. {<<>>} \in T
  <2>1. <<>> \in Seq(log)
    OBVIOUS
  <2> QED BY <2>1
<1>3. ASSUME NEW t \in T PROVE After(t) \in T
  <2>1. PICK s \in Seq(log) : t = {s}
    OBVIOUS
  <2>2. After(t) = {NextReady(log, s)}
    BY <2>1
  <2> QED BY <2>1, <2>2, NextReadyType
<1> HIDE DEF T, n, After
<1>4. step \in [1 .. n -> [T -> T]]
  BY <1>3
<1>5. PICK g \in [0 .. n -> T] : Recurs(g, n, {<<>>}, step)
  <2> HIDE DEF step
  <2> QED BY <1>1, <1>2, <1>4, RecursionDefined
<1>6. g = [k \in 0 .. n |-> IF k = 0 THEN {<<>>} ELSE After(g[k - 1])]
  <2>1. ASSUME NEW k \in 0 .. n, k # 0 PROVE step[k][g[k - 1]] = After(g[k - 1])
    <3>1. k \in 1 .. n /\ g[k - 1] \in T
      BY <1>1, <1>5, <2>1
    <3> QED BY <3>1
  <2> HIDE DEF step
  <2> QED BY <1>5, <2>1 DEF Recurs
<1> HIDE DEF step
<1>7. all = [k \in 0 .. n |-> IF k = 0 THEN {<<>>}
                              ELSE {NextReady(log, done) : done \in all[k - 1]}]
  BY <1>6 DEF After
<1>8. TopologicalSort(log) = CHOOSE order \in all[n] : TRUE
  BY DEF TopologicalSort, Selected, n
<1> HIDE DEF all
<1> DEFINE R == {k \in 0 .. n : all[k] \in T}
<1>9. 0 \in R
  BY <1>1, <1>2, <1>7
<1>10. ASSUME NEW k \in 0 .. n - 1, k \in R PROVE k + 1 \in R
  <2>1. k + 1 \in 0 .. n /\ k + 1 # 0 /\ (k + 1) - 1 = k
    BY <1>1
  <2>2. all[k + 1] = After(all[k])
    BY <2>1, <1>7 DEF After
  <2> QED BY <2>1, <2>2, <1>3, <1>10
<1> HIDE DEF R
<1>11. 0 .. n \subseteq R
  BY <1>1, <1>9, <1>10, IntervalInduction
<1>12. ASSUME NEW k \in 0 .. n PROVE \E s \in Seq(log) : all[k] = {s}
  BY <1>11 DEF R, T
<1> DEFINE steps == [k \in 0 .. n |-> CHOOSE s : all[k] = {s}]
<1>13. ASSUME NEW k \in 0 .. n PROVE steps[k] \in Seq(log) /\ all[k] = {steps[k]}
  BY <1>12
<1>14. steps \in [0 .. n -> Seq(log)]
  BY <1>13
<1> HIDE DEF steps
<1>15. steps[0] = <<>>
  BY <1>1, <1>7, <1>13
<1>16. ASSUME NEW k \in 1 .. n PROVE steps[k] = NextReady(log, steps[k - 1])
  <2>1. k \in 0 .. n /\ k - 1 \in 0 .. n /\ k # 0
    BY <1>1
  <2>2. all[k] = {NextReady(log, done) : done \in all[k - 1]}
    BY <2>1, <1>7
  <2>3. all[k] = {NextReady(log, steps[k - 1])}
    BY <2>1, <2>2, <1>13
  <2> QED BY <2>1, <2>3, <1>13
<1>17. n \in 0 .. n /\ TopologicalSort(log) = steps[n]
  BY <1>1, <1>8, <1>13
<1> QED BY <1>14, <1>15, <1>16, <1>17 DEF Steps, n

\* What a causal order starts with, and that its last event was the first of
\* those that could come next.
Chosen(log, order) ==
  order # <<>> =>
    LET last == order[Len(order)]
        before == {order[i] : i \in 1 .. Len(order) - 1}
    IN  \A o \in ReadyEvents(log, before) \ {last} : Before(last, o)

Follows(order) ==
  /\ \A j \in DOMAIN order :
       order[j].prevHash \in {None} \cup {order[i].id : i \in 1 .. j - 1}
  /\ \A j \in DOMAIN order \ {1} :
       Before(order[j - 1], order[j]) \/ order[j].prevHash = order[j - 1].id

Distinct(order) == \A i, j \in DOMAIN order : order[i] = order[j] => i = j

CausalStart(log, order) == Distinct(order) /\ Follows(order) /\ Chosen(log, order)

LEMMA AppendFacts ==
  ASSUME NEW S, NEW s \in Seq(S), NEW e \in S
  PROVE  /\ Append(s, e) \in Seq(S)
         /\ Len(Append(s, e)) = Len(s) + 1
         /\ DOMAIN Append(s, e) = 1 .. Len(s) + 1 /\ DOMAIN s = 1 .. Len(s)
         /\ \A i \in 1 .. Len(s) : Append(s, e)[i] = s[i]
         /\ Append(s, e)[Len(s) + 1] = e
         /\ Len(s) \in Nat
OBVIOUS

LEMMA NextIsCausal ==
  ASSUME NEW log, Log(log), NEW s \in Seq(log), CausalStart(log, s),
         ReadyEvents(log, Range(s)) # {}
  PROVE  /\ CausalStart(log, NextReady(log, s))
         /\ Len(NextReady(log, s)) = Len(s) + 1
<1> DEFINE n == Len(s)
           ready == ReadyEvents(log, Range(s))
           e == First(ready)
           t == NextReady(log, s)
<1>1. ready \in SUBSET log /\ ready # {} /\ Log(ready)
  BY ReadyAreEvents, SmallerLog
<1>2. e \in ready /\ \A o \in ready \ {e} : Before(e, o)
  BY <1>1, FirstIsFirst
<1>3. e \in log /\ e \notin Range(s)
      /\ (e.prevHash = None \/ e.prevHash \in Ids(Range(s)))
  BY <1>2 DEF ReadyEvents
<1>4. Range(s) = {s[i] : i \in DOMAIN s} /\ Range(s) = {s[i] : i \in 1 .. n}
  BY DEF Range
<1>5. t = Append(s, e)
  BY <1>1, <1>4 DEF NextReady, AppendFirst
<1> HIDE DEF ready, e, t
<1>6. /\ DOMAIN t = 1 .. n + 1 /\ DOMAIN s = 1 .. n /\ n \in Nat
      /\ Len(t) = n + 1
      /\ \A i \in 1 .. n : t[i] = s[i]
      /\ t[n + 1] = e
      /\ \A i \in 1 .. n : s[i] \in log
  BY <1>3, <1>5, AppendFacts
<1> HIDE DEF n
<1>7. Distinct(t)
  <2>1. \A i \in 1 .. n : s[i] # e
    BY <1>3, <1>4
  <2>2. \A i, j \in 1 .. n : s[i] = s[j] => i = j
    BY <1>6 DEF CausalStart, Distinct
  <2>3. ASSUME NEW i \in DOMAIN t, NEW j \in DOMAIN t, t[i] = t[j] PROVE i = j
    <3>1. CASE i = n + 1 /\ j = n + 1
      BY <3>1
    <3>2. CASE i # n + 1 /\ j = n + 1
      <4>1. i \in 1 .. n /\ t[i] = s[i] /\ t[j] = e
        BY <3>2, <1>6
      <4> QED BY <4>1, <2>1, <2>3
    <3>3. CASE i = n + 1 /\ j # n + 1
      <4>1. j \in 1 .. n /\ t[j] = s[j] /\ t[i] = e
        BY <3>3, <1>6
      <4> QED BY <4>1, <2>1, <2>3
    <3>4. CASE i # n + 1 /\ j # n + 1
      <4>1. i \in 1 .. n /\ j \in 1 .. n /\ t[i] = s[i] /\ t[j] = s[j]
        BY <3>4, <1>6
      <4> QED BY <4>1, <2>2, <2>3
    <3> QED BY <3>1, <3>2, <3>3, <3>4
  <2> QED BY <2>3 DEF Distinct
<1> DEFINE before == {s[i] : i \in 1 .. n - 1}
<1>8. ASSUME n # 0 PROVE Before(s[n], e) \/ e.prevHash = s[n].id
  <2>1. s # <<>> /\ n \in 1 .. n /\ s[n] \in log
    BY <1>6, <1>8 DEF n
  <2>2. \A o \in ReadyEvents(log, before) \ {s[n]} : Before(s[n], o)
    BY <2>1 DEF CausalStart, Chosen, n
  <2>3. Range(s) = before \cup {s[n]}
    <3>1. 1 .. n = (1 .. n - 1) \cup {n}
      BY <1>6, <1>8
    <3> QED BY <3>1, <1>4
  <2> HIDE DEF before
  <2>4. e # s[n] /\ e \notin before
    BY <1>3, <2>3
  <2>5. CASE e \in ReadyEvents(log, before)
    BY <2>5, <2>2, <2>4
  <2>6. CASE e \notin ReadyEvents(log, before)
    <3>1. e.prevHash # None /\ e.prevHash \notin Ids(before)
      BY <2>6, <2>4, <1>3 DEF ReadyEvents
    <3>2. e.prevHash \in Ids(before \cup {s[n]})
      BY <3>1, <1>3, <2>3
    <3> QED BY <3>1, <3>2 DEF Ids
  <2> QED BY <2>5, <2>6
<1>9. Follows(t)
  <2>1. ASSUME NEW j \in DOMAIN t
        PROVE  t[j].prevHash \in {None} \cup {t[i].id : i \in 1 .. j - 1}
    <3>1. CASE j = n + 1
      <4>1. t[j] = e /\ \A i \in 1 .. j - 1 : t[i] = s[i]
        BY <3>1, <1>6
      <4>2. e.prevHash = None \/ \E i \in 1 .. n : e.prevHash = s[i].id
        BY <1>3, <1>4 DEF Ids
      <4>3. 1 .. j - 1 = 1 .. n
        BY <3>1, <1>6
      <4> QED BY <4>1, <4>2, <4>3
    <3>2. CASE j # n + 1
      <4>1. j \in 1 .. n /\ t[j] = s[j]
        BY <3>2, <1>6
      <4>2. \A i \in 1 .. j - 1 : t[i] = s[i]
        BY <4>1, <1>6
      <4>3. s[j].prevHash \in {None} \cup {s[i].id : i \in 1 .. j - 1}
        BY <4>1, <1>6 DEF CausalStart, Follows
      <4> QED BY <4>1, <4>2, <4>3
    <3> QED BY <3>1, <3>2
  <2>2. ASSUME NEW j \in DOMAIN t \ {1}
        PROVE  Before(t[j - 1], t[j]) \/ t[j].prevHash = t[j - 1].id
    <3>1. CASE j = n + 1
      <4>1. n # 0 /\ n \in 1 .. n /\ j - 1 = n
        BY <3>1, <2>2, <1>6
      <4>2. t[j] = e /\ t[j - 1] = s[n]
        BY <3>1, <4>1, <1>6
      <4> QED BY <4>1, <4>2, <1>8
    <3>2. CASE j # n + 1
      <4>1. j \in DOMAIN s \ {1} /\ t[j] = s[j] /\ j - 1 \in 1 .. n
        BY <3>2, <2>2, <1>6
      <4>2. t[j - 1] = s[j - 1]
        BY <4>1, <1>6
      <4> QED BY <4>1, <4>2 DEF CausalStart, Follows
    <3> QED BY <3>1, <3>2
  <2> QED BY <2>1, <2>2 DEF Follows
<1>10. Chosen(log, t)
  <2>1. {t[i] : i \in 1 .. Len(t) - 1} = Range(s)
    <3>1. 1 .. Len(t) - 1 = 1 .. n
      BY <1>6
    <3> QED BY <3>1, <1>4, <1>6
  <2>2. t[Len(t)] = e
    BY <1>6
  <2> QED BY <2>1, <2>2, <1>2 DEF Chosen, ready
<1> QED BY <1>6, <1>7, <1>9, <1>10 DEF CausalStart, t, n

LEMMA DistinctFit ==
  ASSUME NEW log, Log(log), NEW s \in Seq(log), Distinct(s)
  PROVE  /\ IsFiniteSet(Range(s)) /\ Cardinality(Range(s)) = Len(s)
         /\ Len(s) <= Cardinality(log)
         /\ Len(s) = Cardinality(log) => Range(s) = log
<1> DEFINE n == Len(s)
<1>1. n \in Nat /\ DOMAIN s = 1 .. n /\ Range(s) \in SUBSET log
  BY DEF Range
<1>2. s \in Surjection(1 .. n, Range(s)) /\ s \in Injection(1 .. n, Range(s))
  <2>1. s \in [1 .. n -> Range(s)]
    BY <1>1 DEF Range
  <2> QED BY <2>1, <1>1 DEF Surjection, Injection, IsInjective, Range, Distinct
<1>3. IsFiniteSet(1 .. n) /\ Cardinality(1 .. n) = n
  BY <1>1, FS_Interval
<1>4. IsFiniteSet(Range(s)) /\ Cardinality(Range(s)) = n
  BY <1>2, <1>3, FS_Surjection
<1>5. IsFiniteSet(log)
  BY DEF Log
<1> QED BY <1>1, <1>4, <1>5, FS_Subset

\* How far the sort got after n steps.
LEMMA StepsAreCausal ==
  ASSUME NEW log, Log(log), NEW steps, Steps(steps, log)
  PROVE  \A k \in 0 .. Cardinality(log) :
           /\ CausalStart(log, steps[k])
           /\ Len(steps[k]) = k \/ ReadyEvents(log, Range(steps[k])) = {}
<1> DEFINE n == Cardinality(log)
           Good(k) == /\ CausalStart(log, steps[k])
                      /\ Len(steps[k]) = k \/ ReadyEvents(log, Range(steps[k])) = {}
           S == {k \in 0 .. n : Good(k)}
<1>1. n \in Nat
  BY FS_CardinalityType DEF Log
<1>2. 0 \in S
  BY <1>1 DEF Steps, CausalStart, Distinct, Follows, Chosen
<1>3. ASSUME NEW k \in 0 .. n - 1, k \in S PROVE k + 1 \in S
  <2>1. k \in 0 .. n /\ k + 1 \in 1 .. n /\ k + 1 \in 0 .. n /\ (k + 1) - 1 = k
    BY <1>1
  <2>2. steps[k] \in Seq(log) /\ steps[k + 1] = NextReady(log, steps[k])
    BY <2>1 DEF Steps
  <2>3. CASE ReadyEvents(log, Range(steps[k])) = {}
    <3>1. {steps[k][i] : i \in DOMAIN steps[k]} = Range(steps[k])
      BY DEF Range
    <3>2. steps[k + 1] = steps[k]
      BY <2>2, <2>3, <3>1 DEF NextReady, AppendFirst
    <3> QED BY <3>2, <2>1, <2>3, <1>3
  <2>4. CASE ReadyEvents(log, Range(steps[k])) # {}
    <3>1. CausalStart(log, steps[k]) /\ Len(steps[k]) = k
      BY <2>4, <1>3
    <3>2. CausalStart(log, steps[k + 1]) /\ Len(steps[k + 1]) = k + 1
      BY <3>1, <2>2, <2>4, NextIsCausal
    <3> QED BY <3>2, <2>1
  <2> QED BY <2>3, <2>4
<1> HIDE DEF S, n
<1>4. 0 .. n \subseteq S
  BY <1>1, <1>2, <1>3, IntervalInduction
<1> QED BY <1>4 DEF S, n

\* The causal order holds nothing back that could follow.
LEMMA SortIsCausal ==
  ASSUME NEW log, Log(log)
  PROVE  LET order == TopologicalSort(log)
         IN  /\ order \in Seq(log) /\ Distinct(order) /\ Follows(order)
             /\ ReadyEvents(log, Range(order)) = {}
<1> DEFINE n == Cardinality(log)
           order == TopologicalSort(log)
<1>1. n \in Nat /\ n \in 0 .. n
  BY FS_CardinalityType DEF Log
<1>2. PICK steps : Steps(steps, log) /\ order = steps[n]
  BY SortHasSteps
<1>3. /\ order \in Seq(log) /\ CausalStart(log, order)
      /\ Len(order) = n \/ ReadyEvents(log, Range(order)) = {}
  <2> HIDE DEF order
  <2>1. steps[n] \in Seq(log)
    BY <1>1, <1>2 DEF Steps
  <2>2. /\ CausalStart(log, steps[n])
        /\ Len(steps[n]) = n \/ ReadyEvents(log, Range(steps[n])) = {}
    BY <1>1, <1>2, StepsAreCausal
  <2> QED BY <1>2, <2>1, <2>2
<1>4. ASSUME Len(order) = n PROVE ReadyEvents(log, Range(order)) = {}
  <2>1. Range(order) = log
    BY <1>3, <1>4, DistinctFit DEF CausalStart
  <2> QED BY <2>1, ReadyAreEvents
<1> QED BY <1>3, <1>4 DEF CausalStart

-----------------------------------------------------------------------------
(* What hangs together with the roots.                                     *)

LEMMA ConnectedIsSorted ==
  ASSUME NEW log, Log(log)
  PROVE  Range(TopologicalSort(log)) = FilterCausalClosure(log, {})
<1> DEFINE n == Cardinality(log)
           order == TopologicalSort(log)
           Adopted(taken) ==
             taken \cup {e \in log : e.prevHash = None \/ e.prevHash \in Ids(taken)}
           T == SUBSET log
           step == [k \in 1 .. n |-> [t \in T |-> Adopted(t)]]
           accepted == CHOOSE g : g = [k \in 0 .. n |->
             IF k = 0 THEN {}
             ELSE UNION {taken \cup {e \in log :
                           e.prevHash = None \/ e.prevHash \in Ids(taken)} :
                         taken \in {g[k - 1]}}]
<1>1. n \in Nat
  BY FS_CardinalityType DEF Log
<1>2. ASSUME NEW t \in T PROVE Adopted(t) \in T
  OBVIOUS
<1>3. \A t : UNION {taken \cup {e \in log :
                       e.prevHash = None \/ e.prevHash \in Ids(taken)} :
                    taken \in {t}} = Adopted(t)
  OBVIOUS
<1>4. FilterCausalClosure(log, {}) = {e \in log : e \in accepted[n]}
  BY DEF FilterCausalClosure, n
<1> HIDE DEF n, Adopted
<1>5. step \in [1 .. n -> [T -> T]]
  BY <1>2
<1>6. PICK g \in [0 .. n -> T] : Recurs(g, n, {}, step)
  <2> HIDE DEF step
  <2>1. {} \in T
    OBVIOUS
  <2> HIDE DEF T
  <2> QED BY <1>1, <1>5, <2>1, RecursionDefined
<1>7. g = [k \in 0 .. n |-> IF k = 0 THEN {} ELSE Adopted(g[k - 1])]
  <2>1. ASSUME NEW k \in 0 .. n, k # 0 PROVE step[k][g[k - 1]] = Adopted(g[k - 1])
    <3>1. k \in 1 .. n /\ g[k - 1] \in T
      BY <1>1, <1>6, <2>1
    <3> QED BY <3>1
  <2> HIDE DEF step
  <2> QED BY <1>6, <2>1 DEF Recurs
<1> HIDE DEF step
<1>8. accepted = [k \in 0 .. n |->
             IF k = 0 THEN {}
             ELSE UNION {taken \cup {e \in log :
                           e.prevHash = None \/ e.prevHash \in Ids(taken)} :
                         taken \in {accepted[k - 1]}}]
  <2>1. g = [k \in 0 .. n |->
             IF k = 0 THEN {}
             ELSE UNION {taken \cup {e \in log :
                           e.prevHash = None \/ e.prevHash \in Ids(taken)} :
                         taken \in {g[k - 1]}}]
    BY <1>3, <1>7
  <2> QED BY <2>1
<1> HIDE DEF accepted
<1>9. accepted[0] = {}
  BY <1>1, <1>8
<1>10. ASSUME NEW k \in 0 .. n - 1 PROVE accepted[k + 1] = Adopted(accepted[k])
  <2>1. k + 1 \in 0 .. n /\ k + 1 # 0 /\ (k + 1) - 1 = k
    BY <1>1
  <2>2. accepted[k + 1] = UNION {taken \cup {e \in log :
                           e.prevHash = None \/ e.prevHash \in Ids(taken)} :
                         taken \in {accepted[k]}}
    BY <2>1, <1>8
  <2> QED BY <2>2, <1>3
<1>11. /\ order \in Seq(log) /\ Distinct(order) /\ Follows(order)
       /\ ReadyEvents(log, Range(order)) = {}
  BY SortIsCausal
<1> HIDE DEF order
<1>12. Range(order) \subseteq log /\ DOMAIN order = 1 .. Len(order)
       /\ Len(order) \in Nat /\ Len(order) <= n
  <2>1. Len(order) <= n
    BY <1>11, DistinctFit DEF n
  <2> QED BY <1>11, <2>1 DEF Range
\* Nothing accepted is missing from the order.
<1>13. accepted[n] \subseteq Range(order)
  <2> DEFINE S == {k \in 0 .. n : accepted[k] \subseteq Range(order)}
  <2>1. 0 \in S
    BY <1>1, <1>9
  <2>2. ASSUME NEW k \in 0 .. n - 1, k \in S PROVE k + 1 \in S
    <3>1. accepted[k] \subseteq Range(order)
      BY <2>2
    <3>2. ASSUME NEW e \in log, e.prevHash = None \/ e.prevHash \in Ids(accepted[k])
          PROVE  e \in Range(order)
      <4>1. e.prevHash = None \/ e.prevHash \in Ids(Range(order))
        BY <3>1, <3>2 DEF Ids
      <4> QED BY <4>1, <1>11 DEF ReadyEvents
    <3>3. accepted[k + 1] \subseteq Range(order)
      BY <3>1, <3>2, <1>10 DEF Adopted
    <3> QED BY <3>3, <1>1
  <2> HIDE DEF S
  <2>3. 0 .. n \subseteq S
    BY <1>1, <2>1, <2>2, IntervalInduction
  <2> QED BY <1>1, <2>3 DEF S
\* The event at a position is accepted after as many rounds.
<1>14. ASSUME NEW j \in DOMAIN order PROVE order[j] \in accepted[n]
  <2> DEFINE S == {k \in 0 .. n : \A i \in DOMAIN order : i <= k => order[i] \in accepted[k]}
  <2>1. 0 \in S
    BY <1>1, <1>12
  <2>2. ASSUME NEW k \in 0 .. n - 1, k \in S PROVE k + 1 \in S
    <3>1. accepted[k + 1] = Adopted(accepted[k])
      BY <1>10
    <3>2. \A i \in DOMAIN order : i <= k => order[i] \in accepted[k]
      BY <2>2
    <3>3. ASSUME NEW i \in DOMAIN order, i <= k + 1 PROVE order[i] \in accepted[k + 1]
      <4>1. CASE i <= k
        BY <4>1, <3>1, <3>2 DEF Adopted
      <4>2. CASE i = k + 1
        <5>1. order[i] \in log
          BY <1>12 DEF Range
        <5>2. order[i].prevHash = None
              \/ \E h \in 1 .. i - 1 : order[i].prevHash = order[h].id
          BY <1>11 DEF Follows
        <5>3. \A h \in 1 .. i - 1 : h \in DOMAIN order /\ h <= k
          BY <4>2, <1>12
        <5>4. order[i].prevHash = None \/ order[i].prevHash \in Ids(accepted[k])
          BY <5>2, <5>3, <3>2 DEF Ids
        <5> QED BY <5>1, <5>4, <3>1 DEF Adopted
      <4> QED BY <4>1, <4>2, <3>3, <1>12
    <3> QED BY <3>3, <1>1
  <2> HIDE DEF S
  <2>3. 0 .. n \subseteq S
    BY <1>1, <2>1, <2>2, IntervalInduction
  <2>4. n \in S
    BY <1>1, <2>3
  <2> QED BY <2>4, <1>12 DEF S
<1>15. Range(order) \subseteq accepted[n]
  BY <1>14 DEF Range
<1> QED BY <1>4, <1>12, <1>13, <1>15 DEF order

-----------------------------------------------------------------------------
(* Where both orders are one.                                              *)

\* The clock of an event is ahead of its parent's.
Rising(log) == \A e, p \in log : e.prevHash = p.id => p.lamport < e.lamport

\* What is left starts with an event whose parent is not left.
LEMMA FirstIsReady ==
  ASSUME NEW log, Log(log), IsCausalClosure(log), Rising(log), NEW done,
         log \ done # {}
  PROVE  /\ ReadyEvents(log, done) # {}
         /\ First(ReadyEvents(log, done)) = First(log \ done)
<1> DEFINE left == log \ done
           e == First(left)
           ready == ReadyEvents(log, done)
<1>1. Log(left) /\ left # {} /\ left \subseteq log
  BY SmallerLog
<1>2. e \in left /\ \A o \in left \ {e} : Before(e, o)
  BY <1>1, FirstIsFirst
<1>3. e.prevHash = None \/ e.prevHash \in Ids(done)
  <2>1. SUFFICES ASSUME e.prevHash # None PROVE e.prevHash \in Ids(done)
    OBVIOUS
  <2>2. PICK p \in log : p.id = e.prevHash
    BY <1>1, <1>2, <2>1 DEF IsCausalClosure, Ids
  <2>3. p.lamport < e.lamport
    BY <1>1, <1>2, <2>2 DEF Rising
  <2>4. Before(p, e) /\ p # e
    BY <1>1, <1>2, <2>2, <2>3 DEF Before, Log
  <2>5. p \notin left
    BY <1>1, <1>2, <2>4, BeforeIsTotal
  <2> QED BY <2>2, <2>5 DEF Ids
<1>4. e \in ready /\ ready \subseteq left
  BY <1>2, <1>3 DEF ReadyEvents
<1> HIDE DEF left, e, ready
<1>5. Log(ready) /\ \A o \in ready \ {e} : Before(e, o)
  BY <1>1, <1>2, <1>4, SmallerLog
<1>6. First(ready) = e
  BY <1>4, <1>5, FirstIsUnique
<1> QED BY <1>4, <1>6 DEF left, e, ready

LEMMA NextAgrees ==
  ASSUME NEW log, Log(log), IsCausalClosure(log), Rising(log), NEW done
  PROVE  NextReady(log, done) = NextInOrder(log, done)
<1> DEFINE D == {done[i] : i \in DOMAIN done}
<1>1. CASE log \ D = {}
  <2>1. ReadyEvents(log, D) = {}
    BY <1>1, ReadyAreEvents
  <2> QED BY <1>1, <2>1 DEF NextReady, NextInOrder, AppendFirst
<1>2. CASE log \ D # {}
  <2> HIDE DEF D
  <2>1. /\ ReadyEvents(log, D) # {}
        /\ First(ReadyEvents(log, D)) = First(log \ D)
    BY <1>2, FirstIsReady
  <2> QED BY <1>2, <2>1 DEF NextReady, NextInOrder, AppendFirst, D
<1> QED BY <1>1, <1>2

\* On a causally complete log whose clocks rise the causal order is the total one.
LEMMA SortsAgree ==
  ASSUME NEW log, Log(log), IsCausalClosure(log), Rising(log)
  PROVE  TopologicalSort(log) = SortEvents(log)
<1> DEFINE n == Cardinality(log)
           all == CHOOSE g : g = [k \in 0 .. n |->
                     IF k = 0 THEN {<<>>}
                     ELSE {NextInOrder(log, done) : done \in g[k - 1]}]
<1>1. n \in Nat
  BY FS_CardinalityType DEF Log
<1>2. PICK steps : Steps(steps, log) /\ TopologicalSort(log) = steps[n]
  BY SortHasSteps
<1>3. SortEvents(log) = CHOOSE order \in all[n] : TRUE
  BY DEF SortEvents, Selected, n
<1>4. /\ steps[0] = <<>>
      /\ \A k \in 1 .. n : steps[k] = NextInOrder(log, steps[k - 1])
  BY <1>2, NextAgrees DEF Steps
<1> HIDE DEF n
<1> DEFINE g == [k \in 0 .. n |-> {steps[k]}]
<1>5. g = [k \in 0 .. n |-> IF k = 0 THEN {<<>>}
                            ELSE {NextInOrder(log, done) : done \in g[k - 1]}]
  <2> SUFFICES ASSUME NEW k \in 0 .. n
               PROVE  {steps[k]} = IF k = 0 THEN {<<>>}
                                   ELSE {NextInOrder(log, done) : done \in g[k - 1]}
    OBVIOUS
  <2>1. CASE k = 0
    BY <2>1, <1>4
  <2>2. CASE k # 0
    <3>1. k \in 1 .. n /\ k - 1 \in 0 .. n
      BY <2>2, <1>1
    <3>2. g[k - 1] = {steps[k - 1]}
      BY <3>1
    <3> HIDE DEF g
    <3> QED BY <2>2, <3>1, <3>2, <1>4
  <2> QED BY <2>1, <2>2
<1> HIDE DEF g
<1>6. all = [k \in 0 .. n |-> IF k = 0 THEN {<<>>}
                              ELSE {NextInOrder(log, done) : done \in all[k - 1]}]
  BY <1>5
<1> HIDE DEF all
<1> DEFINE S == {k \in 0 .. n : all[k] = {steps[k]}}
<1>7. 0 \in S
  BY <1>1, <1>4, <1>6
<1>8. ASSUME NEW k \in 0 .. n - 1, k \in S PROVE k + 1 \in S
  <2>1. k + 1 \in 0 .. n /\ k + 1 \in 1 .. n /\ k + 1 # 0 /\ (k + 1) - 1 = k
    BY <1>1
  <2>2. all[k + 1] = {NextInOrder(log, done) : done \in all[k]}
    BY <2>1, <1>6
  <2>3. steps[k + 1] = NextInOrder(log, steps[k])
    BY <2>1, <1>4
  <2> QED BY <2>1, <2>2, <2>3, <1>8
<1> HIDE DEF S
<1>9. 0 .. n \subseteq S
  BY <1>1, <1>7, <1>8, IntervalInduction
<1>10. all[n] = {steps[n]}
  BY <1>1, <1>9 DEF S
<1> QED BY <1>2, <1>3, <1>10

=============================================================================
