-------------------------- MODULE ControllerProofs --------------------------
(***************************************************************************)
(* What a node shows of its log, for every history, every reducer and any  *)
(* interleaving of the worker with the page.                               *)
(***************************************************************************)
EXTENDS Controller, Lemmas, SequenceTheorems

-----------------------------------------------------------------------------
(* Reduction as a run over ids.                                            *)

Done == [state : Seq(Nat), rejected : SUBSET Nat]

\* What a reduction has done after each id.
Run(run, from, ids) ==
  /\ run \in [0 .. Len(ids) -> Done]
  /\ run[0] = [state |-> from, rejected |-> {}]
  /\ \A n \in 1 .. Len(ids) : run[n] = ReduceOne(run[n - 1], ids[n])

LEMMA ReduceOneType ==
  ASSUME NEW done \in Done, NEW id \in Nat
  PROVE  /\ ReduceOne(done, id) \in Done
         /\ done.rejected \subseteq ReduceOne(done, id).rejected
<1>1. done.state \in Seq(Nat) /\ done.rejected \in SUBSET Nat
  BY DEF Done
<1>2. CASE Accepts(done.state, id)
  <2>1. ReduceOne(done, id) = [done EXCEPT !.state = Append(@, id)]
    BY <1>2 DEF ReduceOne
  <2>2. Append(done.state, id) \in Seq(Nat)
    BY <1>1
  <2> QED BY <2>1, <2>2 DEF Done
<1>3. CASE ~Accepts(done.state, id)
  <2>1. ReduceOne(done, id) = [done EXCEPT !.rejected = @ \cup {id}]
    BY <1>3 DEF ReduceOne
  <2> QED BY <2>1, <1>1 DEF Done
<1> QED BY <1>2, <1>3

\* Any two runs over the same ids do the same.
LEMMA RunsAgree ==
  ASSUME NEW run, NEW other, NEW from, NEW ids \in Seq(Nat), NEW longer \in Seq(Nat),
         Run(run, from, ids), Run(other, from, longer), Len(ids) <= Len(longer),
         \A i \in DOMAIN ids : ids[i] = longer[i]
  PROVE  run[Len(ids)] = other[Len(ids)]
<1> DEFINE n == Len(ids)
           S == {k \in 0 .. n : run[k] = other[k]}
<1>1. n \in Nat /\ DOMAIN ids = 1 .. n /\ n <= Len(longer) /\ Len(longer) \in Nat
  OBVIOUS
<1> HIDE DEF n
<1>2. 0 \in S
  <2>1. run[0] = other[0]
    BY DEF Run
  <2> QED BY <1>1, <2>1
<1>3. ASSUME NEW k \in 0 .. n - 1, k \in S PROVE k + 1 \in S
  <2>1. k + 1 \in 1 .. n /\ k + 1 \in 1 .. Len(longer) /\ (k + 1) - 1 = k
    BY <1>1
  <2>2. run[k + 1] = ReduceOne(run[k], ids[k + 1])
    BY <2>1 DEF Run, n
  <2>3. other[k + 1] = ReduceOne(other[k], longer[k + 1])
    BY <2>1 DEF Run
  <2>4. ids[k + 1] = longer[k + 1]
    BY <2>1, <1>1
  <2> QED BY <2>1, <2>2, <2>3, <2>4, <1>3
<1> HIDE DEF S
<1>4. 0 .. n \subseteq S
  BY <1>1, <1>2, <1>3, IntervalInduction
<1>5. n \in S
  BY <1>1, <1>4
<1> QED BY <1>5 DEF S, n

\* A run that goes on from where another stopped ends where one run would.
LEMMA RunsCompose ==
  ASSUME NEW whole, NEW rest, NEW from, NEW ids \in Seq(Nat), NEW k \in 0 .. Len(ids),
         Run(whole, from, ids),
         Run(rest, whole[k].state, SubSeq(ids, k + 1, Len(ids)))
  PROVE  /\ rest[Len(ids) - k].state = whole[Len(ids)].state
         /\ whole[Len(ids)].rejected =
              whole[k].rejected \cup rest[Len(ids) - k].rejected
<1> DEFINE n == Len(ids) - k
           tail == SubSeq(ids, k + 1, Len(ids))
           Same(m) == /\ rest[m].state = whole[k + m].state
                      /\ whole[k + m].rejected = whole[k].rejected \cup rest[m].rejected
           S == {m \in 0 .. n : Same(m)}
<1>1. /\ n \in Nat /\ Len(tail) = n /\ Len(ids) \in Nat /\ k \in Nat
      /\ \A m \in 1 .. n : tail[m] = ids[k + m]
  OBVIOUS
<1>2. Run(rest, whole[k].state, tail)
  OBVIOUS
<1>3. Len(ids) = k + n
  BY <1>1
<1> HIDE DEF n, tail
<1>4. 0 \in S
  <2>1. rest[0] = [state |-> whole[k].state, rejected |-> {}]
    BY <1>2 DEF Run
  <2>2. k + 0 = k /\ 0 \in 0 .. n
    BY <1>1
  <2> QED BY <2>1, <2>2
<1>5. ASSUME NEW m \in 0 .. n - 1, m \in S PROVE m + 1 \in S
  <2>1. /\ m + 1 \in 1 .. n /\ (m + 1) - 1 = m /\ m \in 0 .. n
        /\ k + (m + 1) \in 1 .. Len(ids) /\ k + (m + 1) - 1 = k + m
        /\ k + m \in 0 .. Len(ids)
    BY <1>1, <1>3
  <2>2. rest[m + 1] = ReduceOne(rest[m], tail[m + 1])
    BY <2>1, <1>1, <1>2 DEF Run
  <2>3. whole[k + (m + 1)] = ReduceOne(whole[k + m], ids[k + (m + 1)])
    <3>1. \A j \in 1 .. Len(ids) : whole[j] = ReduceOne(whole[j - 1], ids[j])
      BY DEF Run
    <3>2. whole[k + (m + 1)] = ReduceOne(whole[k + (m + 1) - 1], ids[k + (m + 1)])
      BY <2>1, <3>1
    <3> QED BY <2>1, <3>2
  <2>4. tail[m + 1] = ids[k + (m + 1)]
    BY <2>1, <1>1
  <2>5. Same(m)
    BY <1>5
  <2>6. rest[m] \in Done /\ whole[k + m] \in Done
    BY <2>1, <1>1, <1>2 DEF Run
  <2>7. Same(m + 1)
    <3> HIDE DEF S
    <3>1. CASE Accepts(rest[m].state, tail[m + 1])
      BY <3>1, <2>2, <2>3, <2>4, <2>5, <2>6 DEF ReduceOne, Done
    <3>2. CASE ~Accepts(rest[m].state, tail[m + 1])
      BY <3>2, <2>2, <2>3, <2>4, <2>5, <2>6 DEF ReduceOne, Done
    <3> QED BY <3>1, <3>2
  <2> HIDE DEF Same
  <2> QED BY <2>1, <2>7
<1> HIDE DEF Same, S
<1>6. 0 .. n \subseteq S
  BY <1>1, <1>4, <1>5, IntervalInduction
<1>7. Same(n)
  BY <1>1, <1>6 DEF S
<1> QED BY <1>3, <1>7 DEF Same, n

LEMMA RunExists ==
  ASSUME NEW from \in Seq(Nat), NEW ids \in Seq(Nat)
  PROVE  \E run : Run(run, from, ids)
<1> DEFINE n == Len(ids)
           first == [state |-> from, rejected |-> {}]
           step == [k \in 1 .. n |-> [done \in Done |-> ReduceOne(done, ids[k])]]
<1>1. n \in Nat /\ \A k \in 1 .. n : ids[k] \in Nat
  OBVIOUS
<1>2. first \in Done
  BY DEF Done
<1> HIDE DEF n, first
<1>3. step \in [1 .. n -> [Done -> Done]]
  BY <1>1, ReduceOneType
<1>4. PICK g \in [0 .. n -> Done] : Recurs(g, n, first, step)
  <2> HIDE DEF step
  <2> QED BY <1>1, <1>2, <1>3, RecursionDefined
<1>5. g[0] = first
  BY <1>1, <1>4 DEF Recurs
<1>6. ASSUME NEW k \in 1 .. n PROVE g[k] = ReduceOne(g[k - 1], ids[k])
  <2>1. k \in 0 .. n /\ k # 0 /\ g[k - 1] \in Done
    BY <1>1, <1>4
  <2>2. g[k] = step[k][g[k - 1]]
    <3> HIDE DEF step
    <3> QED BY <2>1, <1>4 DEF Recurs
  <2> QED BY <2>1, <2>2
<1> QED BY <1>4, <1>5, <1>6 DEF Run, n, first

LEMMA ReducedIsRun ==
  ASSUME NEW from \in Seq(Nat), NEW T, NEW events \in Seq(T),
         \A e \in T : e.id \in Nat,
         NEW run, Run(run, from, IdsInOrder(events))
  PROVE  Reduced(from, events) = run[Len(events)]
<1> DEFINE n == Len(events)
           ids == IdsInOrder(events)
           first == [state |-> from, rejected |-> {}]
           upTo == CHOOSE g : g = [k \in 0 .. n |->
             IF k = 0 THEN {[state |-> from, rejected |-> {}]}
             ELSE {ReduceOne(done, events[k].id) : done \in g[k - 1]}]
           g == [k \in 0 .. n |-> {run[k]}]
<1>1. n \in Nat /\ DOMAIN events = 1 .. n
  OBVIOUS
<1>2. /\ ids \in Seq(Nat) /\ Len(ids) = n
      /\ \A k \in 1 .. n : ids[k] = events[k].id
  BY <1>1 DEF IdsInOrder
<1>3. Reduced(from, events) = CHOOSE done \in upTo[n] : TRUE
  BY DEF Reduced, n
<1> HIDE DEF n, ids
<1>4. /\ run[0] = first
      /\ \A k \in 1 .. n : run[k] = ReduceOne(run[k - 1], events[k].id)
  BY <1>2 DEF Run, ids
<1>5. g = [k \in 0 .. n |->
             IF k = 0 THEN {[state |-> from, rejected |-> {}]}
             ELSE {ReduceOne(done, events[k].id) : done \in g[k - 1]}]
  <2> SUFFICES ASSUME NEW k \in 0 .. n
               PROVE  {run[k]} = IF k = 0 THEN {[state |-> from, rejected |-> {}]}
                        ELSE {ReduceOne(done, events[k].id) : done \in g[k - 1]}
    OBVIOUS
  <2>1. CASE k = 0
    BY <2>1, <1>4
  <2>2. CASE k # 0
    <3>1. k \in 1 .. n /\ k - 1 \in 0 .. n
      BY <2>2, <1>1
    <3>2. g[k - 1] = {run[k - 1]}
      BY <3>1
    <3> HIDE DEF g
    <3> QED BY <2>2, <3>1, <3>2, <1>4
  <2> QED BY <2>1, <2>2
<1> HIDE DEF g
<1>6. upTo = [k \in 0 .. n |->
             IF k = 0 THEN {[state |-> from, rejected |-> {}]}
             ELSE {ReduceOne(done, events[k].id) : done \in upTo[k - 1]}]
  BY <1>5
<1> HIDE DEF upTo
<1> DEFINE S == {k \in 0 .. n : upTo[k] = {run[k]}}
<1>7. 0 \in S
  <2>1. 0 \in 0 .. n
    BY <1>1
  <2>2. upTo[0] = {first}
    BY <2>1, <1>6
  <2> QED BY <2>1, <2>2, <1>4
<1>8. ASSUME NEW k \in 0 .. n - 1, k \in S PROVE k + 1 \in S
  <2>1. k + 1 \in 0 .. n /\ k + 1 \in 1 .. n /\ k + 1 # 0 /\ (k + 1) - 1 = k
    BY <1>1
  <2>2. upTo[k + 1] = {ReduceOne(done, events[k + 1].id) : done \in upTo[k]}
    BY <2>1, <1>6
  <2>3. run[k + 1] = ReduceOne(run[k], events[k + 1].id)
    BY <2>1, <1>4
  <2> QED BY <2>1, <2>2, <2>3, <1>8
<1> HIDE DEF S
<1>9. 0 .. n \subseteq S
  BY <1>1, <1>7, <1>8, IntervalInduction
<1>10. upTo[n] = {run[n]}
  BY <1>1, <1>9 DEF S
<1> QED BY <1>3, <1>10 DEF n

-----------------------------------------------------------------------------
(* Resuming from a checkpoint.                                             *)

\* A checkpoint is what a reduction of its prefix amounts to, and what that
\* turned down was heard of.
Checkpoint(snap, heard) ==
  /\ snap.prefixHash \in Seq(Nat) /\ snap.appliedCount = Len(snap.prefixHash)
  /\ \E run : /\ Run(run, <<>>, snap.prefixHash)
              /\ snap.state = run[snap.appliedCount].state
              /\ run[snap.appliedCount].rejected \subseteq heard

LEMMA CheckpointHeardMore ==
  ASSUME NEW snap, NEW heard, NEW more, heard \subseteq more, Checkpoint(snap, heard)
  PROVE  Checkpoint(snap, more)
BY DEF Checkpoint

LEMMA EmptyCheckpoint ==
  ASSUME NEW heard PROVE Checkpoint(NoSnapshot, heard)
<1>1. <<>> \in Seq(Nat) /\ Len(<<>>) = 0
  OBVIOUS
<1>2. PICK run : Run(run, <<>>, <<>>)
  BY <1>1, RunExists
<1>3. run[0] = [state |-> <<>>, rejected |-> {}]
  BY <1>2 DEF Run
<1> QED BY <1>1, <1>2, <1>3 DEF Checkpoint, NoSnapshot

LEMMA SortedIds ==
  ASSUME NEW events, Log(events)
  PROVE  LET order == TopologicalSort(events)
             ids == IdsInOrder(order)
         IN  /\ order \in Seq(events)
             /\ ids \in Seq(Nat) /\ Len(ids) = Len(order)
             /\ \A k \in 0 .. Len(order) :
                  IdsInOrder(SubSeq(order, k + 1, Len(order))) =
                    SubSeq(ids, k + 1, Len(order))
<1> DEFINE order == TopologicalSort(events)
           ids == IdsInOrder(order)
           n == Len(order)
<1>1. order \in Seq(events)
  BY SortIsCausal
<1> HIDE DEF order
<1>2. \A e \in events : e.id \in Nat
  BY DEF Log
<1>3. n \in Nat /\ DOMAIN order = 1 .. n /\ \A i \in 1 .. n : order[i] \in events
  BY <1>1
<1>4. ids \in Seq(Nat) /\ Len(ids) = n /\ \A i \in 1 .. n : ids[i] = order[i].id
  BY <1>2, <1>3 DEF IdsInOrder
<1>5. ASSUME NEW k \in 0 .. n
      PROVE  IdsInOrder(SubSeq(order, k + 1, n)) = SubSeq(ids, k + 1, n)
  <2> HIDE DEF ids, n
  <2>1. /\ DOMAIN SubSeq(order, k + 1, n) = 1 .. n - k
        /\ \A i \in 1 .. n - k : SubSeq(order, k + 1, n)[i] = order[k + i]
    BY <1>1, <1>3 DEF n
  <2>2. SubSeq(ids, k + 1, n) = [i \in 1 .. n - k |-> ids[k + i]]
    BY <1>3, <1>4
  <2>3. \A i \in 1 .. n - k : k + i \in 1 .. n
    BY <1>3
  <2>4. IdsInOrder(SubSeq(order, k + 1, n)) = [i \in 1 .. n - k |-> order[k + i].id]
    BY <2>1, ZenonT(40) DEF IdsInOrder
  <2>5. \A i \in 1 .. n - k : order[k + i].id = ids[k + i]
    BY <2>3, <1>4
  <2> QED BY <2>2, <2>4, <2>5, ZenonT(40)
<1> QED BY <1>1, <1>4, <1>5 DEF order

\* Whatever it resumes from, a reduction shows what one from genesis would, and
\* what it does not report again was heard of.
LEMMA ResumingIsReplaying ==
  ASSUME NEW events, Log(events), NEW prev, NEW heard, Checkpoint(prev, heard)
  PROVE  LET result == ReduceWithSnapshot(events, prev)
         IN  /\ result.snapshot.state = FullReduce(events).state
             /\ FullReduce(events).rejected \subseteq heard \cup result.rejected
             /\ Checkpoint(result.snapshot, heard \cup result.rejected)
             /\ result.snapshot.state \in Seq(Nat) /\ result.rejected \subseteq Nat
<1> DEFINE order == TopologicalSort(events)
           ids == IdsInOrder(order)
           n == Len(order)
           done == ReduceFrom(prev, order)
           result == ReduceWithSnapshot(events, prev)
           k == prev.appliedCount
<1>1. /\ order \in Seq(events) /\ ids \in Seq(Nat) /\ Len(ids) = n
      /\ \A j \in 0 .. n : IdsInOrder(SubSeq(order, j + 1, n)) = SubSeq(ids, j + 1, n)
  BY SortedIds
<1>2. result = SnapshotAfter(order, done)
  <2>1. ReduceWithSnapshot(events, prev) = SnapshotAfter(order, done)
    BY DEF ReduceWithSnapshot
  <2> QED BY <2>1
<1>3. /\ result.snapshot = [state |-> done.state, appliedCount |-> n,
                            prefixHash |-> ids]
      /\ result.rejected = done.rejected
  BY <1>2 DEF SnapshotAfter
<1>4. /\ FullReduce(events) = Reduced(<<>>, order)
      /\ done = IF Resumes(prev, ids)
                THEN Reduced(prev.state, SubSeq(order, k + 1, n))
                ELSE Reduced(<<>>, order)
  BY DEF FullReduce, ReduceFrom
<1>5. \A e \in events : e.id \in Nat
  BY DEF Log
<1>6. <<>> \in Seq(Nat) /\ n \in Nat
  BY <1>1
<1>7. PICK whole : Run(whole, <<>>, ids)
  BY <1>1, <1>6, RunExists
<1>8. Reduced(<<>>, order) = whole[n]
  BY <1>1, <1>5, <1>6, <1>7, ReducedIsRun
<1>9. whole[n] \in Done
  BY <1>1, <1>6, <1>7 DEF Run
<1> HIDE DEF order, ids, n, k, result, done
<1>10. CASE Resumes(prev, ids)
  <2>1. /\ k \in 0 .. n /\ prev.prefixHash = SubSeq(ids, 1, k)
        /\ prev.prefixHash \in Seq(Nat) /\ Len(prev.prefixHash) = k
    BY <1>1, <1>6, <1>10 DEF Resumes, Checkpoint, k
  <2>2. PICK run : /\ Run(run, <<>>, prev.prefixHash)
                   /\ prev.state = run[k].state /\ run[k].rejected \subseteq heard
    BY DEF Checkpoint, k
  <2>3. run[k] = whole[k]
    <3>1. \A i \in DOMAIN prev.prefixHash : prev.prefixHash[i] = ids[i]
      BY <2>1, <1>1, <1>6
    <3>2. run[Len(prev.prefixHash)] = whole[Len(prev.prefixHash)]
      <4>1. Len(prev.prefixHash) <= Len(ids)
        BY <2>1, <1>1
      <4> QED BY <3>1, <4>1, <2>1, <2>2, <1>1, <1>7, RunsAgree
    <3> QED BY <3>2, <2>1
  <2>4. whole[k] \in Done
    BY <2>1, <1>1, <1>7 DEF Run
  <2>5. prev.state = whole[k].state /\ prev.state \in Seq(Nat)
    BY <2>2, <2>3, <2>4 DEF Done
  <2> DEFINE later == SubSeq(order, k + 1, n)
             tail == SubSeq(ids, k + 1, n)
  <2>6. /\ later \in Seq(events) /\ IdsInOrder(later) = tail /\ Len(later) = n - k
        /\ tail \in Seq(Nat)
    <3>1. IdsInOrder(later) = tail
      BY <2>1, <1>1
    <3>2. later \in Seq(events) /\ Len(later) = n - k
      BY <2>1, <1>1, <1>6 DEF n
    <3>3. tail \in Seq(Nat)
      BY <2>1, <1>1, <1>6
    <3> QED BY <3>1, <3>2, <3>3
  <2> HIDE DEF later, tail
  <2>7. PICK rest : Run(rest, prev.state, tail)
    BY <2>5, <2>6, RunExists
  <2>8. Reduced(prev.state, later) = rest[n - k]
    <3>1. Reduced(prev.state, later) = rest[Len(later)]
      BY <2>5, <2>6, <2>7, <1>5, ReducedIsRun
    <3> QED BY <3>1, <2>6
  <2>9. /\ rest[Len(ids) - k].state = whole[Len(ids)].state
        /\ whole[Len(ids)].rejected = whole[k].rejected \cup rest[Len(ids) - k].rejected
    <3>1. k \in 0 .. Len(ids) /\ Run(rest, whole[k].state, SubSeq(ids, k + 1, Len(ids)))
      BY <2>1, <2>5, <2>7, <1>1 DEF tail
    <3> QED BY <3>1, <1>1, <1>7, RunsCompose
  <2>10. done = rest[n - k]
    BY <2>8, <1>4, <1>10 DEF later
  <2>11. /\ done.state = whole[n].state
         /\ whole[n].rejected \subseteq heard \cup done.rejected
    BY <2>2, <2>3, <2>9, <2>10, <1>1
  <2>12. Checkpoint(result.snapshot, heard \cup result.rejected)
    BY <2>11, <1>1, <1>3, <1>7 DEF Checkpoint
  <2>13. rest[n - k] \in Done
    <3>1. n - k \in 0 .. Len(tail)
      BY <2>1, <2>6, <1>1, <1>6 DEF tail
    <3> QED BY <3>1, <2>7 DEF Run
  <2> QED BY <2>10, <2>11, <2>12, <2>13, <1>9, <1>3, <1>4, <1>8 DEF result, Done
<1>11. CASE ~Resumes(prev, ids)
  <2>1. done = whole[n]
    BY <1>4, <1>8, <1>11
  <2>2. Checkpoint(result.snapshot, heard \cup result.rejected)
    BY <2>1, <1>1, <1>3, <1>7 DEF Checkpoint
  <2> QED BY <2>1, <2>2, <1>9, <1>3, <1>4, <1>8 DEF result, Done
<1> QED BY <1>10, <1>11

-----------------------------------------------------------------------------
(* The inductive invariant.                                                *)

EventSet == SUBSET UNION Histories
Request == [seq : Nat, events : EventSet]
Reduction == [seq : Nat, events : EventSet, state : Seq(Nat), rejected : SUBSET Nat]

\* One message was asked for before the other, of a smaller log.
Earlier(a, b) == a.seq < b.seq /\ a.events \subseteq b.events
InOrder(messages) ==
  \A i, j \in DOMAIN messages : i < j => Earlier(messages[i], messages[j])

\* A message is newer than what is shown, and of what is known.
Pending(m) ==
  /\ lastApplied < m.seq /\ m.seq <= seq
  /\ shown \subseteq m.events /\ m.events \subseteq log

\* What goes to the worker and comes back is one queue.
Queued ==
  /\ history \in Histories
  /\ requests \in Seq(Request) /\ answers \in Seq(Reduction)
  /\ lastApplied \in Int
  /\ InOrder(requests) /\ InOrder(answers)
  /\ \A i \in DOMAIN requests : Pending(requests[i])
  /\ \A i \in DOMAIN answers : Pending(answers[i])
  /\ \A i \in DOMAIN answers : \A j \in DOMAIN requests :
       Earlier(answers[i], requests[j])

\* The rejections the first answers report.
Reported(messages, n) == UNION {messages[j].rejected : j \in 1 .. n}

\* Answers are replays, and so are the checkpoints; whatever those turned down
\* was told or is about to be.
Replays ==
  /\ \A i \in DOMAIN answers :
       /\ answers[i].state = FullReduce(answers[i].events).state
       /\ FullReduce(answers[i].events).rejected
            \subseteq told \cup Reported(answers, i)
  /\ worker => Checkpoint(workerSnapshot, told \cup Reported(answers, Len(answers)))
  /\ Checkpoint(snapshot, told)
  /\ ShownIsReplay /\ RejectionsTold

\* How a waiter stands.
Stand == {<<"idle">>, <<"done", TRUE>>, <<"done", FALSE>>} \cup Waiting

\* Whoever stops a node wakes everybody up.
Awake ==
  /\ waits \in [Waiter -> Stand]
  /\ NobodyOversleeps
  /\ stopped => ~worker /\ \A w \in Waiter : waits[w] \notin Waiting

Inv == TypeOK /\ Queued /\ Replays /\ RelaysFollowLedger /\ Awake

-----------------------------------------------------------------------------
(* Facts about the parts.                                                  *)

LEMMA PartIsLog ==
  ASSUME NEW h \in Histories, NEW part \in SUBSET h
  PROVE  Log(part) /\ part \in EventSet
<1>1. Log(h)
  BY ControllerAssumption DEF Log
<1> QED BY <1>1, SmallerLog DEF EventSet

LEMMA RelayTypes ==
  ASSUME NEW s, NEW session \in SUBSET Url, NEW ign
  PROVE  MergeActiveRelays(session, CommunityRelays(s), ign) \subseteq Url
BY ControllerAssumption DEF MergeActiveRelays, CommunityRelays

LEMMA DoneIsNotWaiting ==
  <<"done", TRUE>> \notin Waiting /\ <<"done", FALSE>> \notin Waiting
  /\ <<"idle">> \notin Waiting
BY DEF Waiting

\* Waking leaves nobody waiting for what is there.
LEMMA WokenAwake ==
  ASSUME \A w \in Waiter : waits[w] \in Stand, NEW s, NEW empty
  PROVE  /\ Woken(s, empty) \in [Waiter -> Stand]
         /\ \A w \in Waiter : Woken(s, empty)[w] \in Waiting
                                => ~Ready(Woken(s, empty)[w], s, empty)
<1>1. ASSUME NEW w \in Waiter
      PROVE  /\ Woken(s, empty)[w] \in Stand
             /\ Woken(s, empty)[w] \in Waiting
                  => ~Ready(Woken(s, empty)[w], s, empty)
  <2>1. Woken(s, empty)[w] = IF waits[w] \in Waiting /\ Ready(waits[w], s, empty)
                             THEN <<"done", TRUE>> ELSE waits[w]
    BY DEF Woken
  <2> QED BY <2>1, DoneIsNotWaiting DEF Stand
<1>2. Woken(s, empty) = [w \in Waiter |-> Woken(s, empty)[w]]
  BY DEF Woken
<1>3. Woken(s, empty) \in [Waiter -> Stand]
  BY <1>1, <1>2
<1> QED BY <1>1, <1>3

\* Adding to one end of a queue in order.
LEMMA AppendedInOrder ==
  ASSUME NEW T, NEW messages \in Seq(T), InOrder(messages), NEW m \in T,
         \A i \in DOMAIN messages : Earlier(messages[i], m)
  PROVE  InOrder(Append(messages, m))
<1> DEFINE n == Len(messages)
           t == Append(messages, m)
<1>1. /\ n \in Nat /\ DOMAIN messages = 1 .. n /\ DOMAIN t = 1 .. n + 1
      /\ \A i \in 1 .. n : t[i] = messages[i]
      /\ t[n + 1] = m
  BY AppendFacts
<1> HIDE DEF n, t
<1>2. ASSUME NEW i \in DOMAIN t, NEW j \in DOMAIN t, i < j PROVE Earlier(t[i], t[j])
  <2>1. i \in 1 .. n /\ t[i] = messages[i]
    BY <1>1, <1>2
  <2>2. CASE j = n + 1
    BY <2>1, <2>2, <1>1
  <2>3. CASE j # n + 1
    <3>1. j \in 1 .. n /\ t[j] = messages[j]
      BY <2>3, <1>1
    <3> QED BY <2>1, <3>1, <1>1, <1>2 DEF InOrder
  <2> QED BY <2>2, <2>3
<1> QED BY <1>2 DEF InOrder, t

\* Taking the head of a queue.
LEMMA TailFacts ==
  ASSUME NEW T, NEW messages \in Seq(T), messages # <<>>
  PROVE  /\ Tail(messages) \in Seq(T) /\ Head(messages) = messages[1] /\ Head(messages) \in T
         /\ 1 \in DOMAIN messages
         /\ DOMAIN Tail(messages) = 1 .. Len(messages) - 1
         /\ Len(Tail(messages)) = Len(messages) - 1
         /\ DOMAIN messages = 1 .. Len(messages) /\ Len(messages) \in Nat
         /\ \A i \in DOMAIN Tail(messages) : /\ Tail(messages)[i] = messages[i + 1]
                                          /\ i + 1 \in DOMAIN messages /\ i \in Nat
OBVIOUS

LEMMA TailInOrder ==
  ASSUME NEW T, NEW messages \in Seq(T), messages # <<>>, InOrder(messages)
  PROVE  /\ InOrder(Tail(messages))
         /\ \A i \in DOMAIN Tail(messages) : Earlier(Head(messages), Tail(messages)[i])
<1>1. /\ \A i \in DOMAIN Tail(messages) : /\ Tail(messages)[i] = messages[i + 1]
                                       /\ i + 1 \in DOMAIN messages /\ i \in Nat
      /\ Head(messages) = messages[1] /\ 1 \in DOMAIN messages
      /\ DOMAIN Tail(messages) = 1 .. Len(messages) - 1
  BY TailFacts
<1>2. ASSUME NEW i \in DOMAIN Tail(messages), NEW j \in DOMAIN Tail(messages), i < j
      PROVE  Earlier(Tail(messages)[i], Tail(messages)[j])
  <2>1. i + 1 < j + 1
    BY <1>1, <1>2
  <2> QED BY <1>1, <2>1 DEF InOrder
<1>3. ASSUME NEW i \in DOMAIN Tail(messages) PROVE Earlier(Head(messages), Tail(messages)[i])
  <2>1. 1 < i + 1
    BY <1>1
  <2> QED BY <1>1, <2>1 DEF InOrder
<1> QED BY <1>2, <1>3 DEF InOrder

LEMMA ReportedAppend ==
  ASSUME NEW T, NEW messages \in Seq(T), NEW m \in T
  PROVE  /\ \A i \in 1 .. Len(messages) :
              Reported(Append(messages, m), i) = Reported(messages, i)
         /\ Reported(Append(messages, m), Len(messages) + 1) =
              Reported(messages, Len(messages)) \cup m.rejected
<1> DEFINE n == Len(messages)
           t == Append(messages, m)
<1>1. /\ n \in Nat /\ \A i \in 1 .. n : t[i] = messages[i]
      /\ t[n + 1] = m
  BY AppendFacts
<1> HIDE DEF n, t
<1>2. ASSUME NEW i \in 1 .. n PROVE Reported(t, i) = Reported(messages, i)
  <2>1. \A j \in 1 .. i : j \in 1 .. n
    BY <1>1
  <2> QED BY <2>1, <1>1 DEF Reported
<1>3. Reported(t, n + 1) = Reported(messages, n) \cup m.rejected
  <2>1. 1 .. n + 1 = (1 .. n) \cup {n + 1}
    BY <1>1
  <2> QED BY <2>1, <1>1 DEF Reported
<1> QED BY <1>2, <1>3 DEF n, t

LEMMA ReportedTail ==
  ASSUME NEW T, NEW messages \in Seq(T), messages # <<>>, NEW i \in 0 .. Len(messages) - 1
  PROVE  Reported(messages, i + 1) = Head(messages).rejected \cup Reported(Tail(messages), i)
<1>1. /\ Head(messages) = messages[1]
      /\ DOMAIN Tail(messages) = 1 .. Len(messages) - 1 /\ Len(messages) \in Nat
      /\ \A j \in 1 .. Len(messages) - 1 : Tail(messages)[j] = messages[j + 1]
  BY TailFacts
<1>2. Reported(messages, i + 1) \subseteq Head(messages).rejected \cup Reported(Tail(messages), i)
  <2>1. ASSUME NEW j \in 1 .. i + 1, j # 1
        PROVE  j - 1 \in 1 .. i /\ messages[j] = Tail(messages)[j - 1]
    BY <1>1, <2>1
  <2> QED BY <2>1, <1>1 DEF Reported
<1>3. Head(messages).rejected \cup Reported(Tail(messages), i) \subseteq Reported(messages, i + 1)
  <2>1. 1 \in 1 .. i + 1
    OBVIOUS
  <2>2. \A j \in 1 .. i : j + 1 \in 1 .. i + 1 /\ messages[j + 1] = Tail(messages)[j]
    BY <1>1
  <2> QED BY <2>1, <2>2, <1>1 DEF Reported
<1> QED BY <1>2, <1>3

-----------------------------------------------------------------------------
(* Recomputing.                                                            *)

\* What every new state does to those who wait and to the relays.
LEMMA ShowKeeps ==
  ASSUME Inv, NEW s, NEW from, NEW rejected, NEW session \in SUBSET Url, NEW ign,
         Show(s, from, rejected, session, ign), UNCHANGED <<outboxEmpty, saves, mute>>,
         stopped' = stopped, stopped' => ~worker'
  PROVE  /\ Awake' /\ relays' \subseteq Url /\ \A w \in Waiter : waits'[w] \in Stand
         /\ state' = s /\ shown' = from /\ told' = told \cup rejected
         /\ s # NoState => relays' = MergeActiveRelays(session, CommunityRelays(s), ign)
<1>1. /\ state' = s /\ shown' = from /\ told' = told \cup rejected
      /\ relays' = IF s = NoState THEN relays
                   ELSE MergeActiveRelays(session, CommunityRelays(s), ign)
      /\ waits' = IF stopped THEN waits ELSE Woken(s, outboxEmpty)
  BY DEF Show, FollowPool
<1>2. \A w \in Waiter : waits[w] \in Stand
  BY DEF Inv, TypeOK, Stand
<1>3. relays' \subseteq Url
  BY <1>1, RelayTypes DEF Inv, TypeOK
<1>4. /\ waits' \in [Waiter -> Stand]
      /\ \A w \in Waiter : waits'[w] \in Waiting => ~Ready(waits'[w], s, outboxEmpty)
      /\ stopped => \A w \in Waiter : waits'[w] \notin Waiting
  <2>1. CASE stopped
    BY <2>1, <1>1, <1>2 DEF Inv, Awake
  <2>2. CASE ~stopped
    BY <2>2, <1>1, <1>2, WokenAwake
  <2> QED BY <2>1, <2>2
<1>5. Awake'
  BY <1>1, <1>4 DEF Awake, NobodyOversleeps
<1> QED BY <1>1, <1>3, <1>4, <1>5

\* Reducing on the main thread, from a checkpoint it may resume from.
LEMMA HereKeeps ==
  ASSUME Inv, NEW events, NEW prev, Checkpoint(prev, told), NEW session, NEW ign,
         RecomputeHere(events, prev, session, ign),
         log' = events, log \subseteq events, events \subseteq history,
         session = sessionRelays', ign = ignored', session \subseteq Url, ign \subseteq Url,
         worker' = FALSE, requests' = <<>>, answers' = <<>>, edits' \in 0 .. MaxEdits,
         UNCHANGED <<history, seq, lastApplied, outboxEmpty, saves, mute, stopped>>
  PROVE  Inv' /\ shown \subseteq shown'
<1> DEFINE result == ReduceWithSnapshot(events, prev)
<1>1. snapshot' = result.snapshot
      /\ Show(result.snapshot.state, events, result.rejected, session, ign)
  BY DEF RecomputeHere
<1>2. Log(events)
  BY PartIsLog DEF Inv, Queued
<1>3. /\ result.snapshot.state = FullReduce(events).state
      /\ FullReduce(events).rejected \subseteq told \cup result.rejected
      /\ Checkpoint(result.snapshot, told \cup result.rejected)
  BY <1>2, ResumingIsReplaying
<1> HIDE DEF result
<1>4. /\ Awake' /\ relays' \subseteq Url /\ \A w \in Waiter : waits'[w] \in Stand
      /\ state' = result.snapshot.state /\ shown' = events
      /\ told' = told \cup result.rejected
      /\ state' # NoState
           => relays' = MergeActiveRelays(session, CommunityRelays(state'), ign)
  BY <1>1, ShowKeeps
<1>5. TypeOK'
  BY <1>4 DEF Inv, TypeOK, Stand
<1>6. Queued'
  <2>1. <<>> \in Seq(Request) /\ <<>> \in Seq(Reduction) /\ DOMAIN <<>> = {}
    OBVIOUS
  <2> QED BY <2>1 DEF Inv, Queued, InOrder
<1>7. Replays'
  <2>1. Checkpoint(snapshot', told')
    BY <1>1, <1>3, <1>4
  <2>2. answers' = <<>> /\ DOMAIN <<>> = {} /\ ~worker'
    OBVIOUS
  <2>3. ShownIsReplay' /\ RejectionsTold'
    BY <1>3, <1>4 DEF ShownIsReplay, RejectionsTold
  <2> QED BY <2>1, <2>2, <2>3 DEF Replays
<1>8. RelaysFollowLedger'
  BY <1>4 DEF RelaysFollowLedger
<1>9. shown \subseteq shown'
  BY <1>4 DEF Inv, TypeOK
<1> QED BY <1>4, <1>5, <1>6, <1>7, <1>8, <1>9 DEF Inv

\* Asking the worker.
LEMMA AskKeeps ==
  ASSUME Inv, worker, NEW events, NEW times \in {1, 2},
         log' = events, log \subseteq events, events \subseteq history,
         seq + times <= MaxRequests, seq' = seq + times,
         requests' = requests \o
            [i \in 1 .. times |-> [seq |-> seq + i, events |-> events]],
         sessionRelays' \subseteq Url, ignored' \subseteq Url, edits' \in 0 .. MaxEdits,
         UNCHANGED <<history, worker, answers, workerSnapshot, snapshot, lastApplied,
                     state, shown, told, relays, waits, outboxEmpty, saves, mute, stopped>>
  PROVE  Inv' /\ shown \subseteq shown'
<1> DEFINE n == Len(requests)
           added == [i \in 1 .. times |-> [seq |-> seq + i, events |-> events]]
<1>1. seq \in Nat /\ MaxRequests \in Nat /\ lastApplied <= seq /\ lastApplied \in Int
  BY ControllerAssumption DEF Inv, TypeOK, Queued
<1>2. requests \in Seq(Request) /\ n \in Nat /\ DOMAIN requests = 1 .. n
  BY DEF Inv, Queued
<1>3. events \in EventSet
  BY PartIsLog DEF Inv, Queued
<1>4. added \in Seq(Request) /\ Len(added) = times
  <2>1. \A i \in 1 .. times : [seq |-> seq + i, events |-> events] \in Request
    BY <1>1, <1>3 DEF Request
  <2> QED BY <2>1
<1>5. \A i \in 1 .. times : added[i].seq = seq + i /\ added[i].events = events
  OBVIOUS
<1>6. requests' = requests \o added
  OBVIOUS
<1> HIDE DEF n, added
<1>7. /\ requests' \in Seq(Request) /\ DOMAIN requests' = 1 .. n + times
      /\ \A i \in 1 .. n + times :
           requests'[i] = IF i <= n THEN requests[i] ELSE added[i - n]
  <2>1. /\ requests' \in Seq(Request) /\ Len(requests') = n + times
        /\ \A i \in 1 .. n + times :
             requests'[i] = IF i <= n THEN requests[i] ELSE added[i - n]
    BY <1>2, <1>4, <1>6, ConcatProperties DEF n
  <2> QED BY <2>1
\* A message is an old one, or newer than everything there was.
<1>8. ASSUME NEW i \in DOMAIN requests'
      PROVE  \/ i \in DOMAIN requests /\ requests'[i] = requests[i]
             \/ /\ i - n \in 1 .. times /\ i > n
                /\ requests'[i].seq = seq + (i - n) /\ requests'[i].events = events
  <2>1. CASE i <= n
    BY <2>1, <1>2, <1>7
  <2>2. CASE ~(i <= n)
    <3>1. i - n \in 1 .. times /\ i > n
      BY <2>2, <1>2, <1>7
    <3> QED BY <2>2, <3>1, <1>5, <1>7
  <2> QED BY <2>1, <2>2
<1>9. ASSUME NEW m, Pending(m)
      PROVE  /\ m.seq <= seq /\ m.events \subseteq events
             /\ m.seq \in Int => Pending(m)'
  BY <1>1, <1>9 DEF Pending
<1>10. ASSUME NEW i \in DOMAIN requests', NEW j \in DOMAIN requests', i < j
       PROVE  Earlier(requests'[i], requests'[j])
  <2>1. CASE j \in DOMAIN requests /\ requests'[j] = requests[j]
    <3>1. i \in DOMAIN requests /\ requests'[i] = requests[i]
      BY <2>1, <1>2, <1>7, <1>10
    <3> QED BY <2>1, <3>1, <1>10 DEF Inv, Queued, InOrder
  <2>2. CASE /\ j - n \in 1 .. times /\ j > n
             /\ requests'[j].seq = seq + (j - n) /\ requests'[j].events = events
    <3>1. CASE i \in DOMAIN requests /\ requests'[i] = requests[i]
      <4>1. Pending(requests[i]) /\ requests[i] \in Request
        BY <3>1, <1>2 DEF Inv, Queued
      <4>2. requests[i].seq \in Nat /\ requests[i].seq <= seq
            /\ requests[i].events \subseteq events
        BY <4>1, <1>9 DEF Request
      <4> QED BY <2>2, <3>1, <4>2, <1>1, <1>2 DEF Earlier
    <3>2. CASE /\ i - n \in 1 .. times /\ i > n
               /\ requests'[i].seq = seq + (i - n) /\ requests'[i].events = events
      <4>1. seq + (i - n) < seq + (j - n)
        BY <2>2, <3>2, <1>1, <1>2, <1>10
      <4> QED BY <2>2, <3>2, <4>1 DEF Earlier
    <3> QED BY <3>1, <3>2, <1>8
  <2> QED BY <2>1, <2>2, <1>8
<1>11. ASSUME NEW i \in DOMAIN requests' PROVE Pending(requests[i])'
  <2>1. CASE i \in DOMAIN requests /\ requests'[i] = requests[i]
    <3>1. Pending(requests[i]) /\ requests[i] \in Request
      BY <2>1, <1>2 DEF Inv, Queued
    <3>2. requests[i].seq \in Int
      BY <3>1 DEF Request
    <3> QED BY <2>1, <3>1, <3>2, <1>1 DEF Pending
  <2>2. CASE /\ i - n \in 1 .. times /\ i > n
             /\ requests'[i].seq = seq + (i - n) /\ requests'[i].events = events
    <3>1. shown \subseteq events
      BY DEF Inv, TypeOK
    <3>2. lastApplied < seq + (i - n) /\ seq + (i - n) <= seq + times
      BY <2>2, <1>1, <1>2
    <3> QED BY <2>2, <3>1, <3>2 DEF Pending
  <2> QED BY <2>1, <2>2, <1>8
<1>12. ASSUME NEW i \in DOMAIN answers
       PROVE  /\ Pending(answers[i])'
              /\ \A j \in DOMAIN requests' : Earlier(answers[i], requests'[j])
  <2>1. Pending(answers[i]) /\ answers[i] \in Reduction
    BY DEF Inv, Queued
  <2>2. answers[i].seq \in Nat /\ answers[i].seq <= seq /\ answers[i].events \subseteq events
    BY <2>1, <1>9 DEF Reduction
  <2>3. Pending(answers[i])'
    BY <2>1, <2>2, <1>1 DEF Pending
  <2>4. ASSUME NEW j \in DOMAIN requests' PROVE Earlier(answers[i], requests'[j])
    <3>1. CASE j \in DOMAIN requests /\ requests'[j] = requests[j]
      BY <3>1 DEF Inv, Queued
    <3>2. CASE /\ j - n \in 1 .. times /\ j > n
               /\ requests'[j].seq = seq + (j - n) /\ requests'[j].events = events
      BY <3>2, <2>2, <1>1 DEF Earlier
    <3> QED BY <3>1, <3>2, <1>8
  <2> QED BY <2>3, <2>4
<1>13. Queued'
  BY <1>7, <1>10, <1>11, <1>12 DEF Inv, Queued, InOrder
<1>14. TypeOK'
  <2>1. seq' \in 0 .. MaxRequests /\ lastApplied' <= seq'
    BY <1>1
  <2> QED BY <2>1 DEF Inv, TypeOK
<1>15. Replays'
  BY DEF Inv, Replays, ShownIsReplay, RejectionsTold
<1>16. RelaysFollowLedger'
  <2>1. requests' # <<>>
    <3>1. 1 \in DOMAIN requests'
      BY <1>2, <1>7
    <3> QED BY <3>1
  <2> QED BY <2>1 DEF RelaysFollowLedger
<1>17. Awake'
  BY DEF Inv, Awake, NobodyOversleeps
<1> QED BY <1>13, <1>14, <1>15, <1>16, <1>17 DEF Inv

\* recompute, on either thread.
LEMMA RecomputeKeeps ==
  ASSUME Inv, NEW events, NEW times \in {1, 2}, NEW session, NEW ign,
         Recompute(events, session, ign, times),
         log' = events, log \subseteq events, events \subseteq history,
         session = sessionRelays', ign = ignored', session \subseteq Url, ign \subseteq Url,
         edits' \in 0 .. MaxEdits, UNCHANGED <<history, outboxEmpty, saves, mute, stopped>>
  PROVE  Inv' /\ shown \subseteq shown'
<1>1. CASE worker
  <2>1. /\ seq + times <= MaxRequests
        /\ seq' = seq + times
        /\ requests' = requests \o
            [i \in 1 .. times |-> [seq |-> seq + i, events |-> events]]
        /\ UNCHANGED <<worker, answers, workerSnapshot, snapshot, lastApplied,
                       state, shown, told, relays, waits>>
    BY <1>1 DEF Recompute
  <2> QED BY <1>1, <2>1, AskKeeps
<1>2. CASE ~worker
  <2>1. /\ RecomputeHere(events, snapshot, session, ign)
        /\ UNCHANGED <<worker, requests, answers, workerSnapshot, seq, lastApplied>>
    BY <1>2 DEF Recompute
  <2>2. worker' = FALSE /\ requests' = <<>> /\ answers' = <<>>
    BY <1>2, <2>1 DEF Inv, TypeOK
  <2>3. Checkpoint(snapshot, told)
    BY DEF Inv, Replays
  <2> QED BY <2>1, <2>2, <2>3, HereKeeps
<1> QED BY <1>1, <1>2

LEMMA LearnKeeps ==
  ASSUME Inv, NEW S \in SUBSET history, Learn(S)
  PROVE  Inv' /\ shown \subseteq shown'
<1>1. PICK events : events = log \cup S
  OBVIOUS
<1>3. /\ log' = events /\ Recompute(events, sessionRelays, ignored, 1)
      /\ UNCHANGED <<history, choice, outboxEmpty, saves, mute, stopped>>
  BY <1>1 DEF Learn, queue
<1>4. log \subseteq events /\ events \subseteq history
  BY <1>1 DEF Inv, TypeOK
<1>5. /\ sessionRelays' = sessionRelays /\ ignored' = ignored
      /\ sessionRelays \subseteq Url /\ ignored \subseteq Url /\ edits' \in 0 .. MaxEdits
  BY <1>3 DEF choice, Inv, TypeOK
<1> QED BY <1>3, <1>4, <1>5, RecomputeKeeps

LEMMA RecomputeOnceMoreKeeps ==
  ASSUME Inv, RecomputeOnceMore
  PROVE  Inv' /\ shown \subseteq shown'
<1>1. PICK events : events = log
  OBVIOUS
<1>2. /\ log' = events /\ Recompute(events, sessionRelays, ignored, 1)
      /\ UNCHANGED <<history, choice, outboxEmpty, saves, mute, stopped>>
  BY <1>1 DEF RecomputeOnceMore, queue
<1>3. log \subseteq events /\ events \subseteq history
  BY <1>1 DEF Inv, TypeOK
<1>4. /\ sessionRelays' = sessionRelays /\ ignored' = ignored
      /\ sessionRelays \subseteq Url /\ ignored \subseteq Url /\ edits' \in 0 .. MaxEdits
  BY <1>2 DEF choice, Inv, TypeOK
<1> QED BY <1>2, <1>3, <1>4, RecomputeKeeps

LEMMA ImportLogKeeps ==
  ASSUME Inv, NEW S \in SUBSET history, ImportLog(S)
  PROVE  Inv' /\ shown \subseteq shown'
<1>1. PICK events : events = log \cup FilterCausalClosure(S \ log, log)
  OBVIOUS
<1>2. log \subseteq events /\ events \subseteq history
  <2>1. FilterCausalClosure(S \ log, log) \subseteq S
    BY DEF FilterCausalClosure
  <2> QED BY <1>1, <2>1 DEF Inv, TypeOK
<1>3. /\ log' = events
      /\ IF worker THEN Recompute(events, sessionRelays, ignored, 2)
         ELSE /\ RecomputeHere(events, NoSnapshot, sessionRelays, ignored)
              /\ UNCHANGED <<worker, requests, answers, workerSnapshot, seq,
                             lastApplied>>
      /\ UNCHANGED <<history, choice, outboxEmpty, saves, mute, stopped>>
  BY <1>1 DEF ImportLog, queue
<1>4. /\ sessionRelays' = sessionRelays /\ ignored' = ignored
      /\ sessionRelays \subseteq Url /\ ignored \subseteq Url /\ edits' \in 0 .. MaxEdits
  BY <1>3 DEF choice, Inv, TypeOK
<1>5. CASE worker
  <2>1. Recompute(events, sessionRelays, ignored, 2)
    BY <1>3, <1>5
  <2> QED BY <2>1, <1>2, <1>3, <1>4, RecomputeKeeps
<1>6. CASE ~worker
  <2>1. /\ RecomputeHere(events, NoSnapshot, sessionRelays, ignored)
        /\ worker' = FALSE /\ requests' = <<>> /\ answers' = <<>>
        /\ UNCHANGED <<seq, lastApplied>>
    BY <1>3, <1>6 DEF Inv, TypeOK
  <2> QED BY <2>1, <1>2, <1>3, <1>4, EmptyCheckpoint, HereKeeps
<1> QED BY <1>5, <1>6

LEMMA ContributeRelayKeeps ==
  ASSUME Inv, NEW url \in Url, ContributeRelay(url)
  PROVE  Inv' /\ shown \subseteq shown'
<1>1. PICK events, session : events = log /\ session = sessionRelays \cup {url}
  OBVIOUS
<1>2. /\ log' = events /\ session = sessionRelays' /\ ignored' = ignored
      /\ Recompute(events, session, ignored, 1)
      /\ UNCHANGED <<history, outboxEmpty, saves, mute, stopped>>
      /\ edits < MaxEdits /\ edits' = edits + 1
  BY <1>1 DEF ContributeRelay, Edit, queue
<1>3. log \subseteq events /\ events \subseteq history
      /\ session \subseteq Url /\ ignored \subseteq Url
  BY <1>1 DEF Inv, TypeOK
<1>4. edits' \in 0 .. MaxEdits
  BY <1>2, ControllerAssumption DEF Inv, TypeOK
<1> QED BY <1>2, <1>3, <1>4, RecomputeKeeps

LEMMA RevokeRelayKeeps ==
  ASSUME Inv, NEW url \in Url, RevokeRelay(url)
  PROVE  Inv' /\ shown \subseteq shown'
<1>1. PICK events, session, ign :
        events = log /\ session = sessionRelays \ {url} /\ ign = ignored \ {url}
  OBVIOUS
<1>2. /\ log' = events /\ session = sessionRelays' /\ ign = ignored'
      /\ Recompute(events, session, ign, 1)
      /\ UNCHANGED <<history, outboxEmpty, saves, mute, stopped>>
      /\ edits < MaxEdits /\ edits' = edits + 1
  BY <1>1 DEF RevokeRelay, Edit, queue
<1>3. log \subseteq events /\ events \subseteq history
      /\ session \subseteq Url /\ ign \subseteq Url
  BY <1>1 DEF Inv, TypeOK
<1>4. edits' \in 0 .. MaxEdits
  BY <1>2, ControllerAssumption DEF Inv, TypeOK
<1> QED BY <1>2, <1>3, <1>4, RecomputeKeeps

LEMMA WorkerFailsKeeps ==
  ASSUME Inv, WorkerFails
  PROVE  Inv' /\ shown \subseteq shown'
<1>1. /\ RecomputeHere(log, snapshot, sessionRelays, ignored)
      /\ worker' = FALSE /\ requests' = <<>> /\ answers' = <<>>
      /\ UNCHANGED <<history, log, seq, lastApplied, choice, outboxEmpty, saves, mute, stopped>>
  BY DEF WorkerFails, queue
<1>2. PICK events : events = log
  OBVIOUS
<1>3. Checkpoint(snapshot, told)
  BY DEF Inv, Replays
<1>4. /\ sessionRelays' = sessionRelays /\ ignored' = ignored
      /\ sessionRelays \subseteq Url /\ ignored \subseteq Url /\ edits' \in 0 .. MaxEdits
      /\ log' = events /\ log \subseteq events /\ events \subseteq history
  BY <1>1, <1>2 DEF choice, Inv, TypeOK
<1> QED BY <1>1, <1>2, <1>3, <1>4, HereKeeps

-----------------------------------------------------------------------------
(* The worker.                                                             *)

LEMMA WorkerReducesKeeps ==
  ASSUME Inv, WorkerReduces
  PROVE  Inv' /\ shown \subseteq shown'
<1> DEFINE request == Head(requests)
           result == ReduceWithSnapshot(request.events, workerSnapshot)
           answer == [seq |-> request.seq, events |-> request.events,
                      state |-> result.snapshot.state, rejected |-> result.rejected]
           heard == told \cup Reported(answers, Len(answers))
           n == Len(answers)
<1>1. /\ requests # <<>> /\ requests' = Tail(requests)
      /\ workerSnapshot' = result.snapshot
      /\ answers' = Append(answers, answer)
      /\ UNCHANGED <<history, log, worker, snapshot, seq, lastApplied, state, shown,
                     told, choice, relays, waits, outboxEmpty, saves, mute, stopped>>
  BY DEF WorkerReduces, queue
<1>2. requests \in Seq(Request) /\ answers \in Seq(Reduction)
  BY DEF Inv, Queued
<1>3. /\ Tail(requests) \in Seq(Request) /\ request = requests[1]
      /\ request \in Request /\ 1 \in DOMAIN requests
      /\ \A i \in DOMAIN Tail(requests) : /\ Tail(requests)[i] = requests[i + 1]
                                          /\ i + 1 \in DOMAIN requests
  BY <1>1, <1>2, TailFacts
<1>4. /\ InOrder(Tail(requests))
      /\ \A i \in DOMAIN Tail(requests) : Earlier(request, Tail(requests)[i])
  BY <1>1, <1>2, TailInOrder DEF Inv, Queued
<1>5. Pending(request)
  BY <1>3 DEF Inv, Queued
<1>6. worker /\ Checkpoint(workerSnapshot, heard)
  BY <1>1 DEF Inv, TypeOK, Replays
<1>7. Log(request.events)
  <2>1. request.events \in SUBSET history /\ history \in Histories
    BY <1>5 DEF Pending, Inv, Queued, TypeOK
  <2> QED BY <2>1, PartIsLog
<1> HIDE DEF request, heard, n
<1>8. /\ result.snapshot.state = FullReduce(request.events).state
      /\ FullReduce(request.events).rejected \subseteq heard \cup result.rejected
      /\ Checkpoint(result.snapshot, heard \cup result.rejected)
      /\ result.snapshot.state \in Seq(Nat) /\ result.rejected \subseteq Nat
  BY <1>6, <1>7, ResumingIsReplaying
<1> HIDE DEF result
<1>9. /\ answer \in Reduction
      /\ answer.seq = request.seq /\ answer.events = request.events
      /\ answer.state = result.snapshot.state /\ answer.rejected = result.rejected
  BY <1>3, <1>8 DEF Request, Reduction
<1> HIDE DEF answer
<1>10. /\ n \in Nat /\ DOMAIN answers = 1 .. n /\ DOMAIN answers' = 1 .. n + 1
       /\ Len(answers') = n + 1 /\ answers' \in Seq(Reduction)
       /\ \A i \in 1 .. n : answers'[i] = answers[i]
       /\ answers'[n + 1] = answer
  BY <1>1, <1>2, <1>9, AppendFacts DEF n
<1>11. \A i \in DOMAIN answers : Earlier(answers[i], request)
  BY <1>3 DEF Inv, Queued
<1>12. InOrder(answers')
  <2>1. \A i \in DOMAIN answers : Earlier(answers[i], answer)
    BY <1>9, <1>11 DEF Earlier
  <2> QED BY <2>1, <1>1, <1>2, <1>9, AppendedInOrder DEF Inv, Queued
<1>13. ASSUME NEW i \in DOMAIN answers'
       PROVE  /\ Pending(answers'[i])
              /\ \A j \in DOMAIN Tail(requests) : Earlier(answers'[i], Tail(requests)[j])
  <2>1. CASE i \in 1 .. n
    <3>1. i \in DOMAIN answers /\ answers'[i] = answers[i]
      BY <2>1, <1>10
    <3> QED BY <3>1, <1>3 DEF Inv, Queued
  <2>2. CASE i = n + 1
    <3>1. answers'[i] = answer
      BY <2>2, <1>10
    <3>2. Pending(answer)
      BY <1>5, <1>9 DEF Pending
    <3>3. \A j \in DOMAIN Tail(requests) : Earlier(answer, Tail(requests)[j])
      BY <1>4, <1>9 DEF Earlier
    <3> QED BY <3>1, <3>2, <3>3
  <2> QED BY <2>1, <2>2, <1>10
<1>14. Queued'
  <2>1. \A i \in DOMAIN requests' : Pending(requests'[i])
    BY <1>1, <1>3 DEF Inv, Queued
  <2>2. /\ \A i \in DOMAIN requests' : Pending(requests[i])'
        /\ \A i \in DOMAIN answers' : Pending(answers[i])'
    BY <2>1, <1>1, <1>13 DEF Pending
  <2> QED BY <2>2, <1>1, <1>3, <1>4, <1>10, <1>12, <1>13 DEF Inv, Queued
<1>15. /\ \A i \in 1 .. n : Reported(answers', i) = Reported(answers, i)
       /\ told \cup Reported(answers', n + 1) = heard \cup result.rejected
  <2>1. /\ \A i \in 1 .. n : Reported(answers', i) = Reported(answers, i)
        /\ Reported(answers', n + 1) = Reported(answers, n) \cup answer.rejected
    BY <1>1, <1>2, <1>9, ReportedAppend DEF n
  <2> QED BY <2>1, <1>9 DEF heard, n
<1>16. Replays'
  <2>1. ASSUME NEW i \in DOMAIN answers'
        PROVE  /\ answers'[i].state = FullReduce(answers'[i].events).state
               /\ FullReduce(answers'[i].events).rejected
                    \subseteq told \cup Reported(answers', i)
    <3>1. CASE i \in 1 .. n
      <4>1. i \in DOMAIN answers /\ answers'[i] = answers[i]
        BY <3>1, <1>10
      <4> QED BY <3>1, <4>1, <1>15 DEF Inv, Replays
    <3>2. CASE i = n + 1
      <4>1. answers'[i] = answer
        BY <3>2, <1>10
      <4> QED BY <3>2, <4>1, <1>8, <1>9, <1>15
    <3> QED BY <3>1, <3>2, <1>10
  <2>2. Checkpoint(workerSnapshot', told \cup Reported(answers', Len(answers')))
    BY <1>1, <1>8, <1>10, <1>15
  <2>3. Checkpoint(snapshot', told') /\ ShownIsReplay' /\ RejectionsTold'
    BY <1>1 DEF Inv, Replays, ShownIsReplay, RejectionsTold
  <2> QED BY <2>1, <2>2, <2>3, <1>1 DEF Replays
<1>17. TypeOK'
  BY <1>1, <1>6 DEF Inv, TypeOK, choice
<1>18. RelaysFollowLedger'
  <2>1. answers' # <<>>
    BY <1>10
  <2> QED BY <2>1 DEF RelaysFollowLedger
<1>19. Awake'
  BY <1>1 DEF Inv, Awake, NobodyOversleeps
<1> QED BY <1>1, <1>14, <1>16, <1>17, <1>18, <1>19 DEF Inv

LEMMA WorkerAnswersKeeps ==
  ASSUME Inv, WorkerAnswers
  PROVE  Inv' /\ shown \subseteq shown'
<1> DEFINE answer == Head(answers)
           n == Len(answers)
<1>1. answers \in Seq(Reduction) /\ answers # <<>> /\ answers' = Tail(answers)
  BY DEF WorkerAnswers, Inv, Queued
<1>2. /\ Tail(answers) \in Seq(Reduction) /\ answer = answers[1]
      /\ answer \in Reduction /\ 1 \in DOMAIN answers
      /\ DOMAIN Tail(answers) = 1 .. n - 1 /\ Len(Tail(answers)) = n - 1
      /\ DOMAIN answers = 1 .. n /\ n \in Nat
      /\ \A i \in DOMAIN Tail(answers) : /\ Tail(answers)[i] = answers[i + 1]
                                         /\ i + 1 \in DOMAIN answers /\ i \in Nat
  BY <1>1, TailFacts
<1>3. Pending(answer)
  BY <1>2 DEF Inv, Queued
<1> HIDE DEF answer, n
<1>4. answer.seq > lastApplied
  <2>1. answer.seq \in Int /\ lastApplied \in Int
    BY <1>2 DEF Reduction, Inv, Queued
  <2> QED BY <2>1, <1>3 DEF Pending
<1>5. /\ lastApplied' = answer.seq
      /\ Show(answer.state, answer.events, answer.rejected, sessionRelays, ignored)
      /\ UNCHANGED <<history, log, worker, requests, workerSnapshot, snapshot, seq,
                     choice, outboxEmpty, saves, mute, stopped>>
  BY <1>4 DEF WorkerAnswers, answer, queue
<1>6. worker
  BY <1>1 DEF Inv, TypeOK
<1>7. /\ sessionRelays' = sessionRelays /\ ignored' = ignored /\ edits' = edits
      /\ sessionRelays \subseteq Url
  BY <1>5 DEF choice, Inv, TypeOK
<1>8. ~stopped
  BY <1>6 DEF Inv, Awake
<1>9. /\ Awake' /\ relays' \subseteq Url /\ \A w \in Waiter : waits'[w] \in Stand
      /\ state' = answer.state /\ shown' = answer.events
      /\ told' = told \cup answer.rejected
      /\ state' # NoState =>
           relays' = MergeActiveRelays(sessionRelays, CommunityRelays(state'), ignored)
  <2>1. stopped' => ~worker'
    BY <1>5, <1>8
  <2> QED BY <2>1, <1>5, <1>7, ShowKeeps
<1>10. /\ InOrder(Tail(answers))
       /\ \A i \in DOMAIN Tail(answers) : Earlier(answer, Tail(answers)[i])
  BY <1>1, TailInOrder DEF Inv, Queued, answer
<1>11. \A j \in DOMAIN requests : Earlier(answer, requests[j])
  BY <1>2 DEF Inv, Queued
<1>12. TypeOK'
  <2>1. shown' \subseteq log' /\ lastApplied' <= seq'
    BY <1>3, <1>5, <1>9 DEF Pending
  <2> QED BY <2>1, <1>5, <1>6, <1>7, <1>9 DEF Inv, TypeOK, Stand
<1>13. Queued'
  <2>1. ASSUME NEW i \in DOMAIN requests' PROVE Pending(requests[i])'
    <3>1. i \in DOMAIN requests /\ requests' = requests
      BY <1>5
    <3>2. Pending(requests[i]) /\ Earlier(answer, requests[i])
      BY <3>1, <1>11 DEF Inv, Queued
    <3> QED BY <3>1, <3>2, <1>5, <1>9 DEF Pending, Earlier
  <2>2. ASSUME NEW i \in DOMAIN answers'
        PROVE  /\ Pending(answers[i])'
               /\ \A j \in DOMAIN requests' : Earlier(answers'[i], requests'[j])
    <3>1. /\ i \in DOMAIN Tail(answers) /\ answers'[i] = Tail(answers)[i]
          /\ answers'[i] = answers[i + 1] /\ i + 1 \in DOMAIN answers
      BY <1>1, <1>2
    <3>2. Pending(answers[i + 1]) /\ Earlier(answer, answers[i + 1])
      BY <3>1, <1>10 DEF Inv, Queued
    <3>3. Pending(answers[i])'
      BY <3>1, <3>2, <1>5, <1>9 DEF Pending, Earlier
    <3>4. \A j \in DOMAIN requests : Earlier(answers[i + 1], requests[j])
      BY <3>1 DEF Inv, Queued
    <3> QED BY <3>1, <3>3, <3>4, <1>5
  <2>3. lastApplied' \in Int
    BY <1>2, <1>5 DEF Reduction
  <2> QED BY <2>1, <2>2, <2>3, <1>1, <1>2, <1>5, <1>10 DEF Inv, Queued
<1>14. \A i \in 0 .. n - 1 :
         told \cup Reported(answers, i + 1) = told' \cup Reported(answers', i)
  <2>1. \A i \in 0 .. n - 1 :
          Reported(answers, i + 1) = answer.rejected \cup Reported(answers', i)
    BY <1>1, ReportedTail DEF answer, n
  <2> QED BY <2>1, <1>9
<1>15. Replays'
  <2>1. ASSUME NEW i \in DOMAIN answers'
        PROVE  /\ answers'[i].state = FullReduce(answers'[i].events).state
               /\ FullReduce(answers'[i].events).rejected
                    \subseteq told' \cup Reported(answers', i)
    <3>1. /\ i \in 0 .. n - 1 /\ answers'[i] = answers[i + 1] /\ i + 1 \in DOMAIN answers
      BY <1>1, <1>2
    <3>2. /\ answers[i + 1].state = FullReduce(answers[i + 1].events).state
          /\ FullReduce(answers[i + 1].events).rejected
               \subseteq told \cup Reported(answers, i + 1)
      BY <3>1 DEF Inv, Replays
    <3> QED BY <3>1, <3>2, <1>14
  <2>2. Checkpoint(workerSnapshot', told' \cup Reported(answers', Len(answers')))
    <3>1. Checkpoint(workerSnapshot, told \cup Reported(answers, n))
      BY <1>6 DEF Inv, Replays, n
    <3>2. Len(answers') = n - 1 /\ n - 1 \in 0 .. n - 1 /\ (n - 1) + 1 = n
      BY <1>1, <1>2
    <3> QED BY <3>1, <3>2, <1>5, <1>14
  <2>3. Checkpoint(snapshot', told')
    BY <1>5, <1>9, CheckpointHeardMore DEF Inv, Replays
  <2>4. ShownIsReplay'
    <3>1. answer.state = FullReduce(answer.events).state
      BY <1>2 DEF Inv, Replays
    <3> QED BY <3>1, <1>9 DEF ShownIsReplay
  <2>5. RejectionsTold'
    <3>1. FullReduce(answer.events).rejected \subseteq told \cup Reported(answers, 1)
      BY <1>2 DEF Inv, Replays
    <3>2. Reported(answers, 1) = answer.rejected
      <4>1. 1 .. 1 = {1}
        OBVIOUS
      <4> QED BY <4>1, <1>2 DEF Reported
    <3> QED BY <3>1, <3>2, <1>9 DEF RejectionsTold
  <2> QED BY <2>1, <2>2, <2>3, <2>4, <2>5 DEF Replays
<1>16. RelaysFollowLedger'
  BY <1>7, <1>9 DEF RelaysFollowLedger
<1>17. shown \subseteq shown'
  BY <1>3, <1>9 DEF Pending
<1> QED BY <1>9, <1>12, <1>13, <1>15, <1>16, <1>17 DEF Inv

-----------------------------------------------------------------------------
(* What reduces nothing.                                                   *)

QueueOK == outboxEmpty \in BOOLEAN /\ saves \in 0 .. MaxSaves /\ mute \in BOOLEAN

\* Nothing of the reduction moves but who waits and what the outbox is at.
LEMMA WaitsKeep ==
  ASSUME Inv, UNCHANGED <<history, log, reduction, choice, relays, stopped>>,
         QueueOK', Awake'
  PROVE  Inv' /\ shown \subseteq shown'
<1>1. TypeOK'
  <2>1. \A w \in Waiter : waits'[w] \in Stand
    BY DEF Awake
  <2> QED BY <2>1 DEF Inv, TypeOK, Stand, reduction, choice, QueueOK
<1>2. Queued'
  BY DEF Inv, Queued, Pending, reduction
<1>3. Replays'
  BY DEF Inv, Replays, ShownIsReplay, RejectionsTold, reduction
<1>4. RelaysFollowLedger'
  BY DEF Inv, RelaysFollowLedger, reduction, choice
<1> QED BY <1>1, <1>2, <1>3, <1>4 DEF Inv, reduction

LEMMA WaitForKeeps ==
  ASSUME Inv, NEW w \in Waiter, NEW id \in Awaited, WaitFor(w, id)
  PROVE  Inv' /\ shown \subseteq shown'
<1> DEFINE new == IF Ready(<<"waiting", id>>, state, outboxEmpty)
                  THEN <<"done", TRUE>> ELSE <<"waiting", id>>
<1>1. /\ ~stopped /\ waits' = [waits EXCEPT ![w] = new]
      /\ UNCHANGED <<history, log, reduction, choice, relays, outboxEmpty, saves, mute, stopped>>
  BY DEF WaitFor, queue
<1>2. new \in Stand /\ (new \in Waiting => ~Ready(new, state, outboxEmpty))
  BY DoneIsNotWaiting DEF Stand, Waiting
<1> HIDE DEF new
<1>3. /\ waits' \in [Waiter -> Stand]
      /\ \A v \in Waiter : waits'[v] = IF v = w THEN new ELSE waits[v]
  BY <1>1, <1>2 DEF Inv, Awake
<1>4. Awake'
  BY <1>1, <1>2, <1>3 DEF Inv, Awake, NobodyOversleeps, reduction
<1>5. QueueOK'
  BY <1>1 DEF Inv, TypeOK, QueueOK
<1> QED BY <1>1, <1>4, <1>5, WaitsKeep

LEMMA TimeOutKeeps ==
  ASSUME Inv, NEW w \in Waiter, TimeOut(w)
  PROVE  Inv' /\ shown \subseteq shown'
<1> DEFINE new == <<"done", Ready(waits[w], state, outboxEmpty)>>
<1>1. /\ waits' = [waits EXCEPT ![w] = new]
      /\ UNCHANGED <<history, log, reduction, choice, relays, outboxEmpty, saves, mute, stopped>>
  BY DEF TimeOut, Inv, Awake, queue
<1>2. new \in {<<"done", TRUE>>, <<"done", FALSE>>}
  BY DEF Ready
<1> HIDE DEF new
<1>3. new \in Stand /\ new \notin Waiting
  BY <1>2, DoneIsNotWaiting DEF Stand
<1>4. /\ waits' \in [Waiter -> Stand]
      /\ \A v \in Waiter : waits'[v] = IF v = w THEN new ELSE waits[v]
  BY <1>1, <1>3 DEF Inv, Awake
<1>5. Awake'
  BY <1>1, <1>3, <1>4 DEF Inv, Awake, NobodyOversleeps, reduction
<1>6. QueueOK'
  BY <1>1 DEF Inv, TypeOK, QueueOK
<1> QED BY <1>1, <1>5, <1>6, WaitsKeep

\* Until what the engine does to its outbox is written, nobody counts on it.
LEMMA OutboxMovesKeeps ==
  ASSUME Inv, OutboxMoves
  PROVE  Inv' /\ shown \subseteq shown'
<1>1. /\ saves < MaxSaves /\ outboxEmpty' = ~outboxEmpty /\ saves' = saves + 1
      /\ UNCHANGED <<history, log, reduction, choice, relays, waits, mute, stopped>>
  BY DEF OutboxMoves
<1>2. saves' \in 0 .. MaxSaves /\ saves' # 0
  BY <1>1, ControllerAssumption DEF Inv, TypeOK
<1>3. QueueOK'
  <2>1. mute' \in BOOLEAN /\ outboxEmpty' \in BOOLEAN
    BY <1>1 DEF Inv, TypeOK
  <2> QED BY <2>1, <1>2 DEF QueueOK
<1>4. Awake'
  BY <1>1, <1>2 DEF Inv, Awake, NobodyOversleeps, reduction
<1> QED BY <1>1, <1>3, <1>4, WaitsKeep

\* Whatever the engine says of its status wakes whoever has what he waits for.
LEMMA EmitStatusKeeps ==
  ASSUME Inv, EmitStatus, saves' \in 0 .. MaxSaves
  PROVE  Inv' /\ shown \subseteq shown'
<1>1. /\ mute' = FALSE /\ waits' = IF stopped THEN waits ELSE Woken(state, outboxEmpty)
      /\ UNCHANGED <<history, log, reduction, choice, relays, outboxEmpty, stopped>>
  BY DEF EmitStatus
<1>2. QueueOK'
  BY <1>1 DEF Inv, TypeOK, QueueOK
<1>3. Awake'
  <2>1. CASE stopped
    BY <2>1, <1>1 DEF Inv, Awake, NobodyOversleeps, reduction
  <2>2. CASE ~stopped
    <3>1. \A w \in Waiter : waits[w] \in Stand
      BY DEF Inv, Awake
    <3>2. /\ waits' \in [Waiter -> Stand]
          /\ \A w \in Waiter : waits'[w] \in Waiting
                                => ~Ready(waits'[w], state, outboxEmpty)
      BY <2>2, <3>1, <1>1, WokenAwake
    <3> QED BY <2>2, <3>2, <1>1 DEF Awake, NobodyOversleeps, reduction
  <2> QED BY <2>1, <2>2
<1> QED BY <1>1, <1>2, <1>3, WaitsKeep

LEMMA OutboxSavedKeeps ==
  ASSUME Inv, OutboxSaved \/ ConnectionMoves
  PROVE  Inv' /\ shown \subseteq shown'
<1>1. EmitStatus
  BY DEF OutboxSaved, ConnectionMoves
<1>2. saves' \in 0 .. MaxSaves
  BY ControllerAssumption DEF OutboxSaved, ConnectionMoves, Inv, TypeOK
<1> QED BY <1>1, <1>2, EmitStatusKeeps

\* After a write that failed nobody counts on being woken.
LEMMA SaveFailsKeeps ==
  ASSUME Inv, SaveFails
  PROVE  Inv' /\ shown \subseteq shown'
<1>1. /\ saves > 0 /\ saves' = saves - 1 /\ mute' = TRUE
      /\ UNCHANGED <<history, log, reduction, choice, relays, waits, outboxEmpty,
                     stopped>>
  BY DEF SaveFails
<1>2. saves' \in 0 .. MaxSaves
  BY <1>1, ControllerAssumption DEF Inv, TypeOK
<1>3. QueueOK'
  <2>1. outboxEmpty' \in BOOLEAN
    BY <1>1 DEF Inv, TypeOK
  <2> QED BY <2>1, <1>1, <1>2 DEF QueueOK
<1>4. Awake'
  BY <1>1 DEF Inv, Awake, NobodyOversleeps, reduction
<1> QED BY <1>1, <1>3, <1>4, WaitsKeep

\* setRelays, addRelay, removeRelay and ignoreCommunityRelay.
LEMMA ChooseRelaysKeeps ==
  ASSUME Inv, NEW session \in SUBSET Url, NEW ign \in SUBSET Url,
         ChooseRelays(session, ign)
  PROVE  Inv' /\ shown \subseteq shown'
<1>1. /\ edits < MaxEdits /\ edits' = edits + 1
      /\ sessionRelays' = session /\ ignored' = ign
      /\ relays' = IF state = NoState THEN relays
                   ELSE MergeActiveRelays(session, CommunityRelays(state), ign)
      /\ UNCHANGED <<history, log, reduction, waits, outboxEmpty, saves, mute, stopped>>
  BY DEF ChooseRelays, Edit, FollowPool, queue
<1>2. edits' \in 0 .. MaxEdits
  BY <1>1, ControllerAssumption DEF Inv, TypeOK
<1>3. relays' \subseteq Url
  BY <1>1, RelayTypes DEF Inv, TypeOK
<1>4. TypeOK'
  BY <1>1, <1>2, <1>3 DEF Inv, TypeOK, reduction
<1>5. Queued'
  BY <1>1 DEF Inv, Queued, Pending, reduction
<1>6. Replays'
  BY <1>1 DEF Inv, Replays, ShownIsReplay, RejectionsTold, reduction
<1>7. RelaysFollowLedger'
  BY <1>1 DEF RelaysFollowLedger, reduction
<1>8. Awake'
  BY <1>1 DEF Inv, Awake, NobodyOversleeps, reduction
<1> QED BY <1>1, <1>4, <1>5, <1>6, <1>7, <1>8 DEF Inv, reduction

LEMMA StopKeeps == ASSUME Inv, Stop PROVE Inv' /\ shown \subseteq shown'
<1>1. /\ stopped' = TRUE /\ worker' = FALSE /\ requests' = <<>> /\ answers' = <<>>
      /\ waits' = [w \in Waiter |-> IF waits[w] \in Waiting THEN <<"done", FALSE>>
                                    ELSE waits[w]]
      /\ UNCHANGED <<history, log, workerSnapshot, snapshot, seq, lastApplied, state,
                     shown, told, choice, relays, outboxEmpty, saves, mute>>
  BY DEF Stop, queue
<1>2. waits' \in [Waiter -> Stand] /\ \A w \in Waiter : waits'[w] \notin Waiting
  <2>1. \A w \in Waiter : waits[w] \in Stand
    BY DEF Inv, Awake
  <2>2. <<"done", FALSE>> \in Stand
    BY DEF Stand
  <2> QED BY <2>1, <2>2, <1>1, DoneIsNotWaiting
<1>3. TypeOK'
  BY <1>1, <1>2 DEF Inv, TypeOK, Stand, choice
<1>4. Queued'
  <2>1. <<>> \in Seq(Request) /\ <<>> \in Seq(Reduction) /\ DOMAIN <<>> = {}
    OBVIOUS
  <2> QED BY <2>1, <1>1 DEF Inv, Queued, InOrder
<1>5. Replays'
  <2>1. DOMAIN answers' = {}
    BY <1>1
  <2> QED BY <2>1, <1>1 DEF Inv, Replays, ShownIsReplay, RejectionsTold
<1>6. RelaysFollowLedger' /\ Awake'
  BY <1>1, <1>2 DEF RelaysFollowLedger, Awake, NobodyOversleeps
<1> QED BY <1>1, <1>3, <1>4, <1>5, <1>6 DEF Inv

-----------------------------------------------------------------------------
(* The theorems.                                                           *)

LEMMA InvInit == Init => Inv
<1> SUFFICES ASSUME Init PROVE Inv
  OBVIOUS
<1> USE DEF Init
<1>1. waits \in [Waiter -> Stand] /\ \A w \in Waiter : waits[w] \notin Waiting
  BY DoneIsNotWaiting DEF Stand
<1>2. TypeOK
  <2>1. BootstrapRelays \subseteq Url /\ MaxRequests \in Nat /\ MaxEdits \in Nat
      /\ MaxSaves \in Nat
    BY ControllerAssumption
  <2>2. \A w \in Waiter : waits[w] \in Stand
    BY <1>1
  <2>3. /\ seq \in 0 .. MaxRequests /\ edits \in 0 .. MaxEdits /\ lastApplied <= seq
        /\ saves \in 0 .. MaxSaves
    BY <2>1
  <2> QED BY <2>1, <2>2, <2>3 DEF TypeOK, Stand
<1>3. Queued
  <2>1. <<>> \in Seq(Request) /\ <<>> \in Seq(Reduction) /\ DOMAIN <<>> = {}
    OBVIOUS
  <2> QED BY <2>1 DEF Queued, InOrder
<1>4. Replays
  <2>1. DOMAIN answers = {}
    OBVIOUS
  <2> QED BY <2>1, EmptyCheckpoint DEF Replays, ShownIsReplay, RejectionsTold
<1>5. RelaysFollowLedger /\ Awake
  BY <1>1 DEF RelaysFollowLedger, Awake, NobodyOversleeps
<1> QED BY <1>2, <1>3, <1>4, <1>5 DEF Inv

LEMMA NextKeeps ==
  ASSUME Inv, [Next]_vars
  PROVE  Inv' /\ shown \subseteq shown'
<1>1. CASE \E S \in SUBSET history : Learn(S) \/ ImportLog(S)
  BY <1>1, LearnKeeps, ImportLogKeeps
<1>2. CASE WorkerReduces \/ WorkerAnswers \/ WorkerFails
  BY <1>2, WorkerReducesKeeps, WorkerAnswersKeeps, WorkerFailsKeeps
<1>3. CASE \E url \in Url : ContributeRelay(url) \/ RevokeRelay(url)
  BY <1>3, ContributeRelayKeeps, RevokeRelayKeeps
<1>4. CASE \/ \E url \in Url : \/ AddRelay(url) \/ RemoveRelay(url)
                               \/ IgnoreCommunityRelay(url)
           \/ \E urls \in SUBSET Url : SetRelays(urls)
  <2>1. sessionRelays \subseteq Url /\ ignored \subseteq Url
    BY DEF Inv, TypeOK
  <2>2. \E session \in SUBSET Url : \E ign \in SUBSET Url : ChooseRelays(session, ign)
    BY <1>4, <2>1 DEF AddRelay, RemoveRelay, IgnoreCommunityRelay, SetRelays
  <2> QED BY <2>2, ChooseRelaysKeeps
<1>5. CASE \E w \in Waiter : TimeOut(w) \/ \E id \in Awaited : WaitFor(w, id)
  BY <1>5, TimeOutKeeps, WaitForKeeps
<1>6. CASE OutboxMoves \/ OutboxSaved \/ SaveFails \/ ConnectionMoves
  BY <1>6, OutboxMovesKeeps, OutboxSavedKeeps, SaveFailsKeeps
<1>7. CASE RecomputeOnceMore \/ Stop
  BY <1>7, RecomputeOnceMoreKeeps, StopKeeps
<1>8. CASE UNCHANGED vars
  <2>1. UNCHANGED <<history, log, reduction, choice, relays, waits, outboxEmpty, saves, mute, stopped>>
    BY <1>8 DEF vars, queue
  <2>2. Awake' /\ QueueOK'
    BY <2>1 DEF Inv, TypeOK, Awake, NobodyOversleeps, QueueOK, reduction
  <2> QED BY <2>1, <2>2, WaitsKeep
<1> QED BY <1>1, <1>2, <1>3, <1>4, <1>5, <1>6, <1>7, <1>8 DEF Next

LEMMA InvHolds == Spec => []Inv
<1>1. Inv /\ [Next]_vars => Inv'
  BY NextKeeps
<1> QED BY <1>1, InvInit, PTL DEF Spec

\* The node's log, what is shown of it, the relays and the waiters are of their
\* kind; nothing is applied that was not asked for (NodeController).
THEOREM TypeCorrect == Spec => []TypeOK
<1>1. Inv => TypeOK
  BY DEF Inv
<1> QED BY <1>1, InvHolds, PTL

\* For every history and every reducer, what is shown is a replay from genesis of
\* a log the node had, from whichever checkpoint and on whichever thread it was
\* reduced (reduceWithSnapshot, reducer.worker.ts).
THEOREM ShownIsAReplay == Spec => []ShownIsReplay
<1>1. Inv => ShownIsReplay
  BY DEF Inv, Replays
<1> QED BY <1>1, InvHolds, PTL

\* Every rejection in what is shown was reported, though resuming reports only
\* the new ones and the worker's reports come late (notifyRejectedReductions).
THEOREM NoRejectionIsLost == Spec => []RejectionsTold
<1>1. Inv => RejectionsTold
  BY DEF Inv, Replays
<1> QED BY <1>1, InvHolds, PTL

\* With no reduction pending the engine uses the relays that session, ledger and
\* the user's choices amount to (syncRelaysFromPool).
THEOREM RelaysAreCurrent == Spec => []RelaysFollowLedger
<1>1. Inv => RelaysFollowLedger
  BY DEF Inv
<1> QED BY <1>1, InvHolds, PTL

\* Nobody waits for what is already there, once what became of the outbox is
\* written and no write of it failed (waitForConfirmedState, saveOutbox).
THEOREM WaitersWake == Spec => []NobodyOversleeps
<1>1. Inv => NobodyOversleeps
  BY DEF Inv, Awake
<1> QED BY <1>1, InvHolds, PTL

\* A result never takes the place of one from a larger log, whether it comes
\* from the worker, from a failing worker's replacement or from an import
\* (lastApplied, onerror).
THEOREM ViewOnlyGrows == Spec => NeverGoesBack
<1>1. Inv /\ [Next]_vars => [shown \subseteq shown']_vars
  BY NextKeeps
<1> QED BY <1>1, InvHolds, PTL DEF Spec, NeverGoesBack

\* Events are applied parents first, each once, all that are connected to a root,
\* and in the total order wherever ancestry does not decide (topologicalSort).
THEOREM OrderHolds == Spec => []OrderIsCausal
<1>1. Inv => OrderIsCausal
  <2> SUFFICES ASSUME Inv PROVE OrderIsCausal
    OBVIOUS
  <2> DEFINE order == TopologicalSort(log)
  <2>1. Log(log)
    BY PartIsLog DEF Inv, TypeOK, Queued
  <2>2. order \in Seq(log) /\ Distinct(order) /\ Follows(order)
    BY <2>1, SortIsCausal
  <2>3. Range(order) = FilterCausalClosure(log, {})
    BY <2>1, ConnectedIsSorted
  <2> HIDE DEF order
  <2>4. Cardinality(Range(order)) = Len(order)
    BY <2>1, <2>2, DistinctFit
  <2> QED BY <2>2, <2>3, <2>4 DEF OrderIsCausal, Follows, order
<1> QED BY <1>1, InvHolds, PTL
=============================================================================
