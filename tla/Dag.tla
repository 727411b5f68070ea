-------------------------------- MODULE Dag --------------------------------
(***************************************************************************)
(* The event graph: packages/core/src/dag/index.ts.  A log is a set of     *)
(* signed events; an event names its parent by prevHash.  Ids are hashes:  *)
(* numbers here, because ties are broken by comparing them.  Pure          *)
(* functions of a log.                                                     *)
(***************************************************************************)
EXTENDS Integers, Sequences, FiniteSets, Functions

None == 0               \* the null prevHash

Ids(log) == {e.id : e \in log}

-----------------------------------------------------------------------------
(* The total order: Lamport time, then hash.                               *)

Before(a, b) ==
  \/ a.lamport < b.lamport
  \/ a.lamport = b.lamport /\ a.id < b.id

First(log) == CHOOSE e \in log : \A o \in log \ {e} : Before(e, o)

\* The last event of a log, as a set: an empty log has none.
Latest(log) == {e \in log : \A o \in log \ {e} : Before(o, e)}
LastId(log) ==
  IF Latest(log) = {} THEN None ELSE (CHOOSE e \in Latest(log) : TRUE).id

\* Repeated selection: what the first n steps yield, as a singleton.
Selected(log, Next(_, _)) ==
  LET steps[n \in 0 .. Cardinality(log)] ==
        IF n = 0 THEN {<<>>} ELSE {Next(log, done) : done \in steps[n - 1]}
  IN  CHOOSE order \in steps[Cardinality(log)] : TRUE

AppendFirst(done, from) == IF from = {} THEN done ELSE Append(done, First(from))

NextInOrder(log, done) ==
  AppendFirst(done, log \ {done[i] : i \in DOMAIN done})

SortEvents(log) == Selected(log, NextInOrder)

MaxLamport(log) ==
  IF Latest(log) = {} THEN 0 ELSE (CHOOSE e \in Latest(log) : TRUE).lamport

-----------------------------------------------------------------------------
(* The causal order: parents first, ties by the total order.  Events whose *)
(* parent is missing, and cycles, are held aside.                          *)

ReadyEventsBeforeParent(log, done) ==                                    \* mutant
  {e \in log \ done : e.prevHash = None \/ e.prevHash \notin Ids(log \ done)}
ReadyEvents(log, done) ==
  {e \in log \ done : e.prevHash = None \/ e.prevHash \in Ids(done)}

NextReady(log, done) ==
  AppendFirst(done, ReadyEvents(log, {done[i] : i \in DOMAIN done}))

TopologicalSort(log) == Selected(log, NextReady)

IsCausalClosure(log) ==
  \A e \in log : e.prevHash = None \/ e.prevHash \in Ids(log)

\* What of the candidates hangs together with the known log and the roots.
FilterCausalClosure(candidates, known) ==
  LET accepted[n \in 0 .. Cardinality(candidates)] ==
        IF n = 0 THEN known
        ELSE UNION {taken \cup {e \in candidates :
                      e.prevHash = None \/ e.prevHash \in Ids(taken)} :
                    taken \in {accepted[n - 1]}}
  IN  {e \in candidates \ known : e \in accepted[Cardinality(candidates)]}
=============================================================================
