----------------------------- MODULE Controller -----------------------------
(***************************************************************************)
(* How a node turns its log into what its user sees: NodeController        *)
(* (packages/client/src/node/controller.ts), the reducer worker            *)
(* (node/reducer.worker.ts), resumable reduction                           *)
(* (core/src/reducer/snapshot.ts) and the choice of relays                 *)
(* (client/src/app/active-relays.ts).                                      *)
(*                                                                         *)
(* The reducer itself is module Pool; here it is any fold that may reject  *)
(* an event depending on what it accepted before, and a reduced state is   *)
(* the sequence of the ids it accepted.                                    *)
(***************************************************************************)
EXTENDS Dag

CONSTANTS
  Histories,          \* sets of events a community may have signed
  Accepts(_, _),      \* whether a state takes an event: the reducer's verdict
  Url,                \* relay URLs
  Signer(_),          \* the author of an event id
  Contributes(_),     \* the URL an event id contributes as a mailbox, if any
  Revokes(_),         \* the URL an event id revokes, if any
  BootstrapRelays,    \* what selectRelaysForCommunity returns
  Waiter,             \* concurrent calls of waitForConfirmedState
  Awaited,            \* the ids whose effect is waited for
  MaxRequests,        \* bound: reductions asked of the worker
  MaxEdits,           \* bound: relay edits of the user
  MaxSaves            \* bound: writes of the outbox under way at once

ASSUME ControllerAssumption ==
  /\ \A events \in Histories :
       /\ IsFiniteSet(events)
       /\ \A e \in events :
            e.id \in Nat \ {None} /\ e.prevHash \in Nat /\ e.lamport \in Int
       /\ \A e, f \in events : e.id = f.id => e = f
  /\ BootstrapRelays \subseteq Url
  /\ MaxRequests \in Nat /\ MaxEdits \in Nat /\ MaxSaves \in Nat

VARIABLES
  history,            \* the events that exist
  log,                \* sync.getEvents()
  worker,             \* whether the worker runs
  requests, answers,  \* messages to and from the worker, in order
  workerSnapshot, snapshot,  \* the checkpoints of worker and main thread
  seq, lastApplied,
  state,              \* the reduced state shown, NoState before the first
  shown,              \* history: the log that state was reduced from
  told,               \* history: rejections handed to onRejected
  sessionRelays, ignored, relays,   \* relays = sync.getRelays()
  waits,              \* what each waiter waits for, or how it ended
  outboxEmpty,        \* pendingOutbox = 0
  saves,              \* writes of the outbox the engine awaits before it says so
  mute,               \* history: one of them failed, and nothing was said since
  stopped, edits

reduction == <<worker, requests, answers, workerSnapshot, snapshot, seq,
               lastApplied, state, shown, told>>
choice == <<sessionRelays, ignored, edits>>
queue == <<outboxEmpty, saves, mute>>
vars == <<history, log, reduction, choice, relays, waits, queue, stopped>>

NoState == <<None>>     \* no event has the null hash
NoSnapshot == [state |-> <<>>, appliedCount |-> 0, prefixHash |-> <<>>]

IdsInOrder(events) == [i \in DOMAIN events |-> events[i].id]

-----------------------------------------------------------------------------
(* Resumable reduction.  prefixHash is the sequence it hashes.             *)

\* reduceOneSync over part of an order: the state, and the ids turned down.
ReduceOne(done, id) ==
  IF Accepts(done.state, id) THEN [done EXCEPT !.state = Append(@, id)]
  ELSE [done EXCEPT !.rejected = @ \cup {id}]

Reduced(from, events) ==
  LET upTo[n \in 0 .. Len(events)] ==
        IF n = 0 THEN {[state |-> from, rejected |-> {}]}
        ELSE {ReduceOne(done, events[n].id) : done \in upTo[n - 1]}
  IN  CHOOSE done \in upTo[Len(events)] : TRUE

FullReduce(events) == Reduced(<<>>, TopologicalSort(events))

\* The checkpoint is of a prefix of the present order.
ResumesByCount(prev, ids) ==                                       \* mutant
  prev.appliedCount <= Len(ids)
Resumes(prev, ids) ==
  /\ prev.appliedCount <= Len(ids)
  /\ prev.prefixHash = SubSeq(ids, 1, prev.appliedCount)

ReduceWithSnapshotSilently(events, prev) ==                        \* mutant
  LET ordered == TopologicalSort(events)
      ids == IdsInOrder(ordered)
      rest == SubSeq(ordered, prev.appliedCount + 1, Len(ordered))
      resumes == Resumes(prev, ids)
      done == IF resumes THEN Reduced(prev.state, rest) ELSE Reduced(<<>>, ordered)
  IN  [snapshot |-> [state |-> done.state, appliedCount |-> Len(ordered),
                     prefixHash |-> ids],
       rejected |-> IF resumes THEN {} ELSE done.rejected]
\* reduceWithSnapshot: what it returns and what it reports as rejected.
ReduceFrom(prev, ordered) ==
  IF Resumes(prev, IdsInOrder(ordered))
  THEN Reduced(prev.state, SubSeq(ordered, prev.appliedCount + 1, Len(ordered)))
  ELSE Reduced(<<>>, ordered)
SnapshotAfter(ordered, done) ==
  [snapshot |-> [state |-> done.state, appliedCount |-> Len(ordered),
                 prefixHash |-> IdsInOrder(ordered)],
   rejected |-> done.rejected]
ReduceWithSnapshot(events, prev) ==
  CHOOSE result \in UNION {{SnapshotAfter(ordered, done) :
                              done \in {ReduceFrom(prev, ordered)}} :
                             ordered \in {TopologicalSort(events)}} : TRUE

-----------------------------------------------------------------------------
(* Relays.                                                                 *)

\* communityRelayAuthors of a state: a contribution replaces the mailbox its
\* author had, and adds none that somebody else keeps.  (That it comes from a
\* member, fits and revokes one's own is part of the verdict of Accepts.)
MailboxAuthors(s) ==
  LET upTo[n \in 0 .. Len(s)] ==
        IF n = 0 THEN [u \in Url |-> None]
        ELSE [u \in Url |->
                LET kept == IF /\ Contributes(s[n]) \in Url
                               /\ upTo[n - 1][u] = Signer(s[n])
                            THEN None ELSE upTo[n - 1][u]
                IN  IF Revokes(s[n]) = u THEN None
                    ELSE IF Contributes(s[n]) = u /\ kept = None THEN Signer(s[n])
                    ELSE kept]
  IN  upTo[Len(s)]
CommunityRelays(s) == {u \in Url : MailboxAuthors(s)[u] # None}

MergeActiveRelays(session, community, ign) ==
  IF community \ ign # {} THEN session \cup (community \ ign)
  ELSE IF session # {} THEN session
  ELSE BootstrapRelays

\* syncRelaysFromPool, before the first state a no-op.
FollowPool(s, session, ign) ==
  relays' = IF s = NoState THEN relays
            ELSE MergeActiveRelays(session, CommunityRelays(s), ign)

-----------------------------------------------------------------------------
(* Waiting: waitForConfirmedState.  The predicates of the user interface   *)
(* look for the effect of an event.                                        *)

Waiting == {"waiting"} \X Awaited
Ready(wait, s, empty) == s # NoState /\ wait[2] \in Range(s) /\ empty

\* A listener of the state or of the sync status runs.
Woken(s, empty) ==
  [w \in Waiter |-> IF waits[w] \in Waiting /\ Ready(waits[w], s, empty)
                    THEN <<"done", TRUE>> ELSE waits[w]]

WaitFor(w, id) ==
  /\ waits[w] = <<"idle">> /\ ~stopped
  /\ waits' = [waits EXCEPT ![w] =
                 IF Ready(<<"waiting", id>>, state, outboxEmpty)
                 THEN <<"done", TRUE>> ELSE <<"waiting", id>>]
  /\ UNCHANGED <<history, log, reduction, choice, relays, queue, stopped>>

\* The 15 seconds are over.
TimeOut(w) ==
  /\ waits[w] \in Waiting
  /\ waits' = [waits EXCEPT ![w] = <<"done", Ready(@, state, outboxEmpty)>>]
  /\ UNCHANGED <<history, log, reduction, choice, relays, queue, stopped>>

\* The engine queues or confirms an envelope, and writes the outbox.
OutboxMoves ==
  /\ ~stopped /\ saves < MaxSaves
  /\ outboxEmpty' = ~outboxEmpty
  /\ saves' = saves + 1
  /\ UNCHANGED <<history, log, reduction, choice, relays, waits, mute, stopped>>

\* emitStatus.
EmitStatus ==
  /\ mute' = FALSE
  /\ waits' = IF stopped THEN waits ELSE Woken(state, outboxEmpty)
  /\ UNCHANGED <<history, log, reduction, choice, relays, outboxEmpty, stopped>>

\* The write is done, and the engine says what became of the outbox.
OutboxSavedUnheard ==                                              \* mutant
  /\ saves > 0 /\ saves' = saves - 1
  /\ UNCHANGED <<history, log, reduction, choice, relays, waits, outboxEmpty, mute,
                 stopped>>
OutboxSaved == saves > 0 /\ saves' = saves - 1 /\ EmitStatus

\* The write fails: what follows it does not run.
SaveFails ==
  /\ saves > 0 /\ saves' = saves - 1
  /\ mute' = TRUE
  /\ UNCHANGED <<history, log, reduction, choice, relays, waits, outboxEmpty, stopped>>

\* A connection opened, closed or flushed, or an envelope found no room.
ConnectionMoves == UNCHANGED saves /\ EmitStatus

-----------------------------------------------------------------------------
(* Reduction.                                                              *)

\* What follows a new state, whoever computed it.
Show(s, from, rejected, session, ign) ==
  /\ state' = s
  /\ shown' = from
  /\ told' = told \cup rejected
  /\ FollowPool(s, session, ign)
  /\ waits' = IF stopped THEN waits ELSE Woken(s, outboxEmpty)

\* recompute on the main thread.
RecomputeHere(events, prev, session, ign) ==
  LET result == ReduceWithSnapshot(events, prev)
  IN  /\ snapshot' = result.snapshot
      /\ Show(result.snapshot.state, events, result.rejected, session, ign)

\* recompute, asking the worker for it if there is one, the given number of
\* times in a row.
Recompute(events, session, ign, times) ==
  IF worker
  THEN /\ seq + times <= MaxRequests
       /\ seq' = seq + times
       /\ requests' = requests \o
            [i \in 1 .. times |-> [seq |-> seq + i, events |-> events]]
       /\ UNCHANGED <<worker, answers, workerSnapshot, snapshot, lastApplied,
                      state, shown, told, relays, waits>>
  ELSE /\ RecomputeHere(events, snapshot, session, ign)
       /\ UNCHANGED <<worker, requests, answers, workerSnapshot, seq,
                      lastApplied>>

WorkerReduces ==
  LET request == Head(requests)
      result == ReduceWithSnapshot(request.events, workerSnapshot)
  IN
  /\ requests # <<>>
  /\ requests' = Tail(requests)
  /\ workerSnapshot' = result.snapshot
  /\ answers' = Append(answers, [seq |-> request.seq, events |-> request.events,
                                 state |-> result.snapshot.state,
                                 rejected |-> result.rejected])
  /\ UNCHANGED <<history, log, worker, snapshot, seq, lastApplied, state, shown,
                 told, choice, relays, waits, queue, stopped>>

WorkerAnswers ==
  LET answer == Head(answers)
  IN
  /\ answers # <<>>
  /\ answers' = Tail(answers)
  /\ IF answer.seq > lastApplied
     THEN /\ lastApplied' = answer.seq
          /\ Show(answer.state, answer.events, answer.rejected, sessionRelays,
                  ignored)
     ELSE UNCHANGED <<lastApplied, state, shown, told, relays, waits>>
  /\ UNCHANGED <<history, log, worker, requests, workerSnapshot, snapshot, seq,
                 choice, queue, stopped>>

\* onerror: the worker is terminated with all it had to say, and the main
\* thread reduces what the log holds now.
WorkerFailsHalfway ==                                              \* mutant
  /\ worker /\ worker' = FALSE /\ requests' = <<>>
  /\ RecomputeHere(log, snapshot, sessionRelays, ignored)
  /\ UNCHANGED <<history, log, answers, workerSnapshot, seq, lastApplied,
                 choice, queue, stopped>>
WorkerFailsQuietly ==                                              \* mutant
  /\ worker /\ worker' = FALSE /\ requests' = <<>> /\ answers' = <<>>
  /\ UNCHANGED <<history, log, workerSnapshot, snapshot, seq, lastApplied, state,
                 shown, told, choice, relays, waits, queue, stopped>>
WorkerFails ==
  /\ worker /\ worker' = FALSE
  /\ requests' = <<>> /\ answers' = <<>>
  /\ RecomputeHere(log, snapshot, sessionRelays, ignored)
  /\ UNCHANGED <<history, log, workerSnapshot, seq, lastApplied, choice,
                 queue, stopped>>

-----------------------------------------------------------------------------
(* What makes the node recompute.                                          *)

\* The engine loaded or merged events, remote or its own.
Learn(events) ==
  /\ ~(events \subseteq log)
  /\ log' = log \cup events
  /\ Recompute(log', sessionRelays, ignored, 1)
  /\ UNCHANGED <<history, choice, queue, stopped>>

\* start, once the engine has started, and every operation, once it published:
\* what the log holds by then, be it nothing, is reduced again.
RecomputeOnceMore ==
  /\ Recompute(log, sessionRelays, ignored, 1)
  /\ UNCHANGED <<history, log, choice, queue, stopped>>

\* importLog: the engine emits the log it reloaded, then the checkpoint of the
\* main thread is dropped and the log reduced again.
ImportLog(events) ==
  /\ ~stopped
  /\ FilterCausalClosure(events \ log, log) # {}
  /\ log' = log \cup FilterCausalClosure(events \ log, log)
  /\ IF worker THEN Recompute(log', sessionRelays, ignored, 2)
     ELSE /\ RecomputeHere(log', NoSnapshot, sessionRelays, ignored)
          /\ UNCHANGED <<worker, requests, answers, workerSnapshot, seq,
                         lastApplied>>
  /\ UNCHANGED <<history, choice, queue, stopped>>

Edit ==
  /\ ~stopped /\ edits < MaxEdits
  /\ edits' = edits + 1

\* contributeRelay, once its event is in the log.
ContributeRelayLater(url) ==                                       \* mutant
  /\ Edit /\ \E id \in Ids(log) : Contributes(id) = url
  /\ sessionRelays' = sessionRelays \cup {url}
  /\ UNCHANGED <<history, log, reduction, ignored, relays, waits, queue,
                 stopped>>
ContributeRelay(url) ==
  /\ Edit
  /\ \E id \in Ids(log) : Contributes(id) = url
  /\ sessionRelays' = sessionRelays \cup {url}
  /\ Recompute(log, sessionRelays', ignored, 1)
  /\ UNCHANGED <<history, log, ignored, queue, stopped>>

\* revokeRelay, once its event is in the log.
RevokeRelay(url) ==
  /\ Edit
  /\ \E id \in Ids(log) : Revokes(id) = url
  /\ sessionRelays' = sessionRelays \ {url}
  /\ ignored' = ignored \ {url}
  /\ Recompute(log, sessionRelays', ignored', 1)
  /\ UNCHANGED <<history, log, queue, stopped>>

\* setRelays, addRelay, removeRelay and ignoreCommunityRelay.
ChooseRelays(session, ign) ==
  /\ Edit
  /\ sessionRelays' = session
  /\ ignored' = ign
  /\ FollowPool(state, session, ign)
  /\ UNCHANGED <<history, log, reduction, waits, queue, stopped>>

SetRelays(urls) == ChooseRelays(urls, ignored)
AddRelay(url) == ChooseRelays(sessionRelays \cup {url}, ignored)
RemoveRelay(url) == ChooseRelays(sessionRelays \ {url}, ignored)
IgnoreCommunityRelay(url) == ChooseRelays(sessionRelays, ignored \cup {url})

\* stop: waiters are turned away; the engine's events are still heard.
Stop ==
  /\ ~stopped /\ stopped' = TRUE
  /\ worker' = FALSE /\ requests' = <<>> /\ answers' = <<>>
  /\ waits' = [w \in Waiter |-> IF waits[w] \in Waiting THEN <<"done", FALSE>>
                                ELSE waits[w]]
  /\ UNCHANGED <<history, log, workerSnapshot, snapshot, seq, lastApplied, state,
                 shown, told, choice, relays, queue>>

Init ==
  /\ history \in Histories
  /\ log = {}
  /\ worker \in BOOLEAN
  /\ requests = <<>> /\ answers = <<>>
  /\ workerSnapshot = NoSnapshot /\ snapshot = NoSnapshot
  /\ seq = 0 /\ lastApplied = -1
  /\ state = NoState /\ shown = {} /\ told = {}
  /\ sessionRelays = BootstrapRelays /\ ignored = {} /\ relays = BootstrapRelays
  /\ waits = [w \in Waiter |-> <<"idle">>]
  /\ outboxEmpty = TRUE /\ saves = 0 /\ mute = FALSE
  /\ stopped = FALSE /\ edits = 0

Next ==
  \/ \E events \in SUBSET history : Learn(events) \/ ImportLog(events)
  \/ RecomputeOnceMore
  \/ WorkerReduces \/ WorkerAnswers \/ WorkerFails
  \/ \E url \in Url : \/ ContributeRelay(url) \/ RevokeRelay(url)
                      \/ AddRelay(url) \/ RemoveRelay(url)
                      \/ IgnoreCommunityRelay(url)
  \/ \E urls \in SUBSET Url : SetRelays(urls)
  \/ \E w \in Waiter : TimeOut(w) \/ \E id \in Awaited : WaitFor(w, id)
  \/ OutboxMoves \/ OutboxSaved \/ SaveFails \/ ConnectionMoves
  \/ Stop

Spec == Init /\ [][Next]_vars

\* The worker's and the page's event loops run, and timers fire.
Fairness ==
  /\ WF_vars(WorkerReduces) /\ WF_vars(WorkerAnswers)
  /\ \A w \in Waiter : WF_vars(TimeOut(w))

FairSpec == Spec /\ Fairness

-----------------------------------------------------------------------------
(* Properties.                                                             *)

TypeOK ==
  /\ log \subseteq history /\ shown \subseteq log
  /\ worker \in BOOLEAN /\ stopped \in BOOLEAN /\ outboxEmpty \in BOOLEAN
  /\ saves \in 0 .. MaxSaves /\ mute \in BOOLEAN
  /\ lastApplied <= seq /\ seq \in 0 .. MaxRequests /\ edits \in 0 .. MaxEdits
  /\ sessionRelays \subseteq Url /\ ignored \subseteq Url /\ relays \subseteq Url
  /\ ~worker => requests = <<>> /\ answers = <<>>
  /\ \A w \in Waiter :
       waits[w] \in {<<"idle">>, <<"done", TRUE>>, <<"done", FALSE>>} \cup Waiting

\* The order events are applied in holds exactly the events connected to a
\* root, each after its parent, and leaves it to the total order wherever
\* ancestry does not decide (topologicalSort).
OrderIsCausal ==
  LET order == TopologicalSort(log)
  IN  /\ Range(order) = FilterCausalClosure(log, {})
      /\ Len(order) = Cardinality(Range(order))
      /\ \A j \in DOMAIN order :
           order[j].prevHash \in {None} \cup {order[i].id : i \in 1 .. j - 1}
      /\ \A j \in DOMAIN order \ {1} :
           Before(order[j - 1], order[j]) \/ order[j].prevHash = order[j - 1].id

\* What is shown is a replay from genesis of a log the node had, however often
\* reduction resumed from a checkpoint and on whichever thread
\* (reduceWithSnapshot).
ShownIsReplay == state # NoState => state = FullReduce(shown).state

\* A result never takes the place of one from a larger log (lastApplied, and
\* terminate before the fallback in onerror).
NeverGoesBack == [][shown \subseteq shown']_vars

\* Every rejection in what is shown was reported (notifyRejectedReductions):
\* resuming reports the new ones only.
RejectionsTold == state # NoState => FullReduce(shown).rejected \subseteq told

\* With no reduction pending the engine uses the relays that session, ledger
\* and the user's choices amount to (syncRelaysFromPool).
RelaysFollowLedger ==
  state # NoState /\ requests = <<>> /\ answers = <<>> /\ ~stopped
    => relays = MergeActiveRelays(sessionRelays, CommunityRelays(state), ignored)

\* Nobody waits for what is already there, though state and outbox change apart
\* and either may be the last to do so (waitForConfirmedState).  The change of the
\* outbox is told once it is written (queueOutbox, pruneOutboxForEvents): until
\* then, and if the write failed, a waiter sleeps on, to wake at the next status of
\* the engine or at its timeout.
NobodyOversleeps ==
  saves = 0 /\ ~mute =>
    \A w \in Waiter : waits[w] \in Waiting => ~Ready(waits[w], state, outboxEmpty)

\* What the node knows is shown in the end, also after the worker failed.
CatchesUp == [](log # {} /\ ~stopped => <>(shown = log \/ stopped))
=============================================================================
