------------------------------- MODULE Mirror -------------------------------
(***************************************************************************)
(* How value crosses from a community to its child Cell without anybody    *)
(* pressing a button: the mirror tasks of NodeController                   *)
(* (packages/client/src/node/controller.ts) and BridgeMirrorCoordinator    *)
(* (node/bridge-mirror.ts).                                                *)
(*                                                                         *)
(* The ledgers are those of module Pool as far as a transfer sees them:    *)
(* escrow held for the child, bridge_transfer proposals, their delivery.   *)
(* Every node here holds the bridge role on both sides, and the recipient  *)
(* is a member of the child.  Events take effect in the order they were    *)
(* signed.                                                                 *)
(***************************************************************************)
EXTENDS Integers, Sequences, FiniteSets

CONSTANTS
  Node,            \* the devices of bridges
  Controller,      \* NodeController objects
  OwnerOf,         \* the device a controller runs on
  Lagging,         \* the controllers that reduce in a worker
  Alone,           \* the nodes whose vote alone passes a proposal
  Manual,          \* the transfers members propose and approve by hand
  MaxFundings,     \* bound: points that reach the escrow, one at a time
  MaxEvents,       \* bound: events of the origin
  MaxDisturbances  \* bound: faults and restarts in a behaviour

ASSUME MirrorAssumption ==
  /\ OwnerOf \in [Controller -> Node]
  /\ Manual \subseteq Nat
  /\ MaxFundings \in Nat /\ MaxEvents \in Nat /\ MaxDisturbances \in Nat

\* A proposal is named by its sort and the amount it moves.
Proposal == ({"manual"} \X Manual) \cup ({"auto"} \X (1 .. MaxFundings))
Amount(p) == p[2]

VARIABLES
  origin,        \* the community's events, in order
  destination,   \* the child's state
  seen,          \* the events of the origin a node has
  shown,         \* the events a controller's state was reduced from
  status,        \* of a controller: new, running, stopped, dead
  task,          \* its maybeMirrorBridges, at idle unless mirrorPending
  linked,        \* whether remoteEngines has the child
  mirrored,      \* mirroredIds, here positions in origin
  bridged,       \* bridgedProposals
  flushed,       \* flushedEscrow
  saved,         \* what sessionStorage has of mirroredIds
  deliveries,    \* history: how often a controller delivered which transaction
  missed,        \* history: a new state found the task busy, and nothing newer
  threw,         \* history: controllers one of whose publications failed
  disturbances   \* faults and restarts so far

ledgers == <<origin, destination, deliveries>>
memory == <<linked, bridged, flushed>>
vars == <<ledgers, seen, shown, status, task, memory, mirrored, saved, missed,
          threw, disturbances>>

-----------------------------------------------------------------------------
(* The ledgers.                                                            *)

Passes(by) == by = "members" \/ by \in Alone

Created(s, p) ==
  [s EXCEPT !.open = @ \cup {p}, !.executed = @ \ {p}, !.completed = @ \ {p}]

Voted(s, p, by) ==
  IF p \in s.open /\ Passes(by)
  THEN [s EXCEPT !.open = @ \ {p}, !.executed = @ \cup {p}]
  ELSE s

\* A release needs an approved transfer not delivered yet, and the escrow.
Released(s, p) ==
  IF p \in s.executed \ s.completed /\ s.escrow >= Amount(p)
  THEN [s EXCEPT !.escrow = @ - Amount(p), !.completed = @ \cup {p},
                 !.moved = @ + Amount(p)]
  ELSE s

\* A credit needs an approved proposal of the child's own, not delivered yet.
Credited(s, i) ==
  IF i \in s.executed \ s.completed
  THEN [s EXCEPT !.completed = @ \cup {i}, !.moved = @ + Amount(origin[i].p)]
  ELSE s

AfterEvent(s, e) ==
  CASE e.type = "fund" -> [s EXCEPT !.escrow = @ + 1]
    [] e.type = "create" -> Created(s, e.p)
    [] e.type = "vote" -> Voted(s, e.p, e.by)
    [] e.type = "bridge" -> Released(s, e.p)

NoEvents ==
  [escrow |-> 0, open |-> {}, executed |-> {}, completed |-> {}, moved |-> 0]

\* The state the origin's events at these positions amount to.
Origin(positions) ==
  LET upTo[n \in 0 .. Len(origin)] ==
        IF n = 0 THEN {NoEvents}
        ELSE IF n \in positions
             THEN {AfterEvent(s, origin[n]) : s \in upTo[n - 1]}
             ELSE upTo[n - 1]
  IN  CHOOSE s \in upTo[Len(origin)] : TRUE

Event(type, p, by) == [type |-> type, p |-> p, by |-> by]
Position == DOMAIN origin

-----------------------------------------------------------------------------
(* Tasks.                                                                  *)

Idle == [at |-> "idle", pool |-> {}, count |-> 0, todo |-> {}, done |-> {}]

\* maybeMirrorBridges, up to its first await: pool and log as they are.
Begun(pool, log) ==
  [Idle EXCEPT !.at = "engines", !.pool = pool, !.count = Cardinality(log)]

Runs(c) == status[c] \in {"running", "stopped"}
Prompt(c) == Runs(c) /\ (c \notin Lagging \/ status[c] = "stopped")

\* A controller learns of a new state: a task begins unless one is pending.
BegunUnlessPending(tasks, c, log) ==
  IF tasks[c].at = "idle" THEN Begun(log, log) ELSE tasks[c]

\* A node's log grew; controllers without a worker reduce it at once.
Grows(n, log, tasks) ==
  LET hear == {c \in Controller : OwnerOf[c] = n /\ Prompt(c)}
  IN  /\ seen' = [seen EXCEPT ![n] = log]
      /\ shown' = [c \in Controller |-> IF c \in hear THEN log ELSE shown[c]]
      /\ task' = [c \in Controller |-> IF c \in hear
                                       THEN BegunUnlessPending(tasks, c, log)
                                       ELSE tasks[c]]

\* A beginning task of a bridge that knows of nothing mirrored loads what was
\* saved.
Loaded(c) == IF mirrored[c] = {} THEN saved[OwnerOf[c]] ELSE mirrored[c]
Loads ==
  mirrored' = [c \in Controller |->
                 IF task[c].at = "idle" /\ task'[c].at # "idle"
                 THEN Loaded(c) ELSE mirrored[c]]

\* What is left of a task that ends: nothing, or another round if the log grew.
EndedForGood(c) == Idle                                            \* mutant
Ended(c) ==
  IF Cardinality(seen[OwnerOf[c]]) > task[c].count
  THEN Begun(shown[c], seen[OwnerOf[c]]) ELSE Idle

Disturb ==
  /\ disturbances < MaxDisturbances
  /\ disturbances' = disturbances + 1

\* A publication succeeds and the task goes on, or the event is stored but
\* the outbox is full, and the exception ends the task.
Publishing(c, next) ==
  \/ /\ task' = [task EXCEPT ![c] = next]
     /\ UNCHANGED <<threw, disturbances>>
  \/ /\ task' = [task EXCEPT ![c] = Ended(c)]
     /\ threw' = threw \cup {c}
     /\ Disturb

-----------------------------------------------------------------------------
(* mirrorOutboundEvents.                                                   *)

\* syncLinkedNamespaces is done: the child's engine runs.  The mirror then
\* goes through the bridge's own transactions, accepted or not.
EnginesReady(c) ==
  LET own == {i \in seen[OwnerOf[c]] :
                origin[i].type = "bridge" /\ origin[i].by = OwnerOf[c]}
  IN
  /\ task[c].at = "engines"
  /\ linked' = [linked EXCEPT ![c] = TRUE]
  /\ task' = [task EXCEPT ![c].at = "mirror", ![c].todo = own \ mirrored[c]]
  /\ UNCHANGED <<ledgers, seen, shown, status, bridged, flushed, mirrored,
                 saved, missed, threw, disturbances>>

Current(c) == CHOOSE i \in task[c].todo : \A j \in task[c].todo : i <= j
At(c, step) == task[c].at = step /\ Runs(c)

MirrorCreateMarked(c) ==                                           \* mutant
  /\ At(c, "mirror") /\ linked[c] /\ task[c].todo # {}
  /\ destination' = Created(destination, Current(c))
  /\ Publishing(c, [task[c] EXCEPT !.at = "vote"])
  /\ mirrored' = [mirrored EXCEPT ![c] = @ \cup {Current(c)}]
  /\ UNCHANGED <<origin, deliveries, seen, shown, status, memory, saved, missed>>
\* The proposal to receive, replacing what stood under its id.
MirrorCreate(c) ==
  /\ At(c, "mirror") /\ linked[c] /\ task[c].todo # {}
  /\ destination' = Created(destination, Current(c))
  /\ Publishing(c, [task[c] EXCEPT !.at = "vote"])
  /\ UNCHANGED <<origin, deliveries, seen, shown, status, memory, mirrored, saved, missed>>

MirrorVote(c) ==
  /\ At(c, "vote")
  /\ destination' = Voted(destination, Current(c), OwnerOf[c])
  /\ Publishing(c, [task[c] EXCEPT !.at = "deliver"])
  /\ UNCHANGED <<origin, deliveries, seen, shown, status, memory, mirrored, saved, missed>>

MirrorDeliverUnmarked(c) ==                                        \* mutant
  /\ At(c, "deliver")
  /\ destination' = Credited(destination, Current(c))
  /\ deliveries' = [deliveries EXCEPT ![c][Current(c)] = @ + 1]
  /\ Publishing(c, [task[c] EXCEPT !.at = "mirror", !.todo = @ \ {Current(c)},
                                   !.done = @ \cup {Current(c)}])
  /\ UNCHANGED <<origin, seen, shown, status, memory, mirrored, saved, missed>>
\* Delivery, and only then the transaction counts as mirrored.
MirrorDeliver(c) ==
  LET next == [task[c] EXCEPT !.at = "mirror", !.todo = @ \ {Current(c)},
                              !.done = @ \cup {Current(c)}]
  IN
  /\ At(c, "deliver")
  /\ destination' = Credited(destination, Current(c))
  /\ deliveries' = [deliveries EXCEPT ![c][Current(c)] = @ + 1]
  /\ Publishing(c, next)
  /\ mirrored' = IF task'[c] = next
                 THEN [mirrored EXCEPT ![c] = @ \cup {Current(c)}] ELSE mirrored
  /\ UNCHANGED <<origin, seen, shown, status, memory, saved, missed>>

\* The rest is skipped when stop took the engine; what was mirrored is saved.
MirrorDone(c) ==
  /\ At(c, "mirror") /\ (task[c].todo = {} \/ ~linked[c])
  /\ saved' = IF task[c].done = {} THEN saved
              ELSE [saved EXCEPT ![OwnerOf[c]] = mirrored[c]]
  /\ task' = [task EXCEPT ![c].at = "flush"]
  /\ UNCHANGED <<ledgers, seen, shown, status, memory, mirrored, missed, threw,
                 disturbances>>

-----------------------------------------------------------------------------
(* Transactions of one's own, by the state the task began with.            *)

\* sync.publish: the event is in the node's log, which wakes everybody there.
AtOrigin(c, e, next) ==
  LET log == seen[OwnerOf[c]] \cup {Len(origin) + 1}
      ended == IF Cardinality(log) > task[c].count
               THEN Begun(IF Prompt(c) THEN log ELSE shown[c], log) ELSE Idle
  IN
  /\ Len(origin) < MaxEvents
  /\ origin' = Append(origin, e)
  /\ \/ /\ Grows(OwnerOf[c], log, [task EXCEPT ![c] = next])
        /\ UNCHANGED <<threw, disturbances>>
     \/ /\ Grows(OwnerOf[c], log, [task EXCEPT ![c] = ended])
        /\ threw' = threw \cup {c}
        /\ Disturb
  /\ Loads
  /\ UNCHANGED <<destination, deliveries, status, linked, saved, missed>>

FlushId(c) == <<"auto", Origin(task[c].pool).escrow>>

\* maybeAutoFlushChildEscrow: whether there is something to do, and for whom.
FlushDue(c) ==
  /\ At(c, "flush")
  /\ Amount(FlushId(c)) > 0
  /\ flushed[c] # Amount(FlushId(c))

Known(s) == s.open \cup s.executed
Approved(s) == s.executed \ s.completed

FlushCreate(c) ==
  /\ FlushDue(c)
  /\ FlushId(c) \notin Known(Origin(task[c].pool))
  /\ AtOrigin(c, Event("create", FlushId(c), OwnerOf[c]),
              [task[c] EXCEPT !.at = "flushVote"])
  /\ UNCHANGED <<bridged, flushed>>

FlushVote(c) ==
  /\ At(c, "flushVote")
  /\ AtOrigin(c, Event("vote", FlushId(c), OwnerOf[c]),
              [task[c] EXCEPT !.at = "execute"])
  /\ UNCHANGED <<bridged, flushed>>

FlushDeliver(c) ==
  /\ FlushDue(c)
  /\ FlushId(c) \in Approved(Origin(task[c].pool))
  /\ flushed' = [flushed EXCEPT ![c] = Amount(FlushId(c))]
  /\ AtOrigin(c, Event("bridge", FlushId(c), OwnerOf[c]),
              [task[c] EXCEPT !.at = "execute"])
  /\ UNCHANGED bridged

FlushNothing(c) ==
  /\ At(c, "flush")
  /\ ~(/\ FlushDue(c)
       /\ \/ FlushId(c) \notin Known(Origin(task[c].pool))
          \/ FlushId(c) \in Approved(Origin(task[c].pool)))
  /\ task' = [task EXCEPT ![c].at = "execute"]
  /\ UNCHANGED <<ledgers, seen, shown, status, memory, mirrored, saved, missed,
                 threw, disturbances>>

\* maybeExecuteApprovedBridges: every approved transfer, a flush or not.
ToExecute(c) == Approved(Origin(task[c].pool)) \ bridged[c]

Execute(c) ==
  /\ At(c, "execute")
  /\ \E p \in ToExecute(c) :
       /\ bridged' = [bridged EXCEPT ![c] = @ \cup {p}]
       /\ AtOrigin(c, Event("bridge", p, OwnerOf[c]), task[c])
  /\ UNCHANGED flushed

\* finally: mirrorPending is released.
Finish(c) ==
  /\ At(c, "execute") /\ ToExecute(c) = {}
  /\ task' = [task EXCEPT ![c] = Ended(c)]
  /\ mirrored' = IF task'[c] = Idle THEN mirrored
                 ELSE [mirrored EXCEPT ![c] = Loaded(c)]
  /\ UNCHANGED <<ledgers, seen, shown, status, memory, saved, missed, threw,
                 disturbances>>

-----------------------------------------------------------------------------
(* The life of controllers and nodes.                                      *)

Start(c) ==
  /\ status[c] = "new"
  /\ \A d \in Controller : OwnerOf[d] = OwnerOf[c] => status[d] # "running"
  /\ status' = [status EXCEPT ![c] = "running"]
  /\ IF c \in Lagging THEN UNCHANGED <<shown, task>>
     ELSE /\ shown' = [shown EXCEPT ![c] = seen[OwnerOf[c]]]
          /\ task' = [task EXCEPT ![c] = Begun(seen[OwnerOf[c]], seen[OwnerOf[c]])]
  /\ Loads
  /\ UNCHANGED <<ledgers, seen, memory, saved, missed, threw, disturbances>>

\* The worker answers the last request.
Answer(c) ==
  LET log == seen[OwnerOf[c]]
  IN
  /\ status[c] = "running" /\ c \in Lagging /\ shown[c] # log
  /\ shown' = [shown EXCEPT ![c] = log]
  /\ task' = [task EXCEPT ![c] = BegunUnlessPending(task, c, log)]
  /\ Loads
  /\ missed' = [missed EXCEPT ![c] =
                  task[c].at # "idle" /\ task[c].count = Cardinality(log)]
  /\ UNCHANGED <<ledgers, seen, status, memory, saved, threw, disturbances>>

\* stop: a task under way goes on, and the engine still reports new events.
Stop(c) ==
  /\ status[c] = "running" /\ Disturb
  /\ status' = [status EXCEPT ![c] = "stopped"]
  /\ linked' = [linked EXCEPT ![c] = FALSE]
  /\ saved' = [saved EXCEPT ![OwnerOf[c]] = mirrored[c]]
  /\ UNCHANGED <<ledgers, seen, shown, task, bridged, flushed, mirrored, missed,
                 threw>>

\* The page is reloaded, which keeps sessionStorage, or the tab is closed,
\* which does not.
Leave(n) ==
  /\ \E c \in Controller : OwnerOf[c] = n /\ Runs(c)
  /\ Disturb
  /\ status' = [c \in Controller |->
                  IF OwnerOf[c] = n /\ Runs(c) THEN "dead" ELSE status[c]]
  /\ task' = [c \in Controller |-> IF OwnerOf[c] = n THEN Idle ELSE task[c]]
  /\ saved' \in {saved, [saved EXCEPT ![n] = {}]}
  /\ UNCHANGED <<ledgers, seen, shown, memory, mirrored, missed, threw>>

-----------------------------------------------------------------------------
(* Everybody else.                                                         *)

\* Events of the origin reach a node one after the other.
Hear(n) ==
  LET news == Position \ seen[n]
  IN
  /\ news # {}
  /\ \E i \in news : /\ \A j \in news : i <= j
                     /\ Grows(n, seen[n] \cup {i}, task)
  /\ Loads
  /\ UNCHANGED <<ledgers, status, memory, saved, missed, threw, disturbances>>

Others == <<deliveries, seen, shown, status, task, memory, mirrored, saved, missed, threw,
            disturbances>>

\* A flush or an expulsion puts a point into the child's escrow.
Fund ==
  /\ Len(origin) < MaxEvents
  /\ Cardinality({i \in Position : origin[i].type = "fund"}) < MaxFundings
  /\ origin' = Append(origin, Event("fund", <<"auto", 1>>, "members"))
  /\ UNCHANGED <<destination, Others>>

\* Members propose and approve a transfer.
Propose(p) ==
  /\ Len(origin) + 2 <= MaxEvents
  /\ p[1] = "manual" /\ \A i \in Position : origin[i].p # p
  /\ origin' = origin \o <<Event("create", p, "members"),
                           Event("vote", p, "members")>>
  /\ UNCHANGED <<destination, Others>>

OriginVote(p) ==
  /\ Len(origin) < MaxEvents
  /\ p \in Origin(Position).open
  /\ origin' = Append(origin, Event("vote", p, "members"))
  /\ UNCHANGED <<destination, Others>>

DestinationVote(i) ==
  /\ i \in destination.open
  /\ destination' = Voted(destination, i, "members")
  /\ UNCHANGED <<origin, Others>>

-----------------------------------------------------------------------------
Init ==
  /\ origin = <<>> /\ destination = NoEvents
  /\ deliveries = [c \in Controller |-> [i \in 1 .. MaxEvents |-> 0]]
  /\ seen = [n \in Node |-> {}]
  /\ shown = [c \in Controller |-> {}]
  /\ status = [c \in Controller |-> "new"]
  /\ task = [c \in Controller |-> Idle]
  /\ linked = [c \in Controller |-> FALSE]
  /\ mirrored = [c \in Controller |-> {}]
  /\ bridged = [c \in Controller |-> {}]
  /\ flushed = [c \in Controller |-> 0]
  /\ saved = [n \in Node |-> {}]
  /\ missed = [c \in Controller |-> FALSE]
  /\ threw = {} /\ disturbances = 0

Step(c) ==
  \/ EnginesReady(c)
  \/ MirrorCreate(c) \/ MirrorVote(c) \/ MirrorDeliver(c) \/ MirrorDone(c)
  \/ FlushCreate(c) \/ FlushVote(c) \/ FlushDeliver(c) \/ FlushNothing(c)
  \/ Execute(c) \/ Finish(c)

Next ==
  \/ \E c \in Controller : Start(c) \/ Step(c) \/ Answer(c) \/ Stop(c)
  \/ \E n \in Node : Hear(n) \/ Leave(n)
  \/ Fund
  \/ \E p \in Proposal : Propose(p) \/ OriginVote(p)
  \/ \E i \in Position : DestinationVote(i)

Spec == Init /\ [][Next]_vars

\* What was awaited returns, workers answer, and events get around.
Fairness ==
  /\ \A c \in Controller : WF_vars(Step(c)) /\ WF_vars(Answer(c))
  /\ \A n \in Node : WF_vars(Hear(n))

FairSpec == Spec /\ Fairness

-----------------------------------------------------------------------------
(* Properties.                                                             *)

IsDelivered(i) == \E c \in Controller : deliveries[c][i] > 0

\* A controller mirrors a transaction once, however often its tasks run
\* (mirrorPending and mirroredIds), unless a publication failed.
OncePerController ==
  \A i \in Position : \A c \in Controller \ threw :
    deliveries[c][i] <= 1

\* What counts as mirrored has been delivered: a crash repeats, it never skips
\* (mirroredIds.add after the third publication, saved after that).
MarkedIsDelivered ==
  \A i \in UNION ({mirrored[c] : c \in Controller} \cup {saved[n] : n \in Node}) :
    IsDelivered(i)

\* What an undisturbed controller sees approved it carries out, and what its
\* node carried out it mirrors (maybeMirrorBridges runs again when the log grew
\* meanwhile), unless its worker's last answer came while a task was pending.
Undisturbed(c) ==
  status[c] = "running" /\ c \notin threw /\ ~missed[c] /\ Len(origin) < MaxEvents

Unfinished(c) ==
  \/ \E i \in seen[OwnerOf[c]] :
       /\ origin[i].type = "bridge" /\ origin[i].by = OwnerOf[c]
       /\ ~IsDelivered(i)
  \/ Approved(Origin(seen[OwnerOf[c]])) \ bridged[c] # {}

CarriedThrough ==
  \A c \in Controller :
    [](Undisturbed(c) /\ Unfinished(c) => <>(~Undisturbed(c) \/ ~Unfinished(c)))

\* No more is credited at the destination than was released at the origin
\* (docs/THREAT_MODEL.md: mirroring is "still not a free mint").
NoFreeMint == destination.moved <= Origin(Position).moved
=============================================================================
