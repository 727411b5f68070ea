-------------------------------- MODULE Sync --------------------------------
(***************************************************************************)
(* How devices exchange events: the sync engine                            *)
(* (packages/client/src/sync/engine.ts) with its log and outbox on disk    *)
(* (storage/event-log.ts, storage/outbox.ts), and the relays between       *)
(* (packages/relay/src/server.ts), for one namespace.                      *)
(*                                                                         *)
(* A device may run several engine objects, one after the other or at once *)
(* (a federation reader and a bridge mirror of the same namespace), and    *)
(* stopping one does not dispose of its sockets.  An engine has one        *)
(* connection object per relay, named <<engine, relay>>.                   *)
(***************************************************************************)
EXTENDS Dag

CONSTANTS
  Client,           \* devices, each with one key and one disk
  Engine,           \* SyncEngine objects
  Relay,            \* relay servers
  Id,               \* event hashes
  OwnerOf,          \* the device an engine runs on
  Bootstrap,        \* the relays an engine is created with
  RelaySets,        \* the sets of relays a user may switch to
  MAX_OUTBOX,       \* envelopes the outbox holds
  MAX_BUFFER,       \* events a relay holds
  MAX_CONNECTIONS,  \* sockets a relay serves
  RATE_LIMIT,       \* messages of a socket a relay takes per window
  MaxDisturbances   \* bound: faults and reconfigurations in a behaviour

Conn == Engine \X Relay
Event == [id : Id, prevHash : Id \cup {None}, lamport : Nat, author : Client]

ASSUME SyncAssumption ==
  /\ Id \subseteq Nat \ {None}
  /\ OwnerOf \in [Engine -> Client]
  /\ Bootstrap \subseteq Relay
  /\ RelaySets \subseteq SUBSET Relay
  /\ {MAX_OUTBOX, MAX_BUFFER, MAX_CONNECTIONS, RATE_LIMIT, MaxDisturbances}
       \subseteq Nat

VARIABLES
  published,    \* history: every event ever signed
  storage,      \* the event log of a device, in IndexedDB
  saved,        \* the outbox of a device, in IndexedDB
  status,       \* of an engine: new, started, stopped
  local,        \* localEvents of an engine
  outbox,       \* envelopes an engine has yet to see confirmed, in order
  publishing,   \* events an engine has stored and not announced yet
  ingesting,    \* the batches of fresh events an engine is storing
  listed,       \* whether a connection is in the engine's map
  ws,           \* its socket: null, connecting, open, closing
  timer,        \* whether a reconnection is scheduled
  up,           \* messages under way to the relay
  down,         \* messages under way to the engine
  buffer,       \* deliveryBuffer of a relay, oldest first
  clients,      \* the connections a relay serves
  rate,         \* messages counted in a connection's present window
  cut,          \* history: whether the relay dropped a message of the present socket
  carried,      \* history: every event a relay ever buffered
  disturbances  \* faults and reconfigurations so far

disk == <<storage, saved>>
memory == <<status, local, outbox, publishing, ingesting>>
sockets == <<listed, ws, timer>>
wires == <<up, down>>
relays == <<buffer, clients, rate, cut, carried>>
vars == <<published, disk, memory, sockets, wires, relays, disturbances>>

\* What engines send, and what relays send.
Request(events) ==
  [type : {"announce"}, event : events] \cup
  [type : {"request_sync"}, since : Id \cup {None}]
Answer(events) ==
  [type : {"announce"}, event : events] \cup
  [type : {"sync_batch"}, events : SUBSET events]

Announce(e) == [type |-> "announce", event |-> e]
RequestSync(hash) == [type |-> "request_sync", since |-> hash]
SyncBatch(events) == [type |-> "sync_batch", events |-> events]

\* The places that hold events hold events of this set.
Holding(events) ==
  /\ storage \in [Client -> SUBSET events]
  /\ saved \in [Client -> Seq(events)]
  /\ local \in [Engine -> SUBSET events]
  /\ outbox \in [Engine -> Seq(events)]
  /\ publishing \in [Engine -> SUBSET events]
  /\ ingesting \in [Engine -> SUBSET SUBSET events]
  /\ up \in [Conn -> Seq(Request(events))]
  /\ down \in [Conn -> Seq(Answer(events))]
  /\ buffer \in [Relay -> Seq(events)]
  /\ carried \subseteq events

TypeOK ==
  /\ published \subseteq Event
  /\ Holding(Event)
  /\ status \in [Engine -> {"new", "started", "stopped"}]
  /\ listed \in [Conn -> BOOLEAN]
  /\ ws \in [Conn -> {"null", "connecting", "open", "closing"}]
  /\ timer \in [Conn -> BOOLEAN]
  /\ clients \in [Relay -> SUBSET Conn]
  /\ rate \in [Conn -> Nat]
  /\ cut \in [Conn -> BOOLEAN]
  /\ disturbances \in Nat

Init ==
  /\ published = {} /\ carried = {} /\ disturbances = 0
  /\ storage = [c \in Client |-> {}]
  /\ saved = [c \in Client |-> <<>>]
  /\ status = [e \in Engine |-> "new"]
  /\ local = [e \in Engine |-> {}]
  /\ outbox = [e \in Engine |-> <<>>]
  /\ publishing = [e \in Engine |-> {}]
  /\ ingesting = [e \in Engine |-> {}]
  /\ listed = [k \in Conn |-> FALSE]
  /\ ws = [k \in Conn |-> "null"]
  /\ timer = [k \in Conn |-> FALSE]
  /\ up = [k \in Conn |-> <<>>]
  /\ down = [k \in Conn |-> <<>>]
  /\ buffer = [r \in Relay |-> <<>>]
  /\ clients = [r \in Relay |-> {}]
  /\ rate = [k \in Conn |-> 0]
  /\ cut = [k \in Conn |-> FALSE]

Disturb ==
  /\ disturbances < MaxDisturbances
  /\ disturbances' = disturbances + 1

-----------------------------------------------------------------------------
(* Sockets.                                                                *)

Linked(k) == k \in clients[k[2]]
Free(k) == ~listed[k] /\ ws[k] = "null" /\ ~timer[k]
ConnsOf(e) == {k \in Conn : k[1] = e}

\* What broadcast reaches: the open sockets in the engine's map.
OpenConns(e) == {k \in ConnsOf(e) : listed[k] /\ ws[k] = "open"}

\* Messages written to a socket whose other end is gone are lost.
Sent(msgs) == [k \in Conn |-> IF Linked(k) THEN up[k] \o msgs[k] ELSE up[k]]

ClosedAtOnce(state) == IF state = "open" THEN "closed" ELSE state   \* mutant
Closed(state) == IF state \in {"connecting", "open"} THEN "closing" ELSE state
Connected(state) == IF state \in {"null", "closing"} THEN "connecting" ELSE state

\* The cursor of requestSyncOn: the last event in local order.
Cursor(e) == LastId(local[e])

Announcements(envelopes) == [i \in DOMAIN envelopes |-> Announce(envelopes[i])]

\* flushOutbox: everything queued, then a request for the whole buffer, whose
\* answer will confirm it.  The outbox stays as it is.
FlushSilently(e) == Announcements(outbox[e])                       \* mutant
Flush(e) ==
  IF outbox[e] = <<>> THEN <<>>
  ELSE Append(Announcements(outbox[e]), RequestSync(None))

\* onopen: a request for what follows the cursor, and a flush to every open
\* socket of the engine.
OnOpen(k, served) ==
  LET e == k[1]
      targets == OpenConns(e) \cup (IF listed[k] THEN {k} ELSE {})
      flush(j) == IF j \in targets THEN Flush(e) ELSE <<>>
  IN
  /\ ws[k] = "connecting"
  /\ ws' = [ws EXCEPT ![k] = "open"]
  /\ up' = [j \in Conn |->
              IF j = k
              THEN IF served THEN <<RequestSync(Cursor(e))>> \o flush(j) ELSE <<>>
              ELSE IF Linked(j) THEN up[j] \o flush(j) ELSE up[j]]
  /\ down' = [down EXCEPT ![k] = <<>>]

HasRoom(k) == Cardinality(clients[k[2]] \ {k}) < MAX_CONNECTIONS

\* The relay takes the connection.
Accept(k) ==
  /\ HasRoom(k)
  /\ OnOpen(k, TRUE)
  /\ clients' = [clients EXCEPT ![k[2]] = @ \cup {k}]
  /\ rate' = [rate EXCEPT ![k] = 0]
  /\ cut' = [cut EXCEPT ![k] = FALSE]
  /\ UNCHANGED <<published, disk, memory, listed, timer, buffer, carried,
                 disturbances>>

\* A relay that is full, be it with other communities, completes the handshake
\* and closes the socket: onopen runs, and writes to a socket nobody reads.
TurnAway(k) ==
  /\ \/ ~HasRoom(k) /\ UNCHANGED disturbances
     \/ Disturb
  /\ OnOpen(k, FALSE)
  /\ UNCHANGED <<published, disk, memory, listed, timer, relays>>

\* The handshake fails.
ConnectFails(k) ==
  /\ ws[k] = "connecting"
  /\ Disturb
  /\ ws' = [ws EXCEPT ![k] = "null"]
  /\ timer' = [timer EXCEPT ![k] = TRUE]
  /\ UNCHANGED <<published, disk, memory, listed, wires, relays>>

\* The path breaks: the relay drops the socket, the engine has yet to notice.
LoseLink(k) ==
  /\ Linked(k) /\ ws[k] = "open"
  /\ Disturb
  /\ clients' = [clients EXCEPT ![k[2]] = @ \ {k}]
  /\ up' = [up EXCEPT ![k] = <<>>]
  /\ down' = [down EXCEPT ![k] = <<>>]
  /\ UNCHANGED <<published, disk, memory, sockets, buffer, rate, cut, carried>>

\* onclose: of a broken socket, or of one closed on purpose.  Either way a
\* reconnection is scheduled.
OnClose(k) ==
  /\ \/ (ws[k] = "open" /\ ~Linked(k))
     \/ (ws[k] = "closing" /\ up[k] = <<>>)
  /\ ws' = [ws EXCEPT ![k] = "null"]
  /\ timer' = [timer EXCEPT ![k] = TRUE]
  /\ clients' = [clients EXCEPT ![k[2]] = @ \ {k}]
  /\ down' = [down EXCEPT ![k] = <<>>]
  /\ UNCHANGED <<published, disk, memory, listed, up, buffer, rate, cut, carried,
                 disturbances>>

\* The backoff timer fires.
Reconnect(k) ==
  /\ timer[k]
  /\ timer' = [timer EXCEPT ![k] = FALSE]
  /\ ws' = [ws EXCEPT ![k] = Connected(@)]
  /\ UNCHANGED <<published, disk, memory, listed, wires, relays, disturbances>>

-----------------------------------------------------------------------------
(* The life of an engine.                                                  *)

Start(e) ==
  /\ status[e] = "new"
  /\ status' = [status EXCEPT ![e] = "started"]
  /\ local' = [local EXCEPT ![e] = storage[OwnerOf[e]]]
  /\ outbox' = [outbox EXCEPT ![e] = saved[OwnerOf[e]]]
  /\ listed' = [k \in Conn |-> listed[k] \/ (k[1] = e /\ k[2] \in Bootstrap)]
  /\ ws' = [k \in Conn |-> IF k[1] = e /\ k[2] \in Bootstrap
                           THEN "connecting" ELSE ws[k]]
  /\ UNCHANGED <<published, disk, publishing, ingesting, timer, wires, relays,
                 disturbances>>

\* addRelay, removeRelay and their combination.  The socket of a removed
\* relay is closed; its handlers stay.
SetRelays(e, urls) ==
  LET dropped == {k \in ConnsOf(e) : listed[k] /\ k[2] \notin urls}
      added == {k \in ConnsOf(e) : ~listed[k] /\ k[2] \in urls}
  IN
  /\ status[e] = "started"
  /\ dropped \cup added # {}
  /\ \A k \in added : Free(k)
  /\ Disturb
  /\ listed' = [k \in Conn |-> (listed[k] \/ k \in added) /\ k \notin dropped]
  /\ timer' = [k \in Conn |-> timer[k] /\ k \notin dropped]
  /\ ws' = [k \in Conn |-> IF k \in dropped THEN Closed(ws[k])
                           ELSE IF k \in added THEN "connecting" ELSE ws[k]]
  /\ UNCHANGED <<published, disk, memory, wires, relays>>

Disconnect(e) ==
  LET mine == {k \in ConnsOf(e) : listed[k]}
  IN
  /\ status[e] = "started"
  /\ Disturb
  /\ status' = [status EXCEPT ![e] = "stopped"]
  /\ timer' = [k \in Conn |-> timer[k] /\ k \notin mine]
  /\ ws' = [k \in Conn |-> IF k \in mine THEN Closed(ws[k]) ELSE ws[k]]
  /\ UNCHANGED <<published, disk, local, outbox, publishing, ingesting,
                 listed, wires, relays>>

\* The tab is closed or reloaded, or the browser dies: what is on disk stays.
CloseTab(c) ==
  LET mine(k) == OwnerOf[k[1]] = c
  IN
  /\ \E e \in Engine : OwnerOf[e] = c /\ status[e] # "new"
  /\ Disturb
  /\ status' = [e \in Engine |-> IF OwnerOf[e] = c THEN "new" ELSE status[e]]
  /\ local' = [e \in Engine |-> IF OwnerOf[e] = c THEN {} ELSE local[e]]
  /\ outbox' = [e \in Engine |-> IF OwnerOf[e] = c THEN <<>> ELSE outbox[e]]
  /\ publishing' = [e \in Engine |->
                      IF OwnerOf[e] = c THEN {} ELSE publishing[e]]
  /\ ingesting' = [e \in Engine |->
                      IF OwnerOf[e] = c THEN {} ELSE ingesting[e]]
  /\ listed' = [k \in Conn |-> listed[k] /\ ~mine(k)]
  /\ ws' = [k \in Conn |-> IF mine(k) THEN "null" ELSE ws[k]]
  /\ timer' = [k \in Conn |-> timer[k] /\ ~mine(k)]
  /\ up' = [k \in Conn |-> IF mine(k) THEN <<>> ELSE up[k]]
  /\ down' = [k \in Conn |-> IF mine(k) THEN <<>> ELSE down[k]]
  /\ clients' = [r \in Relay |-> {k \in clients[r] : ~mine(k)}]
  /\ UNCHANGED <<published, disk, buffer, rate, cut, carried>>

-----------------------------------------------------------------------------
(* Publishing and importing.                                               *)

\* A clock of one's own.
SignedByOwnClock(e, id) ==                                         \* mutant
  [id |-> id, prevHash |-> Cursor(e),
   lamport |-> MaxLamport({o \in local[e] : o.author = OwnerOf[e]}) + 1,
   author |-> OwnerOf[e]]
\* The event an engine signs: one step above the last event in its memory.
Signed(e, id) ==
  [id |-> id, prevHash |-> Cursor(e), lamport |-> MaxLamport(local[e]) + 1,
   author |-> OwnerOf[e]]

\* publish, up to the point where the event is on disk.
Publish(e, id) ==
  LET event == Signed(e, id)
  IN
  /\ status[e] = "started"
  /\ id \notin Ids(published)
  /\ published' = published \cup {event}
  /\ storage' = [storage EXCEPT ![OwnerOf[e]] = @ \cup {event}]
  /\ publishing' = [publishing EXCEPT ![e] = @ \cup {event}]
  /\ UNCHANGED <<saved, status, local, outbox, ingesting, sockets, wires,
                 relays, disturbances>>

\* The rest of it: to every open socket, or else into the outbox, which
\* takes no more than MAX_OUTBOX (publish then throws).
Announced(e, event) ==
  /\ publishing' = [publishing EXCEPT ![e] = @ \ {event}]
  /\ local' = [local EXCEPT ![e] = @ \cup {event}]
  /\ \/ /\ OpenConns(e) # {}
        /\ up' = Sent([k \in Conn |-> IF k \in OpenConns(e)
                                      THEN <<Announce(event)>> ELSE <<>>])
        /\ UNCHANGED <<outbox, saved>>
     \/ /\ OpenConns(e) = {}
        /\ Len(outbox[e]) < MAX_OUTBOX
        /\ outbox' = [outbox EXCEPT ![e] = Append(@, event)]
        /\ saved' = [saved EXCEPT ![OwnerOf[e]] = Append(outbox[e], event)]
        /\ UNCHANGED up
     \/ /\ OpenConns(e) = {}
        /\ Len(outbox[e]) >= MAX_OUTBOX
        /\ UNCHANGED <<outbox, saved, up>>
  /\ UNCHANGED <<published, storage, status, ingesting, sockets, down, relays,
                 disturbances>>

FinishPublish(e) == \E event \in publishing[e] : Announced(e, event)

\* importEventLog, then reloadFromStorage.
ImportLog(e, entries) ==
  LET c == OwnerOf[e]
      accepted == FilterCausalClosure(entries \ storage[c], storage[c])
  IN
  /\ status[e] = "started"
  /\ accepted # {}
  /\ Disturb
  /\ storage' = [storage EXCEPT ![c] = @ \cup accepted]
  /\ local' = [local EXCEPT ![e] = storage'[c]]
  /\ UNCHANGED <<published, saved, status, outbox, publishing, ingesting,
                 sockets, wires, relays>>

-----------------------------------------------------------------------------
(* Receiving.                                                              *)

EventsOf(msg) == IF msg.type = "announce" THEN {msg.event} ELSE msg.events

UnconfirmedByAnyBatch(envelopes, events) == <<>>                   \* mutant
\* What remains of the outbox once these events were seen coming back.
Unconfirmed(envelopes, events) ==
  LET kept[i \in 0 .. Len(envelopes)] ==
        IF i = 0 THEN <<>>
        ELSE IF envelopes[i].id \in Ids(events) THEN kept[i - 1]
        ELSE Append(kept[i - 1], envelopes[i])
  IN  kept[Len(envelopes)]

\* What of the events the engine does not know yet.
Fresh(e, events) == {event \in events : event.id \notin Ids(local[e])}

\* onmessage: confirmed envelopes leave the outbox, in memory and on disk,
\* and fresh events are on their way to the log.
OnMessage(k) ==
  LET e == k[1]
      events == EventsOf(Head(down[k]))
      rest == Unconfirmed(outbox[e], events)
  IN
  /\ ws[k] = "open" /\ down[k] # <<>>
  /\ down' = [down EXCEPT ![k] = Tail(@)]
  /\ outbox' = [outbox EXCEPT ![e] = rest]
  /\ saved' = IF rest = outbox[e] THEN saved
              ELSE [saved EXCEPT ![OwnerOf[e]] = rest]
  /\ ingesting' = [ingesting EXCEPT ![e] =
                     @ \cup ({Fresh(e, events)} \ {{}})]
  /\ UNCHANGED <<published, storage, status, local, publishing, sockets, up,
                 relays, disturbances>>

IngestedInMemory(e, events) ==                                     \* mutant
  /\ local' = [local EXCEPT ![e] = @ \cup events]
  /\ ingesting' = [ingesting EXCEPT ![e] = @ \ {events}]
  /\ UNCHANGED <<published, disk, status, outbox, publishing, sockets, wires,
                 relays, disturbances>>
IngestedAsSnapshot(e, events) ==                                   \* mutant
  /\ storage' = [storage EXCEPT ![OwnerOf[e]] = local[e] \cup events]
  /\ local' = [local EXCEPT ![e] = @ \cup events]
  /\ ingesting' = [ingesting EXCEPT ![e] = @ \ {events}]
  /\ UNCHANGED <<published, saved, status, outbox, publishing, sockets, wires,
                 relays, disturbances>>
\* The append is done, and the events are merged into memory.
Ingested(e, events) ==
  /\ storage' = [storage EXCEPT ![OwnerOf[e]] = @ \cup events]
  /\ local' = [local EXCEPT ![e] = @ \cup events]
  /\ ingesting' = [ingesting EXCEPT ![e] = @ \ {events}]
  /\ UNCHANGED <<published, saved, status, outbox, publishing, sockets, wires,
                 relays, disturbances>>

FinishIngest(e) == \E events \in ingesting[e] : Ingested(e, events)

-----------------------------------------------------------------------------
(* Relays.                                                                 *)

\* bufferEvent: once per id, and no more than the newest MAX_BUFFER.
Buffered(list, event) ==
  IF event.id \in Ids(Range(list)) THEN list
  ELSE LET longer == Append(list, event)
       IN  IF Len(longer) <= MAX_BUFFER THEN longer
           ELSE SubSeq(longer, Len(longer) - MAX_BUFFER + 1, Len(longer))

\* What a relay answers: what it holds after the cursor, in the total order,
\* or everything when it does not hold the cursor.
NothingAfterUnknown(events, hash) ==                               \* mutant
  {e \in events : \E cursor \in events : cursor.id = hash /\ Before(cursor, e)}
After(events, hash) ==
  IF hash \in Ids(events)
  THEN {e \in events : \E cursor \in events :
          cursor.id = hash /\ Before(cursor, e)}
  ELSE events

HasMessage(k) == Linked(k) /\ up[k] # <<>>

\* Past the limit a message is dropped without a word.
RelayRejects(k) ==
  /\ HasMessage(k) /\ rate[k] >= RATE_LIMIT
  /\ up' = [up EXCEPT ![k] = Tail(@)]
  /\ cut' = [cut EXCEPT ![k] = TRUE]
  /\ UNCHANGED <<published, disk, memory, sockets, down, buffer, clients, rate,
                 carried, disturbances>>

Others(k) == clients[k[2]] \ {k}

RelayAnnounces(k) ==
  LET msg == Head(up[k])
  IN
  /\ HasMessage(k) /\ rate[k] < RATE_LIMIT /\ msg.type = "announce"
  /\ up' = [up EXCEPT ![k] = Tail(@)]
  /\ rate' = [rate EXCEPT ![k] = @ + 1]
  /\ buffer' = [buffer EXCEPT ![k[2]] = Buffered(@, msg.event)]
  /\ carried' = carried \cup {msg.event}
  /\ down' = [j \in Conn |-> IF j \in Others(k) THEN Append(down[j], msg)
                             ELSE down[j]]
  /\ UNCHANGED <<published, disk, memory, sockets, clients, cut, disturbances>>

RelayAnswers(k) ==
  LET msg == Head(up[k])
  IN
  /\ HasMessage(k) /\ rate[k] < RATE_LIMIT /\ msg.type = "request_sync"
  /\ up' = [up EXCEPT ![k] = Tail(@)]
  /\ rate' = [rate EXCEPT ![k] = @ + 1]
  /\ down' = [down EXCEPT ![k] =
                Append(@, SyncBatch(After(Range(buffer[k[2]]), msg.since)))]
  /\ UNCHANGED <<published, disk, memory, sockets, buffer, clients, cut, carried,
                 disturbances>>

RelayReceives(k) == RelayRejects(k) \/ RelayAnnounces(k) \/ RelayAnswers(k)

\* RATE_WINDOW_MS has passed since the window began.
WindowPasses(k) ==
  /\ rate[k] > 0
  /\ rate' = [rate EXCEPT ![k] = 0]
  /\ UNCHANGED <<published, disk, memory, sockets, wires, buffer, clients, cut,
                 carried, disturbances>>

\* BUFFER_TTL_MS has passed since the oldest event came.
Expire(r) ==
  /\ buffer[r] # <<>>
  /\ Disturb
  /\ buffer' = [buffer EXCEPT ![r] = Tail(@)]
  /\ UNCHANGED <<published, disk, memory, sockets, wires, clients, rate, cut,
                 carried>>

\* A relay keeps nothing on disk.
RestartRelay(r) ==
  /\ buffer[r] # <<>> \/ clients[r] # {}
  /\ Disturb
  /\ buffer' = [buffer EXCEPT ![r] = <<>>]
  /\ clients' = [clients EXCEPT ![r] = {}]
  /\ up' = [k \in Conn |-> IF k[2] = r THEN <<>> ELSE up[k]]
  /\ down' = [k \in Conn |-> IF k[2] = r THEN <<>> ELSE down[k]]
  /\ UNCHANGED <<published, disk, memory, sockets, rate, cut, carried>>

-----------------------------------------------------------------------------
Next ==
  \/ \E e \in Engine :
       \/ Start(e)
       \/ Disconnect(e)
       \/ \E urls \in RelaySets : SetRelays(e, urls)
       \/ \E id \in Id : Publish(e, id)
       \/ FinishPublish(e)
       \/ FinishIngest(e)
       \/ \E entries \in SUBSET published : ImportLog(e, entries)
  \/ \E k \in Conn :
       \/ Accept(k)
       \/ TurnAway(k)
       \/ ConnectFails(k)
       \/ LoseLink(k)
       \/ OnClose(k)
       \/ Reconnect(k)
       \/ OnMessage(k)
       \/ RelayReceives(k)
       \/ WindowPasses(k)
  \/ \E c \in Client : CloseTab(c)
  \/ \E r \in Relay : Expire(r) \/ RestartRelay(r)

Spec == Init /\ [][Next]_vars

\* Timers fire, pending storage operations and messages are handled, and a
\* relay that is reachable is reached: the event loops on both sides.
Fairness ==
  /\ \A e \in Engine : WF_vars(FinishPublish(e)) /\ WF_vars(FinishIngest(e))
  /\ \A k \in Conn :
       /\ WF_vars(Accept(k)) /\ WF_vars(OnClose(k)) /\ WF_vars(Reconnect(k))
       /\ WF_vars(OnMessage(k)) /\ WF_vars(RelayReceives(k))
       /\ WF_vars(WindowPasses(k))

FairSpec == Spec /\ Fairness

-----------------------------------------------------------------------------
(* Properties.                                                             *)

\* The devices' logs behave as Exchange promises (sync/engine.ts).
EX == INSTANCE Exchange WITH log <- storage
ImplementsExchange == EX!Spec

\* What an engine shows, builds on and announces is on disk (publish and
\* ingestRemote append before they merge): a crash takes nothing back.
MemoryIsStored ==
  \A e \in Engine :
    /\ local[e] \subseteq storage[OwnerOf[e]]
    /\ publishing[e] \subseteq storage[OwnerOf[e]]
    /\ Range(outbox[e]) \subseteq storage[OwnerOf[e]]

\* Every event carries its author's word and an ancestry its author can show,
\* whoever else lost what: ids are unique, and an author keeps its own events
\* and a parent one step below each (publish).
AuthorsCanShow == EX!Sound

\* On a causally complete log the order of the reducer (topologicalSort) is
\* the order of the event list and of the cursor (sortEvents).
OrdersAgree ==
  \A c \in Client : IsCausalClosure(storage[c])
    => TopologicalSort(storage[c]) = SortEvents(storage[c])

\* An event leaves the outbox of a running engine only once some relay had it
\* (pruneOutboxForEvents; CHANGELOG: "queue retained until sync_batch
\* confirms").
QueuedUntilCarried ==
  [][\A e \in Engine : status'[e] # "new" =>
       Range(outbox[e]) \ Range(outbox'[e]) \subseteq carried]_vars

\* What is queued is confirmed in the end, in spite of faults: a flush asks for
\* the whole buffer (flushOutbox).  Not so if no relay in use has room for the
\* burst: each of them dropped a message of the present socket, and nothing is
\* flushed again before the next one.  Nor if the relays forgot an event, or the
\* engine is stopped.
Forgotten(event) ==
  event \in carried /\ \A r \in Relay : event \notin Range(buffer[r])

OutboxDrains ==
  \A e \in Engine :
    []<>(\/ outbox[e] = <<>>
         \/ \E event \in Range(outbox[e]) : Forgotten(event)
         \/ status[e] # "started"
         \/ \A k \in ConnsOf(e) : listed[k] => cut[k])

\* What a relay holds reaches every engine that uses it, in spite of faults
\* (request_sync on every connection, broadcast in between).  Not so an event that
\* sorts before one the engine has and came to the relay while the engine was
\* away: the answer to its cursor leaves it out, and nothing asks again
\* (requestSyncOn).
Quiet(k) ==
  /\ Linked(k) /\ ws[k] = "open" /\ up[k] = <<>> /\ down[k] = <<>>
  /\ ingesting[k[1]] = {}
PassedBy(k, event) == Quiet(k) /\ \E other \in local[k[1]] : Before(event, other)
Owed(k) ==
  {event \in Range(buffer[k[2]]) :
     event.id \notin Ids(local[k[1]]) /\ ~PassedBy(k, event)}

HeldIsDelivered ==
  \A k \in Conn : []<>(Owed(k) = {} \/ ~listed[k] \/ status[k[1]] # "started")
=============================================================================
