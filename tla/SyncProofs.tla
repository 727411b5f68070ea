----------------------------- MODULE SyncProofs -----------------------------
(***************************************************************************)
(* What the exchange of events keeps, for any number of devices, engines   *)
(* and relays, any faults and any bounds.                                  *)
(***************************************************************************)
EXTENDS Sync, Lemmas

-----------------------------------------------------------------------------
(* The inductive invariant.                                                *)

\* Sockets, engines and counters are of their kind.
Machinery ==
  /\ status \in [Engine -> {"new", "started", "stopped"}]
  /\ listed \in [Conn -> BOOLEAN]
  /\ ws \in [Conn -> {"null", "connecting", "open", "closing"}]
  /\ timer \in [Conn -> BOOLEAN]
  /\ clients \in [Relay -> SUBSET Conn]
  /\ rate \in [Conn -> Nat]
  /\ cut \in [Conn -> BOOLEAN]
  /\ disturbances \in Nat

\* Nothing under way or at rest was not signed by somebody.
Signatures == published \subseteq Event /\ Holding(published)

\* What starts the next engine is on disk too.
Durable ==
  /\ MemoryIsStored
  /\ \A c \in Client : Range(saved[c]) \subseteq storage[c]

Inv == Machinery /\ Signatures /\ Durable /\ AuthorsCanShow

-----------------------------------------------------------------------------
(* Facts about sequences and the event graph.                              *)

\* A sequence over a set is one over a larger set.
LEMMA WiderSeq ==
  ASSUME NEW A, NEW B, A \subseteq B, NEW s \in Seq(A)
  PROVE  s \in Seq(B)
OBVIOUS

\* The queue that is left comes about envelope by envelope.
LEMMA UnconfirmedUnfolds ==
  ASSUME NEW envelopes, NEW T, envelopes \in Seq(T), NEW events
  PROVE  \E kept \in [0 .. Len(envelopes) -> Seq(Range(envelopes))] :
           /\ kept[0] = <<>>
           /\ \A i \in 1 .. Len(envelopes) :
                kept[i] = IF envelopes[i].id \in Ids(events) THEN kept[i - 1]
                          ELSE Append(kept[i - 1], envelopes[i])
           /\ Unconfirmed(envelopes, events) = kept[Len(envelopes)]
<1> DEFINE n == Len(envelopes)
           R == Range(envelopes)
           keep == [i \in 1 .. n |-> [t \in Seq(R) |->
                     IF envelopes[i].id \in Ids(events) THEN t
                     ELSE Append(t, envelopes[i])]]
           kept == CHOOSE g : g = [i \in 0 .. n |->
                     IF i = 0 THEN <<>>
                     ELSE IF envelopes[i].id \in Ids(events) THEN g[i - 1]
                     ELSE Append(g[i - 1], envelopes[i])]
<1>1. n \in Nat /\ \A i \in 1 .. n : envelopes[i] \in R
  BY DEF Range
<1>2. keep \in [1 .. n -> [Seq(R) -> Seq(R)]]
  <2>1. ASSUME NEW i \in 1 .. n, NEW t \in Seq(R)
        PROVE  (IF envelopes[i].id \in Ids(events) THEN t
                ELSE Append(t, envelopes[i])) \in Seq(R)
    <3> HIDE DEF R, n
    <3>1. envelopes[i] \in R
      BY <1>1
    <3> QED BY <3>1
  <2> QED BY <2>1
<1> HIDE DEF R, n, keep
<1>3. PICK g \in [0 .. n -> Seq(R)] : Recurs(g, n, <<>>, keep)
  <2>1. <<>> \in Seq(R)
    OBVIOUS
  <2> QED BY <1>1, <1>2, <2>1, RecursionDefined
<1>4. g = [i \in 0 .. n |->
             IF i = 0 THEN <<>>
             ELSE IF envelopes[i].id \in Ids(events) THEN g[i - 1]
             ELSE Append(g[i - 1], envelopes[i])]
  <2>1. ASSUME NEW i \in 0 .. n, i # 0
        PROVE  keep[i][g[i - 1]] = IF envelopes[i].id \in Ids(events) THEN g[i - 1]
                                   ELSE Append(g[i - 1], envelopes[i])
    <3>1. i \in 1 .. n /\ g[i - 1] \in Seq(R)
      BY <2>1, <1>1, <1>3
    <3> QED BY <3>1 DEF keep
  <2> QED BY <2>1, <1>3 DEF Recurs
<1>5. kept = [i \in 0 .. n |->
             IF i = 0 THEN <<>>
             ELSE IF envelopes[i].id \in Ids(events) THEN kept[i - 1]
             ELSE Append(kept[i - 1], envelopes[i])]
  BY <1>4
<1>6. Unconfirmed(envelopes, events) = kept[n]
  BY DEF Unconfirmed, n
<1> HIDE DEF kept
<1> DEFINE S == {i \in 0 .. n : kept[i] \in Seq(R)}
<1>7. 0 \in S
  BY <1>1, <1>5
<1>8. ASSUME NEW i \in 0 .. n - 1, i \in S PROVE i + 1 \in S
  <2>1. kept[i + 1] = IF envelopes[i + 1].id \in Ids(events) THEN kept[i]
                      ELSE Append(kept[i], envelopes[i + 1])
    <3>1. i + 1 \in 0 .. n /\ i + 1 # 0 /\ (i + 1) - 1 = i
      BY <1>1
    <3> QED BY <3>1, <1>5
  <2>2. kept[i] \in Seq(R) /\ envelopes[i + 1] \in R /\ i + 1 \in 0 .. n
    BY <1>8, <1>1
  <2>3. kept[i + 1] \in Seq(R)
    <3>1. CASE envelopes[i + 1].id \in Ids(events)
      BY <2>1, <2>2, <3>1
    <3>2. CASE envelopes[i + 1].id \notin Ids(events)
      BY <2>1, <2>2, <3>2
    <3> QED BY <3>1, <3>2
  <2> QED BY <2>2, <2>3
<1> HIDE DEF S
<1>9. 0 .. n \subseteq S
  BY <1>1, <1>7, <1>8, IntervalInduction
<1>10. kept \in [0 .. n -> Seq(R)]
  <2>1. \A i \in 0 .. n : kept[i] \in Seq(R)
    BY <1>9 DEF S
  <2> QED BY <2>1, <1>5
<1>11. kept[0] = <<>>
  BY <1>1, <1>5
<1>12. ASSUME NEW i \in 1 .. n
       PROVE  kept[i] = IF envelopes[i].id \in Ids(events) THEN kept[i - 1]
                        ELSE Append(kept[i - 1], envelopes[i])
  <2>1. i \in 0 .. n /\ i # 0
    BY <1>1
  <2> QED BY <2>1, <1>5
<1>13. \E h \in [0 .. n -> Seq(R)] :
         /\ h[0] = <<>>
         /\ \A i \in 1 .. n : h[i] = IF envelopes[i].id \in Ids(events) THEN h[i - 1]
                                    ELSE Append(h[i - 1], envelopes[i])
         /\ Unconfirmed(envelopes, events) = h[n]
  BY <1>6, <1>10, <1>11, <1>12
<1> QED BY <1>13 DEF R, n

\* It is made of the queue that was.
LEMMA UnconfirmedRange ==
  ASSUME NEW envelopes, NEW T, envelopes \in Seq(T), NEW events
  PROVE  /\ Unconfirmed(envelopes, events) \in Seq(T)
         /\ Range(Unconfirmed(envelopes, events)) \subseteq Range(envelopes)
<1> DEFINE R == Range(envelopes)
<1>1. Unconfirmed(envelopes, events) \in Seq(R)
  BY UnconfirmedUnfolds
<1>2. R \subseteq T
  BY DEF Range
<1> QED BY <1>1, <1>2, WiderSeq DEF Range

\* What nobody confirmed is left in it.
LEMMA UnconfirmedKeeps ==
  ASSUME NEW envelopes, NEW T, envelopes \in Seq(T), NEW events,
         NEW x \in Range(envelopes), x.id \notin Ids(events)
  PROVE  x \in Range(Unconfirmed(envelopes, events))
<1> DEFINE n == Len(envelopes)
           R == Range(envelopes)
<1>1. n \in Nat
  OBVIOUS
<1>2. PICK kept \in [0 .. n -> Seq(R)] :
        /\ \A i \in 1 .. n :
             kept[i] = IF envelopes[i].id \in Ids(events) THEN kept[i - 1]
                       ELSE Append(kept[i - 1], envelopes[i])
        /\ Unconfirmed(envelopes, events) = kept[n]
  BY UnconfirmedUnfolds
<1>3. PICK j \in 1 .. n : x = envelopes[j]
  BY DEF Range
<1>4. \A i \in 1 .. n : envelopes[i] \in R
  BY DEF Range
<1> HIDE DEF n, R
<1> DEFINE S == {i \in 0 .. n : i >= j => x \in Range(kept[i])}
<1>5. 0 \in S
  BY <1>1, <1>3
<1>6. ASSUME NEW i \in 0 .. n - 1, i \in S PROVE i + 1 \in S
  <2>1. i + 1 \in 1 .. n /\ i + 1 \in 0 .. n /\ (i + 1) - 1 = i
    BY <1>1
  <2>2. kept[i + 1] = IF envelopes[i + 1].id \in Ids(events) THEN kept[i]
                      ELSE Append(kept[i], envelopes[i + 1])
    BY <1>2, <2>1
  <2>3. kept[i] \in Seq(R) /\ envelopes[i + 1] \in R
    <3>1. i \in 0 .. n
      BY <1>1
    <3> QED BY <3>1, <1>2, <1>4, <2>1
  <2>4. CASE i + 1 = j
    <3>1. kept[i + 1] = Append(kept[i], x)
      BY <2>2, <2>4, <1>3
    <3>2. x \in R
      BY <2>3, <2>4, <1>3
    <3>3. kept[i + 1][Len(kept[i]) + 1] = x /\ Len(kept[i]) + 1 \in DOMAIN kept[i + 1]
      BY <3>1, <3>2, <2>3
    <3> QED BY <3>3, <2>1 DEF Range
  <2>5. CASE i + 1 # j /\ i + 1 >= j
    <3>1. x \in Range(kept[i])
      BY <1>3, <1>6, <2>5
    <3>2. PICK l \in DOMAIN kept[i] : kept[i][l] = x
      BY <3>1 DEF Range
    <3>3. CASE envelopes[i + 1].id \in Ids(events)
      BY <2>1, <2>2, <3>1, <3>3
    <3>4. CASE envelopes[i + 1].id \notin Ids(events)
      <4>1. kept[i + 1] = Append(kept[i], envelopes[i + 1])
        BY <2>2, <3>4
      <4>2. l \in DOMAIN kept[i + 1] /\ kept[i + 1][l] = x
        BY <4>1, <2>3, <3>2
      <4> QED BY <4>2, <2>1 DEF Range
    <3> QED BY <3>3, <3>4
  <2>6. CASE ~(i + 1 >= j)
    BY <2>1, <2>6
  <2> QED BY <2>4, <2>5, <2>6, <2>1, <1>3
<1> HIDE DEF S
<1>7. 0 .. n \subseteq S
  BY <1>1, <1>5, <1>6, IntervalInduction
<1>8. x \in Range(kept[n])
  <2>1. n \in S /\ n >= j
    BY <1>7, <1>1, <1>3
  <2> QED BY <2>1 DEF S
<1> QED BY <1>2, <1>8

\* A closed subset of the candidates is taken in.
LEMMA ClosureIsSubset ==
  ASSUME NEW candidates, NEW known
  PROVE  FilterCausalClosure(candidates, known) \subseteq candidates
BY DEF FilterCausalClosure

\* The event an engine signs grafts onto its memory.
LEMMA SignedGrafts ==
  ASSUME NEW e \in Engine, NEW id \in Id, NEW P \in SUBSET Event, Inv,
         local[e] \subseteq P
  PROVE  Signed(e, id) \in EX!Grafts(id, OwnerOf[e], P) /\ Signed(e, id) \in Event
<1>1. OwnerOf[e] \in Client
  BY SyncAssumption
<1>2. CASE Latest(local[e]) = {}
  BY <1>1, <1>2 DEF Signed, Cursor, LastId, MaxLamport, EX!Grafts, Event, None, EX!None
<1>3. CASE Latest(local[e]) # {}
  <2> DEFINE p == CHOOSE x \in Latest(local[e]) : TRUE
  <2>1. p \in P /\ p \in Event
    BY <1>3 DEF Latest
  <2>2. Signed(e, id) = [id |-> id, prevHash |-> p.id, lamport |-> p.lamport + 1,
                         author |-> OwnerOf[e]]
    BY <1>3 DEF Signed, Cursor, LastId, MaxLamport
  <2> HIDE DEF p
  <2> QED BY <1>1, <2>1, <2>2 DEF EX!Grafts, Event
<1> QED BY <1>2, <1>3

\* What is held of a set of events is held of a larger one.
LEMMA HoldingWider ==
  ASSUME NEW A, NEW B, A \subseteq B, Holding(A)
  PROVE  Holding(B)
<1>1. \A s : s \in Seq(A) => s \in Seq(B)
  BY WiderSeq
<1>2. Request(A) \subseteq Request(B) /\ Answer(A) \subseteq Answer(B)
  BY DEF Request, Answer
<1>3. \A s : s \in Seq(Request(A)) => s \in Seq(Request(B))
  BY <1>2, WiderSeq
<1>4. \A s : s \in Seq(Answer(A)) => s \in Seq(Answer(B))
  BY <1>2, WiderSeq
<1>5. /\ saved \in [Client -> Seq(B)]
      /\ outbox \in [Engine -> Seq(B)]
      /\ buffer \in [Relay -> Seq(B)]
  BY <1>1 DEF Holding
<1>6. up \in [Conn -> Seq(Request(B))]
  BY <1>3 DEF Holding
<1>7. down \in [Conn -> Seq(Answer(B))]
  BY <1>4 DEF Holding
<1>8. /\ storage \in [Client -> SUBSET B]
      /\ local \in [Engine -> SUBSET B]
      /\ publishing \in [Engine -> SUBSET B]
      /\ ingesting \in [Engine -> SUBSET SUBSET B]
      /\ carried \subseteq B
  BY DEF Holding
<1> QED BY <1>5, <1>6, <1>7, <1>8 DEF Holding

\* The parts of the invariant give the type invariant.
LEMMA InvType == Inv => TypeOK
BY HoldingWider DEF Inv, Machinery, Signatures, TypeOK

-----------------------------------------------------------------------------
(* Steps of sockets and timers.                                            *)

\* Where events are kept.
contents == <<published, disk, local, outbox, publishing, ingesting, wires,
              buffer, carried>>

\* A step that moves no event has only the machinery to keep.
LEMMA NothingMoved ==
  ASSUME Inv, Machinery', UNCHANGED contents
  PROVE  Inv'
BY DEF Inv, Signatures, Durable, MemoryIsStored, Range, AuthorsCanShow, EX!Sound,
       Holding, contents, disk, wires

\* The machinery of a step that fails, waits, switches or stops.
LEMMA ConnectFailsKeeps == ASSUME Inv, NEW k \in Conn, ConnectFails(k) PROVE Inv'
<1>1. Machinery'
  BY DEF Inv, Machinery, ConnectFails, Disturb, memory, wires, relays
<1>2. UNCHANGED contents
  BY DEF ConnectFails, contents, disk, memory, wires, relays
<1> QED BY <1>1, <1>2, NothingMoved

LEMMA ReconnectKeeps == ASSUME Inv, NEW k \in Conn, Reconnect(k) PROVE Inv'
<1>1. Machinery'
  BY DEF Inv, Machinery, Reconnect, Connected, memory, wires, relays
<1>2. UNCHANGED contents
  BY DEF Reconnect, contents, disk, memory, wires, relays
<1> QED BY <1>1, <1>2, NothingMoved

LEMMA WindowPassesKeeps == ASSUME Inv, NEW k \in Conn, WindowPasses(k) PROVE Inv'
<1>1. Machinery'
  BY DEF Inv, Machinery, WindowPasses, memory, wires, sockets
<1>2. UNCHANGED contents
  BY DEF WindowPasses, contents, disk, memory, wires
<1> QED BY <1>1, <1>2, NothingMoved

LEMMA SetRelaysKeeps ==
  ASSUME Inv, NEW e \in Engine, NEW urls \in RelaySets, SetRelays(e, urls)
  PROVE  Inv'
<1>1. Machinery'
  BY DEF Inv, Machinery, SetRelays, Closed, Disturb, memory, wires, relays
<1>2. UNCHANGED contents
  BY DEF SetRelays, contents, disk, memory, wires, relays
<1> QED BY <1>1, <1>2, NothingMoved

LEMMA DisconnectKeeps == ASSUME Inv, NEW e \in Engine, Disconnect(e) PROVE Inv'
<1>1. Machinery'
  BY DEF Inv, Machinery, Disconnect, Closed, Disturb, relays
<1>2. UNCHANGED contents
  BY DEF Disconnect, contents, disk, memory, wires, relays
<1> QED BY <1>1, <1>2, NothingMoved

-----------------------------------------------------------------------------
(* Steps that move events without adding one to a log.                     *)

\* A step that leaves the logs and the published events alone keeps ancestry.
LEMMA SoundUntouched ==
  ASSUME AuthorsCanShow, UNCHANGED <<published, storage>>
  PROVE  AuthorsCanShow'
BY DEF AuthorsCanShow, EX!Sound

\* A step that leaves logs, outboxes and memories alone keeps them durable.
LEMMA DurableUntouched ==
  ASSUME Durable, UNCHANGED <<disk, local, outbox, publishing>>
  PROVE  Durable'
BY DEF Durable, MemoryIsStored, Range, disk

\* Announcing a queue asks for nothing but its events.
LEMMA FlushType ==
  ASSUME NEW P, NEW e \in Engine, outbox[e] \in Seq(P)
  PROVE  Flush(e) \in Seq(Request(P))
<1>1. Announcements(outbox[e]) \in Seq(Request(P))
  <2>1. \A i \in 1 .. Len(outbox[e]) : Announce(outbox[e][i]) \in Request(P)
    BY DEF Announce, Request
  <2> QED BY <2>1 DEF Announcements
<1>2. RequestSync(None) \in Request(P)
  BY DEF RequestSync, Request
<1> QED BY <1>1, <1>2 DEF Flush

\* onopen asks for nothing but what the engine holds.
LEMMA OpeningType ==
  ASSUME Inv, NEW k \in Conn, NEW served \in BOOLEAN, OnOpen(k, served),
         UNCHANGED <<published, disk, local, outbox, publishing, ingesting, buffer, carried>>
  PROVE  Signatures'
<1> USE DEF Inv
<1>1. up' \in [Conn -> Seq(Request(published))]
  <2>1. k[1] \in Engine /\ outbox[k[1]] \in Seq(published)
    BY DEF Conn, Signatures, Holding
  <2>2. Flush(k[1]) \in Seq(Request(published))
    BY <2>1, FlushType
  <2>3. RequestSync(Cursor(k[1])) \in Request(published)
    <3>1. Cursor(k[1]) \in Id \cup {None}
      <4>1. local[k[1]] \subseteq Event
        BY <2>1 DEF Signatures, Holding
      <4>2. CASE Latest(local[k[1]]) = {}
        BY <4>2 DEF Cursor, LastId
      <4>3. CASE Latest(local[k[1]]) # {}
        BY <4>1, <4>3 DEF Cursor, LastId, Latest, Event
      <4> QED BY <4>2, <4>3
    <3> QED BY <3>1 DEF RequestSync, Request
  <2>4. \A j \in Conn : up[j] \in Seq(Request(published))
    BY DEF Signatures, Holding
  <2> DEFINE R == Request(published)
             h == RequestSync(Cursor(k[1]))
             f == Flush(k[1])
  <2>5. up' = [j \in Conn |->
                 LET flush == IF j \in OpenConns(k[1]) \cup (IF listed[k] THEN {k} ELSE {})
                              THEN f ELSE <<>>
                 IN  IF j = k THEN IF served THEN <<h>> \o flush ELSE <<>>
                     ELSE IF Linked(j) THEN up[j] \o flush ELSE up[j]]
    BY DEF OnOpen
  <2> HIDE DEF R, h, f
  <2>6. <<h>> \in Seq(R) /\ <<>> \in Seq(R) /\ f \in Seq(R)
        /\ \A j \in Conn : up[j] \in Seq(R)
    BY <2>2, <2>3, <2>4 DEF R, h, f
  <2>7. \A x, y \in Seq(R) : x \o y \in Seq(R)
    OBVIOUS
  <2>8. up' \in [Conn -> Seq(R)]
    BY <2>5, <2>6, <2>7
  <2> QED BY <2>8 DEF R
<1>2. down' \in [Conn -> Seq(Answer(published))]
  BY DEF OnOpen, Signatures, Holding
<1> QED BY <1>1, <1>2 DEF Signatures, Holding, disk

LEMMA AcceptKeeps == ASSUME Inv, NEW k \in Conn, Accept(k) PROVE Inv'
<1> USE DEF Inv
<1>1. Machinery'
  <2>1. k[2] \in Relay
    BY DEF Conn
  <2> QED BY <2>1 DEF Machinery, Accept, OnOpen, disk, memory
<1>2. Signatures'
  BY OpeningType DEF Accept, memory
<1>3. Durable'
  BY DurableUntouched DEF Accept, memory
<1>4. AuthorsCanShow'
  BY SoundUntouched DEF Accept, disk
<1> QED BY <1>1, <1>2, <1>3, <1>4

LEMMA TurnAwayKeeps == ASSUME Inv, NEW k \in Conn, TurnAway(k) PROVE Inv'
<1> USE DEF Inv
<1>1. Machinery'
  BY DEF Machinery, TurnAway, OnOpen, Disturb, memory, relays
<1>2. Signatures'
  BY OpeningType DEF TurnAway, memory, relays
<1>3. Durable'
  BY DurableUntouched DEF TurnAway, memory
<1>4. AuthorsCanShow'
  BY SoundUntouched DEF TurnAway, disk
<1> QED BY <1>1, <1>2, <1>3, <1>4

LEMMA LoseLinkKeeps == ASSUME Inv, NEW k \in Conn, LoseLink(k) PROVE Inv'
<1> USE DEF Inv
<1>1. Machinery'
  BY DEF Machinery, LoseLink, Disturb, Conn, disk, memory, sockets
<1>2. Signatures'
  BY DEF Signatures, Holding, LoseLink, disk, memory
<1>3. Durable'
  BY DurableUntouched DEF LoseLink, memory
<1>4. AuthorsCanShow'
  BY SoundUntouched DEF LoseLink, disk
<1> QED BY <1>1, <1>2, <1>3, <1>4

LEMMA OnCloseKeeps == ASSUME Inv, NEW k \in Conn, OnClose(k) PROVE Inv'
<1> USE DEF Inv
<1>1. Machinery'
  BY DEF Machinery, OnClose, Conn, disk, memory
<1>2. Signatures'
  BY DEF Signatures, Holding, OnClose, disk, memory
<1>3. Durable'
  BY DurableUntouched DEF OnClose, memory
<1>4. AuthorsCanShow'
  BY SoundUntouched DEF OnClose, disk
<1> QED BY <1>1, <1>2, <1>3, <1>4

\* An engine starts from what is on disk.
LEMMA StartKeeps == ASSUME Inv, NEW e \in Engine, Start(e) PROVE Inv'
<1> USE DEF Inv
<1>1. OwnerOf[e] \in Client
  BY SyncAssumption
<1>2. Machinery'
  BY DEF Machinery, Start, disk, wires, relays
<1>3. Signatures'
  BY <1>1 DEF Signatures, Holding, Start, disk, wires, relays
<1>4. Durable'
  BY <1>1 DEF Durable, MemoryIsStored, Range, Signatures, Holding, Start, disk
<1>5. AuthorsCanShow'
  BY SoundUntouched DEF Start, disk
<1> QED BY <1>2, <1>3, <1>4, <1>5

\* Closing a tab empties memory and wires.
LEMMA CloseTabKeeps == ASSUME Inv, NEW c \in Client, CloseTab(c) PROVE Inv'
<1> USE DEF Inv
<1>1. Machinery'
  BY DEF Machinery, CloseTab, Disturb, disk
<1>2. Signatures'
  BY DEF Signatures, Holding, CloseTab, disk
<1>3. Durable'
  <2>1. \A e \in Engine : /\ local'[e] \subseteq local[e]
                          /\ publishing'[e] \subseteq publishing[e]
                          /\ outbox'[e] \in {<<>>, outbox[e]}
    BY DEF CloseTab, Signatures, Holding
  <2>2. Range(<<>>) = {} /\ UNCHANGED disk
    BY DEF Range, CloseTab
  <2>3. \A e \in Engine : Range(outbox'[e]) \subseteq Range(outbox[e])
    BY <2>1, <2>2
  <2> QED BY <2>1, <2>2, <2>3 DEF Durable, MemoryIsStored, Range, disk
<1>4. AuthorsCanShow'
  BY SoundUntouched DEF CloseTab, disk
<1> QED BY <1>1, <1>2, <1>3, <1>4

\* Forgetting the head of a wire, or all of it, is no harm.
LEMMA TailType ==
  ASSUME NEW A, NEW s \in Seq(A), s # <<>>
  PROVE  Head(s) \in A /\ Tail(s) \in Seq(A)
OBVIOUS

LEMMA RelayRejectsKeeps == ASSUME Inv, NEW k \in Conn, RelayRejects(k) PROVE Inv'
<1> USE DEF Inv
<1>1. Machinery'
  BY DEF Machinery, RelayRejects, memory, sockets, relays
<1>2. Signatures'
  <2>1. up[k] \in Seq(Request(published)) /\ up[k] # <<>>
    BY DEF Signatures, Holding, RelayRejects, HasMessage
  <2>2. Tail(up[k]) \in Seq(Request(published))
    BY <2>1, TailType
  <2> QED BY <2>2 DEF Signatures, Holding, RelayRejects, disk, memory, relays
<1>3. Durable'
  BY DurableUntouched DEF RelayRejects, memory
<1>4. AuthorsCanShow'
  BY SoundUntouched DEF RelayRejects, disk
<1> QED BY <1>1, <1>2, <1>3, <1>4

\* A relay buffers and passes on what it was told.
LEMMA RelayAnnouncesKeeps == ASSUME Inv, NEW k \in Conn, RelayAnnounces(k) PROVE Inv'
<1> USE DEF Inv
<1> DEFINE msg == Head(up[k])
<1>1. k[2] \in Relay /\ up[k] \in Seq(Request(published)) /\ up[k] # <<>>
  BY DEF Conn, Signatures, Holding, RelayAnnounces, HasMessage
<1>2. msg \in Request(published) /\ Tail(up[k]) \in Seq(Request(published))
  BY <1>1, TailType
<1>3. msg.event \in published /\ msg \in Answer(published)
  BY <1>2 DEF RelayAnnounces, Request, Answer
<1>4. Buffered(buffer[k[2]], msg.event) \in Seq(published)
  <2> DEFINE longer == Append(buffer[k[2]], msg.event)
  <2>1. buffer[k[2]] \in Seq(published)
    BY <1>1 DEF Signatures, Holding
  <2>2. longer \in Seq(published)
    BY <2>1, <1>3
  <2> HIDE DEF longer
  <2>3. MAX_BUFFER \in Nat /\ Len(longer) \in Nat
    BY <2>2, SyncAssumption
  <2> DEFINE newest == SubSeq(longer, Len(longer) - MAX_BUFFER + 1, Len(longer))
  <2>4. ~ (Len(longer) <= MAX_BUFFER) => newest \in Seq(published)
    BY <2>2, <2>3
  <2>5. \/ Buffered(buffer[k[2]], msg.event) \in {buffer[k[2]], longer}
        \/ ~ (Len(longer) <= MAX_BUFFER) /\ Buffered(buffer[k[2]], msg.event) = newest
    BY DEF Buffered, longer
  <2> HIDE DEF newest, msg
  <2> QED BY <2>1, <2>2, <2>4, <2>5
<1>5. Machinery'
  BY DEF Machinery, RelayAnnounces, memory, sockets
<1>6. Signatures'
  <2>1. up' \in [Conn -> Seq(Request(published))]
    BY <1>2 DEF RelayAnnounces, Signatures, Holding
  <2>2. down' \in [Conn -> Seq(Answer(published))]
    <3> DEFINE A == Answer(published)
    <3>1. \A s \in Seq(A) : Append(s, msg) \in Seq(A)
      BY <1>3
    <3>2. down \in [Conn -> Seq(A)]
      BY DEF Signatures, Holding
    <3> HIDE DEF A, msg
    <3>3. down' = [j \in Conn |-> IF j \in Others(k) THEN Append(down[j], msg)
                                  ELSE down[j]]
      BY DEF RelayAnnounces, msg
    <3> QED BY <3>1, <3>2, <3>3 DEF A
  <2>3. buffer' \in [Relay -> Seq(published)] /\ carried' \subseteq published
    BY <1>1, <1>3, <1>4 DEF RelayAnnounces, Signatures, Holding
  <2> QED BY <2>1, <2>2, <2>3 DEF Signatures, Holding, RelayAnnounces, disk, memory
<1>7. Durable'
  BY DurableUntouched DEF RelayAnnounces, memory
<1>8. AuthorsCanShow'
  BY SoundUntouched DEF RelayAnnounces, disk
<1> QED BY <1>5, <1>6, <1>7, <1>8

LEMMA RelayAnswersKeeps == ASSUME Inv, NEW k \in Conn, RelayAnswers(k) PROVE Inv'
<1> USE DEF Inv
<1> DEFINE msg == Head(up[k])
           batch == SyncBatch(After(Range(buffer[k[2]]), msg.since))
<1>1. k[2] \in Relay /\ up[k] \in Seq(Request(published)) /\ up[k] # <<>>
  BY DEF Conn, Signatures, Holding, RelayAnswers, HasMessage
<1>2. Tail(up[k]) \in Seq(Request(published))
  BY <1>1, TailType
<1>3. batch \in Answer(published)
  <2>1. Range(buffer[k[2]]) \subseteq published
    BY <1>1 DEF Signatures, Holding, Range
  <2>2. After(Range(buffer[k[2]]), msg.since) \subseteq published
    BY <2>1 DEF After
  <2> QED BY <2>2 DEF SyncBatch, Answer
<1> HIDE DEF batch
<1>4. Machinery'
  BY DEF Machinery, RelayAnswers, memory, sockets
<1>5. Signatures'
  <2>1. up' \in [Conn -> Seq(Request(published))]
    BY <1>2 DEF RelayAnswers, Signatures, Holding
  <2>2. down' = [down EXCEPT ![k] = Append(@, batch)]
    BY DEF RelayAnswers, batch
  <2>3. down' \in [Conn -> Seq(Answer(published))]
    BY <1>3, <2>2 DEF Signatures, Holding
  <2> QED BY <2>1, <2>3 DEF Signatures, Holding, RelayAnswers, disk, memory
<1>6. Durable'
  BY DurableUntouched DEF RelayAnswers, memory
<1>7. AuthorsCanShow'
  BY SoundUntouched DEF RelayAnswers, disk
<1> QED BY <1>4, <1>5, <1>6, <1>7

LEMMA ExpireKeeps == ASSUME Inv, NEW r \in Relay, Expire(r) PROVE Inv'
<1> USE DEF Inv
<1>1. Machinery'
  BY DEF Machinery, Expire, Disturb, memory, sockets
<1>2. Signatures'
  <2>1. buffer[r] \in Seq(published) /\ buffer[r] # <<>>
    BY DEF Signatures, Holding, Expire
  <2>2. Tail(buffer[r]) \in Seq(published)
    BY <2>1, TailType
  <2> QED BY <2>2 DEF Signatures, Holding, Expire, disk, memory, wires
<1>3. Durable'
  BY DurableUntouched DEF Expire, memory
<1>4. AuthorsCanShow'
  BY SoundUntouched DEF Expire, disk
<1> QED BY <1>1, <1>2, <1>3, <1>4

LEMMA RestartRelayKeeps == ASSUME Inv, NEW r \in Relay, RestartRelay(r) PROVE Inv'
<1> USE DEF Inv
<1>1. Machinery'
  BY DEF Machinery, RestartRelay, Disturb, memory, sockets
<1>2. Signatures'
  BY DEF Signatures, Holding, RestartRelay, disk, memory
<1>3. Durable'
  BY DurableUntouched DEF RestartRelay, memory
<1>4. AuthorsCanShow'
  BY SoundUntouched DEF RestartRelay, disk
<1> QED BY <1>1, <1>2, <1>3, <1>4

\* A message confirms what is queued and brings events to be stored.
LEMMA OnMessageKeeps == ASSUME Inv, NEW k \in Conn, OnMessage(k) PROVE Inv'
<1> USE DEF Inv
<1> DEFINE e == k[1]
           events == EventsOf(Head(down[k]))
           rest == Unconfirmed(outbox[e], events)
<1>1. e \in Engine /\ OwnerOf[e] \in Client
  BY SyncAssumption DEF Conn
<1>2. down[k] \in Seq(Answer(published)) /\ down[k] # <<>>
  BY DEF Signatures, Holding, OnMessage
<1>3. Head(down[k]) \in Answer(published) /\ Tail(down[k]) \in Seq(Answer(published))
  BY <1>2, TailType
<1>4. events \subseteq published
  BY <1>3 DEF EventsOf, Answer
<1>5. rest \in Seq(published) /\ Range(rest) \subseteq Range(outbox[e])
  <2>1. outbox[e] \in Seq(published)
    BY <1>1 DEF Signatures, Holding
  <2> QED BY <2>1, UnconfirmedRange
<1>6. /\ outbox' = [outbox EXCEPT ![e] = rest]
      /\ saved' = IF rest = outbox[e] THEN saved
                  ELSE [saved EXCEPT ![OwnerOf[e]] = rest]
      /\ ingesting' = [ingesting EXCEPT ![e] = @ \cup ({Fresh(e, events)} \ {{}})]
      /\ down' = [down EXCEPT ![k] = Tail(@)]
      /\ UNCHANGED <<published, storage, status, local, publishing, sockets, up,
                     relays, disturbances>>
  BY DEF OnMessage
<1>7. Fresh(e, events) \subseteq published
  BY <1>4 DEF Fresh
<1> HIDE DEF e, events, rest
<1>8. Machinery'
  BY <1>6 DEF Machinery, sockets, relays
<1>9. Signatures'
  <2>1. /\ outbox' \in [Engine -> Seq(published)]
        /\ saved' \in [Client -> Seq(published)]
        /\ ingesting' \in [Engine -> SUBSET SUBSET published]
    BY <1>1, <1>5, <1>6, <1>7 DEF Signatures, Holding
  <2>2. down' \in [Conn -> Seq(Answer(published))]
    BY <1>3, <1>6 DEF Signatures, Holding
  <2> QED BY <1>6, <2>1, <2>2 DEF Signatures, Holding, relays
<1>10. Durable'
  <2>1. Range(rest) \subseteq storage[OwnerOf[e]]
    BY <1>1, <1>5 DEF Durable, MemoryIsStored
  <2>2. \A f \in Engine : Range(outbox'[f]) \subseteq storage[OwnerOf[f]]
    <3>1. \A f \in Engine : outbox'[f] = IF f = e THEN rest ELSE outbox[f]
      BY <1>6 DEF Signatures, Holding
    <3> QED BY <2>1, <3>1 DEF Durable, MemoryIsStored
  <2>3. \A c \in Client : Range(saved'[c]) \subseteq storage[c]
    <3>1. \A c \in Client : saved'[c] = saved[c] \/ (c = OwnerOf[e] /\ saved'[c] = rest)
      BY <1>1, <1>6 DEF Signatures, Holding
    <3> QED BY <2>1, <3>1 DEF Durable
  <2> QED BY <1>6, <2>2, <2>3 DEF Durable, MemoryIsStored
<1>11. AuthorsCanShow'
  BY <1>6, SoundUntouched
<1> QED BY <1>8, <1>9, <1>10, <1>11

-----------------------------------------------------------------------------
(* Steps that add to a log.                                                *)

\* A log that takes in published events loses no ancestry.
LEMMA SoundLearned ==
  ASSUME Inv, NEW c \in Client, NEW S \in SUBSET published,
         UNCHANGED published, storage' = [storage EXCEPT ![c] = @ \cup S]
  PROVE  AuthorsCanShow'
<1> USE DEF Inv
<1>1. \A d \in Client : storage[d] \subseteq storage'[d] /\ storage'[d] \subseteq published
  BY DEF Signatures, Holding
<1>2. \A x \in published : x.author \in Client
  BY DEF Signatures, Event
<1>3. ASSUME NEW x \in published
      PROVE  /\ x \in storage'[x.author]
             /\ x \in EX!Grafts(x.id, x.author, storage'[x.author])
  <2>1. /\ x \in storage[x.author]
        /\ x \in EX!Grafts(x.id, x.author, storage[x.author])
    BY DEF AuthorsCanShow, EX!Sound
  <2> QED BY <1>1, <1>2, <2>1 DEF EX!Grafts
<1> QED BY <1>1, <1>3 DEF AuthorsCanShow, EX!Sound

LEMMA IngestedKeeps ==
  ASSUME Inv, NEW e \in Engine, NEW events \in ingesting[e], Ingested(e, events)
  PROVE  Inv'
<1> USE DEF Inv
<1>1. OwnerOf[e] \in Client
  BY SyncAssumption
<1>2. events \subseteq published
  BY DEF Signatures, Holding
<1>3. Machinery'
  BY DEF Machinery, Ingested, sockets, wires, relays
<1>4. Signatures'
  BY <1>1, <1>2 DEF Signatures, Holding, Ingested, wires, relays
<1>5. Durable'
  <2>1. \A c \in Client : storage[c] \subseteq storage'[c]
    BY DEF Ingested, Signatures, Holding
  <2>2. \A f \in Engine : local'[f] \subseteq storage'[OwnerOf[f]]
    BY <1>1, <2>1, SyncAssumption
       DEF Ingested, Signatures, Holding, Durable, MemoryIsStored
  <2> QED BY <2>1, <2>2, SyncAssumption DEF Durable, MemoryIsStored, Ingested
<1>6. AuthorsCanShow'
  BY <1>1, <1>2, SoundLearned DEF Ingested
<1> QED BY <1>3, <1>4, <1>5, <1>6

LEMMA ImportLogKeeps ==
  ASSUME Inv, NEW e \in Engine, NEW entries \in SUBSET published,
         ImportLog(e, entries)
  PROVE  Inv'
<1> USE DEF Inv
<1> DEFINE c == OwnerOf[e]
           accepted == FilterCausalClosure(entries \ storage[c], storage[c])
<1>1. c \in Client
  BY SyncAssumption
<1>2. accepted \subseteq published
  BY ClosureIsSubset
<1>3. /\ storage' = [storage EXCEPT ![c] = @ \cup accepted]
      /\ local' = [local EXCEPT ![e] = storage'[c]]
      /\ Disturb
      /\ UNCHANGED <<published, saved, status, outbox, publishing, ingesting,
                     sockets, wires, relays>>
  BY DEF ImportLog
<1> HIDE DEF c, accepted
<1>4. Machinery'
  BY <1>3 DEF Machinery, Disturb, sockets, relays
<1>5. Signatures'
  BY <1>1, <1>2, <1>3 DEF Signatures, Holding, wires, relays
<1>6. Durable'
  <2>1. \A d \in Client : storage[d] \subseteq storage'[d]
    BY <1>3 DEF Signatures, Holding
  <2>2. \A f \in Engine : local'[f] \subseteq storage'[OwnerOf[f]]
    BY <1>1, <1>3, <2>1, SyncAssumption
       DEF Signatures, Holding, Durable, MemoryIsStored, c
  <2> QED BY <1>3, <2>1, <2>2, SyncAssumption DEF Durable, MemoryIsStored
<1>7. AuthorsCanShow'
  BY <1>1, <1>2, <1>3, SoundLearned
<1> QED BY <1>4, <1>5, <1>6, <1>7

\* An announced event goes to memory and to a socket or the outbox.
LEMMA AnnouncedKeeps ==
  ASSUME Inv, NEW e \in Engine, NEW event \in publishing[e], Announced(e, event)
  PROVE  Inv'
<1> USE DEF Inv
<1>1. /\ OwnerOf[e] \in Client /\ event \in published
      /\ event \in storage[OwnerOf[e]]
      /\ outbox[e] \in Seq(published)
  BY SyncAssumption DEF Signatures, Holding, Durable, MemoryIsStored
<1>2. /\ publishing' = [publishing EXCEPT ![e] = @ \ {event}]
      /\ local' = [local EXCEPT ![e] = @ \cup {event}]
      /\ UNCHANGED <<published, storage, status, ingesting, sockets, down, relays,
                     disturbances>>
  BY DEF Announced
<1>3. \/ UNCHANGED <<outbox, saved>>
      \/ /\ outbox' = [outbox EXCEPT ![e] = Append(@, event)]
         /\ saved' = [saved EXCEPT ![OwnerOf[e]] = Append(outbox[e], event)]
  BY DEF Announced
<1>4. up' \in [Conn -> Seq(Request(published))]
  <2> DEFINE R == Request(published)
  <2>1. up \in [Conn -> Seq(R)]
    BY DEF Signatures, Holding
  <2>2. <<Announce(event)>> \in Seq(R) /\ <<>> \in Seq(R)
    BY <1>1 DEF Announce, Request
  <2>3. \/ up' = up
        \/ up' = [k \in Conn |-> IF Linked(k)
                    THEN up[k] \o (IF k \in OpenConns(e) THEN <<Announce(event)>>
                                   ELSE <<>>)
                    ELSE up[k]]
    BY DEF Announced, Sent
  <2> HIDE DEF R
  <2>4. \A x, y \in Seq(R) : x \o y \in Seq(R)
    OBVIOUS
  <2>5. up' \in [Conn -> Seq(R)]
    BY <2>1, <2>2, <2>3, <2>4
  <2> QED BY <2>5 DEF R
<1>5. Append(outbox[e], event) \in Seq(published)
  BY <1>1
<1>6. Range(Append(outbox[e], event)) \subseteq Range(outbox[e]) \cup {event}
  BY <1>1 DEF Range
<1>7. Machinery'
  BY <1>2 DEF Machinery, sockets, relays
<1>8. Signatures'
  <2>1. outbox' \in [Engine -> Seq(published)] /\ saved' \in [Client -> Seq(published)]
    BY <1>1, <1>3, <1>5 DEF Signatures, Holding
  <2> QED BY <1>1, <1>2, <1>4, <2>1 DEF Signatures, Holding, relays
<1>9. Durable'
  <2>1. Range(Append(outbox[e], event)) \subseteq storage[OwnerOf[e]]
    BY <1>1, <1>6 DEF Durable, MemoryIsStored
  <2>2. \A f \in Engine : Range(outbox'[f]) \subseteq storage[OwnerOf[f]]
    <3>1. \A f \in Engine : \/ outbox'[f] = outbox[f]
                            \/ f = e /\ outbox'[f] = Append(outbox[e], event)
      BY <1>3 DEF Signatures, Holding
    <3> QED BY <2>1, <3>1 DEF Durable, MemoryIsStored
  <2>3. \A c \in Client : Range(saved'[c]) \subseteq storage[c]
    <3>1. \A c \in Client : \/ saved'[c] = saved[c]
                            \/ c = OwnerOf[e] /\ saved'[c] = Append(outbox[e], event)
      BY <1>3 DEF Signatures, Holding
    <3> QED BY <2>1, <3>1 DEF Durable
  <2>4. \A f \in Engine : /\ local'[f] \subseteq storage[OwnerOf[f]]
                          /\ publishing'[f] \subseteq storage[OwnerOf[f]]
    BY <1>1, <1>2 DEF Signatures, Holding, Durable, MemoryIsStored
  <2> QED BY <1>2, <2>2, <2>3, <2>4 DEF Durable, MemoryIsStored
<1>10. AuthorsCanShow'
  BY <1>2, SoundUntouched
<1> QED BY <1>7, <1>8, <1>9, <1>10

\* A new event is signed, published and stored.
LEMMA PublishKeeps ==
  ASSUME Inv, NEW e \in Engine, NEW id \in Id, Publish(e, id)
  PROVE  Inv'
<1> USE DEF Inv
<1> DEFINE c == OwnerOf[e]
           event == Signed(e, id)
<1>1. c \in Client
  BY SyncAssumption
<1>2. event \in Event /\ event \in EX!Grafts(id, c, storage[c])
  <2>1. local[e] \subseteq storage[c] /\ storage[c] \in SUBSET Event
    BY <1>1 DEF Durable, MemoryIsStored, Signatures, Holding
  <2> QED BY <2>1, SignedGrafts
<1>3. event.id = id /\ event.author = c
  BY DEF Signed
<1>4. /\ id \notin Ids(published)
      /\ published' = published \cup {event}
      /\ storage' = [storage EXCEPT ![c] = @ \cup {event}]
      /\ publishing' = [publishing EXCEPT ![e] = @ \cup {event}]
      /\ UNCHANGED <<saved, status, local, outbox, ingesting, sockets, wires,
                     relays, disturbances>>
  BY DEF Publish
<1> HIDE DEF c, event
<1>5. Machinery'
  BY <1>4 DEF Machinery, sockets, relays
<1>6. Signatures'
  <2>1. Holding(published')
    BY <1>4, HoldingWider DEF Signatures
  <2>2. Holding(published)'
    BY <1>1, <1>4, <2>1 DEF Holding, wires, relays
  <2>3. published' \subseteq Event
    BY <1>2, <1>4 DEF Signatures
  <2> QED BY <2>2, <2>3 DEF Signatures
<1>7. \A d \in Client : storage[d] \subseteq storage'[d]
  BY <1>4 DEF Signatures, Holding
<1>8. Durable'
  <2>1. \A f \in Engine : publishing'[f] \subseteq storage'[OwnerOf[f]]
    BY <1>1, <1>4, <1>7, SyncAssumption
       DEF Signatures, Holding, Durable, MemoryIsStored, c
  <2> QED BY <1>4, <1>7, <2>1, SyncAssumption DEF Durable, MemoryIsStored
<1>9. AuthorsCanShow'
  <2>1. \A d \in Client : storage'[d] \subseteq published'
    BY <1>4 DEF Signatures, Holding
  <2>2. \A x, y \in published' : x.id = y.id => x = y
    <3>1. \A x \in published : x.id # id
      BY <1>4 DEF Ids
    <3> QED BY <1>3, <1>4, <3>1 DEF AuthorsCanShow, EX!Sound
  <2>3. ASSUME NEW x \in published'
        PROVE  /\ x \in storage'[x.author]
               /\ x \in EX!Grafts(x.id, x.author, storage'[x.author])
    <3>1. CASE x = event
      <4>1. storage'[c] = storage[c] \cup {event}
        BY <1>1, <1>4 DEF Signatures, Holding
      <4> QED BY <1>2, <1>3, <3>1, <4>1 DEF EX!Grafts
    <3>2. CASE x \in published
      <4>1. /\ x \in storage[x.author] /\ x.author \in Client
            /\ x \in EX!Grafts(x.id, x.author, storage[x.author])
        BY <3>2 DEF AuthorsCanShow, EX!Sound, Signatures, Event
      <4> QED BY <1>7, <4>1 DEF EX!Grafts
    <3> QED BY <1>4, <3>1, <3>2
  <2> QED BY <2>1, <2>2, <2>3 DEF AuthorsCanShow, EX!Sound
<1> QED BY <1>5, <1>6, <1>8, <1>9

-----------------------------------------------------------------------------
(* The theorems.                                                           *)

LEMMA InvInit == Init => Inv
<1> SUFFICES ASSUME Init PROVE Inv
  OBVIOUS
<1>1. Machinery
  BY DEF Init, Machinery
<1>2. Signatures
  BY DEF Init, Signatures, Holding
<1>3. Durable
  BY DEF Init, Durable, MemoryIsStored, Range
<1>4. AuthorsCanShow
  BY DEF Init, AuthorsCanShow, EX!Sound
<1> QED BY <1>1, <1>2, <1>3, <1>4 DEF Inv

LEMMA InvNext == Inv /\ [Next]_vars => Inv'
<1> SUFFICES ASSUME Inv, [Next]_vars PROVE Inv'
  OBVIOUS
<1>1. ASSUME NEW e \in Engine,
             \/ Start(e)
             \/ Disconnect(e)
             \/ \E urls \in RelaySets : SetRelays(e, urls)
             \/ \E id \in Id : Publish(e, id)
             \/ FinishPublish(e)
             \/ FinishIngest(e)
             \/ \E entries \in SUBSET published : ImportLog(e, entries)
      PROVE  Inv'
  BY <1>1, StartKeeps, DisconnectKeeps, SetRelaysKeeps, PublishKeeps,
     AnnouncedKeeps, IngestedKeeps, ImportLogKeeps DEF FinishPublish, FinishIngest
<1>2. ASSUME NEW k \in Conn,
             \/ Accept(k)
             \/ TurnAway(k)
             \/ ConnectFails(k)
             \/ LoseLink(k)
             \/ OnClose(k)
             \/ Reconnect(k)
             \/ OnMessage(k)
             \/ RelayReceives(k)
             \/ WindowPasses(k)
      PROVE  Inv'
  BY <1>2, AcceptKeeps, TurnAwayKeeps, ConnectFailsKeeps, LoseLinkKeeps,
     OnCloseKeeps, ReconnectKeeps, OnMessageKeeps, RelayRejectsKeeps, RelayAnnouncesKeeps,
     RelayAnswersKeeps, WindowPassesKeeps DEF RelayReceives
<1>3. ASSUME NEW c \in Client, CloseTab(c) PROVE Inv'
  BY <1>3, CloseTabKeeps
<1>4. ASSUME NEW r \in Relay, Expire(r) \/ RestartRelay(r) PROVE Inv'
  BY <1>4, ExpireKeeps, RestartRelayKeeps
<1>5. CASE UNCHANGED vars
  <2>1. UNCHANGED contents
    BY <1>5 DEF vars, contents, memory, relays
  <2>2. Machinery'
    BY <1>5 DEF Inv, Machinery, vars, memory, sockets, relays
  <2> QED BY <2>1, <2>2, NothingMoved
<1> QED BY <1>1, <1>2, <1>3, <1>4, <1>5 DEF Next

LEMMA InvHolds == Spec => []Inv
BY InvInit, InvNext, PTL DEF Spec

\* Whatever is lost, delayed, restarted or switched, and however many engines
\* share a disk, every log, queue, message and buffer holds well-formed events
\* and every socket is in a state its handlers know.
THEOREM TypeCorrect == Spec => []TypeOK
BY InvHolds, InvType, PTL

\* Nothing an engine shows, signs upon or announces is lost when its tab closes:
\* it was appended to the log on disk before (publish, ingestRemote).
THEOREM CrashTakesNothingBack == Spec => []MemoryIsStored
<1>1. Inv => MemoryIsStored
  BY DEF Inv, Durable
<1> QED BY <1>1, InvHolds, PTL

\* Every event anywhere was signed under an id of its own, by an author who has
\* it on disk together with a parent one step below it (publish).
THEOREM AncestryIsKept == Spec => []AuthorsCanShow
<1>1. Inv => AuthorsCanShow
  BY DEF Inv
<1> QED BY <1>1, InvHolds, PTL

-----------------------------------------------------------------------------
(* The refinement.                                                         *)

\* Storing a batch is learning.
LEMMA LearningSteps ==
  ASSUME Inv, NEW c \in Client, NEW S \in SUBSET published,
         UNCHANGED published, storage' = [storage EXCEPT ![c] = @ \cup S]
  PROVE  EX!Next
BY DEF EX!Next, EX!Learn

\* Every step of the engines and relays is one of Exchange, or none.
LEMMA NextImplements == Inv /\ [Next]_vars => [EX!Next]_(EX!vars)
<1> SUFFICES ASSUME Inv, [Next]_vars PROVE [EX!Next]_(EX!vars)
  OBVIOUS
<1> USE DEF Inv
<1>1. ASSUME NEW e \in Engine, NEW id \in Id, Publish(e, id) PROVE EX!Next
  <2>1. OwnerOf[e] \in Client
    BY SyncAssumption
  <2>2. local[e] \subseteq storage[OwnerOf[e]] /\ storage[OwnerOf[e]] \in SUBSET Event
    BY <2>1 DEF Durable, MemoryIsStored, Signatures, Holding
  <2>3. Signed(e, id) \in EX!Grafts(id, OwnerOf[e], storage[OwnerOf[e]])
    BY <2>2, SignedGrafts
  <2>4. /\ id \notin EX!Ids(published)
        /\ published' = published \cup {Signed(e, id)}
        /\ storage' = [storage EXCEPT ![OwnerOf[e]] = @ \cup {Signed(e, id)}]
    BY <1>1 DEF Publish, Ids, EX!Ids
  <2>5. EX!Publish(OwnerOf[e])
    BY <2>3, <2>4 DEF EX!Publish
  <2> QED BY <2>1, <2>5 DEF EX!Next
<1>2. ASSUME NEW e \in Engine, NEW events \in ingesting[e], Ingested(e, events)
      PROVE  EX!Next
  <2>1. OwnerOf[e] \in Client /\ events \subseteq published
    BY SyncAssumption DEF Signatures, Holding
  <2> QED BY <1>2, <2>1, LearningSteps DEF Ingested
<1>3. ASSUME NEW e \in Engine, NEW entries \in SUBSET published, ImportLog(e, entries)
      PROVE  EX!Next
  <2> DEFINE c == OwnerOf[e]
             accepted == FilterCausalClosure(entries \ storage[c], storage[c])
  <2>1. c \in Client /\ accepted \subseteq published
    BY SyncAssumption, ClosureIsSubset
  <2>2. UNCHANGED published /\ storage' = [storage EXCEPT ![c] = @ \cup accepted]
    BY <1>3 DEF ImportLog
  <2> HIDE DEF c, accepted
  <2> QED BY <2>1, <2>2, LearningSteps
<1>4. ASSUME NEW e \in Engine,
             \/ Start(e)
             \/ Disconnect(e)
             \/ \E urls \in RelaySets : SetRelays(e, urls)
             \/ FinishPublish(e)
      PROVE  UNCHANGED <<published, storage>>
  BY <1>4 DEF Start, Disconnect, SetRelays, FinishPublish, Announced, disk
<1>5. ASSUME NEW k \in Conn,
             \/ Accept(k)
             \/ TurnAway(k)
             \/ ConnectFails(k)
             \/ LoseLink(k)
             \/ OnClose(k)
             \/ Reconnect(k)
             \/ OnMessage(k)
             \/ RelayReceives(k)
             \/ WindowPasses(k)
      PROVE  UNCHANGED <<published, storage>>
  BY <1>5 DEF Accept, TurnAway, ConnectFails, LoseLink, OnClose, Reconnect,
     OnMessage, RelayReceives, RelayRejects, RelayAnnounces, RelayAnswers, WindowPasses, disk
<1>6. ASSUME NEW c \in Client, CloseTab(c) PROVE UNCHANGED <<published, storage>>
  BY <1>6 DEF CloseTab, disk
<1>7. ASSUME NEW r \in Relay, Expire(r) \/ RestartRelay(r)
      PROVE  UNCHANGED <<published, storage>>
  BY <1>7 DEF Expire, RestartRelay, disk
<1>8. CASE UNCHANGED vars
  BY <1>8 DEF vars, disk, EX!vars
<1>9. UNCHANGED <<published, storage>> => UNCHANGED EX!vars
  BY DEF EX!vars
<1> QED BY <1>1, <1>2, <1>3, <1>4, <1>5, <1>6, <1>7, <1>8, <1>9
        DEF Next, FinishIngest

\* The engines, disks and relays together do nothing but let authors sign on top
\* of their own logs and let devices learn what was signed, whatever the network,
\* the relays and the tabs do in between (sync/engine.ts, relay/src/server.ts).
THEOREM Implements == Spec => ImplementsExchange
<1>1. Init => EX!Init
  BY DEF Init, EX!Init
<1>2. Inv /\ [Next]_vars => [EX!Next]_(EX!vars)
  BY NextImplements
<1> QED BY <1>1, <1>2, InvHolds, PTL DEF Spec, ImplementsExchange, EX!Spec

-----------------------------------------------------------------------------
(* The two orders of a log.                                                *)

\* At any time only so many events have been signed.
LEMMA FinitelyMany == Spec => []IsFiniteSet(published)
<1>1. Init => IsFiniteSet(published)
  BY FS_EmptySet DEF Init
<1>2. Inv /\ [Next]_vars /\ IsFiniteSet(published) => IsFiniteSet(published)'
  <2> SUFFICES ASSUME Inv, [Next]_vars, IsFiniteSet(published)
               PROVE  IsFiniteSet(published')
    OBVIOUS
  <2>1. published' = published \/ \E e : published' = published \cup {e}
    BY NextImplements DEF EX!Next, EX!Publish, EX!Learn, EX!vars
  <2> QED BY <2>1, FS_AddElement
<1> QED BY <1>1, <1>2, InvHolds, PTL DEF Spec

LEMMA ClocksRise ==
  ASSUME Inv, IsFiniteSet(published)
  PROVE  Log(published) /\ Rising(published)
<1>1. /\ published \subseteq Event
      /\ \A c \in Client : storage[c] \subseteq published
      /\ \A e, f \in published : e.id = f.id => e = f
      /\ \A e \in published : e \in EX!Grafts(e.id, e.author, storage[e.author])
  BY DEF Inv, Signatures, AuthorsCanShow, EX!Sound
<1>2. Log(published)
  <2>1. ASSUME NEW e \in published
        PROVE  e.id \in Nat \ {None} /\ e.prevHash \in Nat /\ e.lamport \in Int
    <3>1. /\ e.id \in Id /\ e.prevHash \in Id \cup {None} /\ e.lamport \in Nat
      BY <1>1 DEF Event
    <3>2. Id \subseteq Nat \ {None} /\ None \in Nat
      BY SyncAssumption DEF None
    <3>3. e.id \in Nat \ {None} /\ e.prevHash \in Nat
      BY <3>1, <3>2
    <3>4. e.lamport \in Int
      BY <3>1
    <3> QED BY <3>3, <3>4
  <2>2. \A a, b \in published : a.id = b.id => a = b
    BY <1>1
  <2> QED BY ONLY <2>1, <2>2, IsFiniteSet(published) DEF Log
<1>3. ASSUME NEW e \in published, NEW p \in published, e.prevHash = p.id
      PROVE  p.lamport < e.lamport
  <2>1. e.author \in Client /\ p.id # None /\ p.lamport \in Nat
    BY <1>1, SyncAssumption DEF Event
  <2>2. e.prevHash # EX!None
    BY <1>3, <2>1 DEF None, EX!None
  <2>3. PICK q \in storage[e.author] : e.prevHash = q.id /\ e.lamport = q.lamport + 1
    BY <1>1, <2>2 DEF EX!Grafts
  <2>4. q = p
    BY <1>1, <1>3, <2>1, <2>3
  <2> QED BY <2>1, <2>3, <2>4
<1> QED BY <1>2, <1>3 DEF Rising

\* Whatever a device has merged, from whichever relays and files: once its log is
\* causally complete, the order the reducer applies it in (topologicalSort) is the
\* order the event list and the sync cursor go by (sortEvents, dag/index.ts).
THEOREM OneOrder == Spec => []OrdersAgree
<1>1. Inv /\ IsFiniteSet(published) => OrdersAgree
  <2> SUFFICES ASSUME Inv, IsFiniteSet(published), NEW c \in Client,
                      IsCausalClosure(storage[c])
               PROVE  TopologicalSort(storage[c]) = SortEvents(storage[c])
    BY DEF OrdersAgree
  <2>1. storage[c] \in SUBSET published
    BY DEF Inv, AuthorsCanShow, EX!Sound
  <2>2. Log(storage[c])
    BY <2>1, ClocksRise, SmallerLog
  <2>3. Rising(storage[c])
    BY <2>1, ClocksRise DEF Rising
  <2> QED BY <2>2, <2>3, SortsAgree
<1> QED BY <1>1, InvHolds, FinitelyMany, PTL

-----------------------------------------------------------------------------
(* The outbox.                                                             *)

\* What relays hold and send, a relay buffered.
Relayed ==
  /\ buffer \in [Relay -> Seq(carried)]
  /\ down \in [Conn -> Seq(Answer(carried))]

\* An engine that was not started has queued nothing and opened nothing.
Blank ==
  \A e \in Engine : status[e] = "new" =>
    /\ outbox[e] = <<>> /\ publishing[e] = {}
    /\ \A k \in ConnsOf(e) : ws[k] = "null" /\ ~timer[k]

LEMMA AnnouncingRelays ==
  ASSUME Inv, Relayed, NEW k \in Conn, RelayAnnounces(k)
  PROVE  Relayed'
<1> DEFINE msg == Head(up[k])
           C == carried \cup {msg.event}
<1>1. k[2] \in Relay /\ up[k] \in Seq(Request(published)) /\ up[k] # <<>>
  BY DEF Conn, Inv, Signatures, Holding, RelayAnnounces, HasMessage
<1>2. msg \in Request(published)
  BY <1>1, TailType
<1>3. msg \in Answer(C)
  BY <1>2 DEF RelayAnnounces, Request, Answer
<1>4. /\ buffer' = [buffer EXCEPT ![k[2]] = Buffered(@, msg.event)]
      /\ carried' = C
      /\ down' = [j \in Conn |-> IF j \in Others(k) THEN Append(down[j], msg) ELSE down[j]]
  BY DEF RelayAnnounces
<1>5. msg.event \in C /\ carried \subseteq C
  OBVIOUS
<1> HIDE DEF msg, C
<1>6. \A r \in Relay : buffer[r] \in Seq(C)
  BY <1>5, WiderSeq DEF Relayed
<1>7. Buffered(buffer[k[2]], msg.event) \in Seq(C)
  <2> DEFINE longer == Append(buffer[k[2]], msg.event)
             newest == SubSeq(longer, Len(longer) - MAX_BUFFER + 1, Len(longer))
  <2>1. buffer[k[2]] \in Seq(C) /\ longer \in Seq(C)
    BY <1>1, <1>5, <1>6
  <2>2. \/ Buffered(buffer[k[2]], msg.event) \in {buffer[k[2]], longer}
        \/ ~ (Len(longer) <= MAX_BUFFER) /\ Buffered(buffer[k[2]], msg.event) = newest
    BY DEF Buffered
  <2> HIDE DEF longer
  <2>3. MAX_BUFFER \in Nat /\ Len(longer) \in Nat
    BY <2>1, SyncAssumption
  <2>4. ~ (Len(longer) <= MAX_BUFFER) => newest \in Seq(C)
    BY <2>1, <2>3
  <2> HIDE DEF newest
  <2> QED BY <2>1, <2>2, <2>4
<1>8. buffer' \in [Relay -> Seq(C)]
  BY <1>4, <1>6, <1>7 DEF Relayed
<1>9. down' \in [Conn -> Seq(Answer(C))]
  <2>1. Answer(carried) \subseteq Answer(C)
    BY <1>5 DEF Answer
  <2> DEFINE A == Answer(C)
  <2>2. \A j \in Conn : down[j] \in Seq(A)
    BY <2>1, WiderSeq DEF Relayed
  <2>3. msg \in A
    BY <1>3
  <2> HIDE DEF A
  <2>4. \A s \in Seq(A) : Append(s, msg) \in Seq(A)
    BY <2>3
  <2>5. down' \in [Conn -> Seq(A)]
    BY <1>4, <2>2, <2>4
  <2> QED BY <2>5 DEF A
<1> QED BY <1>4, <1>8, <1>9 DEF Relayed

LEMMA AnsweringRelays ==
  ASSUME Relayed, NEW k \in Conn, RelayAnswers(k)
  PROVE  Relayed'
<1> DEFINE batch == SyncBatch(After(Range(buffer[k[2]]), Head(up[k]).since))
<1>1. batch \in Answer(carried)
  <2>1. k[2] \in Relay /\ Range(buffer[k[2]]) \subseteq carried
    BY DEF Conn, Relayed, Range
  <2>2. After(Range(buffer[k[2]]), Head(up[k]).since) \subseteq carried
    BY <2>1 DEF After
  <2> QED BY <2>2 DEF SyncBatch, Answer
<1>2. down' = [down EXCEPT ![k] = Append(@, batch)] /\ UNCHANGED <<buffer, carried>>
  BY DEF RelayAnswers
<1> HIDE DEF batch
<1>3. down' \in [Conn -> Seq(Answer(carried))]
  BY <1>1, <1>2 DEF Relayed
<1> QED BY <1>2, <1>3 DEF Relayed

LEMMA RelayedNext ==
  ASSUME Inv, Relayed, [Next]_vars
  PROVE  Relayed'
<1>1. \A T, s : s \in Seq(T) /\ s # <<>> => Tail(s) \in Seq(T)
  OBVIOUS
<1>2. ASSUME UNCHANGED <<buffer, carried, down>> PROVE Relayed'
  BY <1>2 DEF Relayed
<1>3. ASSUME NEW e \in Engine,
             \/ Start(e)
             \/ Disconnect(e)
             \/ \E urls \in RelaySets : SetRelays(e, urls)
             \/ \E id \in Id : Publish(e, id)
             \/ FinishPublish(e)
             \/ FinishIngest(e)
             \/ \E entries \in SUBSET published : ImportLog(e, entries)
      PROVE  Relayed'
  BY <1>2, <1>3 DEF Start, Disconnect, SetRelays, Publish, FinishPublish, Announced,
     FinishIngest, Ingested, ImportLog, wires, relays
<1>4. ASSUME NEW k \in Conn,
             \/ ConnectFails(k)
             \/ Reconnect(k)
             \/ RelayRejects(k)
             \/ WindowPasses(k)
      PROVE  Relayed'
  BY <1>2, <1>4 DEF ConnectFails, Reconnect, RelayRejects, WindowPasses, wires, relays
<1>5. ASSUME NEW k \in Conn, Accept(k) \/ TurnAway(k) \/ LoseLink(k) \/ OnClose(k)
      PROVE  Relayed'
  <2>1. UNCHANGED <<buffer, carried>> /\ down' = [down EXCEPT ![k] = <<>>]
    BY <1>5 DEF Accept, TurnAway, OnOpen, LoseLink, OnClose, relays
  <2> QED BY <2>1 DEF Relayed
<1>6. ASSUME NEW k \in Conn, OnMessage(k) PROVE Relayed'
  <2>1. /\ UNCHANGED <<buffer, carried>> /\ down[k] # <<>>
        /\ down' = [down EXCEPT ![k] = Tail(@)]
    BY <1>6 DEF OnMessage, relays
  <2>2. Tail(down[k]) \in Seq(Answer(carried))
    BY <1>1, <2>1 DEF Relayed
  <2> QED BY <2>1, <2>2 DEF Relayed
<1>7. ASSUME NEW c \in Client, CloseTab(c) PROVE Relayed'
  <2>1. /\ UNCHANGED <<buffer, carried>>
        /\ down' = [k \in Conn |-> IF OwnerOf[k[1]] = c THEN <<>> ELSE down[k]]
    BY <1>7 DEF CloseTab
  <2> DEFINE A == Answer(carried)
  <2>2. down \in [Conn -> Seq(A)] /\ <<>> \in Seq(A)
    BY DEF Relayed
  <2> HIDE DEF A
  <2>3. down' \in [Conn -> Seq(A)]
    BY <2>1, <2>2
  <2> QED BY <2>1, <2>3 DEF Relayed, A
<1>8. ASSUME NEW r \in Relay, Expire(r) PROVE Relayed'
  <2>1. /\ UNCHANGED <<down, carried>> /\ buffer[r] # <<>>
        /\ buffer' = [buffer EXCEPT ![r] = Tail(@)]
    BY <1>8 DEF Expire, wires
  <2>2. Tail(buffer[r]) \in Seq(carried)
    BY <1>1, <2>1 DEF Relayed
  <2> QED BY <2>1, <2>2 DEF Relayed
<1>9. ASSUME NEW r \in Relay, RestartRelay(r) PROVE Relayed'
  <2>1. /\ carried' = carried /\ buffer' = [buffer EXCEPT ![r] = <<>>]
        /\ down' = [k \in Conn |-> IF k[2] = r THEN <<>> ELSE down[k]]
    BY <1>9 DEF RestartRelay
  <2> DEFINE A == Answer(carried)
  <2>2. down \in [Conn -> Seq(A)] /\ <<>> \in Seq(A)
    BY DEF Relayed
  <2> HIDE DEF A
  <2>3. down' \in [Conn -> Seq(A)]
    BY <2>1, <2>2
  <2>4. buffer' \in [Relay -> Seq(carried)]
    BY <2>1 DEF Relayed
  <2> QED BY <2>1, <2>3, <2>4 DEF Relayed, A
<1>10. CASE UNCHANGED vars
  BY <1>2, <1>10 DEF vars, wires, relays
<1> QED BY <1>3, <1>4, <1>5, <1>6, <1>7, <1>8, <1>9, <1>10, AnnouncingRelays,
           AnsweringRelays DEF Next, RelayReceives

LEMMA BlankNext ==
  ASSUME Inv, Blank, [Next]_vars
  PROVE  Blank'
<1> USE DEF Blank, ConnsOf
<1>1. ASSUME NEW e \in Engine,
             \/ Start(e)
             \/ Disconnect(e)
             \/ \E urls \in RelaySets : SetRelays(e, urls)
             \/ \E id \in Id : Publish(e, id)
             \/ FinishPublish(e)
             \/ FinishIngest(e)
             \/ \E entries \in SUBSET published : ImportLog(e, entries)
      PROVE  Blank'
  <2>1. /\ status \in [Engine -> {"new", "started", "stopped"}]
        /\ outbox \in [Engine -> Seq(published)]
        /\ publishing \in [Engine -> SUBSET published]
    BY DEF Inv, Machinery, Signatures, Holding
  <2>2. CASE Start(e)
    BY <2>1, <2>2 DEF Start
  <2>3. CASE Disconnect(e)
    BY <2>1, <2>3 DEF Disconnect
  <2>4. CASE \E urls \in RelaySets : SetRelays(e, urls)
    <3>1. UNCHANGED <<status, outbox, publishing>> /\ status[e] = "started"
      BY <2>4 DEF SetRelays, memory
    <3>2. \A k \in Conn : k[1] # e => ws'[k] = ws[k] /\ (timer'[k] => timer[k])
      BY <2>4 DEF SetRelays
    <3> QED BY <3>1, <3>2
  <2>5. CASE \E id \in Id : Publish(e, id)
    BY <2>1, <2>5 DEF Publish, sockets
  <2>6. CASE FinishPublish(e)
    BY <2>1, <2>6 DEF FinishPublish, Announced, sockets
  <2>7. CASE FinishIngest(e)
    BY <2>7 DEF FinishIngest, Ingested, sockets
  <2>8. CASE \E entries \in SUBSET published : ImportLog(e, entries)
    BY <2>8 DEF ImportLog, sockets
  <2> QED BY <1>1, <2>2, <2>3, <2>4, <2>5, <2>6, <2>7, <2>8
<1>2. ASSUME NEW k \in Conn,
             \/ Accept(k)
             \/ TurnAway(k)
             \/ ConnectFails(k)
             \/ LoseLink(k)
             \/ OnClose(k)
             \/ Reconnect(k)
             \/ OnMessage(k)
             \/ RelayReceives(k)
             \/ WindowPasses(k)
      PROVE  Blank'
  <2>1. /\ k[1] \in Engine
        /\ ws \in [Conn -> {"null", "connecting", "open", "closing"}]
        /\ timer \in [Conn -> BOOLEAN]
        /\ outbox \in [Engine -> Seq(published)]
    BY DEF Inv, Machinery, Signatures, Holding, Conn
  <2>2. ws[k] # "null" \/ timer[k] => status[k[1]] # "new"
    BY <2>1
  <2>3. CASE Accept(k) \/ TurnAway(k)
    <3>1. /\ UNCHANGED <<status, outbox, publishing, timer>>
          /\ ws[k] = "connecting" /\ ws' = [ws EXCEPT ![k] = "open"]
      BY <2>3 DEF Accept, TurnAway, OnOpen, memory
    <3> QED BY <2>1, <2>2, <3>1
  <2>4. CASE ConnectFails(k)
    BY <2>1, <2>2, <2>4 DEF ConnectFails, memory
  <2>5. CASE OnClose(k)
    BY <2>1, <2>2, <2>5 DEF OnClose, memory
  <2>6. CASE Reconnect(k)
    BY <2>1, <2>2, <2>6 DEF Reconnect, memory
  <2>7. CASE OnMessage(k)
    BY <2>1, <2>2, <2>7 DEF OnMessage, sockets
  <2>8. CASE LoseLink(k) \/ RelayReceives(k) \/ WindowPasses(k)
    BY <2>8 DEF LoseLink, RelayReceives, RelayRejects, RelayAnnounces, RelayAnswers,
       WindowPasses, memory, sockets
  <2> QED BY <1>2, <2>3, <2>4, <2>5, <2>6, <2>7, <2>8
<1>3. ASSUME NEW c \in Client, CloseTab(c) PROVE Blank'
  <2>1. \A e \in Engine :
          /\ status'[e] = IF OwnerOf[e] = c THEN "new" ELSE status[e]
          /\ outbox'[e] = IF OwnerOf[e] = c THEN <<>> ELSE outbox[e]
          /\ publishing'[e] = IF OwnerOf[e] = c THEN {} ELSE publishing[e]
    BY <1>3 DEF CloseTab
  <2>2. \A k \in Conn :
          /\ ws'[k] = IF OwnerOf[k[1]] = c THEN "null" ELSE ws[k]
          /\ timer'[k] => timer[k] /\ OwnerOf[k[1]] # c
    BY <1>3 DEF CloseTab
  <2> QED
    <3> SUFFICES ASSUME NEW e \in Engine, status'[e] = "new"
                 PROVE  /\ outbox'[e] = <<>> /\ publishing'[e] = {}
                        /\ \A k \in ConnsOf(e) : ws'[k] = "null" /\ ~timer'[k]
      OBVIOUS
    <3>1. CASE OwnerOf[e] = c
      BY <2>1, <2>2, <3>1
    <3>2. CASE OwnerOf[e] # c
      BY <2>1, <2>2, <3>2
    <3> QED BY <3>1, <3>2
<1>4. ASSUME NEW r \in Relay, Expire(r) \/ RestartRelay(r) PROVE Blank'
  BY <1>4 DEF Expire, RestartRelay, memory, sockets
<1>5. CASE UNCHANGED vars
  BY <1>5 DEF vars, memory, sockets
<1> QED BY <1>1, <1>2, <1>3, <1>4, <1>5 DEF Next

\* What a step takes out of the outbox of an engine that keeps running, a relay
\* had.
LEMMA ConfirmedWasCarried ==
  ASSUME Inv, Relayed, NEW k \in Conn, OnMessage(k), NEW e \in Engine
  PROVE  Range(outbox[e]) \ Range(outbox'[e]) \subseteq carried
<1> DEFINE events == EventsOf(Head(down[k]))
<1>1. k[1] \in Engine /\ outbox \in [Engine -> Seq(published)]
  BY DEF Conn, Inv, Signatures, Holding
<1>2. outbox' = [outbox EXCEPT ![k[1]] = Unconfirmed(@, events)] /\ down[k] # <<>>
  BY DEF OnMessage
<1>3. events \subseteq carried
  <2>1. Head(down[k]) \in Answer(carried)
    BY <1>2 DEF Relayed
  <2> QED BY <2>1 DEF EventsOf, Answer
<1>4. carried \subseteq published /\ \A a, b \in published : a.id = b.id => a = b
  BY DEF Inv, Signatures, Holding, AuthorsCanShow, EX!Sound
<1> HIDE DEF events
<1>5. ASSUME NEW x \in Range(outbox[e]), x \notin Range(outbox'[e]) PROVE x \in carried
  <2>1. e = k[1] /\ outbox'[e] = Unconfirmed(outbox[e], events)
    BY <1>1, <1>2, <1>5
  <2>2. x.id \in Ids(events)
    BY <1>1, <1>5, <2>1, UnconfirmedKeeps
  <2>3. x \in published
    BY <1>1 DEF Range
  <2> QED BY <1>3, <1>4, <2>2, <2>3 DEF Ids
<1> QED BY <1>5

\* Whatever is sent, lost, prunes the queue or restarts: an event leaves the outbox
\* of a running engine only if some relay buffered that very event
\* (pruneOutboxForEvents; publish and onmessage in sync/engine.ts).
THEOREM QueueIsKept == Spec => QueuedUntilCarried
<1> DEFINE Kept == \A e \in Engine : status'[e] # "new" =>
                     Range(outbox[e]) \ Range(outbox'[e]) \subseteq carried
<1>1. Init => Relayed /\ Blank
  BY DEF Init, Relayed, Blank, ConnsOf
<1>2. ASSUME Inv, Relayed, Blank, [Next]_vars PROVE Kept
  <2>1. ASSUME outbox' = outbox PROVE Kept
    BY <2>1 DEF Range
  <2>2. outbox \in [Engine -> Seq(published)]
    BY <1>2 DEF Inv, Signatures, Holding
  <2>3. ASSUME NEW e \in Engine, Start(e) PROVE Kept
    <3>1. Range(outbox[e]) = {}
      BY <1>2, <2>3 DEF Blank, Start, Range
    <3>2. \A f \in Engine : f # e => outbox'[f] = outbox[f]
      BY <2>2, <2>3 DEF Start
    <3>3. \A f \in Engine : f # e => Range(outbox[f]) \ Range(outbox'[f]) = {}
      BY <3>2 DEF Range
    <3> QED BY <3>1, <3>3
  <2>4. ASSUME NEW e \in Engine, FinishPublish(e) PROVE Kept
    <3>1. PICK event \in publishing[e] : Announced(e, event)
      BY <2>4 DEF FinishPublish
    <3>2. \A f \in Engine : outbox'[f] \in {outbox[f], Append(outbox[f], event)}
      BY <2>2, <3>1 DEF Announced
    <3>3. ASSUME NEW f \in Engine PROVE Range(outbox[f]) \subseteq Range(outbox'[f])
      <4>1. event \in published /\ outbox[f] \in Seq(published)
        BY <1>2, <2>2, <3>1 DEF Inv, Signatures, Holding
      <4>2. DOMAIN outbox[f] \subseteq DOMAIN outbox'[f]
            /\ \A i \in DOMAIN outbox[f] : outbox'[f][i] = outbox[f][i]
        <5>1. outbox'[f] = outbox[f] \/ outbox'[f] = Append(outbox[f], event)
          BY <3>2
        <5> QED BY <4>1, <5>1
      <4> QED BY <4>2 DEF Range
    <3> QED BY <3>3
  <2>5. ASSUME NEW c \in Client, CloseTab(c) PROVE Kept
    <3>1. \A e \in Engine :
            /\ OwnerOf[e] = c => status'[e] = "new"
            /\ OwnerOf[e] # c => outbox'[e] = outbox[e]
      BY <2>5 DEF CloseTab
    <3>2. \A e \in Engine : OwnerOf[e] # c => Range(outbox[e]) \ Range(outbox'[e]) = {}
      BY <3>1 DEF Range
    <3> QED BY <3>1, <3>2
  <2>6. ASSUME NEW e \in Engine,
             \/ Disconnect(e)
             \/ \E urls \in RelaySets : SetRelays(e, urls)
             \/ \E id \in Id : Publish(e, id)
             \/ FinishIngest(e)
             \/ \E entries \in SUBSET published : ImportLog(e, entries)
        PROVE Kept
    <3>1. outbox' = outbox
      BY <2>6 DEF Disconnect, SetRelays, Publish, FinishIngest, Ingested, ImportLog, memory
    <3> QED BY <2>1, <3>1
  <2>7. ASSUME NEW k \in Conn, ~ OnMessage(k),
             \/ Accept(k)
             \/ TurnAway(k)
             \/ ConnectFails(k)
             \/ LoseLink(k)
             \/ OnClose(k)
             \/ Reconnect(k)
             \/ OnMessage(k)
             \/ RelayReceives(k)
             \/ WindowPasses(k)
        PROVE Kept
    <3>1. outbox' = outbox
      BY <2>7 DEF Accept, TurnAway, ConnectFails, LoseLink, OnClose, Reconnect,
         RelayReceives, RelayRejects, RelayAnnounces, RelayAnswers, WindowPasses, memory
    <3> QED BY <2>1, <3>1
  <2>8. ASSUME NEW r \in Relay, Expire(r) \/ RestartRelay(r) PROVE Kept
    <3>1. outbox' = outbox
      BY <2>8 DEF Expire, RestartRelay, memory
    <3> QED BY <2>1, <3>1
  <2>9. CASE UNCHANGED vars
    <3>1. outbox' = outbox
      BY <2>9 DEF vars, memory
    <3> QED BY <2>1, <3>1
  <2>10. ASSUME NEW k \in Conn, OnMessage(k) PROVE Kept
    BY <1>2, <2>10, ConfirmedWasCarried
  <2> HIDE DEF Kept
  <2> QED BY <1>2, <2>3, <2>4, <2>5, <2>6, <2>7, <2>8, <2>9, <2>10 DEF Next
<1>3. Inv /\ Relayed /\ Blank /\ [Next]_vars => Relayed' /\ Blank'
  BY RelayedNext, BlankNext
<1>4. Inv /\ Relayed /\ Blank /\ [Next]_vars => [Kept]_vars
  BY <1>2
<1> QED BY <1>1, <1>3, <1>4, InvHolds, PTL DEF Spec, QueuedUntilCarried
=============================================================================
