# AethelOS: a verification project in TLA+

AethelOS is a ledger for small communities ("Cells"). Every member keeps a full
log of signed events; a deterministic reducer folds the log into a *Pool*: who is
a member, what everybody's Share is, who vouched for whom, which proposals stand,
how points flow. Relays only carry events. Whether the community's promises hold
— no point lost, nobody admitted without a bond, one vote per soul, value crossing
to another Cell once — is decided by the reducer alone. Whether the members agree on
the log, whether what a browser shows is that log, whether money crosses to the next
Cell on its own, and whether the node that signs is the one on the screen, is decided
by what surrounds it. The project models both.

Paths below are relative to `packages/`.

## 1. Inventory

| Component | State | Operations | Meets the others through | Hard part |
|---|---|---|---|---|
| Reducer `core/src/reducer` | one `PoolState` record of some thirty maps | one handler per event type, `reduceOneSync` around them | called by controller, worker, mirror, snapshots | long sequences of legal events; hand-written pruning; timestamps out of order |
| Economy `core/src/economy` | none | accrual, proportional decay, redistribution, transfer, mint, Vouch Liens | called by the reducer | rounding, caps, remainders |
| Governance `core/src/governance` | none | routing of commons to child Cells, who may propose or close | called by the reducer | rounding, remainders |
| DAG `core/src/dag` | none | total order, topological order, causal closure | feeds the reducer | order when replicas hold different sets |
| Snapshots `core/src/reducer/snapshot.ts` | a Pool and a prefix | resumed reduction | controller, worker | an event that sorts before the checkpoint |
| Relay server `relay/src/server.ts` | buffer per namespace, sockets, rate windows | announce, `request_sync`, eviction | sockets of the sync engines | cursor, loss, restart, limits |
| Sync engine `client/src/sync/engine.ts` | local events, outbox, one connection per relay | publish, ingest, flush, reconnect, change relays | relay, storage, controller | half-open sockets, awaits, reconnection, restart |
| Storage `client/src/storage` | events, outbox, keys | append, load, import, unlock | sync engine, store | crash between two writes |
| Controller and worker `client/src/node` | last Pool, sequence numbers, checkpoints, waiters, relay choice | recompute, follow the ledger's relays, wait for confirmation | sync engine, worker, mirror, store | answers out of order, a worker that fails |
| Bridge mirror `client/src/node/bridge-mirror.ts` and its tasks in the controller | set of mirrored ids, flushed and bridged proposals | copy own deliveries to the child, flush escrow, execute approved transfers | two ledgers | crash between three publications, overlapping tasks |
| Store `client/src/app/store.ts` and screens | session, key, node in use, calls under way | create, unlock, lock, found, join, spawn, return, recover | controller, key store, browser storage | everything awaits; the user does not |
| Desktop shell `client-tauri/.../local_node.rs` | child processes, public address | start, stop, status, waiter threads | store, ledger | a thread outliving its node, a page outliving neither |
| Federation reader `client/src/node/federation-reader.ts` | replicas of linked namespaces | sync, ensure | store | none that decides anything |
| Crypto, schema, points, links | none | sign, hash, validate, parse | everything | pure functions |

What makes each correct:

* **Reducer, economy, governance** — conservation of points; every instant of log
  time charged once; liens, invitations and memberships in step; tallies equal to
  the votes; standing lost and given back only by a vote; escrow never overdrawn;
  one delivery per approved transfer; Head chosen by others; the law a mean of
  what people say; one mailbox per member.
* **DAG, snapshots** — the order respects ancestry and depends on the set of events
  only; resumed reduction equals replay from genesis and reports every rejection.
* **Relay, sync, storage** — logs grow by nothing but what somebody published on top
  of an event it could show; what is shown is on disk; nothing leaves the outbox of a
  running engine unconfirmed; in the end what is queued is confirmed, if some relay
  has room for the burst, and what a relay holds arrives, if no cursor is past it.
* **Controller** — the Pool shown is that of a log the node had, never of an older one
  than before, and in the end of the latest; the relays follow the ledger; nobody
  waits for what is already there and was told.
* **Mirror** — what counts as mirrored was delivered, once per controller; what is
  approved is carried through; no more arrives than left.
* **Store** — the node on the screen runs, no other one signs, and the session the
  browser comes back to names a community that exists.
* **Hosting** — off means off; the address shown and published is the one that
  answers, as long as the reducer takes what the page publishes.

The hazards, each at its line and with the properties that watch it, are in
`PROJECT.json`.

## 2. Modules

| Module | Models | Extends |
|---|---|---|
| `PoolState` | `reducer/state.ts`: the Pool record and every query on it | — |
| `Economy` | `economy/index.ts`, routing of `governance/index.ts` | `PoolState` |
| `Pool` | `reducer/index.ts`: one action per event type; the properties | `Economy` |
| `Client` | the pages of `client/src/features` and the checks of `app/store.ts` before an event is published | `Pool` |
| `Dag` | `dag/index.ts`: the orders and closures of event logs | — |
| `Exchange` | what event exchange promises, abstractly | `Dag` |
| `Sync` | `sync/engine.ts`, its storage, and `relay/src/server.ts`, composed | `Dag`, instance of `Exchange` |
| `Controller` | `node/controller.ts`, `reducer.worker.ts`, `snapshot.ts`, `active-relays.ts` | `Dag` |
| `Mirror` | the bridge tasks of the controller, `bridge-mirror.ts`, two ledgers | — |
| `Store` | `app/store.ts`, key store, session storage, the screens | — |
| `Hosting` | `local_node.rs`, hosting in `app/store.ts`, `connectivity.ts` | — |
| `MCPool`, `MCSync`, `MCController`, `MCMirror`, `MCStore`, `MCHosting` | constants and starting states for TLC | the module each is named for (`MCPool`: `Client`) |
| `Lemmas` | proofs: induction over numbers, recursive functions, the orders of event logs | `Dag` |
| `PoolProofs` | proofs: the operators of the Pool one by one, sums, types | `Pool`, instance of `Lemmas` |
| `PoolSafety` | proofs: safety of the Pool, what no event may do, conservation, the law, flushes, the pages | `PoolProofs`, `Client` |
| `SyncProofs` | proofs: types, durability, ancestry, the queue, one order, `Sync` implements `Exchange` | `Sync`, `Lemmas` |
| `ControllerProofs` | proofs: what is shown is a replay, rejections, relays, waiters, the order of reduction | `Controller`, `Lemmas` |
| `MirrorProofs` | proofs: what is marked was delivered, once per controller | `Mirror`, `Lemmas` |
| `StoreProofs` | proofs: the node shown, the nodes that sign, where a session leads | `Store` |
| `HostingProofs` | proofs: off means off, the address shown and published | `Hosting` |

The layers meet in what one takes for granted of the other. `Sync` hands the
`Controller` a log that grows by causally ordered or unordered sets of events
(`Learn`); the `Controller` folds it with any reducer that may turn an event down
because of those before it, which `Pool` is one of; `Mirror` takes from `Pool` how a
`bridge_transfer` is created, voted, executed and delivered, and from `Controller`
when a task is prompted; `Store` starts and stops the controllers, and `Hosting`
what a hosting desktop adds to that.

### The Pool

The variable `pool` is the code's `PoolState`, field by field and with its names;
`released` is a history variable, the points bridges sent out. An action has the
shape of the code: the checks of `reduceOneSync` (`Admissible`), the guards of the
handler, its outcome as an operator named for it (`Invited`, `Joined`, `Expelled`,
`Voted`...), and `Commit`, which counts the event, advances the clock of the log,
accrues decay and runs the redistribution that has come due. A rejected event leaves
the Pool unchanged, so it is no step at all. Author, timestamp and payload of an
event are arbitrary members of the sets given as constants: any order of legal events
is explored, including timestamps that run backwards.

* Public keys are `1..N` in the order of their hexadecimal form (the code sorts by
  it), namespaces `1..M`, `0` is null/undefined. Proposal ids `1..N` are the ids
  `admit:<key>`; a member may also create proposals under them, as in the code.
* `members`, `parentSuperstructures` and `childCells` are arrays without duplicates
  whose order matters (the last one gets the remainder); the model records each
  element's position.
* Slider averages are floating-point in the code and exact ratios here; slider rows
  hold whole, nonnegative numbers. (The code clamps sliders, but takes the rows of
  genesis, invitations, relays and joined parents as they come; the decay slider
  also keeps one decimal.)
* An absent slider row is one at its default; nothing reads the row of a key that is
  not a member. Fields the reducer never reads back (`fractures`, `epochNumber`,
  `lastActiveEvent`, `cellName`) are left out.
* Ties between top candidates for Head are broken by insertion order in the code, by
  an arbitrary fixed choice (`CHOOSE`) here.
* `MaybeRedistribute` replaces the catch-up loop by its result: the first cycle
  either empties the commons or finds nobody eligible, and the others, at most
  `MAX_REDISTRIBUTION_CATCHUP` in all, only advance the clock.

### Client

`Client` adds no state: the pages are functions of the Pool they show. An operator
`Offers...` is the condition under which a page shows the control and the store lets
the input through, `Takes...` of `Pool` the reducer's verdict on the event it
publishes, and `OfferedIsAccepted` compares the two in every Pool the runs reach, for
every soul and input. The comparison is exact: where the two differ, the property says
on what (a join code that is a member's or somebody else's, a community that filled
up, a frozen member, a namespace that is not linked, a transfer whose amount is none,
an author who is no member): neither the card nor `store.bridgeEscrow` parses the
amount of a transfer, the reducer does. The event carries the present time, which is
that of the log here, so that the reducer's refusal of what is stamped too long after
the last event is never compared; the decay slider of the page and the text of
messages are left out.

### Sync

State is split as in the code: what a device has on disk (`storage`, `saved`), what an
engine object has in memory (`local`, `outbox`, `status`), what an `await` holds
(`publishing`, `ingesting`), the connection objects (`listed`, `ws`, `timer`), the
messages on the wires, the relays. Every event handler is an action that runs to its
first `await`, and what follows the `await` another one: `Publish` reads the log,
signs and appends, `FinishPublish` announces or queues; `OnMessage` prunes the outbox
and selects what is new, `FinishIngest` merges. `onclose` of a socket whose
connection was dropped still runs. A link can be lost in both directions at any time
(messages on it vanish; each side notices in its own time), a tab can be closed, a
relay can restart with an empty buffer, evict, drop what exceeds its rate, or be full:
then it completes the handshake and closes, so that `onopen` runs and writes to a
socket nobody reads (`TurnAway`). `carried` and `cut` are history variables: the events
some relay had, and whether a relay dropped a message of the present socket.
An engine has one connection object per relay: a relay that is removed and added
again is modelled once the old object is done (`Free`). Forged or malformed events,
which `verifyEventSync` drops, are not sent.

### Controller

`history` is the set of events that exist, `log` what the engine gives out. A
reduced state is the sequence of the ids it accepted, which determines it whatever
the reducer; `Accepts` is the reducer's verdict. A checkpoint keeps `prefixHash` as
the sequence it hashes. `requests` and `answers` are the two message queues of the
worker; terminating it drops them. The engine's outbox changes, is written, and then
the status is told (`OutboxMoves`, `OutboxSaved`); a write that fails is not followed
by a status, and `mute` says so until the next one. An operation reduces the log again
once it has published (`RecomputeOnceMore`). `MailboxAuthors` is the map of mailboxes
that a state holds: a contribution replaces the mailbox of its author (`Signer`); who
may contribute, and how many fit, belong to the verdict of `Accepts`. `shown` and
`told` are history variables: the log the shown state was reduced from, and the
rejections that were reported. The operations that only build a payload and publish
it are inputs here.

### Mirror

The origin is a log of the events a transfer is made of, folded by `Origin` as
`Pool` does (`Fund`, `Propose`, vote, deliver); the destination keeps what it
credited. A task of a controller is at one of the awaits of `maybeMirrorBridges`;
each publication may fail, which ends the task. Everybody here bridges both sides,
and an event takes effect in the order it was signed.

### Store and Hosting

An operation that awaits is a call with a record of where it is; the rest of the
store can change between its steps, and a step reads what the code reads then, not
what it read before. `Store` has the disk (`vault`, `savedSession`, `parent`), the
store's fields and the nodes that were created with their status; which page of the
onboarding wizard is open is left out, so everything its phase can offer is offered.
A desktop that hosts saves the session when its node starts (`store.ts:1120`, `339`),
before the genesis of a community it founds is published (`532`); without hosting the
session is saved once the genesis is there. `cutOff` is a history variable, the
communities whose founding a page load cut off.

In `Hosting` the nodes the shell starts are numbered and a tunnel's address is the
number of its node, since a quick tunnel draws a new name every time. `mine` is the
mailbox of this identity on the ledger, of which there is one: a contribution
replaces the one before. The page does not read the ledger but the state it was last
given (`seen`), which lags behind by a reduction: `unseen` holds what it has yet to
see. The reducer may refuse any contribution and any revocation (a frozen or expelled
author, one not yet admitted, an event stamped too long after the last one, a ninth
mailbox), and the page goes on all the same. History variables say which premise of a
property was left: `impatient` (in `Store`: an operation begun while another was
pending), `hasty` (hosting switched off while something else was under way, or by a
page behind the ledger), `strays` (addresses a waiter thread put into a node that is
not theirs), `lapsed` (addresses whose contribution failed, was refused, or was passed
over for want of a state), `denied` (addresses whose last revocation was refused).

## 3. What TLC checks

| Run | Shows | Bounds |
|---|---|---|
| `members` | From genesis through eight events, or in a Pool of three with an approved guest through five: admission, votes in both directions, overspending and freezing, release, expulsion, return, elections. Types, liens against invitations, standing, tallies, pledges, approvals, Heads; what the pages offer is what the reducer accepts. | 4 keys of which 2 can be invited, a cap of 3 members, one instant; bond rate 40 % in the genesis so that a second lien does not fit |
| `circulation` | Accrual and flushes with late, early and equal timestamps, an overspender and a moved interval: clocks in step, flushes only to eligible souls. | 3 keys, instants 1, 2, 4, a skew of 2, a year short enough that one step collects whole units and leaves a fraction |
| `federation` | Deliveries in and out, up and down, twice, and after leaving the parent, while parents are joined and left, children linked, sliders relayed, mailboxes published: points conserved, proposals in order, one delivery per approval, the law a mean; the cards of linked chapters propose what the reducer accepts. | 3 keys, 2 namespaces, 5 events |
| `sync` | Half-open sockets, crashes, restarts, eviction, a full relay, a full outbox, a rate of two messages: `Sync` implements `Exchange`, memory is on disk, the outbox of a running engine keeps what no relay had, the orders agree. | 2 devices, 1 relay, 2 events, an outbox and a buffer of one, 1 disturbance |
| `drain` | What is queued is confirmed in spite of faults, unless the burst of a flush exceeds what the relay takes; what a relay holds reaches every running engine, unless it sorts before what that engine has and came while it was away. | 2 devices, 1 relay, 2 events queued offline, both by one device or one by each, a rate of three messages, 1 disturbance |
| `view` | Four shapes of history, any order of arrival, with and without a worker that may fail at any time, an outbox whose write may fail. | 3 events, 3 reductions asked, 1 relay edit, 1 waiter, 1 write of the outbox under way |
| `mirror` | What is marked was delivered, and a controller delivers once. | 1 device, 2 controllers, 1 disturbance, 5 origin events |
| `carry` | What is approved is carried through. | 1 device, 1 controller with a worker, 8 origin events, 1 disturbance |
| `store` | The node shown runs, nobody else does, a saved session leads to a community that exists, or on a hosting desktop to one whose founding is under way or was cut off. | 2 keys, 2 communities, 2 nodes a load, 2 calls, 1 reload |
| `hosting` | With a reducer that refuses and a page that lags: off means off, the address lives, it is published, but for the refused, the stray and the lapsed. | 2 nodes, 2 calls |

Named bounds: `MaxEvents` and `Depth` (logs), `MaxDisturbances` (faults and
reconfigurations together: lost, refused and turned down connections, closed tabs,
relay restarts, expiry, imports, changed relays, stopped engines; in `Mirror` stops,
closed tabs, failed publications), `MaxRequests`, `MaxEdits`, `MaxSaves`,
`MaxFundings`, `MaxReloads`, `MaxStarts`, and the sets of keys, ids, calls, nodes.
They are small but let each case happen: a third person can be expelled by two others,
a lien can fail to fit, an interval can elapse more often than the catch-up allows, an
outbox is flushed into a rate limit, a cursor is evicted, two events are siblings or
arrive child first, a checkpoint is overtaken, a crash falls between any two of three
publications, a second node starts while the first one is starting, a tunnel's address
arrives after its node. Deadlock is not checked: a log may end, and users and faults
are bounded. Symmetry is used only in `store` and `hosting`, which have no liveness
properties, over sets the modules never order. Every action occurs in some run, and
every property is broken by at least one plausible mutation of the code (the `mutants`
of `PROJECT.json`, defined next to what they replace and marked `mutant`).

**Fairness.** A Pool is a fold of a log, and a log may simply end; so `Pool`, `Store`
and `Hosting` assume nothing. `Sync` assumes what event loops give (`Fairness`):
continuations of awaits run, open sockets deliver, scheduled reconnections fire and
reach the relay, a rate window passes. Nothing obliges a user to publish or a fault to
stop or to happen; `OutboxDrains` holds in spite of faults because `MaxDisturbances`
ends them. It excuses an event the relays evicted, an engine that was stopped, one
that has no relay, and one whose relays all dropped a message of the present socket: a
flush sends the whole outbox and then asks for the buffer, a relay takes a hundred
messages in a window and the outbox holds five hundred, so at the code's own defaults
the trailing `request_sync` of a large flush is dropped, and the envelopes stay queued
for as long as that connection stays up. `HeldIsDelivered` is about what a relay
holds, in spite of faults too, and not about what is published: an announcement
written to a dead socket, or dropped by the rate limit, is in no outbox and nobody
sends it again. It excuses an event that sorts before one the engine has and came to
the relay while the engine was away (`PassedBy`): the answer to the engine's cursor
leaves it out. `Controller` assumes that the worker reduces, its answers are handled
and timers fire; `Mirror` that tasks go on, answers arrive and events reach the
devices.

Two runs end in a counterexample; each shows the code doing something other than
its documents say, and neither was sought for:

| Run | Property | What happens |
|---|---|---|
| `rounding` | `PointsConserved` | Shares of a flush are rounded to the nearest basis point, the last target gets the remainder, which can be -1; when that debtor is expelled the debt is dropped and a unit exists that was never minted. |
| `free_mint` | `NoFreeMint` | An automatic flush, once approved, is delivered by `maybeAutoFlushChildEscrow` and again by `maybeExecuteApprovedBridges`; the origin rejects the second transaction, the mirror copies both. |

`PointsConserved` holds in `federation` because its amounts never meet the rounding
case. It is a theorem of the code only as long as no Share is overdrawn
(`ConservedWhileSolvent`, below), and `rounding` shows that this is needed.

## 4. What is proved

Every property of every run that is expected to pass is a theorem for every value of
the constants, but for the four liveness properties and for `PointsConserved`, which
needs a hypothesis. The assumptions are those the modules name; they say that
constants are numbers of the right sign and payloads have their types, and nothing
else unless stated. Each inductive invariant was checked by TLC before it was proved,
and each proof goes action by action, one lemma for each.

**The Pool**, for every number of keys, namespaces and proposals, every set of
timestamps, amounts and rows, under `SizeAssumption` (`PoolState`) and
`InputAssumption` (`Pool`):

* `TypeCorrect`: `Spec => []TypeOK`. Beyond shapes, this needs that averages never
  divide by zero, that an interval is positive, that a remainder always finds
  somebody to go to, that no more is collected than accrued. `PoolProofs` has one
  lemma per operator; sums are handled by `SumInt`, `SumNat`, proved from the
  definition of the recursive function by induction on an interval of numbers.
* `LiensStayMatched`, `ProposalsFollowLifecycle`, `TalliesStayTrue`,
  `ClocksStayTogether`: the invariants `LiensMatchInvitations`, `ProposalLifecycle`,
  `TalliesMatchVotes`, `ClocksAgree`. They follow from the inductive invariant
  `Sound(pool)`, which adds what they need to be inductive: before genesis nobody is
  a member or invited (else genesis, which replaces the member list, would orphan
  liens), and clocks are positive after it (else the guards `<= 0` would stop
  accrual). The proof has one lemma per group of events; `Same` collects the fields a
  handler may change without touching the invariant, and `CommittedSound` shows once
  that the bookkeeping every event ends with keeps it, for timestamps in any order. A
  vote changes one term of a tally (`VotedInOrder`, by `SumUpdate`).
* `StandingHolds`: `StandingIsMembership`, inductive with `TypeOK` and `Sound`. The
  work is in the money: decay, accrual, flush and delivery must move points only
  between members. A round of decay leaves an empty account empty
  (`DecayRoundSpares`, then `DecayFromHolders` by induction on the rounds), and the
  remainder of a flush goes to one of those who share it. An expulsion empties the
  account and removes the Head and the freeze before it removes the member.
* `HeadIsChosen`, `SupplyIsBacked`, `ApprovalHolds`, `PledgesHold`: the action
  properties `HeadChosenByOthers`, `SupplyBackedByProposal`,
  `ApprovalIsPerInvitation`, `PledgeWithinShare`, from `TypeOK` and `Sound` before
  the step. Circulation and committal touch no role and no mandate (`SameRoles`), so
  a step keeps what its handler kept (`CommitKeeps`); handlers that can forge none of
  the four are `Moderate`. An expulsion that frees a lien cannot free that of an
  approved invitation: by `Sound` no member has an invitation pending.
* `ConservedWhileSolvent`: `Spec /\ []PoolSolvent => []PointsConserved`. Every
  operator that moves points has a lemma that says what it does to the sum of all
  accounts (`AccrueEven`, `FlushEven`, `TransferEven`, `CancelledEven`...), the
  remainders of rounding included, and `Accounted` says it of a step. Two facts must
  hold along the way (`Orderly`, kept by every step): the commons owe nothing, else a
  flush would not empty them, and nobody vouches for himself, else an expulsion would
  sever the same points twice. The hypothesis, that no Share is overdrawn, is used in
  `ExpelledEven` alone.
* `FlushIsForTheLiving`: `FlushReachesEligible`, from `FlushEven`, which also says
  whom a flush leaves alone, and `Orderly`.
* `LawIsAMean`: `ParametersAreMeans`. A sum of values times weights that were all on
  one side of its quotient would not have that quotient (`MeanOfAll`); so of those
  who speak, present members, relayed children or the default for the silent, some
  are on either side (`SomebodyAgrees`, once for each sign).
* `OffersAreAccepted`: `OfferedIsAccepted` of `Client`, from `TypeOK`, `Sound` and
  `StandingIsMembership`. The case that is not a comparison of guards is a second
  invitation to the same key, which withdraws the first one before the bond is
  computed: the bond is no dearer and no less is left to pledge (`WithdrawnFits`).
  The amount of a bridge transfer is any number of units here, none included, which
  the reducer refuses and the property names.

**Sync**, for every set of devices, engines per device, relays and ids and every
limit, under `SyncAssumption`:

* `TypeCorrect`, `CrashTakesNothingBack` (`MemoryIsStored`), `AncestryIsKept`
  (`AuthorsCanShow`), and `Implements`: `Spec => ImplementsExchange`.
* The inductive invariant has four parts: `Machinery` (kinds of statuses, sockets,
  timers), `Signatures` (every place that holds events holds published ones — this is
  what makes a batch from a relay a legal `Learn`), `Durable` (what memory holds is on
  disk, which needs the same of what awaits hold and of the saved outbox) and
  `AuthorsCanShow`. `Publish` is the step that matters: the new event is one step
  above an event of the engine's memory, which `Durable` puts on the disk of its
  device. Every other step adds published events to a log or leaves it alone, and maps
  to `Learn` or a stutter.
* `OneOrder`: `OrdersAgree`. By `Implements` only finitely many events are ever
  published (`FinitelyMany`), and by `AuthorsCanShow` Lamport times rise along
  ancestry (`ClocksRise`); `SortsAgree` of `Lemmas` then shows that on a causally
  complete log the topological sort picks the same event as the total order at every
  step.
* `QueueIsKept`: `QueuedUntilCarried`, of the outbox of a running engine. What relays
  hold and send was buffered by one (`Relayed`), so a prune drops only what was
  carried; an engine that was not started has queued nothing (`Blank`), so starting it
  loses nothing.

**Controller**, for every set of histories, every reducer (`Accepts` is any
predicate), relays, waiters and bounds, under `ControllerAssumption`: histories are
finite and ids name one event.

* `OrderHolds`: `OrderIsCausal`. The sort is a recursive function, and `SortHasSteps`
  of `Lemmas` gives the sequence of its steps for any finite log; `SortIsCausal` goes
  along it, and `ConnectedIsSorted` shows that nothing connected to a root is left.
* `ShownIsAReplay` (`ShownIsReplay`) and `NoRejectionIsLost` (`RejectionsTold`) rest
  on `ResumingIsReplaying`: from a checkpoint whose prefix begins the order, reduction
  gives the state of a replay, and what the replay turns down it reports or was
  reported before the checkpoint. `Replays` carries this through checkpoints and
  answers: each answer in the queue is a replay, and what it turned down is told or
  reported by an answer before it; the worker's checkpoint is ahead of what was told
  by its answers only, and when the worker goes so does its checkpoint.
* `ViewOnlyGrows` (`NeverGoesBack`): messages to and from the worker form one queue,
  each of a larger log and a later number than those before it, all newer than what is
  shown (`Queued`).
* `RelaysAreCurrent` (`RelaysFollowLedger`), `WaitersWake` (`NobodyOversleeps`: no
  waiter sleeps although its condition holds, once every change of the outbox is
  written and told), `TypeCorrect`.

**Mirror**, for every set of devices and controllers and every bound, under
`MirrorAssumption`: `TypeCorrect`, `NothingIsSkipped` (`MarkedIsDelivered`) and
`DeliveredOnce` (`OncePerController`). The invariant adds that a task that votes or
delivers has a transaction to do so for (`Occupied`), and that a controller none of
whose publications failed has marked what it delivered and takes up nothing it has
marked (`DeliveredAreMarked`). The types say that nobody knows of more than the origin
holds (`KnownIn`), so what a ledger folds has its kind at every length.

**Store**, for every set of identities, communities, nodes and calls, under
`NodeAssumption` and `NoneAssumption`:

* `TypeCorrect`, `ShownNodeKeepsRunning` (`ShownNodeRuns`), `NoOrphanSigns`
  (`NobodyElseRuns`). The inductive invariant adds that a call at a step has what the
  step needs (`CallsInOrder`), that a page that has not opened has begun nothing
  (`Unopened`), that the node of a starting call runs, is not yet the one in the store
  and belongs to that call alone (`Launched`), and that as long as nobody was
  impatient at most one call is pending and the node in the store gave way to the one
  it starts (`Patient`).
* `SessionLeadsSomewhere` (`SavedCommunityExists`), with `FreshAssumption`: a namespace
  that is drawn is not one others founded. What names a community names one that
  exists (`Named`), where on a hosting desktop one whose founding was cut off counts
  too (`Exists`), and the saved session may name the one being founded (`Saved`); the
  node and the state in the store (`InStore`), and what a call aims at (`Aimed`), may
  be the one being founded anywhere, since its genesis comes after its node; an
  invitation is to a community of others (`Invited`).

**Hosting**, for every set of calls and every number of nodes, under
`StartsAssumption`: `TypeCorrect`, `OffTakesAllBack` (`OffMeansOff`),
`ShownAddressIsCurrent` (`ShownAddressLives`), `SharingPublishes`
(`SharedIsPublished`). `Kinds` says which operation takes which step, what the shell
runs, and that a page that has seen everything sees the ledger (`Behind`). The rest,
`Calm`, holds until hosting is switched off in the middle of something or by a page
that is behind: addresses that were found, waited for or shown are those of the node
that runs, or strays (`CallsAreCurrent`, `ShowsCurrent`); switching off has the page to
itself and revokes what the page sees, which is the ledger's (`OffIsAlone`), then
nothing is left but what was refused (`OffIsQuiet`); and an address that is shared is
on the ledger, has lapsed, or a call is about to put it there (`Publishes`).

**Only model-checked**: the liveness properties `OutboxDrains`, `HeldIsDelivered`,
`CatchesUp` and `CarriedThrough`, since liveness under fairness and ENABLED are out of
the prover's reach; and the two counterexamples. What a recursion computes for all
inputs cannot be proved by an induction over data; the sums of the Pool and the sorts
of `Dag` are recursive functions of a number, and are proved about by induction on an
interval of numbers (`IntervalInduction`, `RecursionDefined`).

## 5. Not modelled

* Signatures and hashes (an event carries its author and its identity), validation
  and parsing of untrusted JSON, rendering, links, deployment.
* `publishSiblingTransactions` of the engine, which only end-to-end tests call;
  namespaces other than one per `Sync`.
* `maybeRelayGovernance`, and governance copied to parents; what the federation
  reader shows. The recipient of an automatic flush is a member of the child.
* What the operations of the store that publish one event (invite, transfer, vote,
  propose...) wait for afterwards, and what they then tell: their checks are in
  `Client`, their event is `Pool`'s, their waiting `Controller`'s `WaitFor`.
* In `Sync`, that `start` awaits the log and the outbox one after the other
  (`engine.ts:122-129`; one step here).
* Writes and reads of IndexedDB that fail, but for the write of the outbox in
  `Controller` and a publication in `Mirror` and `Hosting`. In particular
  `controller.start()` does not reject in `Store`: in the code it can, after the old
  node was stopped (`store.ts:1096`, `1074`), and the screen then shows a stopped node.
  `ShownNodeRuns` is a property of a device whose storage can be read.
* In `Mirror`, that each controller has an engine of its own, which hears of another's
  event through a relay or a reload; here what is known of the origin is shared by the
  controllers of a device (`Grows`).
* In `Store`, a genesis that fails; two identities being created at once; the head of
  a community is its founder. In `Hosting`, relays other than tunnels, a second
  community, and founding one, which is in `Store` (with the mailbox that
  `startCommunity` contributes, `store.ts:534`); a tunnel is spawned wherever
  `cloudflared` is there. A page that is behind may see the past mailboxes of the
  ledger in any order until it sees the last. The verdict of the reducer on an event
  is given once, when it is published.
* The compositions as one state space: each layer is checked against what the
  others promise it, not together with them.

Some things the code does that no document forbids are noted with the hazards: souls
whose inviter was expelled stay vouched, a join proposal makes a bridge of an author
who left, the enter key starts a second unlock. They are modelled as they are; no
property says otherwise. Some texts of the pages say more than the code does:

* a frozen member is told to "Open Proposals to request an unfreeze vote"
  (`CellView.tsx:80`, `rejection-messages.ts:6`), and finds the form there, but the
  reducer turns down every event of a frozen author; somebody else has to ask
  (`ProposalsFit` states it);
* `InviteCard` says of pledged Points that "you just can't spend or transfer them
  while the invite is pending"; neither `store.transfer` nor `transferPoints` looks at
  liens (`TransferFits` offers and accepts the whole balance);
* `cancelInvite` and `transfer` wait for a Pool in which the invitation is gone, or
  the recipient has more than before; the guest's joining, or a payment by somebody
  else, satisfies them as well.

## 6. Plan

1. **Done**: the Pool, event exchange, controller, mirror, store and hosting, their
   runs, one refinement, and the proofs of section 4.
2. Worth proving next: a sharper hypothesis for conservation, that each step but the
   expulsion of a soul in debt keeps the books, and that nothing but the rounding of
   shares runs up a debt; that two logs with the same events show the same Pool, from
   `OneOrder` and `ShownIsAReplay` together.
3. Worth modelling next: governance relayed to parents, together with the clocks of
   the clients, which the forward skew of the reducer makes a liveness question.
