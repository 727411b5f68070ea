------------------------------- MODULE Hosting -------------------------------
(***************************************************************************)
(* A desktop app that hosts a mailbox of its community.  The shell          *)
(* (client-tauri/src-tauri/src/local_node.rs) runs a relay and a tunnel to  *)
(* it, the page (app/store.ts, app/connectivity.ts, app/local-node.ts) asks *)
(* for them, shows the public address, and publishes it on the community's  *)
(* ledger (app/active-relays.ts).                                           *)
(*                                                                         *)
(* The nodes the shell starts are numbered, and a tunnel's address is the   *)
(* number of its node: it is new every time.  The operations of the page    *)
(* interleave at every await.  The page reads the ledger from the state the *)
(* reducer last gave it, which lags behind what was published.              *)
(***************************************************************************)
EXTENDS Integers, FiniteSets

CONSTANTS
  Call,        \* operations of the page under way at once
  MaxStarts    \* bound: nodes the shell starts

ASSUME StartsAssumption == MaxStarts \in Nat

Node == 1 .. MaxStarts
Address == Node \cup {0}             \* 0 is null

VARIABLES
  node,        \* the node the shell knows, 0 for none
  publicUrl,   \* its public_url, filled in by a waiter thread
  started,     \* nodes ever started
  tunnels,     \* nodes whose tunnel was spawned
  slots,       \* nodes whose tunnel has printed its address
  waiters,     \* nodes whose waiter thread still runs
  relays,      \* relay processes that run
  orphans,     \* history: relays started without the rest of their node
  ready,       \* whether the page has a node controller
  pool,        \* whether it has the community's state
  relaySharing, shareUrl,
  calls,
  mine,        \* the mailbox of this identity on the ledger, 0 for none
  seen,        \* that mailbox in the state the page has
  unseen,      \* what it has been since, if the page is behind
  off,         \* history: hosting was switched off, and nothing begun since
  hasty,       \* history: it was while something else was under way
  strays,      \* history: addresses that went to a node not theirs
  lapsed,      \* history: addresses whose contribution failed, was passed
               \* over or refused, and none accepted since
  denied       \* history: addresses whose last revocation was refused

shell == <<node, publicUrl, started, tunnels, slots, waiters, relays, orphans>>
page == <<ready, pool, relaySharing, shareUrl>>
ledger == <<mine, seen, unseen>>
history == <<off, hasty, strays, lapsed, denied>>
vars == <<shell, page, calls, ledger, history>>

Idle == [op |-> "none", at |-> "idle", url |-> 0, stale |-> {}]

Under(op) == {c \in Call : calls[c].op = op}
Pending == {c \in Call : calls[c] # Idle}

Ends(c) == calls' = [calls EXCEPT ![c] = Idle]
Goes(c, step, url, stale) ==
  calls' = [calls EXCEPT ![c].at = step, ![c].url = url, ![c].stale = stale]
Begins(c, op, step, url, stale) ==
  /\ calls[c] = Idle
  /\ calls' = [calls EXCEPT ![c] = [op |-> op, at |-> step, url |-> url,
                                    stale |-> stale]]
  /\ off' = FALSE
  /\ hasty' = (hasty \/ Under("off") # {})
  /\ UNCHANGED <<strays, lapsed, denied>>

-----------------------------------------------------------------------------
(* The shell.                                                              *)

ResolvePublicUrl ==
  IF publicUrl # 0 THEN publicUrl ELSE IF node \in slots THEN node ELSE 0
\* What local_node_status says of the public address.
StatusUrl == IF node = 0 THEN 0 ELSE ResolvePublicUrl

\* A new node, next to relays that still run: they hold the port, and its own
\* relay exits.  Without its app server the node is given up, but not its relay.
Launch(running, threads) ==
  LET n == started + 1
  IN
  /\ n \in Node /\ started' = n
  /\ relays' = IF running = {} THEN {n} ELSE running
  /\ publicUrl' = 0
  /\ \/ /\ node' = 0 /\ orphans' = orphans \cup {n}
        /\ waiters' = threads /\ UNCHANGED tunnels
     \/ /\ node' = n /\ UNCHANGED orphans
        /\ \/ tunnels' = tunnels \cup {n} /\ waiters' = threads \cup {n}
           \/ UNCHANGED tunnels /\ waiters' = threads
  /\ UNCHANGED slots

\* start_local_node, under the lock of the state; node' is 0 when it fails.
StartLocalNode ==
  \/ UNCHANGED shell
  \/ node = 0 /\ Launch(relays, waiters)

StopLocalNode ==
  /\ node' = 0 /\ publicUrl' = 0
  /\ relays' = relays \ {node}
  /\ UNCHANGED <<started, tunnels, slots, waiters, orphans>>

\* A reader thread finds the address in the output of a tunnel; what a tunnel
\* wrote before it was killed is still read.
TunnelPrints(n) ==
  /\ n \in tunnels \ slots
  /\ slots' = slots \cup {n}
  /\ UNCHANGED <<node, publicUrl, started, tunnels, waiters, relays, orphans,
                 page, calls, ledger, history>>

\* The waiter thread has the address, or gives up.  It puts it into whatever
\* node the shell has by then.
WaiterEnds(n) ==
  /\ n \in waiters
  /\ waiters' = waiters \ {n}
  /\ IF n \in slots /\ node # 0
     THEN publicUrl' = n /\ strays' = strays \cup ({n} \ {node})
     ELSE UNCHANGED <<publicUrl, strays>>
  /\ UNCHANGED <<node, started, tunnels, slots, relays, orphans, page, calls,
                 ledger, off, hasty, lapsed, denied>>

-----------------------------------------------------------------------------
(* Publishing the address.  The reducer refuses what a frozen or expelled    *)
(* author, or one not yet admitted, publishes, what is stamped too long after *)
(* the last event, and a ninth mailbox.                                       *)

\* The ledger has a new mailbox of this identity, in place of the one before.
Ledger(url) ==
  /\ mine' = url
  /\ unseen' = IF url = mine THEN unseen ELSE unseen \cup {url}
  /\ UNCHANGED seen
Without(url) == IF mine = url THEN 0 ELSE mine

\* relay_contribute, accepted or refused.
Contributes(url) ==
  \/ Ledger(url) /\ lapsed' = lapsed \ {url}
  \/ UNCHANGED ledger /\ lapsed' = lapsed \cup {url}

\* The page has a newer state, if not yet the last.
PageSees ==
  \E url \in unseen :
    /\ seen' = url /\ pool' = ready
    /\ \/ UNCHANGED unseen
       \/ url = mine /\ unseen' = {}
    /\ UNCHANGED <<shell, ready, relaySharing, shareUrl, calls, mine, history>>

\* syncDesktopRelayContribution, of a page that shares: another address of this
\* identity is stale, and revoked first.
SyncWhatIsStale(c, url, sharing) ==                                \* mutant
  /\ IF pool' /\ sharing /\ seen' \notin {0, url}
     THEN Goes(c, "revoking", url, {seen'}) ELSE Ends(c)
  /\ lapsed' = IF sharing /\ ~pool' THEN lapsed \cup {url} ELSE lapsed
Sync(c, url, sharing) ==
  /\ IF pool' /\ sharing
     THEN Goes(c, "revoking", url, {seen'} \ {0, url}) ELSE Ends(c)
  /\ lapsed' = IF sharing /\ ~pool' THEN lapsed \cup {url} ELSE lapsed

Revoke(c, n) ==
  /\ calls[c].at = "revoking" /\ n \in calls[c].stale
  /\ \/ Ledger(Without(n)) /\ denied' = denied \ {n}
     \/ UNCHANGED ledger /\ denied' = denied \cup {n}
  /\ Goes(c, "revoking", calls[c].url, calls[c].stale \ {n})
  /\ UNCHANGED <<shell, page, off, hasty, strays, lapsed>>

\* syncDesktopTunnelRelay then contributes the address, unless it sees it there.
Contribute(c) ==
  /\ calls[c].at = "revoking" /\ calls[c].stale = {} /\ calls[c].op # "off"
  /\ IF seen = calls[c].url THEN UNCHANGED <<ledger, lapsed>>
     ELSE Contributes(calls[c].url)
  /\ Ends(c)
  /\ UNCHANGED <<shell, page, off, hasty, strays, denied>>

\* publish throws, before the event is in the log (the outbox is full, or the
\* event is not stored) or after (the outbox is not stored).
PublishFails(c) ==
  /\ \/ /\ calls[c].at = "revoking"
        /\ \E n \in calls[c].stale : Ledger(mine) \/ Ledger(Without(n))
     \/ /\ calls[c].at \in {"revoking", "publishing"} /\ calls[c].stale = {}
        /\ calls[c].op # "off"
        /\ Ledger(mine) \/ Ledger(calls[c].url)
  /\ lapsed' = lapsed \cup calls[c].stale \cup ({calls[c].url} \ {0})
  /\ Ends(c)
  /\ UNCHANGED <<shell, page, off, hasty, strays, denied>>

-----------------------------------------------------------------------------
(* Getting a public address.                                               *)

\* ensureDesktopShare, by the share panel or the invite dialog.
EnsureDesktopShare(c) ==
  /\ ready /\ pool
  /\ Begins(c, "share", "asking", 0, {})
  /\ UNCHANGED <<shell, page, ledger>>

\* The status is there: the cached address is still right, or the node is made
\* to run.
ShareAnswered(c) ==
  /\ calls[c].op = "share" /\ calls[c].at = "asking"
  /\ UNCHANGED <<shell, page, ledger>>
  /\ IF shareUrl # 0 /\ StatusUrl = shareUrl
     THEN Sync(c, shareUrl, relaySharing)
     ELSE Goes(c, "starting", StatusUrl, {}) /\ UNCHANGED lapsed
  /\ UNCHANGED <<off, hasty, strays, denied>>

\* ensureOnline and setRelaySharing have the node started.
NodeStarts(c) ==
  /\ calls[c].at = "starting"
  /\ StartLocalNode
  /\ IF node' = 0 THEN Ends(c) ELSE Goes(c, "tunnel", calls[c].url, {})
  /\ UNCHANGED <<page, ledger, history>>

\* waitForPublicTunnel sees an address, or runs out of time.  The address found
\* is shown, else the one of the status asked before.
ApplyDesktopShare(c) ==
  LET url == IF StatusUrl # 0 THEN StatusUrl ELSE calls[c].url
  IN
  /\ calls[c].op = "share" /\ calls[c].at = "tunnel"
  /\ shareUrl' = IF url # 0 THEN url ELSE shareUrl
  /\ UNCHANGED <<ready, pool, relaySharing, ledger>>
  /\ IF url # 0 THEN Sync(c, url, relaySharing)
     ELSE Ends(c) /\ UNCHANGED lapsed
  /\ UNCHANGED <<shell, off, hasty, strays, denied>>

\* The invite dialog publishes the address it found before it signs a link.
SyncForInvite(c) ==
  /\ ready /\ pool /\ relaySharing /\ shareUrl # 0
  /\ Begins(c, "share", "revoking", shareUrl, {seen} \ {0, shareUrl})
  /\ UNCHANGED <<shell, page, ledger>>

-----------------------------------------------------------------------------
(* Hosting on and off.                                                     *)

\* setRelaySharing(true), by the switch or the invite dialog.
SetRelaySharingOn(c) ==
  /\ ready /\ pool /\ ~relaySharing
  /\ Begins(c, "on", "starting", 0, {})
  /\ UNCHANGED <<shell, page, ledger>>

\* There is an address in time, which is contributed, or hosting is local.
TunnelWaited(c) ==
  /\ calls[c].op = "on" /\ calls[c].at = "tunnel"
  /\ IF StatusUrl # 0
     THEN Goes(c, "publishing", StatusUrl, {}) /\ UNCHANGED relaySharing
     ELSE Ends(c) /\ relaySharing' = TRUE
  /\ UNCHANGED <<shell, ready, pool, shareUrl, ledger, history>>

OnShared(c) ==
  /\ calls[c].op = "on" /\ calls[c].at = "publishing"
  /\ Contributes(calls[c].url)
  /\ relaySharing' = TRUE /\ shareUrl' = calls[c].url
  /\ Ends(c)
  /\ UNCHANGED <<shell, ready, pool, off, hasty, strays, denied>>

RevokesWhatIsShown(c) ==                                           \* mutant
  /\ ready /\ pool /\ relaySharing
  /\ calls[c] = Idle
  /\ calls' = [calls EXCEPT ![c] = [op |-> "off", at |-> "revoking", url |-> 0,
                                    stale |-> {seen} \cap ({shareUrl} \ {0})]]
  /\ hasty' = (hasty \/ Pending # {} \/ unseen # {})
  /\ UNCHANGED <<shell, page, ledger, off, strays, lapsed, denied>>
\* setRelaySharing(false): the address the page sees on the ledger is revoked, ...
SetRelaySharingOff(c) ==
  /\ ready /\ pool /\ relaySharing
  /\ calls[c] = Idle
  /\ calls' = [calls EXCEPT ![c] = [op |-> "off", at |-> "revoking", url |-> 0,
                                    stale |-> {seen} \ {0}]]
  /\ hasty' = (hasty \/ Pending # {} \/ unseen # {})
  /\ UNCHANGED <<shell, page, ledger, off, strays, lapsed, denied>>

\* ... the node is stopped, ...
NodeStops(c) ==
  /\ calls[c].op = "off" /\ calls[c].at = "revoking" /\ calls[c].stale = {}
  /\ StopLocalNode
  /\ Goes(c, "stopped", 0, {})
  /\ UNCHANGED <<page, ledger, history>>

OffKeepsAddress(c) ==                                              \* mutant
  /\ calls[c].at = "stopped"
  /\ relaySharing' = FALSE
  /\ Ends(c)
  /\ off' = TRUE
  /\ UNCHANGED <<shell, ready, pool, shareUrl, ledger, hasty, strays, lapsed, denied>>
\* ... and the page says so.
OffShared(c) ==
  /\ calls[c].at = "stopped"
  /\ relaySharing' = FALSE /\ shareUrl' = 0
  /\ Ends(c)
  /\ off' = TRUE
  /\ UNCHANGED <<shell, ready, pool, ledger, hasty, strays, lapsed, denied>>

-----------------------------------------------------------------------------
(* The page and the app around it.                                         *)

\* unlock, and so startNode.
OpenCommunity(c) ==
  /\ ~ready /\ Under("open") = {}
  /\ Begins(c, "open", "asking", 0, {})
  /\ UNCHANGED <<shell, page, ledger>>

\* startNode takes hosting to be on if a node runs.  The state of the community
\* may not be there yet, and then nothing is published.
Opened(c) ==
  /\ calls[c].op = "open" /\ calls[c].at = "asking"
  /\ ready' = TRUE /\ pool' \in BOOLEAN
  /\ UNCHANGED mine
  /\ IF pool' THEN seen' = mine /\ unseen' = {}
     ELSE seen' = 0 /\ unseen' = {mine}
  /\ relaySharing' = (node # 0)
  /\ shareUrl' = IF StatusUrl # 0 THEN StatusUrl ELSE shareUrl
  /\ IF StatusUrl # 0 THEN Sync(c, StatusUrl, TRUE)
     ELSE Ends(c) /\ UNCHANGED lapsed
  /\ UNCHANGED <<shell, off, hasty, strays, denied>>

\* lock: the node goes on.
Lock ==
  /\ ready /\ pool
  /\ ready' = FALSE /\ pool' = FALSE
  /\ relaySharing' = FALSE /\ shareUrl' = 0
  /\ UNCHANGED <<shell, calls, ledger, history>>

\* init: a page that loads gets itself an address.
Loads ==
  /\ ready' = FALSE /\ pool' = FALSE /\ relaySharing' = FALSE /\ shareUrl' = 0
  /\ \E c \in Call :
       calls' = [d \in Call |-> IF d = c THEN [Idle EXCEPT !.op = "share",
                                                           !.at = "asking"]
                                ELSE Idle]
  /\ UNCHANGED mine /\ seen' = 0 /\ unseen' = {mine}
  /\ off' = FALSE
  /\ UNCHANGED <<lapsed, denied>>

Reload ==
  /\ Loads
  /\ UNCHANGED <<shell, hasty, strays>>

\* The app is closed, which stops its node, and opened again; a release build
\* starts a node at once.
Relaunch ==
  /\ Loads
  /\ \/ /\ node' = 0 /\ publicUrl' = 0
        /\ relays' = relays \ {node} /\ waiters' = {}
        /\ UNCHANGED <<started, tunnels, slots, orphans>>
     \/ Launch(relays \ {node}, {})
  /\ hasty' = FALSE /\ strays' = {}

-----------------------------------------------------------------------------
Init ==
  /\ node = 0 /\ publicUrl = 0 /\ started = 0
  /\ tunnels = {} /\ slots = {} /\ waiters = {}
  /\ relays = {} /\ orphans = {}
  /\ ready = FALSE /\ pool = FALSE /\ relaySharing = FALSE /\ shareUrl = 0
  /\ calls = [c \in Call |-> Idle]
  /\ mine = 0 /\ seen = 0 /\ unseen = {}
  /\ off = FALSE /\ hasty = FALSE /\ strays = {} /\ lapsed = {} /\ denied = {}

Next ==
  \/ PageSees \/ Lock \/ Reload \/ Relaunch
  \/ \E n \in Node : TunnelPrints(n) \/ WaiterEnds(n)
  \/ \E c \in Call :
       \/ EnsureDesktopShare(c) \/ ShareAnswered(c) \/ NodeStarts(c)
       \/ ApplyDesktopShare(c) \/ SyncForInvite(c)
       \/ SetRelaySharingOn(c) \/ TunnelWaited(c) \/ OnShared(c)
       \/ SetRelaySharingOff(c) \/ NodeStops(c) \/ OffShared(c)
       \/ OpenCommunity(c) \/ Opened(c)
       \/ Contribute(c) \/ PublishFails(c)
       \/ \E n \in Node : Revoke(c, n)

Spec == Init /\ [][Next]_vars

-----------------------------------------------------------------------------
(* Properties.                                                             *)

\* Once hosting is off, no node runs, no address is shown, and the ledger names
\* none but one whose revocation the reducer refused: setRelaySharing goes on all
\* the same.  It may be otherwise if, since the app was launched, hosting was
\* switched off in the middle of something else, or by a page whose state was
\* behind the ledger, which is where it looks for what to revoke.
OffMeansOff ==
  off /\ ~hasty =>
    /\ node = 0 /\ relays \subseteq orphans
    /\ ~relaySharing /\ shareUrl = 0 /\ mine \in {0} \cup denied

\* The address shown is the one of the node that runs, also after it was
\* stopped and started again, or one that a waiter thread put into a node which
\* took the place of its own; unless hosting was switched off in the middle of
\* something else (ensureDesktopShare).
ShownAddressLives ==
  shareUrl # 0 /\ ~hasty /\ Under("off") = {} => shareUrl \in {node} \cup strays

\* A community whose member hosts and shows an address has it on its ledger
\* when nothing is under way, if the reducer took its contribution and this was
\* not passed over for want of a state; hosting not having been switched off in the
\* middle of something else, nor an address gone astray
\* (syncDesktopRelayContribution, setRelaySharing).
SharedIsPublished ==
  /\ relaySharing /\ shareUrl # 0 /\ shareUrl \notin lapsed
  /\ Pending = {} /\ ~hasty /\ strays = {}
  => mine = shareUrl
=============================================================================
