---------------------------- MODULE HostingProofs ----------------------------
(***************************************************************************)
(* What a hosting desktop app shows, runs and publishes, for any number of *)
(* overlapping operations of the page and of nodes of the shell.           *)
(***************************************************************************)
EXTENDS Hosting, TLAPS

-----------------------------------------------------------------------------
(* The inductive invariant.                                                *)

CallRecord ==
  [op : {"none", "share", "on", "off", "open"},
   at : {"idle", "asking", "starting", "tunnel", "revoking", "publishing",
         "stopped"},
   url : Address, stale : SUBSET Node]

TypeOK ==
  /\ node \in Address /\ publicUrl \in Address /\ started \in 0 .. MaxStarts
  /\ tunnels \subseteq Node /\ slots \subseteq Node /\ waiters \subseteq Node
  /\ relays \subseteq Node /\ orphans \subseteq Node
  /\ ready \in BOOLEAN /\ pool \in BOOLEAN /\ relaySharing \in BOOLEAN
  /\ shareUrl \in Address
  /\ mine \in Address /\ seen \in Address /\ unseen \subseteq Address
  /\ calls \in [Call -> CallRecord]
  /\ off \in BOOLEAN /\ hasty \in BOOLEAN
  /\ strays \subseteq Node /\ lapsed \subseteq Node /\ denied \subseteq Node

\* Which operation takes which step, and what is published is an address.
Staged ==
  \A c \in Call :
    /\ calls[c].op = "none" => calls[c] = Idle
    /\ calls[c].at \in {"starting", "tunnel"} => calls[c].op \in {"share", "on"}
    /\ calls[c].at = "publishing" => calls[c].op = "on" /\ calls[c].url # 0
    /\ calls[c].at = "revoking" /\ calls[c].op # "off" => calls[c].url # 0
    /\ calls[c].at = "stopped" => calls[c].op = "off"

\* Apart from the orphans only the relay of the node runs, and only nodes that
\* were started have a tunnel.
ShellInOrder ==
  /\ relays \subseteq orphans \cup {node}
  /\ \A n \in tunnels \cup slots : n <= started

\* Every address was printed by a tunnel.
Printed ==
  /\ {publicUrl, shareUrl, mine, seen} \cup unseen \cup strays \subseteq slots \cup {0}
  /\ \A c \in Call : calls[c].url \in slots \cup {0}

\* What the page is behind by ends with what the ledger is.
Behind == IF unseen = {} THEN seen = mine ELSE mine \in unseen

Kinds == TypeOK /\ Staged /\ ShellInOrder /\ Printed /\ Behind

\* An address of the node that runs, one gone astray, or none.
Current(url) == url \in {0} \cup strays \/ (url = node /\ node \in slots)

\* What a call has found belongs to the node that runs.
CallsAreCurrent ==
  /\ Current(publicUrl)
  /\ \A c \in Call :
       /\ Current(calls[c].url)
       /\ calls[c].at = "revoking" /\ calls[c].op # "off" =>
            calls[c].url \notin calls[c].stale

\* Hosting is switched off while nothing else happens: the one address left to
\* revoke is the one on the ledger, and after that the node is gone.
OffIsAlone ==
  \A c \in Call : calls[c].op = "off" =>
    /\ ~off /\ calls[c].url = 0
    /\ \A d \in Call \ {c} : calls[d] = Idle
    /\ \A m, n \in calls[c].stale : m = n
    /\ calls[c].at = "revoking" => mine \in {0} \cup calls[c].stale \cup denied
    /\ calls[c].at = "stopped" => node = 0 /\ mine \in {0} \cup denied

\* Until hosting stops the address shown is current.
ShowsCurrent == (\A c \in Call : calls[c].at # "stopped") => Current(shareUrl)

OffIsQuiet ==
  off => /\ \A c \in Call : calls[c] = Idle
         /\ node = 0 /\ ~relaySharing /\ shareUrl = 0 /\ mine \in {0} \cup denied

\* A call under way is about to contribute the address.
WillContribute(url) ==
  \E c \in Call :
    calls[c].at = "revoking" /\ calls[c].op # "off" /\ calls[c].url = url

\* A running node's address that the page has seen on the ledger, or will, is
\* on it still.
Keeps ==
  strays = {} /\ node \in ({seen} \cup unseen) \ ({0} \cup lapsed) => mine = node

Shares ==
  relaySharing /\ strays = {} /\ shareUrl \notin {0} \cup lapsed
    => mine = shareUrl \/ WillContribute(shareUrl)

\* Nothing was taken back yet by switching off.
Untouched ==
  \A c \in Call : calls[c].op = "off" => calls[c].at = "revoking" /\ calls[c].stale # {}

Publishes == Untouched => Keeps /\ Shares

Calm == CallsAreCurrent /\ OffIsAlone /\ ShowsCurrent /\ OffIsQuiet /\ Publishes

Inv == Kinds /\ (~hasty => Calm)

-----------------------------------------------------------------------------
(* Calls.                                                                  *)

\* No call is at a step and idle.
LEMMA IdleRecord ==
  Idle \in CallRecord /\ Idle.op = "none" /\ Idle.at = "idle" /\ Idle.url = 0
  /\ Idle.stale = {}
BY DEF Idle, CallRecord, Address

LEMMA NoNodeIsZero == 0 \notin Node /\ Node \subseteq Nat
BY StartsAssumption DEF Node

LEMMA EndsTo ==
  ASSUME TypeOK, NEW c \in Call, Ends(c)
  PROVE  /\ calls' \in [Call -> CallRecord]
         /\ calls'[c] = Idle
         /\ \A d \in Call \ {c} : calls'[d] = calls[d]
BY IdleRecord DEF Ends, TypeOK

LEMMA GoesTo ==
  ASSUME TypeOK, NEW c \in Call, NEW url \in Address, NEW stale \in SUBSET Node,
         NEW step \in {"asking", "starting", "tunnel", "revoking", "publishing",
                       "stopped"},
         Goes(c, step, url, stale)
  PROVE  /\ calls' \in [Call -> CallRecord]
         /\ calls'[c].op = calls[c].op /\ calls'[c].at = step
         /\ calls'[c].url = url /\ calls'[c].stale = stale
         /\ \A d \in Call \ {c} : calls'[d] = calls[d]
BY DEF Goes, TypeOK, CallRecord

\* The address that a status shows is current.
LEMMA StatusIsCurrent ==
  ASSUME Kinds, CallsAreCurrent
  PROVE  Current(StatusUrl)
BY DEF Kinds, TypeOK, CallsAreCurrent, Current, StatusUrl, ResolvePublicUrl

LEMMA StatusType ==
  Kinds => StatusUrl \in Address /\ StatusUrl \in slots \cup {0}
BY DEF Kinds, TypeOK, Printed, StatusUrl, ResolvePublicUrl

\* A call that goes on calmly is not a switch-off, and nothing else is.
LEMMA NothingSwitchesOff ==
  ASSUME Calm, NEW c \in Call, calls[c] # Idle, calls[c].op # "off"
  PROVE  /\ ~off /\ \A d \in Call : calls[d].op # "off"
BY DEF Calm, OffIsAlone, OffIsQuiet

\* What shows while nothing is switched off is current.
LEMMA ShownIsCurrent ==
  ASSUME Kinds, Calm, \A d \in Call : calls[d].op # "off"
  PROVE  Current(shareUrl) /\ Keeps /\ Shares
BY DEF Kinds, Staged, Calm, ShowsCurrent, Publishes, Untouched

-----------------------------------------------------------------------------
(* The shell.                                                              *)

LEMMA TunnelPrintsKeeps ==
  ASSUME Inv, NEW n \in Node, TunnelPrints(n)
  PROVE  Inv'
<1>1. Kinds'
  BY DEF Inv, Kinds, TypeOK, Staged, ShellInOrder, Printed, Behind, TunnelPrints,
     page, ledger, history
<1>2. ASSUME ~hasty' PROVE Calm'
  <2>1. Calm
    BY <1>2 DEF Inv, TunnelPrints, history
  <2>2. CallsAreCurrent' /\ ShowsCurrent'
    BY <2>1 DEF Calm, CallsAreCurrent, Current, ShowsCurrent, TunnelPrints, page, history
  <2>3. OffIsAlone' /\ OffIsQuiet'
    BY <2>1 DEF Calm, OffIsAlone, OffIsQuiet, TunnelPrints, page, ledger, history
  <2>4. Publishes'
    BY <2>1 DEF Calm, Publishes, Untouched, Keeps, Shares, WillContribute,
       TunnelPrints, page, ledger, history
  <2> QED BY <2>2, <2>3, <2>4 DEF Calm
<1> QED BY <1>1, <1>2 DEF Inv

\* Where a waiter finds another node than its own, its address goes astray.
LEMMA WaiterEndsKeeps ==
  ASSUME Inv, NEW n \in Node, WaiterEnds(n)
  PROVE  Inv'
<1>1. /\ \/ n \in slots /\ publicUrl' = n /\ strays' = strays \cup ({n} \ {node})
         \/ UNCHANGED <<publicUrl, strays>>
      /\ waiters' = waiters \ {n}
      /\ UNCHANGED <<node, started, tunnels, slots, relays, orphans, page, calls,
                     ledger, off, hasty, lapsed, denied>>
  BY DEF WaiterEnds
<1>2. Kinds'
  <2>1. TypeOK' /\ Printed'
    BY <1>1 DEF Inv, Kinds, TypeOK, Printed, page, ledger, Address
  <2>2. Staged' /\ ShellInOrder' /\ Behind'
    BY <1>1 DEF Inv, Kinds, Staged, ShellInOrder, Behind, ledger
  <2> QED BY <2>1, <2>2 DEF Kinds
<1>3. ASSUME ~hasty' PROVE Calm'
  <2>1. Calm
    BY <1>1, <1>3 DEF Inv
  <2>2. ASSUME NEW url, Current(url) PROVE Current(url)'
    BY <1>1, <2>2 DEF Current
  <2>3. CallsAreCurrent' /\ ShowsCurrent'
    <3>1. Current(publicUrl)'
      BY <1>1, <2>1 DEF Calm, CallsAreCurrent, Current
    <3>2. \A c \in Call : Current(calls[c].url)'
      BY <1>1, <2>1 DEF Calm, CallsAreCurrent, Current
    <3>3. (\A c \in Call : calls[c].at # "stopped") => Current(shareUrl)'
      BY <1>1, <2>1 DEF Calm, ShowsCurrent, Current, page
    <3> QED BY <1>1, <2>1, <3>1, <3>2, <3>3 DEF Calm, CallsAreCurrent, ShowsCurrent, page
  <2>4. OffIsAlone' /\ OffIsQuiet'
    BY <1>1, <2>1 DEF Calm, OffIsAlone, OffIsQuiet, page, ledger
  <2>5. Publishes'
    <3>1. strays' = {} => strays = {}
      BY <1>1
    <3> QED BY <1>1, <2>1, <3>1
        DEF Calm, Publishes, Untouched, Keeps, Shares, WillContribute, page, ledger
  <2> QED BY <2>3, <2>4, <2>5 DEF Calm
<1> QED BY <1>2, <1>3 DEF Inv

\* A new node has a number that no tunnel printed.
LEMMA LaunchType ==
  ASSUME Kinds, NEW running \in SUBSET orphans, NEW threads \in SUBSET Node,
         Launch(running, threads)
  PROVE  /\ node' \in Address /\ started' \in 0 .. MaxStarts /\ publicUrl' = 0
         /\ tunnels' \subseteq Node /\ slots' = slots /\ waiters' \subseteq Node
         /\ relays' \subseteq Node /\ orphans' \subseteq Node
         /\ relays' \subseteq orphans' \cup {node'}
         /\ \A n \in tunnels' \cup slots' : n <= started'
         /\ node' = 0 \/ node' \notin slots
<1>1. started + 1 \in Node /\ started + 1 \in 0 .. MaxStarts /\ started \in Nat
  BY StartsAssumption DEF Launch, Node, Kinds, TypeOK
<1>2. /\ \A n \in tunnels \cup slots : n \in Nat /\ n <= started
      /\ started' = started + 1 /\ slots' = slots
      /\ tunnels' \subseteq tunnels \cup {started + 1}
      /\ node' \in {0, started + 1}
  BY NoNodeIsZero DEF Kinds, TypeOK, ShellInOrder, Launch
<1>3. \A n \in tunnels' \cup slots' : n <= started'
  BY <1>1, <1>2
<1>4. node' = 0 \/ node' \notin slots
  BY <1>1, <1>2
<1> QED BY <1>1, <1>2, <1>3, <1>4 DEF Kinds, TypeOK, Launch, Address

\* A node starts only when there was none, so that nothing was current before.
LEMMA NodeStartsKeeps ==
  ASSUME Inv, NEW c \in Call, NodeStarts(c)
  PROVE  Inv'
<1>1. calls[c].op \in {"share", "on"} /\ calls[c] # Idle
  BY IdleRecord DEF Inv, Kinds, Staged, NodeStarts
<1>2. /\ node' \in Address /\ publicUrl' \in {0, publicUrl} /\ started' \in 0 .. MaxStarts
      /\ tunnels' \subseteq Node /\ slots' = slots /\ waiters' \subseteq Node
      /\ relays' \subseteq Node /\ orphans' \subseteq Node
      /\ relays' \subseteq orphans' \cup {node'}
      /\ \A n \in tunnels' \cup slots' : n <= started'
      /\ node' = node \/ (node = 0 /\ (node' = 0 \/ node' \notin slots))
  <2>1. CASE UNCHANGED shell
    BY <2>1 DEF Inv, Kinds, TypeOK, ShellInOrder, shell
  <2>2. CASE node = 0 /\ Launch(relays, waiters)
    <3>1. relays \in SUBSET orphans /\ waiters \in SUBSET Node
      BY <2>2, NoNodeIsZero DEF Inv, Kinds, TypeOK, ShellInOrder
    <3> QED BY <2>2, <3>1, LaunchType DEF Inv
  <2> QED BY <2>1, <2>2 DEF NodeStarts, StartLocalNode
<1>3. calls[c].url \in Address /\ {} \in SUBSET Node
  BY DEF Inv, Kinds, TypeOK, CallRecord
<1>4. /\ calls' \in [Call -> CallRecord]
      /\ \/ calls'[c] = Idle
         \/ /\ calls'[c].op = calls[c].op /\ calls'[c].at = "tunnel"
            /\ calls'[c].url = calls[c].url
      /\ \A d \in Call \ {c} : calls'[d] = calls[d]
  BY <1>3, EndsTo, GoesTo DEF NodeStarts, Inv, Kinds
<1>5. UNCHANGED <<ready, pool, relaySharing, shareUrl, mine, seen, unseen, off, hasty,
                  strays, lapsed, denied>>
  BY DEF NodeStarts, page, ledger, history
<1>6. Kinds'
  <2>1. TypeOK'
    BY <1>2, <1>4, <1>5 DEF Inv, Kinds, TypeOK, Address
  <2>2. Staged' /\ ShellInOrder'
    BY <1>1, <1>2, <1>4, IdleRecord DEF Inv, Kinds, Staged, ShellInOrder
  <2>3. Printed' /\ Behind'
    BY <1>2, <1>4, <1>5, IdleRecord DEF Inv, Kinds, Printed, Behind
  <2> QED BY <2>1, <2>2, <2>3 DEF Kinds
<1>7. ASSUME ~hasty' PROVE Calm'
  <2>1. Calm
    BY <1>5, <1>7 DEF Inv
  <2>2. /\ ~off /\ \A d \in Call : calls[d].op # "off"
    BY <1>1, <2>1, NothingSwitchesOff
  <2>3. Current(shareUrl) /\ Keeps /\ Shares
    BY <2>1, <2>2, ShownIsCurrent DEF Inv
  <2>4. ASSUME NEW url, Current(url) PROVE Current(url)'
    BY <1>2, <1>5, <2>4, NoNodeIsZero DEF Inv, Kinds, TypeOK, Current
  <2>5. CallsAreCurrent' /\ ShowsCurrent'
    <3>1. Current(publicUrl)'
      BY <1>2, <1>5, <2>1, NoNodeIsZero
      DEF Inv, Kinds, TypeOK, Calm, CallsAreCurrent, Current
    <3>2. \A d \in Call : Current(calls[d].url)'
      <4>1. \A d \in Call : calls'[d].url = 0 \/ calls'[d].url = calls[d].url
        BY <1>4, IdleRecord
      <4> QED BY <1>2, <1>5, <2>1, <4>1, NoNodeIsZero
          DEF Inv, Kinds, TypeOK, Calm, CallsAreCurrent, Current
    <3>3. Current(shareUrl)'
      BY <1>2, <1>5, <2>3, NoNodeIsZero DEF Inv, Kinds, TypeOK, Current
    <3> QED BY <1>4, <2>1, <3>1, <3>2, <3>3, IdleRecord
        DEF Calm, CallsAreCurrent, ShowsCurrent
  <2>6. OffIsAlone' /\ OffIsQuiet'
    BY <1>1, <1>4, <1>5, <2>2, IdleRecord DEF OffIsAlone, OffIsQuiet
  <2>7. Publishes'
    <3>1. Keeps'
      BY <1>2, <1>5, <2>3 DEF Inv, Kinds, Printed, Keeps
    <3>2. WillContribute(shareUrl) => WillContribute(shareUrl)'
      BY <1>4, <1>5 DEF WillContribute, NodeStarts
    <3>3. Shares'
      BY <1>5, <2>3, <3>2 DEF Shares
    <3> QED BY <3>1, <3>3 DEF Publishes
  <2> QED BY <2>5, <2>6, <2>7 DEF Calm
<1> QED BY <1>6, <1>7 DEF Inv

-----------------------------------------------------------------------------
(* Publishing.                                                             *)

\* A new mailbox is what the page will see last.
LEMMA LedgerTo ==
  ASSUME Kinds, NEW url \in Address, url \in slots \cup {0}, slots' = slots, Ledger(url)
  PROVE  /\ mine' = url /\ mine' \in Address /\ seen' \in Address
         /\ unseen' \subseteq Address
         /\ {mine', seen'} \cup unseen' \subseteq slots' \cup {0}
         /\ {seen'} \cup unseen' \subseteq {seen, url} \cup unseen
         /\ Behind'
         /\ mine \in {seen} \cup unseen
<1>1. mine' = url /\ seen' = seen
      /\ unseen' = IF url = mine THEN unseen ELSE unseen \cup {url}
  BY DEF Ledger
<1>2. Behind'
  BY <1>1 DEF Kinds, Behind
<1>3. mine \in {seen} \cup unseen
  BY DEF Kinds, Behind
<1> QED BY <1>1, <1>2, <1>3 DEF Kinds, TypeOK, Printed

LEMMA LedgerStays ==
  ASSUME Kinds, UNCHANGED ledger, slots' = slots
  PROVE  /\ mine' = mine /\ mine' \in Address /\ seen' \in Address
         /\ unseen' \subseteq Address
         /\ {mine', seen'} \cup unseen' \subseteq slots' \cup {0}
         /\ {seen'} \cup unseen' \subseteq {seen} \cup unseen
         /\ Behind'
BY DEF Kinds, TypeOK, Printed, Behind, ledger

\* Accepted, a contribution is on the ledger; refused, it has lapsed.
LEMMA ContributesTo ==
  ASSUME Kinds, NEW url \in Node, url \in slots, slots' = slots, Contributes(url)
  PROVE  /\ mine' \in Address /\ seen' \in Address /\ unseen' \subseteq Address
         /\ {mine', seen'} \cup unseen' \subseteq slots' \cup {0}
         /\ Behind' /\ lapsed' \subseteq Node
         /\ mine' = url \/ url \in lapsed'
<1>1. url \in Address
  BY DEF Address
<1>2. CASE Ledger(url) /\ lapsed' = lapsed \ {url}
  BY <1>1, <1>2, LedgerTo DEF Kinds, TypeOK
<1>3. CASE UNCHANGED ledger /\ lapsed' = lapsed \cup {url}
  BY <1>3, LedgerStays DEF Kinds, TypeOK
<1> QED BY <1>2, <1>3 DEF Contributes

LEMMA SyncTo ==
  ASSUME Kinds, NEW c \in Call, NEW url \in Address, url # 0,
         NEW sharing \in BOOLEAN, pool' \in BOOLEAN, seen' \in Address,
         Sync(c, url, sharing)
  PROVE  /\ calls' \in [Call -> CallRecord]
         /\ \/ calls'[c] = Idle /\ (sharing => url \in lapsed')
            \/ /\ calls'[c].op = calls[c].op /\ calls'[c].at = "revoking"
               /\ calls'[c].url = url /\ url \notin calls'[c].stale
         /\ \A d \in Call \ {c} : calls'[d] = calls[d]
         /\ lapsed' \subseteq Node /\ lapsed \subseteq lapsed'
<1>1. {seen'} \ {0, url} \in SUBSET Node /\ url \in Node
  BY DEF Address
<1>2. CASE ~(pool' /\ sharing)
  BY <1>1, <1>2, EndsTo DEF Sync, Kinds, TypeOK
<1>3. CASE pool' /\ sharing
  BY <1>1, <1>3, GoesTo DEF Sync, Kinds, TypeOK
<1> QED BY <1>2, <1>3 DEF Sync

\* Refused or not, revoking leaves the address of the running node alone, unless
\* hosting is switched off.
LEMMA RevokeKeeps ==
  ASSUME Inv, NEW c \in Call, NEW n \in Node, Revoke(c, n)
  PROVE  Inv'
<1>1. calls[c].url \in Address /\ calls[c].stale \ {n} \in SUBSET Node
  BY DEF Inv, Kinds, TypeOK, CallRecord
<1>2. /\ calls' \in [Call -> CallRecord]
      /\ calls'[c].op = calls[c].op /\ calls'[c].at = "revoking"
      /\ calls'[c].url = calls[c].url /\ calls'[c].stale = calls[c].stale \ {n}
      /\ \A d \in Call \ {c} : calls'[d] = calls[d]
  BY <1>1, GoesTo DEF Revoke, Inv, Kinds
<1>3. /\ calls[c].op # "none" /\ calls[c] # Idle /\ calls[c].at = "revoking"
      /\ n \in calls[c].stale
  BY IdleRecord DEF Inv, Kinds, Staged, Revoke
<1>4. UNCHANGED <<node, publicUrl, started, tunnels, slots, waiters, relays, orphans,
                  ready, pool, relaySharing, shareUrl, off, hasty, strays, lapsed>>
  BY DEF Revoke, shell, page
<1>5. /\ mine' \in Address /\ seen' \in Address /\ unseen' \subseteq Address
      /\ {mine', seen'} \cup unseen' \subseteq slots' \cup {0} /\ Behind'
      /\ denied' \subseteq Node
      /\ \/ mine' = Without(n) /\ denied' = denied \ {n}
         \/ mine' = mine /\ denied' = denied \cup {n}
      /\ {seen'} \cup unseen' \subseteq {seen, 0} \cup unseen
  <2>1. CASE Ledger(Without(n)) /\ denied' = denied \ {n}
    <3>1. Without(n) \in Address /\ Without(n) \in slots \cup {0}
          /\ Without(n) \in {0, mine}
      BY DEF Without, Inv, Kinds, TypeOK, Printed, Address
    <3> QED BY <1>4, <2>1, <3>1, LedgerTo DEF Inv, Kinds, TypeOK
  <2>2. CASE UNCHANGED ledger /\ denied' = denied \cup {n}
    BY <1>4, <2>2, LedgerStays DEF Inv, Kinds, TypeOK
  <2> QED BY <2>1, <2>2 DEF Revoke
<1>6. Kinds'
  <2>1. TypeOK'
    BY <1>2, <1>4, <1>5 DEF Inv, Kinds, TypeOK
  <2>2. Staged' /\ ShellInOrder'
    BY <1>2, <1>3, <1>4 DEF Inv, Kinds, Staged, ShellInOrder
  <2>3. Printed'
    BY <1>2, <1>4, <1>5 DEF Inv, Kinds, Printed
  <2> QED BY <1>5, <2>1, <2>2, <2>3 DEF Kinds
<1>7. ASSUME ~hasty' PROVE Calm'
  <2>1. Calm
    BY <1>4, <1>7 DEF Inv
  <2>2. CallsAreCurrent'
    BY <1>2, <1>3, <1>4, <2>1 DEF Calm, CallsAreCurrent, Current
  <2>3. OffIsQuiet' /\ ShowsCurrent'
    BY <1>2, <1>3, <1>4, <2>1 DEF Calm, OffIsQuiet, ShowsCurrent, Current
  <2>4. OffIsAlone' /\ (calls[c].op = "off" => calls'[c].stale = {})
    <3>1. CASE calls[c].op = "off"
      <4>1. /\ ~off /\ calls[c].url = 0 /\ \A d \in Call \ {c} : calls[d] = Idle
            /\ calls[c].stale = {n}
            /\ mine \in {0} \cup calls[c].stale \cup denied
        BY <1>3, <2>1, <3>1 DEF Calm, OffIsAlone
      <4>2. calls'[c].stale = {}
        BY <1>2, <4>1
      <4>3. mine' \in {0} \cup denied'
        BY <1>5, <4>1 DEF Without
      <4> QED BY <1>2, <1>4, <3>1, <4>1, <4>2, <4>3, IdleRecord DEF OffIsAlone
    <3>2. CASE calls[c].op # "off"
      BY <1>2, <1>3, <2>1, <3>2, NothingSwitchesOff DEF OffIsAlone
    <3> QED BY <3>1, <3>2
  <2>5. Publishes'
    <3>1. SUFFICES ASSUME Untouched' PROVE Keeps' /\ Shares'
      BY DEF Publishes
    <3>2. calls[c].op # "off"
      BY <1>2, <2>4, <3>1 DEF Untouched
    <3>3. Current(shareUrl) /\ Keeps /\ Shares
      BY <1>3, <2>1, <3>2, NothingSwitchesOff, ShownIsCurrent DEF Inv
    <3>4. strays = {} => n # node /\ (shareUrl # 0 => n # shareUrl)
      <4>1. /\ calls[c].url # 0 /\ Current(calls[c].url)
            /\ calls[c].url \notin calls[c].stale
        BY <1>3, <2>1, <3>2 DEF Inv, Kinds, Staged, Calm, CallsAreCurrent
      <4> QED BY <1>3, <3>3, <4>1 DEF Current
    <3>5. Keeps'
      BY <1>4, <1>5, <3>3, <3>4 DEF Keeps, Without
    <3>6. WillContribute(shareUrl) => WillContribute(shareUrl)'
      BY <1>2, <1>3, <1>4 DEF WillContribute
    <3>7. Shares'
      BY <1>4, <1>5, <3>3, <3>4, <3>6 DEF Shares, Without
    <3> QED BY <3>5, <3>7
  <2> QED BY <2>2, <2>3, <2>4, <2>5 DEF Calm
<1> QED BY <1>6, <1>7 DEF Inv

\* A call that is not a switch-off ends, and the ledger has its address, or it
\* was refused.
LEMMA ContributeKeeps ==
  ASSUME Inv, NEW c \in Call, Contribute(c)
  PROVE  Inv'
<1>1. /\ calls' \in [Call -> CallRecord] /\ calls'[c] = Idle
      /\ \A d \in Call \ {c} : calls'[d] = calls[d]
  BY EndsTo DEF Contribute, Inv, Kinds
<1>2. calls[c].op # "none" /\ calls[c] # Idle /\ calls[c].op # "off"
  BY IdleRecord DEF Inv, Kinds, Staged, Contribute
<1>3. calls[c].url \in Node /\ calls[c].url \in slots
  BY DEF Inv, Kinds, TypeOK, Staged, Printed, CallRecord, Contribute, Address
<1>4. UNCHANGED <<node, publicUrl, started, tunnels, slots, waiters, relays, orphans,
                  ready, pool, relaySharing, shareUrl, off, hasty, strays, denied>>
  BY DEF Contribute, shell, page
<1>5. /\ mine' \in Address /\ seen' \in Address /\ unseen' \subseteq Address
      /\ {mine', seen'} \cup unseen' \subseteq slots' \cup {0} /\ Behind'
      /\ lapsed' \subseteq Node
      /\ \/ mine' = calls[c].url \/ calls[c].url \in lapsed'
         \/ seen = calls[c].url /\ UNCHANGED <<mine, seen, unseen, lapsed>>
  <2>1. CASE seen = calls[c].url
    <3>1. UNCHANGED <<ledger, lapsed>>
      BY <2>1 DEF Contribute
    <3> QED BY <1>4, <2>1, <3>1, LedgerStays DEF Inv, Kinds, TypeOK, ledger
  <2>2. CASE seen # calls[c].url
    <3>1. Contributes(calls[c].url)
      BY <2>2 DEF Contribute
    <3> QED BY <1>3, <1>4, <3>1, ContributesTo DEF Inv
  <2> QED BY <2>1, <2>2
<1>6. Kinds'
  <2>1. TypeOK'
    BY <1>1, <1>4, <1>5 DEF Inv, Kinds, TypeOK
  <2>2. Staged' /\ ShellInOrder'
    BY <1>1, <1>4, IdleRecord DEF Inv, Kinds, Staged, ShellInOrder
  <2>3. Printed'
    BY <1>1, <1>4, <1>5, IdleRecord DEF Inv, Kinds, Printed
  <2> QED BY <1>5, <2>1, <2>2, <2>3 DEF Kinds
<1>7. ASSUME ~hasty' PROVE Calm'
  <2>1. Calm
    BY <1>4, <1>7 DEF Inv
  <2>2. ~off /\ \A d \in Call : calls[d].op # "off"
    BY <1>2, <2>1, NothingSwitchesOff
  <2>3. Current(shareUrl) /\ Keeps /\ Shares /\ Current(calls[c].url)
    BY <2>1, <2>2, ShownIsCurrent DEF Inv, Calm, CallsAreCurrent
  <2>4. CallsAreCurrent' /\ ShowsCurrent'
    BY <1>1, <1>4, <2>1, <2>3, IdleRecord
    DEF Calm, CallsAreCurrent, ShowsCurrent, Current
  <2>5. OffIsAlone' /\ OffIsQuiet'
    BY <1>1, <1>4, <2>2, IdleRecord DEF OffIsAlone, OffIsQuiet
  <2>6. strays = {} => calls[c].url = node /\ (shareUrl # 0 => shareUrl = node)
    BY <1>3, <2>3, NoNodeIsZero DEF Current
  <2>7. strays = {} /\ node \notin lapsed' => mine' = node
    BY <1>3, <1>5, <2>3, <2>6, NoNodeIsZero DEF Keeps
  <2>8. Keeps' /\ Shares'
    BY <1>4, <2>6, <2>7 DEF Keeps, Shares
  <2> QED BY <2>4, <2>5, <2>8 DEF Calm, Publishes
<1> QED BY <1>6, <1>7 DEF Inv

\* What was not published has lapsed, and so has what was perhaps revoked.
LEMMA PublishFailsKeeps ==
  ASSUME Inv, NEW c \in Call, PublishFails(c)
  PROVE  Inv'
<1>1. /\ calls' \in [Call -> CallRecord] /\ calls'[c] = Idle
      /\ \A d \in Call \ {c} : calls'[d] = calls[d]
  BY EndsTo DEF PublishFails, Inv, Kinds
<1>2. calls[c].op # "none" /\ calls[c] # Idle
  BY IdleRecord DEF Inv, Kinds, Staged, PublishFails
<1>3. UNCHANGED <<node, publicUrl, started, tunnels, slots, waiters, relays, orphans,
                  ready, pool, relaySharing, shareUrl, off, hasty, strays, denied>>
  BY DEF PublishFails, shell, page
<1>4. lapsed' = lapsed \cup calls[c].stale \cup ({calls[c].url} \ {0})
  BY DEF PublishFails
<1>5. \E url \in Address :
        /\ url \in slots \cup {0} /\ Ledger(url)
        /\ \/ \E n \in calls[c].stale : url \in {mine, Without(n)}
           \/ /\ calls[c].at \in {"revoking", "publishing"} /\ calls[c].op # "off"
              /\ url \in {mine, calls[c].url}
  <2>1. /\ mine \in Address /\ mine \in slots \cup {0}
        /\ calls[c].url \in Address /\ calls[c].url \in slots \cup {0}
    BY DEF Inv, Kinds, TypeOK, Printed, CallRecord
  <2>2. \A n : Without(n) \in Address /\ Without(n) \in slots \cup {0}
    BY <2>1 DEF Without, Address
  <2> QED BY <2>1, <2>2 DEF PublishFails
<1>6. PICK url \in Address :
        /\ url \in slots \cup {0} /\ Ledger(url)
        /\ \/ \E n \in calls[c].stale : url \in {mine, Without(n)}
           \/ /\ calls[c].at \in {"revoking", "publishing"} /\ calls[c].op # "off"
              /\ url \in {mine, calls[c].url}
  BY <1>5
<1>7. /\ mine' = url /\ mine' \in Address /\ seen' \in Address /\ unseen' \subseteq Address
      /\ {mine', seen'} \cup unseen' \subseteq slots' \cup {0} /\ Behind'
      /\ {seen'} \cup unseen' \subseteq {seen, url} \cup unseen
      /\ mine \in {seen} \cup unseen
  BY <1>3, <1>6, LedgerTo DEF Inv
<1>8. Kinds'
  <2>1. lapsed' \subseteq Node
    BY <1>4 DEF Inv, Kinds, TypeOK, CallRecord, Address
  <2>2. TypeOK'
    BY <1>1, <1>3, <1>7, <2>1 DEF Inv, Kinds, TypeOK
  <2>3. Staged' /\ ShellInOrder'
    BY <1>1, <1>3, IdleRecord DEF Inv, Kinds, Staged, ShellInOrder
  <2>4. Printed'
    BY <1>1, <1>3, <1>7, IdleRecord DEF Inv, Kinds, Printed
  <2> QED BY <1>7, <2>2, <2>3, <2>4 DEF Kinds
<1>9. ASSUME ~hasty' PROVE Calm'
  <2>1. Calm
    BY <1>3, <1>9 DEF Inv
  <2>2. CallsAreCurrent'
    BY <1>1, <1>3, <2>1, IdleRecord DEF Calm, CallsAreCurrent, Current
  <2>3. OffIsQuiet'
    BY <1>2, <2>1, <1>3 DEF Calm, OffIsQuiet
  <2>4. OffIsAlone'
    BY <1>1, <1>2, <2>1, IdleRecord DEF Calm, OffIsAlone
  <2>5. calls[c].at # "stopped" /\ calls'[c].at # "stopped"
    BY <1>1, IdleRecord DEF PublishFails
  <2>6. ShowsCurrent'
    BY <1>1, <1>3, <2>1, <2>5 DEF Calm, ShowsCurrent, Current
  <2>7. Keeps' /\ Shares'
    <3>1. \A d \in Call \ {c} : calls[c].op = "off" => calls[d] = Idle
      BY <2>1 DEF Calm, OffIsAlone
    <3>2. \A d \in Call \ {c} : calls[d].op # "off"
      BY <1>2, <2>1 DEF Calm, OffIsAlone
    <3>3. Untouched
      BY <3>2 DEF Untouched, PublishFails
    <3>4. Keeps /\ Shares
      BY <2>1, <3>3 DEF Calm, Publishes
    <3>5. Current(shareUrl)
      BY <2>1, <2>5, <3>2 DEF Inv, Kinds, Staged, Calm, ShowsCurrent
    <3>6. strays = {} /\ calls[c].op # "off" =>
            node \in lapsed' /\ (shareUrl # 0 => shareUrl \in lapsed')
      <4>1. calls[c].op # "off" => calls[c].url # 0 /\ Current(calls[c].url)
        BY <2>1 DEF PublishFails, Inv, Kinds, Staged, Calm, CallsAreCurrent
      <4> QED BY <1>4, <3>5, <4>1 DEF Current
    <3>7. CASE calls[c].op # "off"
      BY <1>3, <3>6, <3>7 DEF Keeps, Shares
    <3>8. CASE calls[c].op = "off"
      <4>1. PICK n \in calls[c].stale : url \in {mine, Without(n)}
        BY <1>6, <3>8
      <4>2. n \in lapsed' /\ lapsed \subseteq lapsed'
        BY <1>4, <4>1
      <4>3. url \in {0, mine} /\ (mine # n => url = mine)
        BY <4>1 DEF Without
      <4>4. Keeps'
        BY <1>3, <1>7, <3>4, <4>2, <4>3 DEF Keeps
      <4>5. ~WillContribute(shareUrl)
        BY <3>1, <3>8, IdleRecord DEF WillContribute
      <4>6. Shares'
        BY <1>3, <1>7, <3>4, <4>2, <4>3, <4>5 DEF Shares
      <4> QED BY <4>4, <4>6
    <3> QED BY <3>7, <3>8
  <2> QED BY <2>2, <2>3, <2>4, <2>6, <2>7 DEF Calm, Publishes
<1> QED BY <1>8, <1>9 DEF Inv

\* What the page sees next is among what it was behind by.
LEMMA PageSeesKeeps ==
  ASSUME Inv, PageSees PROVE Inv'
<1>1. /\ seen' \in unseen /\ pool' \in BOOLEAN
      /\ unseen' = unseen \/ (seen' = mine /\ unseen' = {})
      /\ UNCHANGED <<node, publicUrl, started, tunnels, slots, waiters, relays, orphans,
                     ready, relaySharing, shareUrl, calls, mine, off, hasty, strays,
                     lapsed, denied>>
  BY DEF PageSees, shell, history, Inv, Kinds, TypeOK
<1>2. Kinds'
  <2>1. TypeOK'
    BY <1>1 DEF Inv, Kinds, TypeOK
  <2>2. Staged' /\ ShellInOrder'
    BY <1>1 DEF Inv, Kinds, Staged, ShellInOrder
  <2>3. Printed' /\ Behind'
    BY <1>1 DEF Inv, Kinds, Printed, Behind
  <2> QED BY <2>1, <2>2, <2>3 DEF Kinds
<1>3. ASSUME ~hasty' PROVE Calm'
  <2>1. Calm
    BY <1>1, <1>3 DEF Inv
  <2>2. CallsAreCurrent' /\ ShowsCurrent'
    BY <1>1, <2>1 DEF Calm, CallsAreCurrent, Current, ShowsCurrent
  <2>3. OffIsAlone' /\ OffIsQuiet'
    BY <1>1, <2>1 DEF Calm, OffIsAlone, OffIsQuiet
  <2>4. Publishes'
    BY <1>1, <2>1 DEF Calm, Publishes, Untouched, Keeps, Shares, WillContribute
  <2> QED BY <2>2, <2>3, <2>4 DEF Calm
<1> QED BY <1>2, <1>3 DEF Inv


-----------------------------------------------------------------------------
(* Getting an address, and hosting on.                                     *)

\* What the ledger says, and what the page has seen of it, in one piece.
LedgerFits ==
  /\ mine \in Address /\ seen \in Address /\ unseen \subseteq Address
  /\ {mine, seen} \cup unseen \subseteq slots \cup {0}
  /\ Behind

\* A call that is no switch-off.
GoesOn(call) ==
  call = Idle \/
    /\ call.op \in {"share", "on", "open"}
    /\ call.at \in {"starting", "tunnel"} => call.op \in {"share", "on"}
    /\ call.at = "publishing" => call.op = "on"
    /\ call.at \in {"publishing", "revoking"} => call.url # 0
    /\ call.at = "revoking" => call.url \notin call.stale
    /\ call.at # "stopped"

\* A step of the page that begins or continues an operation other than a
\* switch-off, and leaves the shell alone.
LEMMA PageStep ==
  ASSUME Inv, UNCHANGED shell, NEW c \in Call, UNCHANGED <<strays, denied>>,
         ready' \in BOOLEAN, pool' \in BOOLEAN, relaySharing' \in BOOLEAN,
         shareUrl' \in Address, shareUrl' \in slots \cup {0}, LedgerFits',
         off' \in BOOLEAN, hasty' \in BOOLEAN, lapsed' \subseteq Node,
         calls' \in [Call -> CallRecord], \A d \in Call \ {c} : calls'[d] = calls[d],
         GoesOn(calls'[c]), calls'[c].url \in slots \cup {0},
         ~hasty' =>
           /\ ~hasty /\ ~off' /\ \A d \in Call : calls[d].op # "off"
           /\ Current(calls'[c].url) /\ Current(shareUrl')
           /\ Keeps' /\ Shares'
  PROVE  Inv'
<1>1. Kinds'
  <2>1. Staged'
    BY IdleRecord DEF Inv, Kinds, Staged, GoesOn
  <2>2. TypeOK' /\ ShellInOrder'
    BY DEF Inv, Kinds, TypeOK, ShellInOrder, LedgerFits, shell
  <2>3. Printed' /\ Behind'
    BY DEF Inv, Kinds, Printed, LedgerFits, shell
  <2> QED BY <2>1, <2>2, <2>3 DEF Kinds
<1>2. ASSUME ~hasty' PROVE Calm'
  <2>1. Calm
    BY <1>2 DEF Inv
  <2>2. \A d \in Call : calls'[d].op # "off" /\ calls'[d].at # "stopped"
    BY <1>2, IdleRecord DEF Inv, Kinds, Staged, GoesOn
  <2>3. CallsAreCurrent'
    <3>1. Current(publicUrl)'
      BY <2>1 DEF Calm, CallsAreCurrent, Current, shell
    <3>2. \A d \in Call : Current(calls'[d].url)
      BY <1>2, <2>1 DEF Calm, CallsAreCurrent
    <3>3. \A d \in Call : Current(calls[d].url)'
      BY <3>2 DEF Current, shell
    <3>4. \A d \in Call : calls'[d].at = "revoking" => calls'[d].url \notin calls'[d].stale
      BY <1>2, <2>1, IdleRecord DEF Calm, CallsAreCurrent, GoesOn
    <3> QED BY <3>1, <3>3, <3>4 DEF CallsAreCurrent
  <2>4. OffIsAlone' /\ OffIsQuiet'
    BY <1>2, <2>2 DEF OffIsAlone, OffIsQuiet
  <2>5. ShowsCurrent' /\ Publishes'
    BY <1>2, <2>2 DEF ShowsCurrent, Current, Publishes, shell
  <2> QED BY <2>3, <2>4, <2>5 DEF Calm
<1> QED BY <1>1, <1>2 DEF Inv

LEMMA LedgerFitsNext ==
  ASSUME Kinds, UNCHANGED <<shell, ledger>>
  PROVE  LedgerFits'
BY DEF Kinds, TypeOK, Printed, LedgerFits, Behind, shell, ledger

\* A beginning changes nothing else, and is no contribution undone.
LEMMA BeginningKeeps ==
  ASSUME Inv, UNCHANGED <<shell, page, ledger>>, NEW c \in Call,
         NEW url \in Address, NEW stale \in SUBSET Node,
         NEW op \in {"share", "on", "open"},
         NEW step \in {"asking", "starting", "revoking"},
         step = "starting" => op \in {"share", "on"},
         step = "revoking" => url # 0 /\ url \notin stale,
         url \in {0, shareUrl},
         Begins(c, op, step, url, stale)
  PROVE  Inv'
<1>1. /\ calls' \in [Call -> CallRecord]
      /\ calls[c] = Idle
      /\ calls'[c].op = op /\ calls'[c].at = step
      /\ calls'[c].url = url /\ calls'[c].stale = stale
      /\ \A d \in Call \ {c} : calls'[d] = calls[d]
      /\ off' = FALSE /\ UNCHANGED <<strays, lapsed, denied>> /\ hasty' \in BOOLEAN
      /\ ~hasty' => ~hasty /\ \A d \in Call : calls[d].op # "off"
  <2>1. ~hasty' => ~hasty /\ Under("off") = {}
    BY DEF Begins
  <2> QED BY <2>1 DEF Begins, Under, Inv, Kinds, TypeOK, CallRecord
<1>2. ASSUME ~hasty'
      PROVE  Current(url) /\ Current(shareUrl') /\ Keeps' /\ Shares'
  <2>1. Calm /\ \A d \in Call : calls[d].op # "off"
    BY <1>1, <1>2 DEF Inv
  <2>2. Current(shareUrl) /\ Keeps /\ Shares
    BY <2>1, ShownIsCurrent DEF Inv
  <2>3. Current(url) /\ Current(shareUrl')
    BY <2>2 DEF Current, shell, page
  <2>4. WillContribute(shareUrl) => WillContribute(shareUrl)'
    BY <1>1, IdleRecord DEF WillContribute, page
  <2>5. Keeps' /\ Shares'
    BY <1>1, <2>2, <2>4 DEF Keeps, Shares, shell, page, ledger
  <2> QED BY <2>3, <2>5
<1>3. /\ ready' \in BOOLEAN /\ pool' \in BOOLEAN /\ relaySharing' \in BOOLEAN
      /\ shareUrl' \in Address /\ shareUrl' \in slots \cup {0} /\ lapsed' \subseteq Node
      /\ url \in slots \cup {0} /\ LedgerFits'
  BY <1>1, LedgerFitsNext DEF Inv, Kinds, TypeOK, Printed, page
<1>4. GoesOn(calls'[c])
  BY <1>1 DEF GoesOn
<1> QED BY <1>1, <1>2, <1>3, <1>4, PageStep

LEMMA EnsureDesktopShareKeeps ==
  ASSUME Inv, NEW c \in Call, EnsureDesktopShare(c) PROVE Inv'
BY BeginningKeeps DEF EnsureDesktopShare, Address

LEMMA SetRelaySharingOnKeeps ==
  ASSUME Inv, NEW c \in Call, SetRelaySharingOn(c) PROVE Inv'
BY BeginningKeeps DEF SetRelaySharingOn, Address

LEMMA OpenCommunityKeeps ==
  ASSUME Inv, NEW c \in Call, OpenCommunity(c) PROVE Inv'
BY BeginningKeeps DEF OpenCommunity, Address

LEMMA SyncForInviteKeeps ==
  ASSUME Inv, NEW c \in Call, SyncForInvite(c) PROVE Inv'
<1>1. shareUrl \in Address /\ {seen} \ {0, shareUrl} \in SUBSET Node
  BY DEF Inv, Kinds, TypeOK, Address
<1> QED BY <1>1, BeginningKeeps DEF SyncForInvite

LEMMA ShareAnsweredKeeps ==
  ASSUME Inv, NEW c \in Call, ShareAnswered(c) PROVE Inv'
<1>1. calls[c] # Idle /\ calls[c].at = "asking"
  BY IdleRecord DEF ShareAnswered
<1>2. /\ StatusUrl \in Address /\ StatusUrl \in slots \cup {0}
      /\ shareUrl \in Address /\ shareUrl \in slots \cup {0}
      /\ pool' \in BOOLEAN /\ seen' \in Address /\ relaySharing \in BOOLEAN
  BY StatusType DEF Inv, Kinds, TypeOK, Printed, ShareAnswered, page, ledger
<1>3. UNCHANGED <<shell, page, ledger, off, hasty, strays, denied>>
  BY DEF ShareAnswered
<1>4. /\ calls' \in [Call -> CallRecord]
      /\ lapsed' \subseteq Node /\ lapsed \subseteq lapsed'
      /\ \A d \in Call \ {c} : calls'[d] = calls[d]
      /\ \/ calls'[c] = Idle
         \/ /\ calls'[c].op = "share" /\ calls'[c].at = "revoking"
            /\ shareUrl # 0 /\ calls'[c].url = shareUrl
            /\ shareUrl \notin calls'[c].stale
         \/ /\ calls'[c].op = "share" /\ calls'[c].at = "starting"
            /\ calls'[c].url = StatusUrl
  <2>1. CASE shareUrl # 0 /\ StatusUrl = shareUrl
    <3>1. Sync(c, shareUrl, relaySharing)
      BY <2>1 DEF ShareAnswered
    <3> QED BY <1>2, <2>1, <3>1, SyncTo DEF ShareAnswered, Inv
  <2>2. CASE ~(shareUrl # 0 /\ StatusUrl = shareUrl)
    <3>1. Goes(c, "starting", StatusUrl, {}) /\ lapsed' = lapsed
      BY <2>2 DEF ShareAnswered
    <3> QED BY <1>2, <3>1, GoesTo DEF ShareAnswered, Inv, Kinds, TypeOK
  <2> QED BY <2>1, <2>2
<1>5. ASSUME ~hasty'
      PROVE  /\ ~hasty /\ ~off' /\ \A d \in Call : calls[d].op # "off"
             /\ Current(calls'[c].url) /\ Current(shareUrl')
             /\ Keeps' /\ Shares'
  <2>1. ~hasty /\ Calm
    BY <1>3, <1>5 DEF Inv
  <2>2. ~off' /\ \A d \in Call : calls[d].op # "off"
    BY <1>1, <1>3, <2>1, NothingSwitchesOff DEF ShareAnswered
  <2>3. Current(shareUrl) /\ Current(StatusUrl) /\ Current(0) /\ Keeps /\ Shares
    BY <2>1, <2>2, ShownIsCurrent, StatusIsCurrent DEF Inv, Calm, Current
  <2>4. Current(calls'[c].url) /\ Current(shareUrl')
    BY <1>3, <1>4, <2>3, IdleRecord DEF Current, page
  <2>5. WillContribute(shareUrl) => WillContribute(shareUrl)'
    BY <1>1, <1>3, <1>4 DEF WillContribute, page
  <2>6. Keeps' /\ Shares'
    BY <1>3, <1>4, <2>3, <2>5 DEF Keeps, Shares, shell, page, ledger
  <2> QED BY <2>1, <2>2, <2>4, <2>6
<1>6. /\ ready' \in BOOLEAN /\ relaySharing' \in BOOLEAN
      /\ shareUrl' \in Address /\ shareUrl' \in slots \cup {0} /\ LedgerFits'
      /\ off' \in BOOLEAN /\ hasty' \in BOOLEAN
      /\ calls'[c].url \in slots \cup {0}
  BY <1>2, <1>3, <1>4, LedgerFitsNext, IdleRecord DEF Inv, Kinds, TypeOK, page
<1>7. GoesOn(calls'[c])
  BY <1>4 DEF GoesOn
<1> QED BY <1>2, <1>3, <1>4, <1>5, <1>6, <1>7, PageStep

\* The address shown next is the one of the status, or was found before.
LEMMA ApplyDesktopShareKeeps ==
  ASSUME Inv, NEW c \in Call, ApplyDesktopShare(c) PROVE Inv'
<1> DEFINE url == IF StatusUrl # 0 THEN StatusUrl ELSE calls[c].url
<1>1. calls[c] # Idle /\ calls[c].op = "share" /\ calls[c].at = "tunnel"
  BY IdleRecord DEF ApplyDesktopShare
<1>2. /\ url \in Address /\ url \in slots \cup {0}
      /\ pool' \in BOOLEAN /\ seen' \in Address /\ relaySharing \in BOOLEAN
  BY StatusType DEF Inv, Kinds, TypeOK, Printed, CallRecord, ApplyDesktopShare, ledger
<1>3. /\ UNCHANGED <<shell, ready, pool, relaySharing, ledger, off, hasty, strays, denied>>
      /\ shareUrl' = IF url # 0 THEN url ELSE shareUrl
      /\ IF url # 0 THEN Sync(c, url, relaySharing)
         ELSE Ends(c) /\ UNCHANGED lapsed
  BY DEF ApplyDesktopShare
<1> HIDE DEF url
<1>4. /\ calls' \in [Call -> CallRecord]
      /\ lapsed' \subseteq Node /\ lapsed \subseteq lapsed'
      /\ \A d \in Call \ {c} : calls'[d] = calls[d]
      /\ \/ calls'[c] = Idle /\ (url # 0 /\ relaySharing => url \in lapsed')
         \/ /\ calls'[c].op = "share" /\ calls'[c].at = "revoking"
            /\ url # 0 /\ calls'[c].url = url /\ url \notin calls'[c].stale
  <2>1. CASE url # 0
    <3>1. Sync(c, url, relaySharing)
      BY <1>3, <2>1
    <3> QED BY <1>1, <1>2, <2>1, <3>1, SyncTo DEF Inv
  <2>2. CASE url = 0
    <3>1. Ends(c) /\ lapsed' = lapsed
      BY <1>3, <2>2
    <3> QED BY <2>2, <3>1, EndsTo DEF Inv, Kinds, TypeOK
  <2> QED BY <2>1, <2>2
<1>5. ASSUME ~hasty'
      PROVE  /\ ~hasty /\ ~off' /\ \A d \in Call : calls[d].op # "off"
             /\ Current(calls'[c].url) /\ Current(shareUrl')
             /\ Keeps' /\ Shares'
  <2>1. ~hasty /\ Calm
    BY <1>3, <1>5 DEF Inv
  <2>2. ~off' /\ \A d \in Call : calls[d].op # "off"
    BY <1>1, <1>3, <2>1, NothingSwitchesOff
  <2>3. /\ Current(shareUrl) /\ Current(StatusUrl) /\ Current(0) /\ Current(calls[c].url)
        /\ Keeps /\ Shares
    BY <2>1, <2>2, ShownIsCurrent, StatusIsCurrent
    DEF Inv, Calm, CallsAreCurrent, Current
  <2>4. Current(url)
    BY <2>3 DEF url
  <2>5. Current(calls'[c].url) /\ Current(shareUrl')
    BY <1>3, <1>4, <2>3, <2>4, IdleRecord
  <2>6. Keeps'
    BY <1>3, <1>4, <2>3 DEF Keeps, shell, ledger
  <2>7. Shares'
    <3>1. CASE url = 0
      <4>1. WillContribute(shareUrl) => WillContribute(shareUrl)'
        BY <1>1, <1>3, <1>4, <3>1 DEF WillContribute
      <4> QED BY <1>3, <1>4, <2>3, <3>1, <4>1 DEF Shares, ledger
    <3>2. CASE url # 0
      BY <1>3, <1>4, <3>2 DEF Shares, WillContribute
    <3> QED BY <3>1, <3>2
  <2> QED BY <2>1, <2>2, <2>5, <2>6, <2>7
<1>6. /\ ready' \in BOOLEAN /\ relaySharing' \in BOOLEAN
      /\ shareUrl' \in Address /\ shareUrl' \in slots \cup {0} /\ LedgerFits'
      /\ off' \in BOOLEAN /\ hasty' \in BOOLEAN
      /\ calls'[c].url \in slots \cup {0}
  BY <1>2, <1>3, <1>4, LedgerFitsNext, IdleRecord DEF Inv, Kinds, TypeOK, Printed
<1>7. GoesOn(calls'[c])
  BY <1>4 DEF GoesOn
<1> QED BY <1>2, <1>3, <1>4, <1>5, <1>6, <1>7, PageStep

\* With none gone astray, hosting is on without an address only when none was
\* shown.
LEMMA NoStatusNoAddress ==
  ASSUME Kinds, Calm, Current(shareUrl), shareUrl # 0, strays = {}
  PROVE  StatusUrl # 0 /\ node # 0
BY NoNodeIsZero DEF Kinds, TypeOK, Current, StatusUrl, ResolvePublicUrl, Calm, CallsAreCurrent

LEMMA TunnelWaitedKeeps ==
  ASSUME Inv, NEW c \in Call, TunnelWaited(c) PROVE Inv'
<1>1. calls[c] # Idle /\ calls[c].op = "on" /\ calls[c].at = "tunnel"
  BY IdleRecord DEF TunnelWaited
<1>2. StatusUrl \in Address /\ StatusUrl \in slots \cup {0}
  BY StatusType DEF Inv
<1>3. /\ UNCHANGED <<shell, ready, pool, shareUrl, ledger, off, hasty, strays, lapsed,
                     denied>>
      /\ relaySharing' = TRUE \/ relaySharing' = relaySharing
  BY DEF TunnelWaited, history
<1>4. /\ calls' \in [Call -> CallRecord]
      /\ \A d \in Call \ {c} : calls'[d] = calls[d]
      /\ \/ calls'[c] = Idle /\ StatusUrl = 0
         \/ /\ calls'[c].op = "on" /\ calls'[c].at = "publishing"
            /\ StatusUrl # 0 /\ calls'[c].url = StatusUrl
            /\ relaySharing' = relaySharing
  BY <1>1, <1>2, EndsTo, GoesTo DEF TunnelWaited, Inv, Kinds
<1>5. ASSUME ~hasty'
      PROVE  /\ ~hasty /\ ~off' /\ \A d \in Call : calls[d].op # "off"
             /\ Current(calls'[c].url) /\ Current(shareUrl')
             /\ Keeps' /\ Shares'
  <2>1. ~hasty /\ Calm
    BY <1>3, <1>5 DEF Inv
  <2>2. ~off' /\ \A d \in Call : calls[d].op # "off"
    BY <1>1, <1>3, <2>1, NothingSwitchesOff
  <2>3. Current(shareUrl) /\ Current(StatusUrl) /\ Current(0) /\ Keeps /\ Shares
    BY <2>1, <2>2, ShownIsCurrent, StatusIsCurrent DEF Inv, Calm, Current
  <2>4. Current(calls'[c].url) /\ Current(shareUrl')
    BY <1>3, <1>4, <2>3, IdleRecord
  <2>5. strays = {} /\ shareUrl # 0 => StatusUrl # 0
    BY <2>1, <2>3, NoStatusNoAddress DEF Inv
  <2>6. WillContribute(shareUrl) => WillContribute(shareUrl)'
    BY <1>1, <1>3, <1>4 DEF WillContribute
  <2>7. Keeps'
    BY <1>3, <2>3 DEF Keeps, shell, ledger
  <2>8. Shares'
    BY <1>3, <1>4, <2>3, <2>5, <2>6 DEF Shares, ledger
  <2> QED BY <2>1, <2>2, <2>4, <2>7, <2>8
<1>6. /\ ready' \in BOOLEAN /\ pool' \in BOOLEAN /\ relaySharing' \in BOOLEAN
      /\ shareUrl' \in Address /\ shareUrl' \in slots \cup {0} /\ LedgerFits'
      /\ off' \in BOOLEAN /\ hasty' \in BOOLEAN /\ lapsed' \subseteq Node
      /\ calls'[c].url \in slots \cup {0}
  BY <1>2, <1>3, <1>4, LedgerFitsNext, IdleRecord DEF Inv, Kinds, TypeOK, Printed
<1>7. GoesOn(calls'[c])
  BY <1>4 DEF GoesOn
<1> QED BY <1>3, <1>4, <1>5, <1>6, <1>7, PageStep

LEMMA OnSharedKeeps ==
  ASSUME Inv, NEW c \in Call, OnShared(c) PROVE Inv'
<1>1. calls[c] # Idle /\ calls[c].op = "on"
      /\ calls[c].url \in Node /\ calls[c].url \in slots
  BY IdleRecord DEF OnShared, Inv, Kinds, TypeOK, Staged, Printed, CallRecord, Address
<1>2. /\ calls' \in [Call -> CallRecord] /\ calls'[c] = Idle
      /\ \A d \in Call \ {c} : calls'[d] = calls[d]
  BY EndsTo DEF OnShared, Inv, Kinds
<1>3. /\ UNCHANGED <<shell, ready, pool, off, hasty, strays, denied>>
      /\ relaySharing' = TRUE /\ shareUrl' = calls[c].url /\ slots' = slots
  BY DEF OnShared, shell
<1>4. /\ LedgerFits' /\ lapsed' \subseteq Node
      /\ mine' = calls[c].url \/ calls[c].url \in lapsed'
  BY <1>1, <1>3, ContributesTo DEF OnShared, Inv, LedgerFits
<1>5. ASSUME ~hasty'
      PROVE  /\ ~hasty /\ ~off' /\ \A d \in Call : calls[d].op # "off"
             /\ Current(calls'[c].url) /\ Current(shareUrl')
             /\ Keeps' /\ Shares'
  <2>1. ~hasty /\ Calm
    BY <1>3, <1>5 DEF Inv
  <2>2. ~off' /\ \A d \in Call : calls[d].op # "off"
    BY <1>1, <1>3, <2>1, NothingSwitchesOff
  <2>3. Current(calls[c].url)
    BY <2>1 DEF Calm, CallsAreCurrent
  <2>4. Current(calls'[c].url) /\ Current(shareUrl')
    BY <1>2, <1>3, <2>3, IdleRecord DEF Current
  <2>5. strays = {} => calls[c].url = node
    BY <1>1, <2>3, NoNodeIsZero DEF Current
  <2>6. Keeps' /\ Shares'
    BY <1>3, <1>4, <2>5 DEF Keeps, Shares, shell
  <2> QED BY <2>1, <2>2, <2>4, <2>6
<1>6. /\ ready' \in BOOLEAN /\ pool' \in BOOLEAN /\ relaySharing' \in BOOLEAN
      /\ shareUrl' \in Address /\ shareUrl' \in slots \cup {0}
      /\ off' \in BOOLEAN /\ hasty' \in BOOLEAN
      /\ GoesOn(calls'[c]) /\ calls'[c].url \in slots \cup {0}
  BY <1>1, <1>2, <1>3, IdleRecord DEF Inv, Kinds, TypeOK, GoesOn, Address
<1> QED BY <1>2, <1>3, <1>4, <1>5, <1>6, PageStep

\* A page that opens takes over the address of the node it finds.
LEMMA OpenedKeeps ==
  ASSUME Inv, NEW c \in Call, Opened(c) PROVE Inv'
<1>1. calls[c] # Idle /\ calls[c].op = "open"
  BY IdleRecord DEF Opened
<1>2. /\ StatusUrl \in Address /\ StatusUrl \in slots \cup {0}
      /\ pool' \in BOOLEAN /\ slots' = slots
  BY StatusType DEF Inv, Kinds, TypeOK, Opened, shell
<1>3. /\ UNCHANGED <<shell, mine, off, hasty, strays, denied>>
      /\ seen' \in {0, mine} /\ unseen' \subseteq {mine} /\ Behind'
      /\ relaySharing' = (node # 0)
      /\ shareUrl' = IF StatusUrl # 0 THEN StatusUrl ELSE shareUrl
  BY DEF Opened, Behind
<1>4. LedgerFits'
  BY <1>2, <1>3 DEF Inv, Kinds, TypeOK, Printed, LedgerFits, Address
<1>5. /\ calls' \in [Call -> CallRecord]
      /\ lapsed' \subseteq Node /\ lapsed \subseteq lapsed'
      /\ \A d \in Call \ {c} : calls'[d] = calls[d]
      /\ \/ calls'[c] = Idle /\ (StatusUrl # 0 => StatusUrl \in lapsed')
         \/ /\ calls'[c].op = "open" /\ calls'[c].at = "revoking"
            /\ StatusUrl # 0 /\ calls'[c].url = StatusUrl
            /\ StatusUrl \notin calls'[c].stale
  <2>1. CASE StatusUrl # 0
    <3>1. Sync(c, StatusUrl, TRUE)
      BY <2>1 DEF Opened
    <3>2. seen' \in Address
      BY <1>4 DEF LedgerFits
    <3> QED BY <1>1, <1>2, <2>1, <3>1, <3>2, SyncTo DEF Inv
  <2>2. CASE StatusUrl = 0
    <3>1. Ends(c) /\ lapsed' = lapsed
      BY <2>2 DEF Opened
    <3> QED BY <2>2, <3>1, EndsTo DEF Inv, Kinds, TypeOK
  <2> QED BY <2>1, <2>2
<1>6. ASSUME ~hasty'
      PROVE  /\ ~hasty /\ ~off' /\ \A d \in Call : calls[d].op # "off"
             /\ Current(calls'[c].url) /\ Current(shareUrl')
             /\ Keeps' /\ Shares'
  <2>1. ~hasty /\ Calm
    BY <1>3, <1>6 DEF Inv
  <2>2. ~off' /\ \A d \in Call : calls[d].op # "off"
    BY <1>1, <1>3, <2>1, NothingSwitchesOff
  <2>3. Current(shareUrl) /\ Current(StatusUrl) /\ Current(0)
    BY <2>1, <2>2, ShownIsCurrent, StatusIsCurrent DEF Inv, Calm, Current
  <2>4. Current(calls'[c].url) /\ Current(shareUrl')
    BY <1>3, <1>5, <2>3, IdleRecord
  <2>5. strays = {} /\ shareUrl # 0 => StatusUrl # 0
    BY <2>1, <2>3, NoStatusNoAddress DEF Inv
  <2>6. Keeps'
    BY <1>3 DEF Keeps, shell
  <2>7. strays' = {} /\ shareUrl' # 0 => StatusUrl # 0 /\ shareUrl' = StatusUrl
    BY <1>3, <2>5
  <2>8. Shares'
    BY <1>5, <2>7 DEF Shares, WillContribute
  <2> QED BY <2>1, <2>2, <2>4, <2>6, <2>8
<1>7. /\ ready' \in BOOLEAN /\ relaySharing' \in BOOLEAN
      /\ shareUrl' \in Address /\ shareUrl' \in slots \cup {0}
      /\ off' \in BOOLEAN /\ hasty' \in BOOLEAN
      /\ calls'[c].url \in slots \cup {0}
  BY <1>2, <1>3, <1>5, IdleRecord DEF Inv, Kinds, TypeOK, Printed, Opened
<1>8. GoesOn(calls'[c])
  BY <1>5 DEF GoesOn
<1> QED BY <1>2, <1>3, <1>4, <1>5, <1>6, <1>7, <1>8, PageStep

-----------------------------------------------------------------------------
(* Hosting off.                                                            *)

\* A page that is not behind sees the one address there is to revoke, and
\* nothing else is under way.
LEMMA SetRelaySharingOffKeeps ==
  ASSUME Inv, NEW c \in Call, SetRelaySharingOff(c)
  PROVE  Inv'
<1>1. {seen} \ {0} \in SUBSET Node
  BY DEF Inv, Kinds, TypeOK, Address
<1>2. /\ calls' \in [Call -> CallRecord]
      /\ calls'[c].op = "off" /\ calls'[c].at = "revoking"
      /\ calls'[c].url = 0 /\ calls'[c].stale = {seen} \ {0}
      /\ \A d \in Call \ {c} : calls'[d] = calls[d]
      /\ hasty' \in BOOLEAN
      /\ ~hasty' => ~hasty /\ Pending = {} /\ unseen = {}
  BY <1>1 DEF SetRelaySharingOff, Inv, Kinds, TypeOK, CallRecord, Address
<1>3. UNCHANGED <<shell, page, ledger, off, strays, lapsed, denied>> /\ relaySharing
  BY DEF SetRelaySharingOff
<1>4. Kinds'
  <2>1. TypeOK' /\ Staged'
    BY <1>2, <1>3 DEF Inv, Kinds, TypeOK, Staged, shell, page, ledger
  <2>2. ShellInOrder' /\ Printed' /\ Behind'
    BY <1>2, <1>3 DEF Inv, Kinds, ShellInOrder, Printed, Behind, shell, page, ledger
  <2> QED BY <2>1, <2>2 DEF Kinds
<1>5. ASSUME ~hasty' PROVE Calm'
  <2>1. Calm /\ seen = mine /\ \A d \in Call : calls[d] = Idle
    BY <1>2, <1>5 DEF Inv, Pending, Kinds, Behind
  <2>2. CallsAreCurrent'
    BY <1>2, <1>3, <2>1, IdleRecord DEF Calm, CallsAreCurrent, Current, shell
  <2>3. OffIsAlone' /\ OffIsQuiet'
    BY <1>2, <1>3, <2>1, IdleRecord
    DEF Calm, OffIsAlone, OffIsQuiet, shell, page, ledger
  <2>4. Current(shareUrl) /\ Keeps /\ Shares
    BY <2>1, ShownIsCurrent, IdleRecord DEF Inv
  <2>5. ~WillContribute(shareUrl)
    BY <2>1, IdleRecord DEF WillContribute
  <2>6. ShowsCurrent' /\ Publishes'
    BY <1>2, <1>3, <2>4, <2>5
    DEF ShowsCurrent, Current, Publishes, Keeps, Shares, shell, page, ledger
  <2> QED BY <2>2, <2>3, <2>6 DEF Calm
<1> QED BY <1>4, <1>5 DEF Inv

LEMMA NodeStopsKeeps ==
  ASSUME Inv, NEW c \in Call, NodeStops(c)
  PROVE  Inv'
<1>1. /\ calls' \in [Call -> CallRecord]
      /\ calls'[c].op = "off" /\ calls'[c].at = "stopped"
      /\ calls'[c].url = 0 /\ calls'[c].stale = {}
      /\ \A d \in Call \ {c} : calls'[d] = calls[d]
  BY GoesTo DEF NodeStops, Inv, Kinds, Address
<1>2. calls[c] # Idle
  BY IdleRecord DEF NodeStops
<1>3. /\ UNCHANGED <<page, ledger, history, started, tunnels, slots, waiters, orphans>>
      /\ node' = 0 /\ publicUrl' = 0 /\ relays' = relays \ {node}
  BY DEF NodeStops, StopLocalNode
<1>4. Kinds'
  <2>1. TypeOK' /\ Staged'
    BY <1>1, <1>3 DEF Inv, Kinds, TypeOK, Staged, page, ledger, history, Address
  <2>2. ShellInOrder' /\ Printed' /\ Behind'
    BY <1>1, <1>3
    DEF Inv, Kinds, ShellInOrder, Printed, Behind, page, ledger, history
  <2> QED BY <2>1, <2>2 DEF Kinds
<1>5. ASSUME ~hasty' PROVE Calm'
  <2>1. Calm
    BY <1>3, <1>5 DEF Inv, history
  <2>2. /\ ~off /\ mine \in {0} \cup denied
        /\ \A d \in Call \ {c} : calls[d] = Idle
    BY <2>1 DEF Calm, OffIsAlone, NodeStops
  <2>3. CallsAreCurrent'
    <3>1. \A d \in Call : calls'[d].url = 0 /\ calls'[d].at # "revoking"
      BY <1>1, <2>2, IdleRecord
    <3> QED BY <1>3, <3>1 DEF CallsAreCurrent, Current
  <2>4. OffIsAlone' /\ OffIsQuiet'
    BY <1>1, <1>3, <2>2, IdleRecord DEF OffIsAlone, OffIsQuiet, ledger, history
  <2>5. ShowsCurrent' /\ Publishes'
    BY <1>1 DEF ShowsCurrent, Publishes, Untouched
  <2> QED BY <2>3, <2>4, <2>5 DEF Calm
<1> QED BY <1>4, <1>5 DEF Inv

LEMMA OffSharedKeeps ==
  ASSUME Inv, NEW c \in Call, OffShared(c)
  PROVE  Inv'
<1>1. /\ calls' \in [Call -> CallRecord] /\ calls'[c] = Idle
      /\ \A d \in Call \ {c} : calls'[d] = calls[d]
  BY EndsTo DEF OffShared, Inv, Kinds
<1>2. calls[c].op = "off" /\ calls[c].at = "stopped"
  BY DEF Inv, Kinds, Staged, OffShared
<1>3. /\ UNCHANGED <<shell, ready, pool, ledger, hasty, strays, lapsed, denied>>
      /\ relaySharing' = FALSE /\ shareUrl' = 0 /\ off' = TRUE
  BY DEF OffShared
<1>4. Kinds'
  <2>1. TypeOK' /\ Staged'
    BY <1>1, <1>3, IdleRecord DEF Inv, Kinds, TypeOK, Staged, shell, ledger, Address
  <2>2. ShellInOrder' /\ Printed' /\ Behind'
    BY <1>1, <1>3, IdleRecord DEF Inv, Kinds, ShellInOrder, Printed, Behind, shell, ledger
  <2> QED BY <2>1, <2>2 DEF Kinds
<1>5. ASSUME ~hasty' PROVE Calm'
  <2>1. Calm
    BY <1>3, <1>5 DEF Inv
  <2>2. /\ node' = 0 /\ mine' \in {0} \cup denied' /\ \A d \in Call : calls'[d] = Idle
    BY <1>1, <1>2, <1>3, <2>1 DEF Calm, OffIsAlone, shell, ledger
  <2>3. CallsAreCurrent' /\ OffIsAlone'
    BY <1>3, <2>1, <2>2, IdleRecord
    DEF Calm, CallsAreCurrent, Current, OffIsAlone, shell
  <2>4. OffIsQuiet' /\ ShowsCurrent' /\ Publishes'
    BY <1>3, <2>2 DEF OffIsQuiet, ShowsCurrent, Current, Publishes, Keeps, Shares
  <2> QED BY <2>3, <2>4 DEF Calm
<1> QED BY <1>4, <1>5 DEF Inv

-----------------------------------------------------------------------------
(* The page and the app around it.                                         *)

LEMMA LockKeeps ==
  ASSUME Inv, Lock PROVE Inv'
<1>1. /\ UNCHANGED <<shell, calls, ledger, history>>
      /\ ready' = FALSE /\ pool' = FALSE /\ relaySharing' = FALSE /\ shareUrl' = 0
  BY DEF Lock
<1>2. Kinds'
  <2>1. TypeOK' /\ Staged'
    BY <1>1 DEF Inv, Kinds, TypeOK, Staged, shell, ledger, history, Address
  <2>2. ShellInOrder' /\ Printed' /\ Behind'
    BY <1>1 DEF Inv, Kinds, ShellInOrder, Printed, Behind, shell, ledger, history
  <2> QED BY <2>1, <2>2 DEF Kinds
<1>3. ASSUME ~hasty' PROVE Calm'
  <2>1. Calm
    BY <1>1, <1>3 DEF Inv, history
  <2>2. CallsAreCurrent' /\ ShowsCurrent'
    BY <1>1, <2>1 DEF Calm, CallsAreCurrent, Current, ShowsCurrent, shell, history
  <2>3. OffIsAlone' /\ OffIsQuiet'
    BY <1>1, <2>1 DEF Calm, OffIsAlone, OffIsQuiet, shell, ledger, history
  <2>4. Publishes'
    BY <1>1, <2>1 DEF Calm, Publishes, Untouched, Keeps, Shares, shell, ledger, history
  <2> QED BY <2>2, <2>3, <2>4 DEF Calm
<1> QED BY <1>2, <1>3 DEF Inv

\* A page that loads has one call, which asks for an address, and has seen
\* nothing of the ledger.
LEMMA LoadsKeeps ==
  ASSUME Inv, Loads, hasty' \in BOOLEAN, strays' \subseteq slots,
         node' \in Address, publicUrl' \in slots \cup {0}, started' \in 0 .. MaxStarts,
         tunnels' \subseteq Node, slots' = slots, waiters' \subseteq Node,
         relays' \subseteq Node, orphans' \subseteq Node,
         relays' \subseteq orphans' \cup {node'},
         \A n \in tunnels' \cup slots' : n <= started',
         ~hasty' => Current(publicUrl)'
  PROVE  Inv'
<1>1. /\ calls' \in [Call -> CallRecord]
      /\ \A d \in Call : calls'[d].url = 0 /\ calls'[d].at \in {"asking", "idle"}
                         /\ (calls'[d].op = "share" \/ calls'[d] = Idle)
  <2> DEFINE Asking == [Idle EXCEPT !.op = "share", !.at = "asking"]
  <2>1. /\ Asking \in CallRecord /\ Asking.op = "share" /\ Asking.at = "asking"
        /\ Asking.url = 0
    BY DEF CallRecord, Idle, Address
  <2> HIDE DEF Asking
  <2>2. PICK c \in Call : calls' = [d \in Call |-> IF d = c THEN Asking ELSE Idle]
    BY DEF Loads, Asking
  <2> QED BY <2>1, <2>2, IdleRecord
<1>2. /\ shareUrl' = 0 /\ ~relaySharing' /\ off' = FALSE
      /\ ready' = FALSE /\ pool' = FALSE
      /\ mine' = mine /\ seen' = 0 /\ unseen' = {mine}
      /\ UNCHANGED <<lapsed, denied>>
  BY DEF Loads
<1>3. Kinds'
  <2>1. TypeOK'
    BY <1>1, <1>2 DEF Inv, Kinds, TypeOK, Loads, Address
  <2>2. Staged'
    BY <1>1, IdleRecord DEF Staged
  <2>3. ShellInOrder' /\ Printed' /\ Behind'
    BY <1>1, <1>2 DEF Inv, Kinds, ShellInOrder, Printed, Behind
  <2> QED BY <2>1, <2>2, <2>3 DEF Kinds
<1>4. ASSUME ~hasty' PROVE Calm'
  <2>1. \A d \in Call : /\ calls'[d].url = 0 /\ calls'[d].at # "revoking"
                        /\ calls'[d].op # "off"
    BY <1>1, IdleRecord
  <2>2. CallsAreCurrent'
    BY <1>4, <2>1 DEF CallsAreCurrent, Current
  <2>3. OffIsAlone' /\ OffIsQuiet' /\ ShowsCurrent'
    BY <1>2, <2>1 DEF OffIsAlone, OffIsQuiet, ShowsCurrent, Current
  <2>4. Publishes'
    BY <1>2 DEF Publishes, Keeps, Shares
  <2> QED BY <2>2, <2>3, <2>4 DEF Calm
<1> QED BY <1>3, <1>4 DEF Inv

LEMMA ReloadKeeps ==
  ASSUME Inv, Reload PROVE Inv'
<1>1. UNCHANGED <<shell, hasty, strays>> /\ Loads
  BY DEF Reload
<1>2. /\ node' \in Address /\ publicUrl' \in slots \cup {0} /\ started' \in 0 .. MaxStarts
      /\ tunnels' \subseteq Node /\ slots' = slots /\ waiters' \subseteq Node
      /\ relays' \subseteq Node /\ orphans' \subseteq Node
      /\ relays' \subseteq orphans' \cup {node'}
      /\ \A n \in tunnels' \cup slots' : n <= started'
      /\ hasty' \in BOOLEAN /\ strays' \subseteq slots
  <2>1. strays \subseteq slots
    BY NoNodeIsZero DEF Inv, Kinds, TypeOK, Printed
  <2> QED BY <1>1, <2>1 DEF Inv, Kinds, TypeOK, ShellInOrder, Printed, shell
<1>3. ~hasty' => Current(publicUrl)'
  BY <1>1 DEF Inv, Calm, CallsAreCurrent, Current, shell
<1> QED BY <1>1, <1>2, <1>3, LoadsKeeps

LEMMA RelaunchKeeps ==
  ASSUME Inv, Relaunch PROVE Inv'
<1>1. relays \ {node} \in SUBSET orphans /\ {} \in SUBSET Node
  BY DEF Inv, Kinds, ShellInOrder
<1>2. /\ node' \in Address /\ publicUrl' = 0 /\ started' \in 0 .. MaxStarts
      /\ tunnels' \subseteq Node /\ slots' = slots /\ waiters' \subseteq Node
      /\ relays' \subseteq Node /\ orphans' \subseteq Node
      /\ relays' \subseteq orphans' \cup {node'}
      /\ \A n \in tunnels' \cup slots' : n <= started'
  <2>1. CASE Launch(relays \ {node}, {})
    BY <1>1, <2>1, LaunchType DEF Inv
  <2>2. CASE /\ node' = 0 /\ publicUrl' = 0
             /\ relays' = relays \ {node} /\ waiters' = {}
             /\ UNCHANGED <<started, tunnels, slots, orphans>>
    BY <1>1, <2>2 DEF Inv, Kinds, TypeOK, ShellInOrder, Address
  <2> QED BY <2>1, <2>2 DEF Relaunch
<1>3. Loads /\ hasty' = FALSE /\ strays' = {}
  BY DEF Relaunch
<1>4. Current(publicUrl)'
  BY <1>2 DEF Current
<1> QED BY <1>2, <1>3, <1>4, LoadsKeeps

-----------------------------------------------------------------------------
(* The theorems.                                                           *)

LEMMA InvInit == Init => Inv
<1> SUFFICES ASSUME Init PROVE Inv
  OBVIOUS
<1>1. /\ calls \in [Call -> CallRecord]
      /\ \A c \in Call : /\ calls[c] = Idle /\ calls[c].url = 0
                          /\ calls[c].op = "none" /\ calls[c].at = "idle"
  BY IdleRecord DEF Init
<1>2. Staged
  BY <1>1 DEF Staged
<1>3. ShellInOrder /\ Printed /\ Behind
  BY <1>1 DEF Init, ShellInOrder, Printed, Behind
<1>4. TypeOK
  <2>1. 0 \in Address /\ 0 \in 0 .. MaxStarts
    BY StartsAssumption DEF Address
  <2> QED BY <1>1, <2>1 DEF Init, TypeOK
<1>5. CallsAreCurrent /\ OffIsAlone
  BY <1>1 DEF Init, CallsAreCurrent, Current, OffIsAlone
<1>6. ShowsCurrent /\ OffIsQuiet /\ Publishes
  BY <1>1 DEF Init, ShowsCurrent, Current, OffIsQuiet, Publishes, Keeps, Shares
<1> QED BY <1>2, <1>3, <1>4, <1>5, <1>6 DEF Inv, Kinds, Calm

LEMMA InvNext == Inv /\ [Next]_vars => Inv'
<1> SUFFICES ASSUME Inv, [Next]_vars PROVE Inv'
  OBVIOUS
<1>1. CASE PageSees \/ Lock \/ Reload \/ Relaunch
  BY <1>1, PageSeesKeeps, LockKeeps, ReloadKeeps, RelaunchKeeps
<1>2. ASSUME NEW c \in Call,
             \/ EnsureDesktopShare(c) \/ ShareAnswered(c) \/ NodeStarts(c)
             \/ ApplyDesktopShare(c) \/ SyncForInvite(c)
             \/ SetRelaySharingOn(c) \/ TunnelWaited(c) \/ OnShared(c)
      PROVE  Inv'
  BY <1>2, EnsureDesktopShareKeeps, ShareAnsweredKeeps, NodeStartsKeeps,
     ApplyDesktopShareKeeps, SyncForInviteKeeps, SetRelaySharingOnKeeps,
     TunnelWaitedKeeps, OnSharedKeeps
<1>3. ASSUME NEW c \in Call,
             \/ SetRelaySharingOff(c) \/ NodeStops(c) \/ OffShared(c)
             \/ OpenCommunity(c) \/ Opened(c)
             \/ Contribute(c) \/ PublishFails(c)
             \/ \E n \in Node : Revoke(c, n)
      PROVE  Inv'
  BY <1>3, SetRelaySharingOffKeeps, NodeStopsKeeps, OffSharedKeeps,
     OpenCommunityKeeps, OpenedKeeps, ContributeKeeps, PublishFailsKeeps,
     RevokeKeeps
<1>4. CASE UNCHANGED vars
  <2>1. Kinds'
    BY <1>4 DEF Inv, Kinds, TypeOK, Staged, ShellInOrder, Printed, Behind, vars, shell,
       page, ledger, history
  <2>2. ASSUME ~hasty' PROVE Calm'
    BY <1>4, <2>2 DEF Inv, Calm, CallsAreCurrent, Current, OffIsAlone, ShowsCurrent,
       OffIsQuiet, Publishes, Untouched, Keeps, Shares, WillContribute, vars, shell,
       page, ledger, history
  <2> QED BY <2>1, <2>2 DEF Inv
<1> QED BY <1>1, <1>2, <1>3, <1>4, TunnelPrintsKeeps, WaiterEndsKeeps DEF Next

LEMMA InvHolds == Spec => []Inv
BY InvInit, InvNext, PTL DEF Spec

\* However many operations of the page overlap and wherever it is cut off, an
\* address is one a node was given, and a call is at a step of its own
\* operation (store.ts, local_node.rs).
THEOREM TypeCorrect == Spec => []TypeOK
<1>1. Inv => TypeOK
  BY DEF Inv, Kinds
<1> QED BY <1>1, InvHolds, PTL

\* Switched off while nothing else was under way, by a page that had caught up,
\* hosting leaves no node, no address on the page, and none on the ledger but
\* one whose revocation was refused (setRelaySharing).
THEOREM OffTakesAllBack == Spec => []OffMeansOff
<1>1. Inv => OffMeansOff
  BY DEF Inv, Kinds, TypeOK, ShellInOrder, Calm, OffIsQuiet, OffMeansOff, Node
<1> QED BY <1>1, InvHolds, PTL

\* The address shown is the one of the node that runs, or one that a waiter
\* thread outliving its node put into the next one; and no other that is gone
\* (ensureDesktopShare, wait_for_public_url).
THEOREM ShownAddressIsCurrent == Spec => []ShownAddressLives
<1>1. Inv => ShownAddressLives
  <2> SUFFICES ASSUME Inv, shareUrl # 0, ~hasty, Under("off") = {}
               PROVE  shareUrl \in {node} \cup strays
    BY DEF ShownAddressLives
  <2>1. \A c \in Call : calls[c].op # "off"
    BY DEF Under
  <2> QED BY <2>1, ShownIsCurrent DEF Inv, Current
<1> QED BY <1>1, InvHolds, PTL

\* An address that is shown and shared, and whose contribution the reducer did
\* not refuse, is on the ledger once nothing is under way
\* (syncDesktopRelayContribution, setRelaySharing).
THEOREM SharingPublishes == Spec => []SharedIsPublished
<1>1. Inv => SharedIsPublished
  <2> SUFFICES ASSUME Inv, relaySharing, shareUrl # 0, shareUrl \notin lapsed,
                      Pending = {}, ~hasty, strays = {}
               PROVE  mine = shareUrl
    BY DEF SharedIsPublished
  <2>1. \A c \in Call : calls[c].op # "off" /\ calls[c].at # "revoking"
    BY IdleRecord DEF Pending
  <2>2. Shares
    BY <2>1, ShownIsCurrent DEF Inv
  <2> QED BY <2>1, <2>2 DEF Shares, WillContribute
<1> QED BY <1>1, InvHolds, PTL
=============================================================================
