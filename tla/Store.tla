-------------------------------- MODULE Store --------------------------------
(***************************************************************************)
(* The application around a node: identities, sessions, and which node     *)
(* runs.  The store (packages/client/src/app/store.ts), what it keeps on   *)
(* the device (storage/keystore.ts, app/session-storage.ts,                *)
(* app/subcell-context.ts), and the screens that offer its operations      *)
(* (features/Onboarding.tsx, features/IdentityView.tsx).                   *)
(*                                                                         *)
(* An operation that awaits something is a call with steps of its own; what *)
(* it reads of the store it reads when it comes to it.  Which page of the  *)
(* onboarding wizard is open is not modelled: whatever a phase can offer it *)
(* offers.                                                                 *)
(***************************************************************************)
EXTENDS Integers, FiniteSets

CONSTANTS
  Key,          \* identities
  Fresh,        \* namespaces this device may draw for new communities
  Joined,       \* namespaces of communities founded on other devices
  Node,         \* NodeController objects of one page load: 1 .. n
  Call,         \* operations under way at once
  None, Other,  \* null, and a key of somebody else
  MaxReloads    \* bound: page loads after the first

ASSUME NodeAssumption == Node \subseteq Nat \ {0}
ASSUME NoneAssumption == None \notin Key \cup Fresh \cup Joined
\* A drawn namespace is nobody else's (generateNamespaceId).
ASSUME FreshAssumption == Fresh \cap Joined = {}

Community == Fresh \cup Joined
Session == [key : Key, ns : Community]

VARIABLES
  vault,             \* identities in IndexedDB
  savedSession,      \* the session in localStorage
  parent,            \* the parent chapter in localStorage
  founder,           \* the key that signed a community's genesis
  phase, session, invite,
  keyPair,           \* the decrypted key in memory
  myKey,             \* the key shown
  newMnemonic,       \* whether the backup screen is up
  controller,        \* the node in the store
  pool,              \* the community whose state is in the store
  nodes,             \* namespace, key and status of every node
  calls,
  desktop,           \* whether this is the desktop app, hosting
  drawn, reloads,
  impatient,         \* history: something was begun while a call was pending
  cutOff             \* history: communities whose founding a page load cut off

disk == <<vault, savedSession, parent, founder>>
identity == <<session, invite, keyPair, myKey, newMnemonic>>
shown == <<phase, controller, pool>>
history == <<desktop, drawn, reloads, impatient, cutOff>>
vars == <<disk, identity, shown, nodes, calls, history>>

Unused == [ns |-> None, key |-> None, status |-> "unused"]
Idle == [op |-> "none", at |-> "idle", key |-> None, ns |-> None, node |-> 0]

Pending == {c \in Call : calls[c] # Idle}
Running == {n \in Node : nodes[n].status = "running"}
Starting == {n \in Node : \E c \in Call : calls[c].at = "starting" /\ calls[c].node = n}

\* The node of a community to be founded has started, and its genesis is not
\* stored yet.
Unfounded(ns) ==
  \E c \in Call : calls[c].at = "genesis" /\ nodes[calls[c].node].ns = ns

Noticed == impatient' = (impatient \/ Pending # {})
Ends(c) == calls' = [calls EXCEPT ![c] = Idle]
\* One step of a call, the first included.
Goes(c, op, step, key, ns, n) ==
  calls' = [calls EXCEPT ![c] = [op |-> op, at |-> step, key |-> key, ns |-> ns,
                                 node |-> n]]

Stopped(m) ==
  [n \in Node |-> IF n = m THEN [nodes[n] EXCEPT !.status = "stopped"]
                  ELSE nodes[n]]

\* What persistSession writes with a node in the store; loadSession takes no
\* session without a key.
Persisted(m) ==
  IF m = 0 THEN savedSession
  ELSE IF myKey = None THEN None
  ELSE [key |-> myKey, ns |-> nodes'[m].ns]

-----------------------------------------------------------------------------
(* Opening the page.                                                       *)

\* init.
Open ==
  /\ phase = "loading"
  /\ session' = savedSession
  /\ phase' = IF savedSession # None /\ savedSession.key \in vault
              THEN "locked" ELSE "onboarding"
  /\ UNCHANGED <<disk, invite, keyPair, myKey, newMnemonic, controller, pool,
                 nodes, calls, history>>

\* The page is reloaded or opened anew, by an invite link or not; the link
\* stays in the address bar.
Reload ==
  /\ phase # "loading" /\ reloads < MaxReloads
  /\ reloads' = reloads + 1
  /\ invite' \in {invite} \cup Joined
  /\ phase' = "loading" /\ session' = None
  /\ keyPair' = None /\ myKey' = None /\ newMnemonic' = FALSE
  /\ controller' = 0 /\ pool' = None
  /\ nodes' = [n \in Node |-> Unused]
  /\ calls' = [c \in Call |-> Idle]
  /\ cutOff' = cutOff \cup {ns \in Community : Unfounded(ns)}
  /\ UNCHANGED <<disk, desktop, drawn, impatient>>

-----------------------------------------------------------------------------
(* Identities.                                                             *)

\* persist: the key is put into the key store, encrypted.
Persist(k) == vault' = vault \cup {k}

\* The backup screen and the unlock screen hide the wizard.
Onboarding == phase = "onboarding" /\ ~newMnemonic

\* The wizard offers to create and to restore while there is no identity.
Welcome == Onboarding /\ vault = {}

CreateIdentity(k) ==
  /\ Welcome /\ Persist(k)
  /\ keyPair' = k /\ myKey' = k /\ newMnemonic' = TRUE
  /\ UNCHANGED <<savedSession, parent, founder, session, invite,
                 shown, nodes, calls, history>>

RestoreIdentity(k) ==
  /\ Welcome /\ Persist(k)
  /\ keyPair' = k /\ myKey' = k
  /\ UNCHANGED <<savedSession, parent, founder, session, invite, newMnemonic,
                 shown, nodes, calls, history>>

BackupScreen == newMnemonic /\ phase # "ready"

ConfirmBackup ==
  /\ BackupScreen
  /\ newMnemonic' = FALSE
  /\ UNCHANGED <<vault, savedSession, parent, founder, session, invite, keyPair,
                 myKey, shown, nodes, calls, history>>

\* The views are hidden while there is no state to show.
MainApp == phase = "ready" /\ pool # None

ImportIdentity(k) ==
  /\ MainApp /\ k \notin vault
  /\ Persist(k)
  /\ UNCHANGED <<savedSession, parent, founder, identity, shown, nodes, calls,
                 history>>

\* setPendingInvite, by pasting a link or by turning back.
SetPendingInvite(ns) ==
  /\ Onboarding /\ invite # ns
  /\ invite' = ns
  /\ UNCHANGED <<disk, session, keyPair, myKey, newMnemonic, shown, nodes,
                 calls, history>>

-----------------------------------------------------------------------------
(* Starting a node.                                                        *)

\* What an operation does once startNode has returned, with m in the store:
\* genesis there (spawning throws if there is none), or the session is saved.
Continues(c, op, m) ==
  \/ /\ op = "unlock"
     /\ Ends(c) /\ UNCHANGED <<savedSession, invite>>
  \/ /\ op \in {"found", "spawn"}
     /\ IF m = 0 THEN Ends(c) ELSE Goes(c, op, "genesis", None, None, m)
     /\ UNCHANGED <<savedSession, invite>>
  \/ /\ op \in {"join", "return"}
     /\ Ends(c)
     /\ savedSession' = Persisted(m)
     /\ invite' = IF op = "join" THEN None ELSE invite

NextNode(n) == nodes[n] = Unused /\ \A m \in 1 .. n - 1 : nodes[m] # Unused

NoKey(c, op) == UNCHANGED nodes /\ Continues(c, op, controller)
Made(c, op, n, key, ns) ==
  /\ nodes' = [Stopped(controller) EXCEPT ![n] =
                 [ns |-> ns, key |-> key, status |-> "running"]]
  /\ Goes(c, op, "starting", None, None, n)
  /\ UNCHANGED <<savedSession, invite>>

StartNodeStopsFirst(c, op, key, ns) ==                             \* mutant
  \/ key = None /\ nodes' = Stopped(controller) /\ Continues(c, op, controller)
  \/ key # None /\ \E n \in Node : NextNode(n) /\ Made(c, op, n, key, ns)
StartNodeBeside(c, op, key, ns) ==                                 \* mutant
  \/ key = None /\ NoKey(c, op)
  \/ /\ key # None
     /\ \E n \in Node :
          /\ NextNode(n)
          /\ nodes' = [nodes EXCEPT ![n] =
                         [ns |-> ns, key |-> key, status |-> "running"]]
          /\ Goes(c, op, "starting", None, None, n)
     /\ UNCHANGED <<savedSession, invite>>
\* startNode: nothing without a key; otherwise the node in the store is
\* stopped, and the store does not know the new one until it has started.
StartNode(c, op, key, ns) ==
  \/ key = None /\ NoKey(c, op)
  \/ key # None /\ \E n \in Node : NextNode(n) /\ Made(c, op, n, key, ns)

\* controller.start is done.  With a worker there may be no state yet.  A
\* hosting desktop contributes its relay before startNode returns.
NodeStarted(c) ==
  LET n == calls[c].node
      op == calls[c].op
  IN
  /\ calls[c].at = "starting"
  /\ controller' = n /\ pool' \in {nodes[n].ns, None} /\ phase' = "ready"
  /\ UNCHANGED nodes
  /\ IF desktop /\ pool' # None /\ myKey # None
     THEN Goes(c, op, "sharing", None, None, n) /\ UNCHANGED <<savedSession, invite>>
     ELSE Continues(c, op, n)
  /\ UNCHANGED <<vault, parent, founder, session, keyPair, myKey,
                 newMnemonic, history>>

\* syncDesktopRelayContribution is done and has saved the session.
Shared(c) ==
  LET op == calls[c].op
  IN
  /\ calls[c].at = "sharing"
  /\ UNCHANGED nodes
  /\ savedSession' = Persisted(controller)
  /\ invite' = IF op = "join" THEN None ELSE invite
  /\ IF op \in {"found", "spawn"} /\ controller # 0
     THEN Goes(c, op, "genesis", None, None, controller) ELSE Ends(c)
  /\ UNCHANGED <<vault, parent, founder, session, keyPair, myKey,
                 newMnemonic, shown, history>>

\* A node that was not stopped puts its state into the store.
Emit(n) ==
  /\ nodes[n].status = "running" /\ pool # nodes[n].ns
  /\ pool' = nodes[n].ns
  /\ UNCHANGED <<disk, identity, phase, controller, nodes, calls, history>>

-----------------------------------------------------------------------------
(* Unlocking and locking.                                                  *)

\* The three screens that take a passphrase; the last one after a recovery.
UnlockScreen == phase = "locked" /\ ~newMnemonic /\ session # None
JoinIdentityUnlock == Onboarding /\ invite # None /\ myKey = None
ImportEventLog == Onboarding /\ session # None

\* unlockIdentity finds the key, and the passphrase is right.
Decrypts(k) == k \in vault

\* The passphrase is entered; the enter key does so again and again.
Unlock(c, k) ==
  /\ \/ UnlockScreen /\ k = session.key
     \/ JoinIdentityUnlock /\ k \in vault
     \/ ImportEventLog /\ k = myKey
  /\ calls[c] = Idle /\ Goes(c, "unlock", "deriving", k, None, 0)
  /\ Noticed
  /\ UNCHANGED <<disk, identity, shown, nodes, desktop, drawn, reloads, cutOff>>

\* It is the right one, and the key is there.
Unlocked(c) ==
  LET k == calls[c].key
      joins == invite # None /\ (session = None \/ invite # session.ns)
  IN
  /\ calls[c].at = "deriving" /\ Decrypts(k)
  /\ keyPair' = k /\ myKey' = k
  /\ IF ~joins /\ session # None /\ session.key = k
     THEN StartNode(c, "unlock", k, session.ns) /\ UNCHANGED phase
     ELSE /\ Ends(c) /\ phase' = "onboarding"
          /\ UNCHANGED <<nodes, savedSession, invite>>
  /\ UNCHANGED <<vault, parent, founder, session, newMnemonic,
                 controller, pool, history>>

LockKeepsNode ==                                                   \* mutant
  /\ MainApp
  /\ keyPair' = None
  /\ nodes' = Stopped(controller)
  /\ pool' = None /\ phase' = "locked"
  /\ UNCHANGED <<disk, session, invite, myKey, newMnemonic, controller, calls,
                 history>>
Lock ==
  /\ MainApp
  /\ keyPair' = None
  /\ nodes' = Stopped(controller)
  /\ controller' = 0 /\ pool' = None /\ phase' = "locked"
  /\ UNCHANGED <<disk, session, invite, myKey, newMnemonic, calls, history>>

\* "Use a different identity".
Forget ==
  /\ UnlockScreen
  /\ savedSession' = None /\ session' = None
  /\ invite' = None /\ myKey' = None
  /\ phase' = "onboarding"
  /\ Noticed
  /\ UNCHANGED <<vault, parent, founder, keyPair, newMnemonic,
                 controller, pool, nodes, calls, desktop, drawn, reloads, cutOff>>

-----------------------------------------------------------------------------
(* Founding, joining, recovering, and moving between chapters.             *)

Draw(ns) == ns \in Fresh \ drawn /\ drawn' = drawn \cup {ns}

\* startCommunity and joinCommunity, up to the wait for a connection.
StartCommunity(c, ns) ==
  /\ Onboarding /\ keyPair # None
  /\ Draw(ns)
  /\ calls[c] = Idle /\ Goes(c, "found", "online", None, ns, 0)
  /\ Noticed
  /\ UNCHANGED <<disk, identity, shown, nodes, desktop, reloads, cutOff>>

JoinCommunity(c) ==
  /\ Onboarding /\ invite # None /\ myKey # None /\ keyPair # None
  /\ calls[c] = Idle /\ Goes(c, "join", "online", None, invite, 0)
  /\ Noticed
  /\ UNCHANGED <<disk, identity, shown, nodes, desktop, drawn, reloads, cutOff>>

Online(c) ==
  /\ calls[c].at = "online"
  /\ StartNode(c, calls[c].op, keyPair, calls[c].ns)
  /\ UNCHANGED <<vault, parent, founder, session, keyPair, myKey,
                 newMnemonic, shown, history>>

\* A community that nears its cap tells its head to start a chapter; here the
\* founder is the head.
SubCellCapBanner == MainApp /\ founder[pool] = myKey

SpawnSubCell(c, ns) ==
  /\ SubCellCapBanner /\ keyPair # None /\ controller # 0
  /\ calls[c] = Idle /\ Draw(ns) /\ Noticed
  /\ parent' = pool
  /\ StartNode(c, "spawn", keyPair, ns)
  /\ UNCHANGED <<vault, founder, session, keyPair, myKey, newMnemonic,
                 shown, desktop, reloads, cutOff>>

\* A chapter whose parent did not take it in yet.
SubCellLinkageBanner == MainApp /\ parent # None /\ pool # parent

ReturnToParentChapter(c) ==
  /\ SubCellLinkageBanner /\ keyPair # None
  /\ calls[c] = Idle /\ Noticed
  /\ StartNode(c, "return", keyPair, parent)
  /\ UNCHANGED <<vault, parent, founder, session, keyPair, myKey,
                 newMnemonic, shown, desktop, drawn, reloads, cutOff>>

\* The parent took the chapter in, and the banner drops the context.
ClearParentContext ==
  /\ SubCellLinkageBanner
  /\ parent' = None
  /\ UNCHANGED <<vault, savedSession, founder, identity, shown, nodes,
                 calls, history>>

GenesisStoredAfterSession(c) ==                                    \* mutant
  LET n == calls[c].node
  IN
  /\ calls[c].at = "genesis"
  /\ UNCHANGED nodes
  /\ savedSession' = Persisted(controller)
  /\ Goes(c, calls[c].op, "contribute", None, None, n)
  /\ UNCHANGED <<vault, parent, founder, identity, shown, history>>
\* The genesis event is in the log; a founder then contributes a relay.
GenesisStored(c) ==
  LET n == calls[c].node
  IN
  /\ calls[c].at = "genesis"
  /\ UNCHANGED nodes
  /\ founder' = [founder EXCEPT ![nodes[n].ns] =
                   IF @ = None THEN nodes[n].key ELSE @]
  /\ IF calls[c].op = "spawn"
     THEN savedSession' = Persisted(controller) /\ Ends(c)
     ELSE UNCHANGED savedSession /\ Goes(c, "found", "contribute", None, None, n)
  /\ UNCHANGED <<vault, parent, identity, shown, history>>

Founded(c) ==
  /\ calls[c].at = "contribute"
  /\ UNCHANGED nodes
  /\ savedSession' = Persisted(controller)
  /\ Ends(c)
  /\ UNCHANGED <<vault, parent, founder, identity, shown, history>>

\* recoverCommunityFromEventLog, by the key shown when it began.
Recover(c, ns) ==
  /\ Onboarding /\ myKey # None
  /\ calls[c] = Idle /\ Goes(c, "recover", "importing", myKey, ns, 0)
  /\ Noticed
  /\ UNCHANGED <<disk, identity, shown, nodes, desktop, drawn, reloads, cutOff>>

Recovered(c) ==
  /\ calls[c].at = "importing"
  /\ savedSession' = [key |-> calls[c].key, ns |-> calls[c].ns]
  /\ session' = savedSession'
  /\ Ends(c)
  /\ UNCHANGED <<vault, parent, founder, invite, keyPair, myKey,
                 newMnemonic, shown, nodes, history>>

\* A wrong passphrase, an unreachable connection point, a bad file.
Fails(c) ==
  /\ calls[c].at \in {"deriving", "online", "importing"}
  /\ Ends(c)
  /\ UNCHANGED <<disk, identity, shown, nodes, history>>

\* addRelay and removeRelay save the session.
EditRelays ==
  /\ MainApp /\ controller # 0
  /\ UNCHANGED nodes
  /\ savedSession' = Persisted(controller)
  /\ Noticed
  /\ UNCHANGED <<vault, parent, founder, identity, shown, calls,
                 desktop, drawn, reloads, cutOff>>

-----------------------------------------------------------------------------
Init ==
  /\ vault = {} /\ savedSession = None /\ parent = None
  /\ founder \in [Community -> Key \cup {None, Other}]
  /\ \A ns \in Community : founder[ns] = None <=> ns \in Fresh
  /\ phase = "loading" /\ session = None
  /\ invite \in Joined \cup {None}
  /\ keyPair = None /\ myKey = None /\ newMnemonic = FALSE
  /\ controller = 0 /\ pool = None
  /\ nodes = [n \in Node |-> Unused]
  /\ calls = [c \in Call |-> Idle]
  /\ desktop \in BOOLEAN
  /\ drawn = {} /\ reloads = 0 /\ impatient = FALSE /\ cutOff = {}

Next ==
  \/ Open \/ Reload
  \/ ConfirmBackup \/ Lock \/ Forget \/ EditRelays \/ ClearParentContext
  \/ \E k \in Key : CreateIdentity(k) \/ RestoreIdentity(k) \/ ImportIdentity(k)
  \/ \E ns \in Joined \cup {None} : SetPendingInvite(ns)
  \/ \E n \in Node : Emit(n)
  \/ \E c \in Call :
       \/ \E k \in Key : Unlock(c, k)
       \/ \E ns \in Fresh : StartCommunity(c, ns) \/ SpawnSubCell(c, ns)
       \/ \E ns \in Community : founder[ns] # None /\ Recover(c, ns)
       \/ JoinCommunity(c) \/ ReturnToParentChapter(c)
       \/ Unlocked(c) \/ Online(c) \/ NodeStarted(c) \/ Shared(c)
       \/ GenesisStored(c) \/ Founded(c) \/ Recovered(c) \/ Fails(c)

Spec == Init /\ [][Next]_vars

-----------------------------------------------------------------------------
(* Properties.                                                             *)

Operation == {"none", "unlock", "found", "join", "spawn", "return", "recover"}
Step == {"idle", "deriving", "online", "starting", "sharing", "genesis",
         "contribute", "importing"}

\* What the store and the device keep is of the kind they keep, the saved
\* session is of an identity on the device, and a locked store has no node.
TypeOK ==
  /\ vault \subseteq Key
  /\ {session, savedSession} \subseteq Session \cup {None}
  /\ savedSession # None => savedSession.key \in vault
  /\ {parent, invite, pool} \subseteq Community \cup {None}
  /\ founder \in [Community -> Key \cup {None, Other}]
  /\ {keyPair, myKey} \subseteq vault \cup {None}
  /\ nodes \in [Node -> {Unused} \cup [ns : Community, key : Key,
                                       status : {"running", "stopped"}]]
  /\ controller \in {n \in Node : nodes[n] # Unused} \cup {0}
  /\ phase \in {"loading", "onboarding", "locked", "ready"}
  /\ phase = "locked" => controller = 0
  /\ drawn \subseteq Fresh /\ cutOff \subseteq Community /\ reloads \in Nat
  /\ {newMnemonic, desktop, impatient} \subseteq BOOLEAN
  /\ calls \in [Call -> [op : Operation, at : Step, key : Key \cup {None},
                         ns : Community \cup {None}, node : Node \cup {0}]]
  /\ \A c \in Call :
       calls[c].at \in {"starting", "sharing", "genesis", "contribute"}
         => nodes[calls[c].node] # Unused

\* What the main view works on is a node that runs, unless the node that is
\* to replace it is starting (lock, startNode).  Starting one takes no failure
\* here: IndexedDB can be read.
ShownNodeRuns ==
  phase = "ready" =>
    /\ controller # 0
    /\ controller \in Running \/ Starting # {}

\* Every node that runs and signs is the one in the store or on its way there,
\* so that lock and startNode reach it, as long as one operation at a time is
\* under way (lock, startNode).
NobodyElseRuns ==
  impatient \/ Running \subseteq {controller} \cup Starting

\* The session a page comes back to, wherever it was cut off, names a community
\* that has its genesis, as long as one operation at a time is under way
\* (startCommunity, spawnSubCell, persistSession).  On a desktop that hosts, where
\* startNode saves the session before the genesis is stored, it may also be the
\* community being founded, and the one whose founding was cut off there.
SavedCommunityExists ==
  ~impatient /\ savedSession # None =>
    \/ founder[savedSession.ns] # None
    \/ desktop /\ (Unfounded(savedSession.ns) \/ savedSession.ns \in cutOff)
=============================================================================
