---------------------------- MODULE StoreProofs ----------------------------
(***************************************************************************)
(* What the application keeps of its nodes and sessions, for any number of *)
(* identities, communities, nodes and overlapping operations.              *)
(***************************************************************************)
EXTENDS Store, TLAPS

-----------------------------------------------------------------------------
(* The inductive invariant.                                                *)

\* The operations that call startNode.
StartOperation == {"unlock", "found", "spawn", "join", "return"}

\* What a call needs for its next step.
CallsInOrder ==
  \A c \in Call :
    /\ calls[c].at = "online" => calls[c].ns # None
    /\ calls[c].at = "importing" => calls[c].key \in vault /\ calls[c].ns # None
    /\ calls[c].at \in {"online", "starting", "sharing"} => calls[c].op \in StartOperation
    /\ calls[c].at \in {"starting", "sharing", "genesis", "contribute"}
         => calls[c].node \in Node

\* A page that has not opened has begun nothing.
Unopened == phase = "loading" => controller = 0 /\ Pending = {}

Kinds == TypeOK /\ CallsInOrder /\ Unopened

IsStarting(c) == calls[c].at = "starting"

\* The node a call is starting runs, is not in the store yet, and is started
\* by no other call.
Launched ==
  /\ \A c \in Call : IsStarting(c) =>
       calls[c].node \in Running /\ calls[c].node # controller
  /\ \A c, d \in Call : IsStarting(c) /\ IsStarting(d) /\ c # d
       => calls[c].node # calls[d].node

\* One call at a time: the node in the store gave way to the one starting.
Patient ==
  impatient \/ /\ \A c, d \in Pending : c = d
               /\ \A n \in Running : n = controller \/ n \in Starting
               /\ controller \in Running => Starting = {}

Inv == Kinds /\ Launched /\ Patient /\ ShownNodeRuns

-----------------------------------------------------------------------------
(* Calls and nodes.                                                        *)

NodeRecord == {Unused} \cup [ns : Community, key : Key,
                             status : {"running", "stopped"}]
CallRecord == [op : Operation, at : Step, key : Key \cup {None},
               ns : Community \cup {None}, node : Node \cup {0}]

\* The record of one call changes.
LEMMA GoesTo ==
  ASSUME calls \in [Call -> CallRecord], NEW c \in Call, NEW op \in Operation,
         NEW step \in Step, NEW key \in Key \cup {None},
         NEW ns \in Community \cup {None}, NEW n \in Node \cup {0},
         Goes(c, op, step, key, ns, n)
  PROVE  /\ calls' \in [Call -> CallRecord]
         /\ calls'[c] = [op |-> op, at |-> step, key |-> key, ns |-> ns, node |-> n]
         /\ \A d \in Call \ {c} : calls'[d] = calls[d]
BY DEF Goes, CallRecord

LEMMA IdleRecord == Idle \in CallRecord /\ Idle.at = "idle"
BY DEF Idle, CallRecord, Operation, Step

LEMMA EndsTo ==
  ASSUME calls \in [Call -> CallRecord], NEW c \in Call, Ends(c)
  PROVE  /\ calls' \in [Call -> CallRecord]
         /\ calls'[c] = Idle
         /\ \A d \in Call \ {c} : calls'[d] = calls[d]
BY IdleRecord DEF Ends

\* A node that is stopped keeps its namespace and its key.
LEMMA StoppedTo ==
  ASSUME nodes \in [Node -> NodeRecord], NEW m \in {n \in Node : nodes[n] # Unused} \cup {0}
  PROVE  /\ Stopped(m) \in [Node -> NodeRecord]
         /\ \A n \in Node \ {m} : Stopped(m)[n] = nodes[n]
         /\ m # 0 => Stopped(m)[m].status = "stopped" /\ Stopped(m)[m] # Unused
<1>1. 0 \notin Node
  BY NodeAssumption
<1>2. ASSUME m # 0
      PROVE  /\ m \in Node
             /\ [nodes[m] EXCEPT !.status = "stopped"] \in NodeRecord
             /\ [nodes[m] EXCEPT !.status = "stopped"].status = "stopped"
             /\ [nodes[m] EXCEPT !.status = "stopped"] # Unused
  <2>1. nodes[m] \in [ns : Community, key : Key, status : {"running", "stopped"}]
    BY <1>2 DEF NodeRecord
  <2> QED BY <1>2, <2>1 DEF NodeRecord, Unused
<1> QED BY <1>1, <1>2 DEF Stopped

\* A saved session is of an identity on the device.
LEMMA PersistedType ==
  ASSUME Kinds, nodes' \in [Node -> NodeRecord],
         NEW m \in {n \in Node : nodes'[n] # Unused} \cup {0}
  PROVE  /\ Persisted(m) \in Session \cup {None}
         /\ Persisted(m) # None => Persisted(m).key \in vault
<1>1. m # 0 => nodes'[m].ns \in Community
  BY DEF NodeRecord
<1> QED BY <1>1 DEF Persisted, Kinds, TypeOK, Session

-----------------------------------------------------------------------------
(* Steps that leave nodes and calls alone.                                 *)

LEMMA QuietStep ==
  ASSUME Inv, TypeOK', UNCHANGED <<nodes, calls, controller>>, vault \subseteq vault',
         impatient => impatient', phase' # phase => phase' \notin {"loading", "ready"}
  PROVE  Inv'
<1>1. CallsInOrder' /\ Unopened'
  BY DEF Inv, Kinds, CallsInOrder, Unopened, Pending
<1>2. Launched' /\ Patient' /\ ShownNodeRuns'
  BY DEF Inv, Launched, IsStarting, Patient, ShownNodeRuns, Running, Starting, Pending
<1> QED BY <1>1, <1>2 DEF Inv, Kinds

LEMMA OpenKeeps == ASSUME Inv, Open PROVE Inv'
<1>1. TypeOK'
  BY DEF Inv, Kinds, Unopened, TypeOK, Open, disk, history
<1> QED BY <1>1, QuietStep DEF Open, disk, history

LEMMA CreateIdentityKeeps == ASSUME Inv, NEW k \in Key, CreateIdentity(k) PROVE Inv'
<1>1. TypeOK'
  BY DEF Inv, Kinds, TypeOK, CreateIdentity, Persist, shown, history
<1> QED BY <1>1, QuietStep DEF CreateIdentity, Persist, shown, history

LEMMA RestoreIdentityKeeps == ASSUME Inv, NEW k \in Key, RestoreIdentity(k) PROVE Inv'
<1>1. TypeOK'
  BY DEF Inv, Kinds, TypeOK, RestoreIdentity, Persist, shown, history
<1> QED BY <1>1, QuietStep DEF RestoreIdentity, Persist, shown, history

LEMMA ImportIdentityKeeps == ASSUME Inv, NEW k \in Key, ImportIdentity(k) PROVE Inv'
<1>1. TypeOK'
  BY DEF Inv, Kinds, TypeOK, ImportIdentity, Persist, identity, shown, history
<1> QED BY <1>1, QuietStep DEF ImportIdentity, Persist, shown, history

LEMMA ConfirmBackupKeeps == ASSUME Inv, ConfirmBackup PROVE Inv'
<1>1. TypeOK'
  BY DEF Inv, Kinds, TypeOK, ConfirmBackup, shown, history
<1> QED BY <1>1, QuietStep DEF ConfirmBackup, shown, history

LEMMA SetPendingInviteKeeps ==
  ASSUME Inv, NEW ns \in Joined \cup {None}, SetPendingInvite(ns) PROVE Inv'
<1>1. TypeOK'
  BY DEF Inv, Kinds, TypeOK, SetPendingInvite, Community, disk, shown, history
<1> QED BY <1>1, QuietStep DEF SetPendingInvite, disk, shown, history

LEMMA EmitKeeps == ASSUME Inv, NEW n \in Node, Emit(n) PROVE Inv'
<1>1. nodes[n].ns \in Community
  BY DEF Emit, Inv, Kinds, TypeOK, Unused
<1>2. TypeOK'
  BY <1>1 DEF Inv, Kinds, TypeOK, Emit, disk, identity, history
<1> QED BY <1>2, QuietStep DEF Emit, disk, history

LEMMA ForgetKeeps == ASSUME Inv, Forget PROVE Inv'
<1>1. TypeOK'
  BY DEF Inv, Kinds, TypeOK, Forget, Noticed
<1>2. impatient => impatient'
  BY DEF Forget, Noticed
<1> QED BY <1>1, <1>2, QuietStep DEF Forget

LEMMA ClearParentContextKeeps == ASSUME Inv, ClearParentContext PROVE Inv'
<1>1. TypeOK'
  BY DEF Inv, Kinds, TypeOK, ClearParentContext, identity, shown, history
<1> QED BY <1>1, QuietStep DEF ClearParentContext, shown, history

LEMMA EditRelaysKeeps == ASSUME Inv, EditRelays PROVE Inv'
<1>1. savedSession' \in Session \cup {None}
      /\ (savedSession' # None => savedSession'.key \in vault)
  BY PersistedType DEF EditRelays, Inv, Kinds, TypeOK, NodeRecord
<1>2. TypeOK'
  BY <1>1 DEF Inv, Kinds, TypeOK, EditRelays, Noticed, identity, shown
<1>3. impatient => impatient'
  BY DEF EditRelays, Noticed
<1> QED BY <1>2, <1>3, QuietStep DEF EditRelays, shown

-----------------------------------------------------------------------------
(* Steps of a call that start no node.                                     *)

LEMMA CallMoves ==
  ASSUME Inv, NEW c \in Call, TypeOK', CallsInOrder', UNCHANGED <<nodes, controller>>,
         phase # "loading" \/ calls[c] # Idle,
         phase' # phase => phase' \notin {"loading", "ready"},
         calls[c].at # "starting", calls'[c].at # "starting",
         \A d \in Call \ {c} : calls'[d] = calls[d],
         \/ calls[c] # Idle /\ impatient' = impatient
         \/ Noticed
  PROVE  Inv'
<1> USE DEF Inv
<1>1. phase' # "loading"
  BY DEF Kinds, Unopened, Pending
<1>2. \A d \in Call : IsStarting(d)' <=> IsStarting(d)
  BY DEF IsStarting
<1>3. \A d \in Call : IsStarting(d) => calls'[d] = calls[d]
  BY DEF IsStarting
<1>4. Launched'
  BY <1>2, <1>3 DEF Launched, Running, IsStarting
<1>5. Starting' = Starting
  BY <1>2, <1>3 DEF Starting, IsStarting
<1>6. Patient'
  <2>1. ASSUME ~ impatient' PROVE ~ impatient /\ \A d, g \in Pending' : d = g
    <3>1. ~ impatient
      BY <2>1 DEF Noticed
    <3>2. \A d, g \in Pending : d = g
      BY <3>1 DEF Patient
    <3>3. Pending' \subseteq Pending \cup {c}
      BY DEF Pending
    <3>4. Pending \subseteq {c}
      <4>1. CASE calls[c] # Idle
        BY <3>2, <4>1 DEF Pending
      <4>2. CASE Noticed
        BY <2>1, <4>2 DEF Noticed
      <4> QED BY <4>1, <4>2
    <3> QED BY <3>1, <3>3, <3>4
  <2> QED BY <1>5, <2>1 DEF Patient, Running
<1>7. ShownNodeRuns'
  BY <1>5 DEF ShownNodeRuns, Running
<1> QED BY <1>1, <1>4, <1>6, <1>7 DEF Kinds, Unopened

\* An idle call may begin anything that starts no node.
LEMMA CallBegins ==
  ASSUME Inv, NEW c \in Call, calls[c] = Idle, phase # "loading", Noticed,
         NEW op \in Operation, NEW step \in {"deriving", "online", "importing"},
         NEW key \in Key \cup {None}, NEW ns \in Community \cup {None},
         step \in {"online", "importing"} => ns # None,
         step = "importing" => key \in vault, step = "online" => op \in StartOperation,
         Goes(c, op, step, key, ns, 0),
         UNCHANGED <<disk, identity, shown, nodes, desktop, reloads, cutOff>>,
         drawn' \subseteq Fresh
  PROVE  Inv'
<1> USE DEF Inv
<1>1. step \in Step
  BY DEF Step
<1>2. calls \in [Call -> CallRecord]
  BY DEF Kinds, TypeOK, CallRecord
<1>3. /\ calls' \in [Call -> CallRecord]
      /\ calls'[c] = [op |-> op, at |-> step, key |-> key, ns |-> ns, node |-> 0]
      /\ \A d \in Call \ {c} : calls'[d] = calls[d]
  BY <1>1, <1>2, GoesTo
<1>4. TypeOK'
  BY <1>3 DEF Kinds, TypeOK, CallRecord, Noticed, disk, identity, shown
<1>5. CallsInOrder'
  BY <1>3 DEF Kinds, CallsInOrder, disk
<1>6. calls[c].at # "starting"
  BY IdleRecord
<1> QED BY <1>3, <1>4, <1>5, <1>6, CallMoves DEF shown

LEMMA UnlockKeeps == ASSUME Inv, NEW c \in Call, NEW k \in Key, Unlock(c, k) PROVE Inv'
<1>1. phase # "loading"
  BY DEF Unlock, UnlockScreen, JoinIdentityUnlock, ImportEventLog, Onboarding
<1>2. "unlock" \in Operation
  BY DEF Operation
<1>3. drawn' \subseteq Fresh
  BY DEF Unlock, Inv, Kinds, TypeOK
<1> QED BY <1>1, <1>2, <1>3, CallBegins DEF Unlock

LEMMA StartCommunityKeeps ==
  ASSUME Inv, NEW c \in Call, NEW ns \in Fresh, StartCommunity(c, ns) PROVE Inv'
<1>1. phase # "loading"
  BY DEF StartCommunity, Onboarding
<1>2. "found" \in Operation /\ "found" \in StartOperation
  BY DEF Operation, StartOperation
<1>3. drawn' \subseteq Fresh /\ ns \in Community /\ ns # None
  BY NoneAssumption DEF StartCommunity, Draw, Inv, Kinds, TypeOK, Community
<1> QED BY <1>1, <1>2, <1>3, CallBegins DEF StartCommunity

LEMMA JoinCommunityKeeps == ASSUME Inv, NEW c \in Call, JoinCommunity(c) PROVE Inv'
<1>1. phase # "loading"
  BY DEF JoinCommunity, Onboarding
<1>2. "join" \in Operation /\ "join" \in StartOperation
  BY DEF Operation, StartOperation
<1>3. drawn' \subseteq Fresh /\ invite \in Community
  BY DEF JoinCommunity, Inv, Kinds, TypeOK
<1> QED BY <1>1, <1>2, <1>3, CallBegins DEF JoinCommunity

LEMMA RecoverKeeps ==
  ASSUME Inv, NEW c \in Call, NEW ns \in Community, Recover(c, ns) PROVE Inv'
<1>1. phase # "loading"
  BY DEF Recover, Onboarding
<1>2. "recover" \in Operation
  BY DEF Operation
<1>3. drawn' \subseteq Fresh /\ myKey \in Key /\ myKey \in vault /\ ns # None
  BY NoneAssumption DEF Recover, Inv, Kinds, TypeOK, Community
<1> QED BY <1>1, <1>2, <1>3, CallBegins DEF Recover

LEMMA FailsKeeps == ASSUME Inv, NEW c \in Call, Fails(c) PROVE Inv'
<1> USE DEF Inv
<1>1. calls \in [Call -> CallRecord] /\ calls[c].at \in {"deriving", "online", "importing"}
  BY DEF Kinds, TypeOK, CallRecord, Fails
<1>2. /\ calls' \in [Call -> CallRecord]
      /\ calls'[c] = Idle
      /\ \A d \in Call \ {c} : calls'[d] = calls[d]
  BY <1>1, EndsTo DEF Fails
<1>3. TypeOK'
  BY <1>2, IdleRecord
     DEF Kinds, TypeOK, CallRecord, Fails, disk, identity, shown, history
<1>4. CallsInOrder'
  BY <1>2, IdleRecord DEF Kinds, CallsInOrder, Fails, disk
<1>5. calls[c] # Idle
  BY <1>1, IdleRecord
<1> QED BY <1>1, <1>2, <1>3, <1>4, <1>5, IdleRecord, CallMoves DEF Fails, shown, history

\* A call at work on a node goes on to a later step, or ends.
LEMMA CallGoesOn ==
  ASSUME Inv, NEW c \in Call, NEW op \in Operation,
         NEW step \in {"genesis", "contribute"},
         NEW m \in {n \in Node : nodes[n] # Unused} \cup {0},
         Ends(c) \/ (m # 0 /\ Goes(c, op, step, None, None, m)),
         UNCHANGED nodes, vault \subseteq vault'
  PROVE  /\ calls' \in [Call -> CallRecord]
         /\ \A d \in Call \ {c} : calls'[d] = calls[d]
         /\ calls'[c].at \in {"idle", "genesis", "contribute"}
         /\ CallsInOrder'
         /\ \A d \in Call :
              calls'[d].at \in {"starting", "sharing", "genesis", "contribute"}
                => nodes'[calls'[d].node] # Unused
<1> USE DEF Inv
<1>1. calls \in [Call -> CallRecord] /\ step \in Step
  BY DEF Kinds, TypeOK, CallRecord, Step
<1>2. CASE Ends(c)
  <2>1. /\ calls' \in [Call -> CallRecord] /\ calls'[c] = Idle
        /\ \A d \in Call \ {c} : calls'[d] = calls[d]
    BY <1>1, <1>2, EndsTo
  <2> QED BY <2>1, IdleRecord DEF CallsInOrder, Kinds, TypeOK
<1>3. CASE m # 0 /\ Goes(c, op, step, None, None, m)
  <2>1. /\ calls' \in [Call -> CallRecord]
        /\ calls'[c] = [op |-> op, at |-> step, key |-> None, ns |-> None, node |-> m]
        /\ \A d \in Call \ {c} : calls'[d] = calls[d]
    BY <1>1, <1>3, GoesTo
  <2>2. m \in Node /\ nodes'[m] # Unused
    BY <1>3
  <2>3. ASSUME NEW d \in Call \ {c}, NEW f, f = calls[d]
        PROVE  /\ f.at = "online" => f.ns # None
               /\ f.at = "importing" => f.key \in vault' /\ f.ns # None
               /\ f.at \in {"online", "starting", "sharing"} => f.op \in StartOperation
               /\ f.at \in {"starting", "sharing", "genesis", "contribute"}
                    => f.node \in Node /\ nodes'[f.node] # Unused
    BY <2>3 DEF CallsInOrder, Kinds, TypeOK
  <2> QED BY <2>1, <2>2, <2>3 DEF CallsInOrder
<1> QED BY <1>2, <1>3

-----------------------------------------------------------------------------
(* Starting a node.                                                        *)

\* What follows a start: later steps of the call, and a session of an identity.
LEMMA ContinuesTo ==
  ASSUME Inv, NEW c \in Call, NEW op \in StartOperation,
         NEW m \in {n \in Node : nodes[n] # Unused} \cup {0},
         UNCHANGED <<nodes, vault>>, Continues(c, op, m)
  PROVE  /\ calls' \in [Call -> CallRecord]
         /\ \A d \in Call \ {c} : calls'[d] = calls[d]
         /\ calls'[c].at \in {"idle", "genesis", "contribute"}
         /\ CallsInOrder'
         /\ \A d \in Call :
              calls'[d].at \in {"starting", "sharing", "genesis", "contribute"}
                => nodes'[calls'[d].node] # Unused
         /\ savedSession' \in Session \cup {None}
         /\ savedSession' # None => savedSession'.key \in vault
         /\ invite' \in {invite, None}
<1> USE DEF Inv
<1>1. op \in Operation
  BY DEF StartOperation, Operation
<1>2. Ends(c) \/ (m # 0 /\ Goes(c, op, "genesis", None, None, m))
  BY DEF Continues
<1>3. nodes' \in [Node -> NodeRecord] /\ m \in {n \in Node : nodes'[n] # Unused} \cup {0}
  BY DEF Kinds, TypeOK, NodeRecord
<1>4. /\ Persisted(m) \in Session \cup {None}
      /\ Persisted(m) # None => Persisted(m).key \in vault
  BY <1>3, PersistedType
<1>5. savedSession' \in {savedSession, Persisted(m)} /\ invite' \in {invite, None}
  BY DEF Continues
<1> HIDE DEF Inv
<1>6. /\ calls' \in [Call -> CallRecord]
      /\ \A d \in Call \ {c} : calls'[d] = calls[d]
      /\ calls'[c].at \in {"idle", "genesis", "contribute"}
      /\ CallsInOrder'
      /\ \A d \in Call :
           calls'[d].at \in {"starting", "sharing", "genesis", "contribute"}
             => nodes'[calls'[d].node] # Unused
  BY <1>1, <1>2, CallGoesOn
<1> QED BY <1>4, <1>5, <1>6 DEF Inv, Kinds, TypeOK

\* What a step that calls startNode leaves alone, or sets as it may.
Around(c) ==
  /\ phase # "loading" /\ phase' = phase /\ calls[c].at # "starting"
  /\ UNCHANGED <<vault, founder, session, newMnemonic, controller, pool,
                 desktop, reloads, cutOff>>
  /\ keyPair' \in vault \cup {None} /\ myKey' \in vault \cup {None}
  /\ parent' \in Community \cup {None} /\ drawn' \subseteq Fresh
  /\ \/ calls[c] # Idle /\ impatient' = impatient
     \/ calls[c] = Idle /\ Noticed

LEMMA StartsNothing ==
  ASSUME Inv, NEW c \in Call, NEW op \in StartOperation, Around(c), NoKey(c, op)
  PROVE  Inv'
<1>1. controller \in {n \in Node : nodes[n] # Unused} \cup {0}
  BY DEF Inv, Kinds, TypeOK
<1>2. UNCHANGED <<nodes, vault>> /\ Continues(c, op, controller)
  BY DEF NoKey, Around
<1>3. /\ calls' \in [Call -> CallRecord]
      /\ \A d \in Call \ {c} : calls'[d] = calls[d]
      /\ calls'[c].at \in {"idle", "genesis", "contribute"}
      /\ CallsInOrder'
      /\ \A d \in Call :
           calls'[d].at \in {"starting", "sharing", "genesis", "contribute"}
             => nodes'[calls'[d].node] # Unused
      /\ savedSession' \in Session \cup {None}
      /\ savedSession' # None => savedSession'.key \in vault
      /\ invite' \in {invite, None}
  BY <1>1, <1>2, ContinuesTo
<1>4. TypeOK'
  <2>1. /\ {session, savedSession}' \subseteq Session \cup {None}
        /\ {parent, invite, pool}' \subseteq Community \cup {None}
        /\ {keyPair, myKey}' \subseteq vault' \cup {None}
    BY <1>3 DEF Inv, Kinds, TypeOK, Around
  <2>3. {newMnemonic, desktop, impatient}' \subseteq BOOLEAN
    BY DEF Inv, Kinds, TypeOK, Around, Noticed
  <2>2. controller' \in {n \in Node : nodes'[n] # Unused} \cup {0}
    BY <1>1, <1>2 DEF Around
  <2> QED BY <1>2, <1>3, <2>1, <2>2, <2>3 DEF Inv, Kinds, TypeOK, CallRecord, Around
<1> QED BY <1>2, <1>3, <1>4, CallMoves DEF Around

LEMMA StartsNode ==
  ASSUME Inv, NEW c \in Call, NEW op \in StartOperation, Around(c),
         NEW key \in Key, NEW ns \in Community, NEW n \in Node, NextNode(n),
         Made(c, op, n, key, ns)
  PROVE  Inv'
<1> USE DEF Inv
<1> DEFINE node == [ns |-> ns, key |-> key, status |-> "running"]
<1>1. /\ nodes \in [Node -> NodeRecord]
      /\ calls \in [Call -> CallRecord]
      /\ controller \in {x \in Node : nodes[x] # Unused} \cup {0}
  BY DEF Kinds, TypeOK, NodeRecord, CallRecord
<1>2. node \in NodeRecord /\ node # Unused /\ node.status = "running" /\ nodes[n] = Unused
  BY NoneAssumption DEF NodeRecord, Unused, NextNode
<1>3. /\ nodes' = [Stopped(controller) EXCEPT ![n] = node]
      /\ Goes(c, op, "starting", None, None, n)
      /\ UNCHANGED <<savedSession, invite>>
  BY DEF Made
<1>4. /\ Stopped(controller) \in [Node -> NodeRecord]
      /\ \A x \in Node \ {controller} : Stopped(controller)[x] = nodes[x]
      /\ controller # 0 => /\ Stopped(controller)[controller].status = "stopped"
                           /\ Stopped(controller)[controller] # Unused
  BY <1>1, StoppedTo
<1> HIDE DEF node
<1>5. /\ nodes' \in [Node -> NodeRecord]
      /\ nodes'[n] = node
      /\ \A x \in Node \ {n, controller} : nodes'[x] = nodes[x]
      /\ controller # 0 => /\ nodes'[controller].status = "stopped"
                           /\ nodes'[controller] # Unused
      /\ controller # n
  BY <1>1, <1>2, <1>3, <1>4, NodeAssumption
<1>6. /\ calls' \in [Call -> CallRecord]
      /\ calls'[c] = [op |-> op, at |-> "starting", key |-> None, ns |-> None, node |-> n]
      /\ \A d \in Call \ {c} : calls'[d] = calls[d]
  <2>1. op \in Operation /\ "starting" \in Step
    BY DEF StartOperation, Operation, Step
  <2> QED BY <1>1, <1>3, <2>1, GoesTo
<1>7. \A x \in Node : nodes[x] # Unused => nodes'[x] # Unused
  <2> SUFFICES ASSUME NEW x \in Node, nodes[x] # Unused PROVE nodes'[x] # Unused
    OBVIOUS
  <2>1. CASE x = controller
    BY <1>5, <2>1, NodeAssumption
  <2>2. CASE x # controller
    BY <1>2, <1>5, <2>2
  <2> QED BY <2>1, <2>2
<1>8. TypeOK'
  <2>1. \A d \in Call :
          calls'[d].at \in {"starting", "sharing", "genesis", "contribute"}
            => nodes'[calls'[d].node] # Unused
    <3> SUFFICES ASSUME NEW d \in Call, d # c,
                        calls[d].at \in {"starting", "sharing", "genesis", "contribute"}
                 PROVE  nodes'[calls[d].node] # Unused
      BY <1>2, <1>5, <1>6
    <3>1. nodes[calls[d].node] # Unused
      BY DEF Kinds, TypeOK
    <3>2. calls[d].node \in Node
      BY DEF Kinds, CallsInOrder
    <3> QED BY <1>7, <3>1, <3>2
  <2>2. controller \in {x \in Node : nodes'[x] # Unused} \cup {0}
    BY <1>1, <1>5
  <2> QED BY <1>3, <1>5, <1>6, <2>1, <2>2, ZenonT(40)
          DEF Kinds, TypeOK, NodeRecord, CallRecord, Around, Noticed
<1>9. CallsInOrder' /\ Unopened'
  BY <1>6 DEF Kinds, CallsInOrder, Unopened, Around
<1>10. \A d \in Call \ {c} : IsStarting(d)' <=> IsStarting(d)
  BY <1>6 DEF IsStarting
<1>11. Running' = (Running \ {controller}) \cup {n}
  <2> SUFFICES ASSUME NEW x \in Node
               PROVE  nodes'[x].status = "running"
                        <=> x = n \/ (nodes[x].status = "running" /\ x # controller)
    BY DEF Running
  <2>1. CASE x = n
    BY <1>2, <1>5, <2>1
  <2>2. CASE x = controller
    BY <1>5, <2>2, NodeAssumption
  <2>3. CASE x \notin {n, controller}
    BY <1>5, <2>3
  <2> QED BY <2>1, <2>2, <2>3
<1>12. Launched'
  <2>1. \A d \in Call \ {c} : IsStarting(d) =>
          /\ calls[d].node \in Running /\ calls[d].node # controller
          /\ calls[d].node # n
    BY <1>2 DEF Launched, Running, Unused
  <2>2. controller' = controller
    BY DEF Around
  <2> QED BY <1>5, <1>6, <1>10, <1>11, <2>1, <2>2 DEF Launched, IsStarting
<1>13. Patient'
  <2> SUFFICES ASSUME ~ impatient' PROVE /\ \A d, g \in Pending' : d = g
                                         /\ \A x \in Running' : x = n
                                         /\ n \in Starting'
    BY <1>5, <1>11 DEF Patient, Around
  <2>1. ~ impatient
    BY DEF Around, Noticed
  <2>2. Pending \subseteq {c}
    BY <2>1 DEF Around, Noticed, Patient, Pending
  <2>3. Starting = {}
    <3>1. \A d \in Call : IsStarting(d) => d \in Pending
      BY IdleRecord DEF IsStarting, Pending
    <3>2. \A d \in Call : ~ IsStarting(d)
      BY <2>2, <3>1 DEF Around, IsStarting
    <3> QED BY <3>2 DEF Starting, IsStarting
  <2>4. Pending' \subseteq {c}
    BY <1>6, <2>2 DEF Pending
  <2>5. \A x \in Running' : x = n
    BY <1>11, <2>1, <2>3 DEF Patient
  <2>6. n \in Starting'
    BY <1>6 DEF Starting
  <2> QED BY <2>4, <2>5, <2>6
<1>14. ShownNodeRuns'
  <2>1. n \in Starting'
    BY <1>6 DEF Starting
  <2> QED BY <2>1 DEF ShownNodeRuns, Around
<1> QED BY <1>8, <1>9, <1>12, <1>13, <1>14 DEF Kinds

LEMMA StartNodeKeeps ==
  ASSUME Inv, NEW c \in Call, NEW op \in StartOperation, Around(c),
         NEW key \in Key \cup {None}, NEW ns \in Community, StartNode(c, op, key, ns)
  PROVE  Inv'
<1>1. CASE key = None /\ NoKey(c, op)
  BY <1>1, StartsNothing
<1>2. CASE key # None /\ \E n \in Node : NextNode(n) /\ Made(c, op, n, key, ns)
  BY <1>2, StartsNode
<1> QED BY <1>1, <1>2 DEF StartNode

LEMMA OnlineKeeps == ASSUME Inv, NEW c \in Call, Online(c) PROVE Inv'
<1> USE DEF Inv
<1>1. calls[c] # Idle /\ calls[c].at = "online"
  BY IdleRecord DEF Online
<1>2. /\ calls[c].op \in StartOperation
      /\ calls[c].ns \in Community
  BY <1>1 DEF Kinds, CallsInOrder, TypeOK
<1>3. phase # "loading"
  BY <1>1 DEF Kinds, Unopened, Pending
<1>4. keyPair \in Key \cup {None}
  BY DEF Kinds, TypeOK
<1>5. Around(c)
  BY <1>1, <1>3 DEF Around, Online, Kinds, TypeOK, shown, history
<1> QED BY <1>2, <1>4, <1>5, StartNodeKeeps DEF Online

LEMMA SpawnSubCellKeeps ==
  ASSUME Inv, NEW c \in Call, NEW ns \in Fresh, SpawnSubCell(c, ns) PROVE Inv'
<1> USE DEF Inv
<1>1. "spawn" \in StartOperation /\ ns \in Community
  BY DEF StartOperation, Community
<1>2. keyPair \in Key \cup {None}
  BY DEF Kinds, TypeOK
<1>3. Around(c)
  BY IdleRecord DEF Around, SpawnSubCell, SubCellCapBanner, MainApp, Draw, Kinds,
     TypeOK, shown
<1> QED BY <1>1, <1>2, <1>3, StartNodeKeeps DEF SpawnSubCell

LEMMA ReturnToParentChapterKeeps ==
  ASSUME Inv, NEW c \in Call, ReturnToParentChapter(c) PROVE Inv'
<1> USE DEF Inv
<1>1. "return" \in StartOperation /\ parent \in Community
  BY DEF StartOperation, ReturnToParentChapter, SubCellLinkageBanner, Kinds, TypeOK
<1>2. keyPair \in Key \cup {None}
  BY DEF Kinds, TypeOK
<1>3. Around(c)
  BY IdleRecord DEF Around, ReturnToParentChapter, SubCellLinkageBanner, MainApp,
     Kinds, TypeOK, shown
<1> QED BY <1>1, <1>2, <1>3, StartNodeKeeps DEF ReturnToParentChapter

\* Unlocking starts the node of the session, or leads to the onboarding.
LEMMA UnlockedKeeps == ASSUME Inv, NEW c \in Call, Unlocked(c) PROVE Inv'
<1> USE DEF Inv
<1> DEFINE k == calls[c].key
           joins == invite # None /\ (session = None \/ invite # session.ns)
           resumes == ~ joins /\ session # None /\ session.key = k
<1>1. calls[c] # Idle /\ calls[c].at = "deriving" /\ k \in vault /\ k \in Key
  BY IdleRecord DEF Unlocked, Decrypts, Kinds, TypeOK
<1>2. phase # "loading"
  BY <1>1 DEF Kinds, Unopened, Pending
<1>3. CASE resumes
  <2>1. "unlock" \in StartOperation /\ session.ns \in Community
    BY <1>3 DEF StartOperation, Kinds, TypeOK, Session
  <2>2. Around(c)
    BY <1>1, <1>2, <1>3 DEF Around, Unlocked, Kinds, TypeOK, history
  <2>3. StartNode(c, "unlock", k, session.ns)
    BY <1>3 DEF Unlocked
  <2> QED BY <1>1, <2>1, <2>2, <2>3, StartNodeKeeps
<1>4. CASE ~ resumes
  <2>1. /\ Ends(c) /\ phase' = "onboarding"
        /\ UNCHANGED <<nodes, savedSession, invite, vault, parent, founder, session,
                       newMnemonic, controller, pool, desktop, drawn, reloads, impatient, cutOff>>
        /\ keyPair' = k /\ myKey' = k
    BY <1>4 DEF Unlocked, history
  <2>2. calls \in [Call -> CallRecord]
    BY DEF Kinds, TypeOK, CallRecord
  <2>3. /\ calls' \in [Call -> CallRecord] /\ calls'[c] = Idle
        /\ \A d \in Call \ {c} : calls'[d] = calls[d]
    BY <2>1, <2>2, EndsTo
  <2> HIDE DEF k, joins, resumes
  <2>4. TypeOK'
    BY <1>1, <2>1, <2>3, IdleRecord DEF Kinds, TypeOK, CallRecord
  <2>5. CallsInOrder'
    BY <2>1, <2>3, IdleRecord DEF Kinds, CallsInOrder
  <2> QED BY <1>1, <2>1, <2>3, <2>4, <2>5, IdleRecord, CallMoves
<1> QED BY <1>3, <1>4

-----------------------------------------------------------------------------
(* What follows the start.                                                 *)

LEMMA GenesisStoredKeeps == ASSUME Inv, NEW c \in Call, GenesisStored(c) PROVE Inv'
<1> USE DEF Inv
<1> DEFINE n == calls[c].node
<1>1. /\ calls[c] # Idle /\ calls[c].at = "genesis"
      /\ n \in {m \in Node : nodes[m] # Unused} \cup {0} /\ n # 0
      /\ nodes[n].ns \in Community /\ nodes[n].key \in Key
  BY IdleRecord, NodeAssumption DEF GenesisStored, Kinds, CallsInOrder, TypeOK
<1>2. /\ Ends(c) \/ (n # 0 /\ Goes(c, "found", "contribute", None, None, n))
      /\ UNCHANGED <<nodes, vault, parent, session, invite, keyPair, myKey, newMnemonic,
                     phase, controller, pool, desktop, drawn, reloads, impatient, cutOff>>
      /\ founder' = [founder EXCEPT ![nodes[n].ns] = IF @ = None THEN nodes[n].key ELSE @]
      /\ savedSession' \in {savedSession, Persisted(controller)}
  BY <1>1 DEF GenesisStored, identity, shown, history
<1>3. "found" \in Operation
  BY DEF Operation
<1> HIDE DEF n, Inv
<1>4. /\ calls' \in [Call -> CallRecord]
      /\ \A d \in Call \ {c} : calls'[d] = calls[d]
      /\ calls'[c].at \in {"idle", "genesis", "contribute"}
      /\ CallsInOrder'
      /\ \A d \in Call :
           calls'[d].at \in {"starting", "sharing", "genesis", "contribute"}
             => nodes'[calls'[d].node] # Unused
  BY <1>1, <1>2, <1>3, CallGoesOn
<1> USE DEF Inv
<1>5. /\ Persisted(controller) \in Session \cup {None}
      /\ Persisted(controller) # None => Persisted(controller).key \in vault
  BY <1>2, PersistedType DEF Kinds, TypeOK, NodeRecord
<1>6. founder' \in [Community -> Key \cup {None, Other}]
  BY <1>1, <1>2 DEF Kinds, TypeOK
<1>7. TypeOK'
  BY <1>2, <1>4, <1>5, <1>6 DEF Kinds, TypeOK, CallRecord
<1> QED BY <1>1, <1>2, <1>4, <1>7, CallMoves

LEMMA FoundedKeeps == ASSUME Inv, NEW c \in Call, Founded(c) PROVE Inv'
<1> USE DEF Inv
<1>1. calls[c] # Idle /\ calls[c].at = "contribute" /\ calls \in [Call -> CallRecord]
  BY IdleRecord DEF Founded, Kinds, TypeOK, CallRecord
<1>2. /\ calls' \in [Call -> CallRecord] /\ calls'[c] = Idle
      /\ \A d \in Call \ {c} : calls'[d] = calls[d]
  BY <1>1, EndsTo DEF Founded
<1>3. /\ savedSession' \in Session \cup {None}
      /\ savedSession' # None => savedSession'.key \in vault
  BY PersistedType DEF Founded, Kinds, TypeOK, NodeRecord
<1>4. TypeOK'
  BY <1>2, <1>3, IdleRecord
     DEF Kinds, TypeOK, CallRecord, Founded, identity, shown, history
<1>5. CallsInOrder'
  BY <1>2, IdleRecord DEF Kinds, CallsInOrder, Founded
<1> QED BY <1>1, <1>2, <1>4, <1>5, IdleRecord, CallMoves DEF Founded, shown, history

LEMMA RecoveredKeeps == ASSUME Inv, NEW c \in Call, Recovered(c) PROVE Inv'
<1> USE DEF Inv
<1>1. /\ calls[c] # Idle /\ calls[c].at = "importing" /\ calls \in [Call -> CallRecord]
      /\ calls[c].key \in vault /\ calls[c].ns \in Community
  BY IdleRecord DEF Recovered, Kinds, CallsInOrder, TypeOK, CallRecord
<1>2. /\ calls' \in [Call -> CallRecord] /\ calls'[c] = Idle
      /\ \A d \in Call \ {c} : calls'[d] = calls[d]
  BY <1>1, EndsTo DEF Recovered
<1>3. /\ savedSession' \in Session /\ savedSession'.key \in vault
      /\ session' = savedSession'
  BY <1>1 DEF Recovered, Kinds, TypeOK, Session
<1>4. TypeOK'
  BY <1>2, <1>3, IdleRecord
     DEF Kinds, TypeOK, CallRecord, Recovered, shown, history
<1>5. CallsInOrder'
  BY <1>2, IdleRecord DEF Kinds, CallsInOrder, Recovered
<1> QED BY <1>1, <1>2, <1>4, <1>5, IdleRecord, CallMoves DEF Recovered, shown, history

LEMMA SharedKeeps == ASSUME Inv, NEW c \in Call, Shared(c) PROVE Inv'
<1> USE DEF Inv
<1>1. /\ calls[c] # Idle /\ calls[c].at = "sharing" /\ calls[c].op \in Operation
      /\ controller \in {m \in Node : nodes[m] # Unused} \cup {0}
  BY IdleRecord DEF Shared, Kinds, TypeOK
<1>2. /\ Ends(c) \/ (controller # 0 /\ Goes(c, calls[c].op, "genesis", None, None, controller))
      /\ UNCHANGED <<nodes, vault, parent, founder, session, keyPair, myKey, newMnemonic,
                     phase, controller, pool, desktop, drawn, reloads, impatient, cutOff>>
      /\ savedSession' = Persisted(controller) /\ invite' \in {invite, None}
  BY DEF Shared, shown, history
<1> HIDE DEF Inv
<1>3. /\ calls' \in [Call -> CallRecord]
      /\ \A d \in Call \ {c} : calls'[d] = calls[d]
      /\ calls'[c].at \in {"idle", "genesis", "contribute"}
      /\ CallsInOrder'
      /\ \A d \in Call :
           calls'[d].at \in {"starting", "sharing", "genesis", "contribute"}
             => nodes'[calls'[d].node] # Unused
  BY <1>1, <1>2, CallGoesOn
<1> USE DEF Inv
<1>4. /\ Persisted(controller) \in Session \cup {None}
      /\ Persisted(controller) # None => Persisted(controller).key \in vault
  BY <1>1, <1>2, PersistedType DEF Kinds, TypeOK, NodeRecord
<1>5. TypeOK'
  BY <1>2, <1>3, <1>4 DEF Kinds, TypeOK, CallRecord
<1> QED BY <1>1, <1>2, <1>3, <1>5, CallMoves

\* The started node takes its place in the store.
LEMMA NodeStartedKeeps == ASSUME Inv, NEW c \in Call, NodeStarted(c) PROVE Inv'
<1> USE DEF Inv
<1> DEFINE n == calls[c].node
           op == calls[c].op
<1>1. /\ IsStarting(c) /\ calls[c] # Idle /\ calls \in [Call -> CallRecord]
      /\ n \in Running /\ n # controller /\ n \in Node /\ nodes[n] # Unused
      /\ nodes[n].ns \in Community
      /\ op \in StartOperation /\ op \in Operation
  BY IdleRecord
     DEF NodeStarted, IsStarting, Launched, Kinds, CallsInOrder, TypeOK, Running,
         CallRecord
<1>2. /\ controller' = n /\ phase' = "ready" /\ pool' \in {nodes[n].ns, None}
      /\ \/ Goes(c, op, "sharing", None, None, n) /\ UNCHANGED <<savedSession, invite>>
         \/ Continues(c, op, n)
      /\ UNCHANGED <<nodes, vault, parent, founder, session, keyPair, myKey,
                     newMnemonic, desktop, drawn, reloads, impatient, cutOff>>
  BY DEF NodeStarted, history
<1>3. phase # "loading"
  BY <1>1 DEF Kinds, Unopened, Pending
<1> HIDE DEF n, op
<1>4. /\ calls' \in [Call -> CallRecord]
      /\ \A d \in Call \ {c} : calls'[d] = calls[d]
      /\ calls'[c].at # "starting"
      /\ CallsInOrder'
      /\ \A d \in Call :
           calls'[d].at \in {"starting", "sharing", "genesis", "contribute"}
             => nodes'[calls'[d].node] # Unused
      /\ savedSession' \in Session \cup {None}
      /\ savedSession' # None => savedSession'.key \in vault
      /\ invite' \in {invite, None}
  <2>1. CASE Goes(c, op, "sharing", None, None, n) /\ UNCHANGED <<savedSession, invite>>
    <3>1. "sharing" \in Step
      BY DEF Step
    <3>2. /\ calls' \in [Call -> CallRecord]
          /\ calls'[c] = [op |-> op, at |-> "sharing", key |-> None, ns |-> None, node |-> n]
          /\ \A d \in Call \ {c} : calls'[d] = calls[d]
      BY <1>1, <2>1, <3>1, GoesTo
    <3>3. CallsInOrder'
      BY <1>1, <1>2, <3>2 DEF Kinds, CallsInOrder
    <3> QED BY <1>1, <1>2, <2>1, <3>2, <3>3 DEF Kinds, TypeOK
  <2>2. CASE Continues(c, op, n)
    <3>1. n \in {m \in Node : nodes[m] # Unused} \cup {0}
      BY <1>1
    <3> HIDE DEF Inv
    <3> QED BY <1>1, <1>2, <2>2, <3>1, ContinuesTo
  <2> QED BY <1>2, <2>1, <2>2
<1>5. TypeOK'
  <2>1. /\ {session, savedSession}' \subseteq Session \cup {None}
        /\ {parent, invite, pool}' \subseteq Community \cup {None}
    BY <1>1, <1>2, <1>4 DEF Kinds, TypeOK
  <2>2. controller' \in {m \in Node : nodes'[m] # Unused} \cup {0}
    BY <1>1, <1>2
  <2> QED BY <1>2, <1>4, <2>1, <2>2 DEF Kinds, TypeOK, CallRecord
<1>6. \A d \in Call : IsStarting(d)' <=> IsStarting(d) /\ d # c
  BY <1>4 DEF IsStarting
<1>7. Running' = Running
  BY <1>2 DEF Running
<1>8. Launched'
  <2>1. \A d \in Call \ {c} : IsStarting(d) =>
          calls[d].node \in Running /\ calls[d].node # n
    BY <1>1 DEF Launched, n
  <2> QED BY <1>2, <1>4, <1>6, <1>7, <2>1 DEF Launched
<1>9. Patient'
  <2> SUFFICES ASSUME ~ impatient
               PROVE  /\ \A d, g \in Pending' : d = g
                      /\ \A x \in Running : x = n
                      /\ Starting' = {}
    BY <1>2, <1>7 DEF Patient
  <2>1. \A d \in Pending : d = c
    BY <1>1 DEF Patient, Pending
  <2>2. Pending' \subseteq {c}
    BY <1>4, <2>1 DEF Pending
  <2>3. \A d \in Call : IsStarting(d) => d = c
    BY <2>1, IdleRecord DEF Pending, IsStarting
  <2>4. \A x \in Starting : x = n
    BY <2>3 DEF Starting, IsStarting, n
  <2>5. n \in Starting
    BY <1>1 DEF Starting, IsStarting, n
  <2>6. \A x \in Running : x = n
    BY <2>4, <2>5 DEF Patient
  <2>7. Starting' = {}
    BY <1>6, <2>3 DEF Starting, IsStarting
  <2> QED BY <2>2, <2>6, <2>7
<1>10. ShownNodeRuns'
  BY <1>1, <1>2, <1>7, NodeAssumption DEF ShownNodeRuns
<1>11. Unopened'
  BY <1>2 DEF Unopened
<1> QED BY <1>4, <1>5, <1>8, <1>9, <1>10, <1>11 DEF Kinds

\* Locking stops the node of the store, and no node being started.
LEMMA LockKeeps == ASSUME Inv, Lock PROVE Inv'
<1> USE DEF Inv
<1>1. /\ controller \in {x \in Node : nodes[x] # Unused} /\ controller # 0
      /\ nodes \in [Node -> NodeRecord]
  BY DEF Lock, MainApp, ShownNodeRuns, Kinds, TypeOK, NodeRecord
<1>2. /\ nodes' = Stopped(controller) /\ controller' = 0 /\ pool' = None
      /\ phase' = "locked" /\ keyPair' = None
      /\ UNCHANGED <<disk, session, invite, myKey, newMnemonic, calls, history>>
  BY DEF Lock
<1>3. /\ nodes' \in [Node -> NodeRecord]
      /\ \A x \in Node \ {controller} : nodes'[x] = nodes[x]
      /\ nodes'[controller].status = "stopped" /\ nodes'[controller] # Unused
  BY <1>1, <1>2, StoppedTo
<1>4. TypeOK'
  <2>1. \A d \in Call :
          calls[d].at \in {"starting", "sharing", "genesis", "contribute"}
            => nodes'[calls[d].node] # Unused
    <3> SUFFICES ASSUME NEW d \in Call,
                        calls[d].at \in {"starting", "sharing", "genesis", "contribute"}
                 PROVE  nodes'[calls[d].node] # Unused
      OBVIOUS
    <3>1. nodes[calls[d].node] # Unused /\ calls[d].node \in Node
      BY DEF Kinds, CallsInOrder, TypeOK
    <3> QED BY <1>3, <3>1
  <2> QED BY <1>2, <1>3, <2>1 DEF Kinds, TypeOK, NodeRecord, disk, history
<1>5. CallsInOrder' /\ Unopened'
  BY <1>2 DEF Kinds, CallsInOrder, Unopened, disk
<1>6. \A x \in Node : x \in Running' <=> x \in Running /\ x # controller
  BY <1>1, <1>3 DEF Running
<1>7. Starting' = Starting /\ 0 \notin Node
  BY <1>2, NodeAssumption DEF Starting
<1>8. Launched'
  <2>1. \A d \in Call : IsStarting(d) =>
          /\ calls[d].node \in Running /\ calls[d].node # controller
          /\ calls[d].node \in Node
    BY DEF Launched, Running
  <2> QED BY <1>2, <1>6, <1>7, <2>1 DEF Launched, IsStarting
<1>9. Patient'
  <2>1. Running' \subseteq Node
    BY DEF Running
  <2> QED BY <1>2, <1>6, <1>7, <2>1 DEF Patient, Pending, history
<1>10. ShownNodeRuns'
  BY <1>2 DEF ShownNodeRuns
<1> QED BY <1>4, <1>5, <1>8, <1>9, <1>10 DEF Kinds

\* A page that is reloaded has no node, no key and no call.
LEMMA ReloadKeeps == ASSUME Inv, Reload PROVE Inv'
<1> USE DEF Inv
<1>1. /\ nodes' = [n \in Node |-> Unused] /\ calls' = [c \in Call |-> Idle]
      /\ controller' = 0 /\ pool' = None /\ phase' = "loading" /\ session' = None
      /\ keyPair' = None /\ myKey' = None /\ newMnemonic' = FALSE
      /\ reloads' = reloads + 1 /\ invite' \in {invite} \cup Joined
      /\ UNCHANGED <<disk, desktop, drawn, impatient>>
      /\ cutOff' \subseteq Community
  BY DEF Reload, Kinds, TypeOK
<1>2. /\ \A c \in Call : calls'[c].at = "idle" /\ calls'[c] = Idle
      /\ calls' \in [Call -> CallRecord]
  BY <1>1, IdleRecord
<1>3. TypeOK'
  <2>1. {parent, invite, pool}' \subseteq Community \cup {None}
    BY <1>1 DEF Kinds, TypeOK, Community, disk
  <2>2. nodes' \in [Node -> NodeRecord]
    BY <1>1 DEF NodeRecord
  <2>3. {newMnemonic, desktop, impatient}' \subseteq BOOLEAN
    <3>1. {newMnemonic, desktop, impatient} \subseteq BOOLEAN
      BY DEF Kinds, TypeOK
    <3> HIDE DEF Inv
    <3> QED BY <1>1, <3>1
  <2>6. reloads' \in Nat
    <3>1. reloads \in Nat
      BY DEF Kinds, TypeOK
    <3> QED BY <1>1, <3>1
  <2>4. /\ {session, savedSession}' \subseteq Session \cup {None}
        /\ savedSession' # None => savedSession'.key \in vault'
        /\ {keyPair, myKey}' \subseteq vault' \cup {None}
    BY <1>1 DEF Kinds, TypeOK, disk
  <2>5. \A c \in Call :
          calls'[c].at \notin {"starting", "sharing", "genesis", "contribute"}
    BY <1>2
  <2> QED BY <1>1, <1>2, <2>1, <2>2, <2>3, <2>4, <2>5, <2>6
          DEF Kinds, TypeOK, CallRecord, NodeRecord, disk
<1>4. CallsInOrder' /\ Unopened'
  BY <1>1, <1>2 DEF CallsInOrder, Unopened, Pending
<1>5. Running' = {} /\ Starting' = {} /\ Pending' = {}
  <2>1. Unused.status # "running"
    BY DEF Unused
  <2> QED BY <1>1, <1>2, <2>1 DEF Running, Starting, Pending
<1>6. Launched' /\ Patient' /\ ShownNodeRuns'
  BY <1>1, <1>2, <1>5 DEF Launched, IsStarting, Patient, ShownNodeRuns
<1> QED BY <1>3, <1>4, <1>6 DEF Kinds

-----------------------------------------------------------------------------
(* The theorems.                                                           *)

LEMMA InvInit == Init => Inv
<1> SUFFICES ASSUME Init PROVE Inv
  OBVIOUS
<1>1. \A c \in Call : calls[c].at = "idle" /\ calls[c] = Idle
  BY IdleRecord DEF Init
<1>2. TypeOK
  BY IdleRecord DEF Init, TypeOK, CallRecord, Community
<1>3. Running = {} /\ Starting = {} /\ Pending = {}
  <2>1. Unused.status # "running"
    BY DEF Unused
  <2> QED BY <1>1, <2>1 DEF Init, Running, Starting, Pending
<1>4. CallsInOrder /\ Unopened
  BY <1>1, <1>3 DEF Init, CallsInOrder, Unopened
<1>5. Launched /\ Patient /\ ShownNodeRuns
  BY <1>1, <1>3 DEF Init, Launched, IsStarting, Patient, ShownNodeRuns
<1> QED BY <1>2, <1>4, <1>5 DEF Inv, Kinds

LEMMA InvNext == Inv /\ [Next]_vars => Inv'
<1> SUFFICES ASSUME Inv, [Next]_vars PROVE Inv'
  OBVIOUS
<1>1. ASSUME Open \/ Reload \/ ConfirmBackup \/ Lock \/ Forget \/ EditRelays
             \/ ClearParentContext
      PROVE  Inv'
  BY <1>1, OpenKeeps, ReloadKeeps, ConfirmBackupKeeps, LockKeeps, ForgetKeeps,
     EditRelaysKeeps, ClearParentContextKeeps
<1>2. ASSUME NEW k \in Key, CreateIdentity(k) \/ RestoreIdentity(k) \/ ImportIdentity(k)
      PROVE  Inv'
  BY <1>2, CreateIdentityKeeps, RestoreIdentityKeeps, ImportIdentityKeeps
<1>3. ASSUME NEW c \in Call,
             \/ \E k \in Key : Unlock(c, k)
             \/ \E ns \in Fresh : StartCommunity(c, ns) \/ SpawnSubCell(c, ns)
             \/ \E ns \in Community : founder[ns] # None /\ Recover(c, ns)
             \/ JoinCommunity(c) \/ ReturnToParentChapter(c)
      PROVE  Inv'
  BY <1>3, UnlockKeeps, StartCommunityKeeps, SpawnSubCellKeeps, RecoverKeeps,
     JoinCommunityKeeps, ReturnToParentChapterKeeps
<1>4. ASSUME NEW c \in Call,
             \/ Unlocked(c) \/ Online(c) \/ NodeStarted(c) \/ Shared(c)
             \/ GenesisStored(c) \/ Founded(c) \/ Recovered(c) \/ Fails(c)
      PROVE  Inv'
  BY <1>4, UnlockedKeeps, OnlineKeeps, NodeStartedKeeps, SharedKeeps,
     GenesisStoredKeeps, FoundedKeeps, RecoveredKeeps, FailsKeeps
<1>5. CASE UNCHANGED vars
  <2>1. TypeOK'
    BY <1>5 DEF Inv, Kinds, TypeOK, vars, disk, identity, shown, history
  <2> QED BY <1>5, <2>1, QuietStep DEF vars, disk, shown, history
<1> QED BY <1>1, <1>2, <1>3, <1>4, <1>5, SetPendingInviteKeeps, EmitKeeps DEF Next

LEMMA InvHolds == Spec => []Inv
BY InvInit, InvNext, PTL DEF Spec

\* Whatever operations overlap and wherever the page is cut off, the saved session
\* is of an identity on the device, a locked store has no node, and a call works
\* on a node that exists (store.ts, keystore.ts).
THEOREM TypeCorrect == Spec => []TypeOK
<1>1. Inv => TypeOK
  BY DEF Inv, Kinds
<1> QED BY <1>1, InvHolds, PTL

\* What the main view works on runs, or its successor is starting, however many
\* operations overlap (lock, startNode).
THEOREM ShownNodeKeepsRunning == Spec => []ShownNodeRuns
<1>1. Inv => ShownNodeRuns
  BY DEF Inv
<1> QED BY <1>1, InvHolds, PTL

\* With one operation at a time no node that runs is out of reach of lock and
\* startNode.
THEOREM NoOrphanSigns == Spec => []NobodyElseRuns
<1>1. Inv => NobodyElseRuns
  BY DEF Inv, Patient, NobodyElseRuns
<1> QED BY <1>1, InvHolds, PTL

-----------------------------------------------------------------------------
(* The community a browser comes back to.                                  *)

\* The operations that give a community its genesis.
FoundOperation == {"found", "spawn"}

\* The steps of a call with a node whose community may not have its genesis.
NodeStep == {"starting", "sharing", "genesis"}

\* A community has its genesis, or the device was to found it and was cut off.
Exists(ns) == founder[ns] # None \/ (desktop /\ ns \in cutOff)

\* A call is on its way to the genesis of a community.
Founds(c, ns) ==
  /\ calls[c].at \in NodeStep /\ calls[c].op \in FoundOperation
  /\ nodes[calls[c].node].ns = ns
Founding(ns) == \E c \in Call : Founds(c, ns)

\* Whatever names a community names one that exists, but for the node and the
\* state in the store, which may be those of one being founded, and for the
\* session that a desktop saves on the way.
Saved ==
  savedSession # None =>
    Exists(savedSession.ns) \/ (desktop /\ Unfounded(savedSession.ns))
Named ==
  /\ Saved
  /\ session # None => Exists(session.ns)
  /\ parent # None => Exists(parent)
InStore ==
  /\ pool # None => Exists(pool) \/ Founding(pool)
  /\ controller # 0 => Exists(nodes[controller].ns) \/ Founding(nodes[controller].ns)
Aimed ==
  \A c \in Call :
    /\ calls[c].at = "online" => Exists(calls[c].ns) \/ calls[c].op \in FoundOperation
    /\ calls[c].at = "importing" => Exists(calls[c].ns)
    /\ calls[c].at = "starting" =>
         Exists(nodes[calls[c].node].ns) \/ calls[c].op \in FoundOperation
    /\ calls[c].at = "sharing" =>
         /\ desktop
         /\ controller = calls[c].node \/ (controller = 0 /\ pool = None)
Rooted == impatient \/ (Named /\ InStore /\ Aimed)

\* Invitations are to communities that others founded.
Invited == invite \in Joined \cup {None} /\ \A ns \in Joined : founder[ns] # None

\* One call at a time, without a history to excuse it.
LEMMA OneCall ==
  ASSUME Inv, ~ impatient, NEW c \in Call, calls[c] # Idle
  PROVE  \A d \in Call \ {c} : calls[d] = Idle
BY DEF Inv, Patient, Pending

\* While no call stands before a genesis, the store names what exists.
LEMMA StoreExists ==
  ASSUME InStore, \A c \in Call : calls[c].at \notin NodeStep
  PROVE  /\ pool # None => Exists(pool)
         /\ controller # 0 => Exists(nodes[controller].ns)
BY DEF InStore, Founding, Founds

\* The saved session names a community that exists but on the way to a genesis.
LEMMA SavedExists ==
  ASSUME Saved, \A c \in Call : calls[c].at # "genesis"
  PROVE  savedSession # None => Exists(savedSession.ns)
BY DEF Saved, Unfounded

\* A new node aims at a community that exists, or is to found one.
LEMMA MadeRooted ==
  ASSUME Inv, Rooted, ~ impatient,
         NEW c \in Call, NEW op \in StartOperation, NEW n \in Node, NEW key,
         NEW ns \in Community, NextNode(n), Made(c, op, n, key, ns),
         Exists(ns) \/ op \in FoundOperation,
         \A d \in Call \ {c} : calls[d] = Idle,
         calls[c].at \notin NodeStep,
         UNCHANGED <<founder, session, controller, pool, desktop, cutOff>>,
         parent' # None => Exists(parent')
  PROVE  Rooted'
<1>1. calls \in [Call -> CallRecord] /\ nodes \in [Node -> NodeRecord]
      /\ controller \in {m \in Node : nodes[m] # Unused} \cup {0}
  BY DEF Inv, Kinds, TypeOK, CallRecord, NodeRecord
<1>2. op \in Operation /\ "starting" \in Step
  BY DEF StartOperation, Operation, Step
<1>3. /\ calls'[c] = [op |-> op, at |-> "starting", key |-> None, ns |-> None, node |-> n]
      /\ \A d \in Call \ {c} : calls'[d] = Idle
  <2>1. Goes(c, op, "starting", None, None, n)
    BY DEF Made
  <2> QED BY <1>1, <1>2, <2>1, GoesTo
<1>4. \A d \in Call : calls[d].at \notin NodeStep
  BY IdleRecord DEF NodeStep
<1>5. Named /\ InStore
  BY DEF Rooted
<1>6. /\ pool # None => Exists(pool)
      /\ controller # 0 => Exists(nodes[controller].ns)
  BY <1>4, <1>5, StoreExists
<1>7. nodes'[n].ns = ns
  BY <1>1 DEF Made, Stopped
<1>8. controller # 0 => nodes'[controller].ns = nodes[controller].ns
  <2> SUFFICES ASSUME controller # 0
               PROVE  nodes'[controller].ns = nodes[controller].ns
    OBVIOUS
  <2>1. controller \in Node /\ controller # n
    BY <1>1 DEF NextNode
  <2>2. nodes'[controller] = [nodes[controller] EXCEPT !.status = "stopped"]
    BY <2>1 DEF Made, Stopped
  <2>3. nodes[controller] \in [ns : Community, key : Key, status : {"running", "stopped"}]
    BY <1>1, <2>1 DEF NodeRecord
  <2> QED BY <2>2, <2>3
<1>9. Named'
  <2>1. savedSession' = savedSession
    BY DEF Made
  <2>2. savedSession # None => Exists(savedSession.ns)
    BY <1>4, <1>5, SavedExists DEF Named, NodeStep
  <2> QED BY <1>5, <2>1, <2>2 DEF Named, Saved, Exists
<1>10. InStore'
  BY <1>6, <1>8 DEF InStore, Exists
<1>11. Aimed'
  <2>1. calls'[c].at = "starting" /\ calls'[c].node = n /\ calls'[c].op = op
    BY <1>3
  <2>2. \A d \in Call \ {c} : calls'[d].at = "idle"
    BY <1>3, IdleRecord
  <2>3. Exists(ns)' \/ op \in FoundOperation
    BY DEF Exists
  <2> QED BY <1>7, <2>1, <2>2, <2>3 DEF Aimed, Exists
<1> QED BY <1>9, <1>10, <1>11 DEF Rooted

\* What follows a start saves a session of a community that exists.
LEMMA ContinuesRooted ==
  ASSUME Inv, Rooted, ~ impatient,
         NEW c \in Call, NEW op \in StartOperation,
         NEW m \in {n \in Node : nodes[n] # Unused} \cup {0}, Continues(c, op, m),
         m # 0 => Exists(nodes[m].ns) \/ op \in FoundOperation,
         \A d \in Call \ {c} : calls[d] = Idle,
         calls[c].at # "genesis",
         UNCHANGED <<nodes, founder, session, vault, desktop, cutOff>>, controller' = m,
         parent' # None => Exists(parent'),
         pool' # None => \/ Exists(pool')
                         \/ m # 0 /\ op \in FoundOperation /\ pool' = nodes[m].ns
  PROVE  Rooted'
<1>1. calls \in [Call -> CallRecord]
  BY DEF Inv, Kinds, TypeOK, CallRecord
<1>2. op \in Operation /\ "genesis" \in Step /\ op \in FoundOperation \cup {"unlock", "join", "return"}
  BY DEF StartOperation, FoundOperation, Operation, Step
<1>3. /\ session # None => Exists(session.ns)
      /\ savedSession # None => Exists(savedSession.ns)
  <2>1. \A d \in Call : calls[d].at # "genesis"
    BY IdleRecord
  <2> QED BY <2>1, SavedExists DEF Rooted, Named
<1>4. CASE m # 0 /\ op \in FoundOperation
  <2>1. Goes(c, op, "genesis", None, None, m) /\ savedSession' = savedSession
    BY <1>4 DEF Continues, FoundOperation
  <2>2. /\ calls'[c] = [op |-> op, at |-> "genesis", key |-> None, ns |-> None, node |-> m]
        /\ \A d \in Call \ {c} : calls'[d] = Idle
    BY <1>1, <1>2, <1>4, <2>1, GoesTo
  <2>3. Named'
    BY <1>3, <2>1 DEF Named, Saved, Exists
  <2>4. Founding(nodes[m].ns)'
    BY <1>4, <2>2 DEF Founding, Founds, NodeStep
  <2>5. InStore'
    BY <2>4 DEF InStore, Exists
  <2>6. Aimed'
    BY <2>2, IdleRecord DEF Aimed
  <2> QED BY <2>3, <2>5, <2>6 DEF Rooted
<1>5. CASE m = 0 \/ op \notin FoundOperation
  <2>1. Ends(c) /\ savedSession' \in {savedSession, Persisted(m)}
    BY <1>5, <1>2 DEF Continues, FoundOperation
  <2>2. \A d \in Call : calls'[d] = Idle
    BY <1>1, <2>1, EndsTo
  <2>3. m # 0 => Exists(nodes[m].ns)
    BY <1>5
  <2>4. Named'
    <3>1. savedSession' # None => savedSession' = savedSession \/ (m # 0 /\ savedSession'.ns = nodes[m].ns)
      BY <2>1 DEF Persisted
    <3> QED BY <1>3, <2>3, <3>1 DEF Named, Saved, Exists
  <2>5. InStore'
    BY <1>5, <2>3 DEF InStore, Exists
  <2>6. Aimed'
    BY <2>2, IdleRecord DEF Aimed
  <2> QED BY <2>4, <2>5, <2>6 DEF Rooted
<1> QED BY <1>4, <1>5

\* Steps that leave nodes, calls and communities alone.
LEMMA QuietRooted ==
  ASSUME Rooted, ~ impatient,
         UNCHANGED <<nodes, calls, founder, desktop, cutOff, controller>>,
         \/ savedSession' = savedSession
         \/ savedSession' # None => Exists(savedSession'.ns),
         session' # None => Exists(session'.ns),
         parent' # None => Exists(parent'),
         pool' # None => Exists(pool') \/ Founding(pool'),
         controller = 0 /\ (\E c \in Call : calls[c].at = "sharing") => pool' = pool
  PROVE  Rooted'
<1>1. \A ns : Exists(ns)' <=> Exists(ns)
  BY DEF Exists
<1>2. \A ns : /\ Founding(ns)' <=> Founding(ns)
              /\ Unfounded(ns)' <=> Unfounded(ns)
  BY DEF Founding, Founds, Unfounded
<1>3. Aimed'
  BY DEF Rooted, Aimed, Exists
<1>4. InStore'
  BY <1>1, <1>2 DEF Rooted, InStore
<1>5. Named'
  <2>1. Saved'
    BY <1>1, <1>2 DEF Rooted, Named, Saved
  <2> QED BY <1>1, <2>1 DEF Named
<1> QED BY <1>3, <1>4, <1>5 DEF Rooted

LEMMA PageRooted ==
  ASSUME Inv, Rooted, ~ impatient', ~ impatient,
         \/ Open \/ ConfirmBackup \/ Forget \/ ClearParentContext
         \/ (\E k \in Key : CreateIdentity(k) \/ RestoreIdentity(k) \/ ImportIdentity(k))
         \/ (\E ns \in Joined \cup {None} : SetPendingInvite(ns))
  PROVE  Rooted'
<1>1. /\ UNCHANGED <<nodes, calls, founder, controller, pool, desktop, cutOff>>
      /\ savedSession' \in {savedSession, None}
      /\ session' \in {session, None} \/ (phase = "loading" /\ session' = savedSession)
      /\ parent' \in {parent, None}
  BY DEF Open, ConfirmBackup, Forget, ClearParentContext, CreateIdentity, Persist,
     RestoreIdentity, ImportIdentity, SetPendingInvite, disk, identity, shown, history
<1>2. phase = "loading" /\ savedSession # None => Exists(savedSession.ns)
  <2>1. phase = "loading" => \A c \in Call : calls[c].at # "genesis"
    BY IdleRecord DEF Inv, Kinds, Unopened, Pending
  <2> QED BY <2>1, SavedExists DEF Rooted, Named
<1>3. /\ session' # None => Exists(session'.ns)
      /\ parent' # None => Exists(parent')
  BY <1>1, <1>2 DEF Rooted, Named
<1>4. pool' # None => Exists(pool') \/ Founding(pool')
  BY <1>1 DEF Rooted, InStore
<1> QED BY <1>1, <1>3, <1>4, QuietRooted

\* Locking changes the status of a node only.
LEMMA LockRooted == ASSUME Inv, Rooted, ~ impatient, Lock PROVE Rooted'
<1>1. /\ nodes' = Stopped(controller) /\ controller' = 0 /\ pool' = None
      /\ UNCHANGED <<savedSession, parent, founder, session, calls, desktop, cutOff>>
  BY DEF Lock, disk, history
<1>2. \A n \in Node : nodes[n] # Unused =>
        nodes[n] \in [ns : Community, key : Key, status : {"running", "stopped"}]
  BY DEF Inv, Kinds, TypeOK
<1>3. \A n \in Node : nodes[n] # Unused => nodes'[n].ns = nodes[n].ns
  BY <1>1, <1>2 DEF Stopped
<1>4. \A c \in Call : calls[c].at \in {"starting", "genesis"} =>
        calls[c].node \in Node /\ nodes[calls[c].node] # Unused
  BY DEF Inv, Kinds, CallsInOrder, TypeOK
<1>5. Named' /\ InStore'
  <2>1. \A ns : Unfounded(ns) => Unfounded(ns)'
    BY <1>1, <1>3, <1>4 DEF Unfounded
  <2>2. Saved'
    BY <1>1, <2>1 DEF Rooted, Named, Saved, Exists
  <2> QED BY <1>1, <2>2 DEF Rooted, Named, InStore, Exists
<1>6. Aimed'
  BY <1>1, <1>3, <1>4 DEF Rooted, Aimed, Exists
<1> QED BY <1>5, <1>6 DEF Rooted

LEMMA EmitRooted ==
  ASSUME Inv, Rooted, ~ impatient, NEW n \in Node, Emit(n)
  PROVE  Rooted'
<1>1. /\ n \in Running /\ pool' = nodes[n].ns
      /\ UNCHANGED <<savedSession, parent, founder, session, controller, nodes, calls,
                     desktop, cutOff>>
  BY DEF Emit, Running, disk, identity, history
<1>2. n = controller \/ n \in Starting
  BY <1>1 DEF Inv, Patient
<1>3. Named /\ InStore /\ Aimed
  BY DEF Rooted
<1>4. Exists(nodes[n].ns) \/ Founding(nodes[n].ns)
  <2>1. CASE n = controller
    <3>1. n # 0
      BY NodeAssumption
    <3> QED BY <1>3, <2>1, <3>1 DEF InStore
  <2>2. CASE n \in Starting
    BY <1>3, <2>2 DEF Starting, Aimed, Founding, Founds, NodeStep
  <2> QED BY <1>2, <2>1, <2>2
<1>5. ASSUME NEW c \in Call, calls[c].at = "sharing" PROVE controller # 0
  <2>1. \A d \in Call \ {c} : calls[d].at # "starting"
    BY <1>5, OneCall, IdleRecord
  <2>2. n = controller
    BY <1>2, <1>5, <2>1 DEF Starting
  <2> QED BY <2>2, NodeAssumption
<1> QED BY <1>1, <1>3, <1>4, <1>5, QuietRooted DEF Named

\* Relays are edited while nothing is pending.
LEMMA EditRooted ==
  ASSUME Inv, Rooted, ~ impatient, ~ impatient', EditRelays
  PROVE  Rooted'
<1>1. /\ savedSession' = Persisted(controller) /\ Noticed /\ controller # 0
      /\ UNCHANGED <<parent, founder, session, controller, pool, nodes, calls, desktop,
                     cutOff>>
  BY DEF EditRelays, identity, shown
<1>2. \A c \in Call : calls[c].at \notin NodeStep
  BY <1>1, IdleRecord DEF Noticed, Pending, NodeStep
<1>3. Named /\ InStore
  BY DEF Rooted
<1>4. savedSession' # None => Exists(savedSession'.ns)
  BY <1>1, <1>2, <1>3, StoreExists DEF Persisted
<1> QED BY <1>1, <1>3, <1>4, QuietRooted DEF Named, InStore

LEMMA ReloadRooted ==
  ASSUME Inv, Rooted, ~ impatient, Reload
  PROVE  Rooted'
<1>1. /\ savedSession' = savedSession /\ parent' = parent /\ founder' = founder
      /\ session' = None /\ pool' = None /\ controller' = 0 /\ desktop' = desktop
      /\ calls' = [c \in Call |-> Idle]
      /\ cutOff' = cutOff \cup {ns \in Community : Unfounded(ns)}
  BY DEF Reload, disk
<1>2. \A ns : Exists(ns) => Exists(ns)'
  BY <1>1 DEF Exists
<1>3. savedSession # None => savedSession.ns \in Community
  BY DEF Inv, Kinds, TypeOK, Session
<1>4. savedSession # None => Exists(savedSession.ns)'
  BY <1>1, <1>2, <1>3 DEF Rooted, Named, Saved, Exists
<1>5. Named' /\ InStore'
  BY <1>1, <1>2, <1>4 DEF Rooted, Named, Saved, InStore
<1>6. Aimed'
  BY <1>1, IdleRecord DEF Aimed
<1> QED BY <1>5, <1>6 DEF Rooted

\* A call that waits for the network, a file or a passphrase, or gives up.
LEMMA WaitRooted ==
  ASSUME Inv, Rooted, ~ impatient, NEW c \in Call,
         calls[c].at \notin NodeStep,
         \A d \in Call \ {c} : calls'[d] = calls[d],
         calls'[c].at \notin NodeStep,
         calls'[c].at = "online" => Exists(calls'[c].ns) \/ calls'[c].op \in FoundOperation,
         calls'[c].at = "importing" => Exists(calls'[c].ns),
         UNCHANGED <<nodes, founder, controller, pool, parent, desktop, cutOff>>,
         \/ savedSession' = savedSession
         \/ savedSession' # None => Exists(savedSession'.ns),
         session' # None => Exists(session'.ns)
  PROVE  Rooted'
<1>1. \A ns : Exists(ns)' <=> Exists(ns)
  BY DEF Exists
<1>2. \A ns : Founding(ns) => Founding(ns)'
  BY DEF Founding, Founds
<1>3. \A ns : Unfounded(ns) => Unfounded(ns)'
  BY DEF Unfounded, NodeStep
<1>4. InStore'
  BY <1>1, <1>2 DEF Rooted, InStore
<1>5. Aimed'
  BY DEF Rooted, Aimed, Exists, NodeStep
<1>6. Named'
  BY <1>1, <1>3 DEF Rooted, Named, Saved
<1> QED BY <1>4, <1>5, <1>6 DEF Rooted

LEMMA BeginRooted ==
  ASSUME Inv, Rooted, Invited, ~ impatient, NEW c \in Call,
         \/ \E k \in Key : Unlock(c, k)
         \/ \E ns \in Fresh : StartCommunity(c, ns)
         \/ JoinCommunity(c)
         \/ \E ns \in Community : founder[ns] # None /\ Recover(c, ns)
         \/ Fails(c)
  PROVE  Rooted'
<1>1. calls \in [Call -> CallRecord] /\ None \in Key \cup {None}
      /\ {"unlock", "found", "join", "recover"} \subseteq Operation
      /\ {"deriving", "online", "importing"} \subseteq Step
  BY DEF Inv, Kinds, TypeOK, CallRecord, Operation, Step
<1>2. UNCHANGED <<savedSession, session, parent, nodes, founder, controller, pool,
                  desktop, cutOff>>
  BY DEF Unlock, StartCommunity, JoinCommunity, Recover, Fails, disk, identity, shown, history
<1>3. session' # None => Exists(session'.ns)
  BY <1>2 DEF Rooted, Named
<1>4. calls[c].at \notin NodeStep
  BY IdleRecord DEF Unlock, StartCommunity, JoinCommunity, Recover, Fails, NodeStep
<1>5. /\ \A d \in Call \ {c} : calls'[d] = calls[d]
      /\ calls'[c].at \notin NodeStep
      /\ calls'[c].at = "online" => Exists(calls'[c].ns) \/ calls'[c].op \in FoundOperation
      /\ calls'[c].at = "importing" => Exists(calls'[c].ns)
  <2>1. ASSUME NEW k \in Key, Unlock(c, k)
        PROVE  /\ \A d \in Call \ {c} : calls'[d] = calls[d]
               /\ calls'[c].at = "deriving"
    BY <1>1, <2>1 DEF Unlock, Goes
  <2>2. ASSUME NEW ns \in Fresh, StartCommunity(c, ns)
        PROVE  /\ \A d \in Call \ {c} : calls'[d] = calls[d]
               /\ calls'[c].at = "online" /\ calls'[c].op \in FoundOperation
    BY <1>1, <2>2 DEF StartCommunity, Goes, FoundOperation
  <2>3. ASSUME JoinCommunity(c)
        PROVE  /\ \A d \in Call \ {c} : calls'[d] = calls[d]
               /\ calls'[c].at = "online" /\ Exists(calls'[c].ns)
    BY <1>1, <2>3 DEF JoinCommunity, Goes, Invited, Exists
  <2>4. ASSUME NEW ns \in Community, founder[ns] # None, Recover(c, ns)
        PROVE  /\ \A d \in Call \ {c} : calls'[d] = calls[d]
               /\ calls'[c].at = "importing" /\ Exists(calls'[c].ns)
    BY <1>1, <2>4 DEF Recover, Goes, Exists
  <2>5. ASSUME Fails(c)
        PROVE  /\ \A d \in Call \ {c} : calls'[d] = calls[d]
               /\ calls'[c].at = "idle"
    BY <1>1, <2>5, IdleRecord DEF Fails, Ends
  <2> QED BY <2>1, <2>2, <2>3, <2>4, <2>5 DEF NodeStep
<1> QED BY <1>2, <1>3, <1>4, <1>5, WaitRooted

\* An operation that starts a node, or had no key to start one with.
LEMMA StartRooted ==
  ASSUME Inv, Rooted, ~ impatient, NEW c \in Call,
         NEW op \in StartOperation, NEW key, NEW ns \in Community,
         StartNode(c, op, key, ns),
         Exists(ns) \/ op \in FoundOperation,
         \A d \in Call \ {c} : calls[d] = Idle,
         calls[c].at \notin NodeStep,
         UNCHANGED <<founder, session, controller, pool, vault, desktop, cutOff>>,
         parent' # None => Exists(parent')
  PROVE  Rooted'
<1>1. CASE key # None
  BY <1>1, MadeRooted DEF StartNode
<1>2. CASE key = None
  <2>1. UNCHANGED nodes /\ Continues(c, op, controller)
    BY <1>2 DEF StartNode, NoKey
  <2>2. controller \in {n \in Node : nodes[n] # Unused} \cup {0}
    BY DEF Inv, Kinds, TypeOK
  <2>3. \A d \in Call : calls[d].at \notin NodeStep
    BY IdleRecord DEF NodeStep
  <2>4. /\ pool # None => Exists(pool)
        /\ controller # 0 => Exists(nodes[controller].ns)
    BY <2>3, StoreExists DEF Rooted
  <2>5. pool' # None => Exists(pool')
    BY <2>4
  <2>6. calls[c].at # "genesis"
    BY DEF NodeStep
  <2> QED BY <2>1, <2>2, <2>4, <2>5, <2>6, ContinuesRooted
<1> QED BY <1>1, <1>2

LEMMA UnlockedRooted ==
  ASSUME Inv, Rooted, ~ impatient, NEW c \in Call, Unlocked(c)
  PROVE  Rooted'
<1>1. calls[c] # Idle /\ calls[c].at = "deriving" /\ "unlock" \in StartOperation
      /\ calls \in [Call -> CallRecord] /\ calls[c].at \notin NodeStep
  BY IdleRecord DEF NodeStep, Unlocked, StartOperation, Inv, Kinds, TypeOK, CallRecord
<1>2. \A d \in Call \ {c} : calls[d] = Idle
  BY <1>1, OneCall
<1>3. UNCHANGED <<vault, parent, founder, session, controller, pool, desktop, cutOff>>
  BY DEF Unlocked, history
<1>4. Named
  BY DEF Rooted
<1>5. CASE session # None /\ StartNode(c, "unlock", calls[c].key, session.ns)
  <2>1. session.ns \in Community /\ Exists(session.ns)
    BY <1>4, <1>5 DEF Named, Inv, Kinds, TypeOK, Session
  <2>2. parent' # None => Exists(parent')
    BY <1>3, <1>4 DEF Named
  <2> QED BY <1>1, <1>2, <1>3, <1>5, <2>1, <2>2, StartRooted
<1>6. CASE Ends(c) /\ UNCHANGED <<nodes, savedSession>>
  <2>1. /\ calls'[c] = Idle
        /\ \A d \in Call \ {c} : calls'[d] = calls[d]
    BY <1>1, <1>6, EndsTo
  <2>2. calls'[c].at = "idle" /\ "idle" \notin NodeStep
    BY <2>1, IdleRecord DEF NodeStep
  <2>3. session' # None => Exists(session'.ns)
    BY <1>3, <1>4 DEF Named
  <2> QED BY <1>1, <1>3, <1>6, <2>1, <2>2, <2>3, WaitRooted
<1> QED BY <1>5, <1>6 DEF Unlocked

LEMMA OnlineRooted ==
  ASSUME Inv, Rooted, ~ impatient, NEW c \in Call, Online(c)
  PROVE  Rooted'
<1>1. /\ calls[c] # Idle /\ calls[c].at = "online" /\ calls[c].op \in StartOperation
      /\ calls[c].ns \in Community /\ calls[c].at \notin NodeStep
  BY IdleRecord DEF NodeStep, Online, Inv, Kinds, CallsInOrder, TypeOK
<1>2. \A d \in Call \ {c} : calls[d] = Idle
  BY <1>1, OneCall
<1>3. UNCHANGED <<vault, parent, founder, session, controller, pool, desktop, cutOff>>
      /\ StartNode(c, calls[c].op, keyPair, calls[c].ns)
  BY DEF Online, shown, history
<1>4. Exists(calls[c].ns) \/ calls[c].op \in FoundOperation
  BY <1>1 DEF Rooted, Aimed
<1>5. parent' # None => Exists(parent')
  BY <1>3 DEF Rooted, Named
<1> QED BY <1>1, <1>2, <1>3, <1>4, <1>5, StartRooted

LEMMA ChapterRooted ==
  ASSUME Inv, Rooted, ~ impatient, ~ impatient', NEW c \in Call,
         ReturnToParentChapter(c) \/ \E ns \in Fresh : SpawnSubCell(c, ns)
  PROVE  Rooted'
<1>1. \A d \in Call : calls[d] = Idle
  BY DEF ReturnToParentChapter, SpawnSubCell, Noticed, Pending
<1>2. UNCHANGED <<vault, founder, session, controller, pool, desktop, cutOff>> /\ pool # None
  BY DEF ReturnToParentChapter, SpawnSubCell, SubCellCapBanner, SubCellLinkageBanner,
     MainApp, shown
<1>3. Exists(pool)
  <2>1. \A d \in Call : calls[d].at \notin NodeStep
    BY <1>1, IdleRecord DEF NodeStep
  <2> QED BY <1>2, <2>1, StoreExists DEF Rooted
<1>4. calls[c].at \notin NodeStep
  BY <1>1, IdleRecord DEF NodeStep
<1>5. CASE ReturnToParentChapter(c)
  <2>1. /\ StartNode(c, "return", keyPair, parent) /\ parent' = parent
        /\ parent \in Community /\ Exists(parent)
    BY <1>5 DEF ReturnToParentChapter, SubCellLinkageBanner, Rooted, Named, Inv, Kinds,
       TypeOK
  <2>2. "return" \in StartOperation
    BY DEF StartOperation
  <2> QED BY <1>1, <1>2, <1>4, <2>1, <2>2, StartRooted
<1>6. ASSUME NEW ns \in Fresh, SpawnSubCell(c, ns) PROVE Rooted'
  <2>1. StartNode(c, "spawn", keyPair, ns) /\ parent' = pool /\ ns \in Community
    BY <1>6 DEF SpawnSubCell, Community
  <2>2. "spawn" \in StartOperation /\ "spawn" \in FoundOperation
    BY DEF StartOperation, FoundOperation
  <2> QED BY <1>1, <1>2, <1>3, <1>4, <2>1, <2>2, StartRooted
<1> QED BY <1>5, <1>6

LEMMA NodeStartedRooted ==
  ASSUME Inv, Rooted, ~ impatient, NEW c \in Call, NodeStarted(c)
  PROVE  Rooted'
<1>1. PICK n, op : n = calls[c].node /\ op = calls[c].op
  OBVIOUS
<1>2. /\ calls[c] # Idle /\ calls[c].at = "starting" /\ op \in StartOperation
      /\ n \in {m \in Node : nodes[m] # Unused} \cup {0} /\ n # 0
      /\ calls \in [Call -> CallRecord]
  BY <1>1, IdleRecord, NodeAssumption DEF NodeStarted, Inv, Kinds, CallsInOrder, TypeOK,
     CallRecord
<1>3. \A d \in Call \ {c} : calls[d] = Idle
  BY <1>2, OneCall
<1>4. /\ controller' = n /\ pool' \in {nodes[n].ns, None}
      /\ UNCHANGED <<nodes, vault, parent, founder, session, desktop, cutOff>>
      /\ \/ Continues(c, op, n)
         \/ /\ desktop /\ Goes(c, op, "sharing", None, None, n)
            /\ savedSession' = savedSession
  BY <1>1 DEF NodeStarted, history
<1>5. Exists(nodes[n].ns) \/ op \in FoundOperation
  BY <1>1, <1>2 DEF Rooted, Aimed
<1>6. parent' # None => Exists(parent')
  BY <1>4 DEF Rooted, Named
<1>7. CASE Continues(c, op, n)
  BY <1>2, <1>3, <1>4, <1>5, <1>6, <1>7, ContinuesRooted
<1>8. CASE desktop /\ Goes(c, op, "sharing", None, None, n) /\ savedSession' = savedSession
  <2>1. op \in Operation /\ "sharing" \in Step
    BY <1>2 DEF StartOperation, Operation, Step
  <2>2. /\ calls'[c] = [op |-> op, at |-> "sharing", key |-> None, ns |-> None, node |-> n]
        /\ \A d \in Call \ {c} : calls'[d] = Idle
    BY <1>2, <1>3, <1>8, <2>1, GoesTo
  <2>3. \A d \in Call : calls[d].at # "genesis"
    BY <1>2, <1>3, IdleRecord
  <2>4. Named'
    BY <1>4, <1>8, <2>3, SavedExists DEF Rooted, Named, Saved, Exists
  <2>5. op \in FoundOperation => Founding(nodes[n].ns)'
    BY <1>4, <2>2 DEF Founding, Founds, NodeStep
  <2>6. InStore'
    BY <1>4, <1>5, <2>5 DEF InStore, Exists
  <2>7. Aimed'
    BY <1>4, <1>8, <2>2, IdleRecord DEF Aimed
  <2> QED BY <2>4, <2>6, <2>7 DEF Rooted
<1> QED BY <1>4, <1>7, <1>8

\* On a desktop that hosts the session is saved before the genesis is stored.
LEMMA SharedRooted ==
  ASSUME Inv, Rooted, ~ impatient, NEW c \in Call, Shared(c)
  PROVE  Rooted'
<1>1. PICK op : op = calls[c].op
  OBVIOUS
<1>2. /\ calls[c] # Idle /\ calls[c].at = "sharing" /\ op \in StartOperation
      /\ controller \in Node \cup {0} /\ calls \in [Call -> CallRecord]
  BY <1>1, IdleRecord DEF Shared, Inv, Kinds, CallsInOrder, TypeOK, CallRecord
<1>3. \A d \in Call \ {c} : calls[d] = Idle
  BY <1>2, OneCall
<1>4. /\ UNCHANGED <<nodes, parent, founder, session, controller, pool, desktop, cutOff>>
      /\ savedSession' = Persisted(controller)
      /\ IF op \in FoundOperation /\ controller # 0
         THEN Goes(c, op, "genesis", None, None, controller) ELSE Ends(c)
  BY <1>1 DEF Shared, shown, history, FoundOperation
<1>5. /\ desktop
      /\ controller = calls[c].node \/ (controller = 0 /\ pool = None)
      /\ session # None => Exists(session.ns)
      /\ parent # None => Exists(parent)
  BY <1>2 DEF Rooted, Aimed, Named
<1>6. savedSession # None => Exists(savedSession.ns)
  <2>1. \A d \in Call : calls[d].at # "genesis"
    BY <1>2, <1>3, IdleRecord
  <2> QED BY <2>1, SavedExists DEF Rooted, Named
<1>7. savedSession' # None =>
        \/ savedSession' = savedSession
        \/ controller # 0 /\ savedSession'.ns = nodes[controller].ns
  BY <1>4 DEF Persisted
<1>8. \A ns : Founding(ns) => op \in FoundOperation /\ ns = nodes[calls[c].node].ns
  BY <1>1, <1>3, IdleRecord DEF Founding, Founds, NodeStep
<1>9. calls[c].node # 0
  BY <1>2, NodeAssumption DEF Inv, Kinds, CallsInOrder
<1>10. CASE op \in FoundOperation /\ controller # 0
  <2>1. op \in Operation /\ "genesis" \in Step
    BY <1>2 DEF StartOperation, Operation, Step
  <2>2. /\ calls'[c] = [op |-> op, at |-> "genesis", key |-> None, ns |-> None,
                        node |-> controller]
        /\ \A d \in Call \ {c} : calls'[d] = Idle
    BY <1>2, <1>3, <1>4, <1>10, <2>1, GoesTo
  <2>3. Founding(nodes[controller].ns)' /\ Unfounded(nodes[controller].ns)'
    BY <1>4, <1>10, <2>2 DEF Founding, Founds, Unfounded, NodeStep
  <2>4. Named'
    BY <1>4, <1>5, <1>6, <1>7, <2>3 DEF Named, Saved, Exists
  <2>5. InStore'
    BY <1>4, <1>5, <1>8, <1>10, <2>3 DEF Rooted, InStore, Exists
  <2>6. Aimed'
    BY <2>2, IdleRecord DEF Aimed
  <2> QED BY <2>4, <2>5, <2>6 DEF Rooted
<1>11. CASE op \notin FoundOperation \/ controller = 0
  <2>1. \A d \in Call : calls'[d] = Idle
    BY <1>2, <1>3, <1>4, <1>11, EndsTo
  <2>2. /\ pool # None => Exists(pool)
        /\ controller # 0 => Exists(nodes[controller].ns)
    <3>1. InStore
      BY DEF Rooted
    <3>2. CASE op \notin FoundOperation
      BY <1>8, <3>1, <3>2 DEF InStore
    <3>3. CASE op \in FoundOperation /\ controller = 0
      <4>1. pool = None
        BY <1>9, <1>5, <3>3
      <4> QED BY <3>3, <4>1
    <3> QED BY <1>11, <3>2, <3>3
  <2>3. Named'
    BY <1>4, <1>5, <1>6, <1>7, <2>2 DEF Named, Saved, Exists
  <2>4. InStore'
    BY <1>4, <2>2 DEF InStore, Exists
  <2>5. Aimed'
    BY <2>1, IdleRecord DEF Aimed
  <2> QED BY <2>3, <2>4, <2>5 DEF Rooted
<1> QED BY <1>10, <1>11

\* With its genesis in the log the community of every session exists.
LEMMA GenesisRooted ==
  ASSUME Inv, Rooted, ~ impatient, NEW c \in Call, GenesisStored(c)
  PROVE  Rooted'
<1>1. PICK n, home : n = calls[c].node /\ home = nodes[n].ns
  OBVIOUS
<1>2. /\ calls[c] # Idle /\ calls[c].at = "genesis" /\ calls \in [Call -> CallRecord]
      /\ n \in Node /\ home \in Community /\ nodes[n].key \in Key
  BY <1>1, IdleRecord DEF GenesisStored, Inv, Kinds, CallsInOrder, TypeOK, CallRecord
<1>3. \A d \in Call \ {c} : calls[d] = Idle
  BY <1>2, OneCall
<1>4. /\ founder' = [founder EXCEPT ![home] = IF @ = None THEN nodes[n].key ELSE @]
      /\ UNCHANGED <<nodes, vault, parent, session, myKey, controller, pool, desktop, cutOff>>
      /\ \/ savedSession' = Persisted(controller) /\ Ends(c)
         \/ savedSession' = savedSession /\ Goes(c, "found", "contribute", None, None, n)
  BY <1>1 DEF GenesisStored, identity, shown, history
<1>5. founder \in [Community -> Key \cup {None, Other}] /\ None \notin Key
  BY NoneAssumption DEF Inv, Kinds, TypeOK
<1>6. /\ founder'[home] # None
      /\ \A ns \in Community : founder[ns] # None => founder'[ns] # None
  BY <1>2, <1>4, <1>5
<1>7. /\ \A d \in Call \ {c} : calls'[d] = Idle
      /\ calls'[c].at \in {"idle", "contribute"}
  <2>1. CASE Ends(c)
    <3>1. /\ calls'[c] = Idle
          /\ \A d \in Call \ {c} : calls'[d] = calls[d]
      BY <1>2, <2>1, EndsTo
    <3> QED BY <1>3, <3>1, IdleRecord
  <2>2. CASE Goes(c, "found", "contribute", None, None, n)
    <3>1. "found" \in Operation /\ "contribute" \in Step
      BY DEF Operation, Step
    <3>2. /\ calls'[c] = [op |-> "found", at |-> "contribute", key |-> None,
                          ns |-> None, node |-> n]
          /\ \A d \in Call \ {c} : calls'[d] = calls[d]
      BY <1>2, <2>2, <3>1, GoesTo
    <3> QED BY <1>3, <3>2
  <2> QED BY <1>4, <2>1, <2>2
<1>8. Named /\ InStore
  BY DEF Rooted
<1>9. \A ns : Founding(ns) \/ Unfounded(ns) => ns = home
  BY <1>1, <1>3, IdleRecord DEF Founding, Founds, Unfounded, NodeStep
<1>10. /\ pool \in Community \cup {None} /\ parent \in Community \cup {None}
       /\ session # None => session.ns \in Community
       /\ savedSession # None => savedSession.ns \in Community
       /\ controller # 0 => nodes[controller].ns \in Community
  BY DEF Inv, Kinds, TypeOK, Session
<1> DEFINE Lasts(ns) == founder'[ns] # None \/ (desktop /\ ns \in cutOff)
<1>11. Lasts(home) /\ \A ns \in Community : Exists(ns) => Lasts(ns)
  BY <1>6 DEF Exists
<1>12. savedSession' # None =>
         \/ savedSession' = savedSession
         \/ controller # 0 /\ savedSession'.ns = nodes[controller].ns
  BY <1>4 DEF Persisted
<1> HIDE DEF Lasts
<1>13. /\ pool # None => Lasts(pool)
       /\ controller # 0 => Lasts(nodes[controller].ns)
       /\ savedSession # None => Lasts(savedSession.ns)
       /\ session # None => Lasts(session.ns)
       /\ parent # None => Lasts(parent)
  BY <1>8, <1>9, <1>10, <1>11 DEF InStore, Named, Saved
<1>14. Named'
  <2>1. savedSession' # None => Lasts(savedSession'.ns)
    BY <1>12, <1>13
  <2> QED BY <1>4, <1>13, <2>1 DEF Named, Saved, Exists, Lasts
<1>15. InStore'
  BY <1>4, <1>13 DEF InStore, Exists, Lasts
<1>16. Aimed'
  BY <1>7, IdleRecord DEF Aimed
<1> QED BY <1>14, <1>15, <1>16 DEF Rooted

LEMMA EndRooted ==
  ASSUME Inv, Rooted, ~ impatient, NEW c \in Call,
         Founded(c) \/ Recovered(c)
  PROVE  Rooted'
<1>1. /\ calls[c] # Idle /\ calls[c].at \in {"contribute", "importing"} /\ Ends(c)
      /\ calls \in [Call -> CallRecord]
      /\ UNCHANGED <<nodes, founder, parent, controller, pool, myKey, desktop, cutOff>>
      /\ calls[c].at \notin NodeStep
  BY IdleRecord DEF NodeStep, Founded, Recovered, identity, shown, history, Inv, Kinds, TypeOK, CallRecord
<1>2. /\ calls'[c] = Idle
      /\ \A d \in Call \ {c} : calls'[d] = calls[d] /\ calls[d] = Idle
  BY <1>1, EndsTo, OneCall
<1>3. /\ pool # None => Exists(pool)
      /\ controller # 0 => Exists(nodes[controller].ns)
  <2>1. \A d \in Call : calls[d].at \notin NodeStep
    BY <1>1, <1>2, IdleRecord DEF NodeStep
  <2> QED BY <2>1, StoreExists DEF Rooted
<1>4. savedSession' # None => Exists(savedSession'.ns)
  <2>1. CASE Founded(c)
    <3>1. savedSession # None => Exists(savedSession.ns)
      <4>1. \A d \in Call : calls[d].at # "genesis"
        BY <1>1, <1>2, IdleRecord DEF NodeStep
      <4> QED BY <4>1, SavedExists DEF Rooted, Named
    <3> QED BY <1>1, <1>3, <2>1, <3>1 DEF Founded, Persisted
  <2>2. CASE Recovered(c)
    BY <2>2 DEF Recovered, Rooted, Aimed
  <2> QED BY <2>1, <2>2
<1>5. session' # None => Exists(session'.ns)
  BY <1>4 DEF Founded, Recovered, Rooted, Named, identity
<1>6. calls'[c].at = "idle" /\ "idle" \notin NodeStep
  BY <1>2, IdleRecord DEF NodeStep
<1> QED BY <1>1, <1>2, <1>4, <1>5, <1>6, WaitRooted

LEMMA InvitedNext == ASSUME Inv, Invited, [Next]_vars PROVE Invited'
<1>1. invite' \in Joined \cup {None}
  <2>1. CASE Reload
    BY <2>1 DEF Reload, Invited
  <2>2. ASSUME NEW ns \in Joined \cup {None}, SetPendingInvite(ns) PROVE invite' \in Joined \cup {None}
    BY <2>2 DEF SetPendingInvite
  <2>3. CASE \/ Open \/ ConfirmBackup \/ Lock \/ Forget \/ EditRelays \/ ClearParentContext
             \/ (\E k \in Key : CreateIdentity(k) \/ RestoreIdentity(k) \/ ImportIdentity(k))
             \/ (\E n \in Node : Emit(n)) \/ UNCHANGED vars
    BY <2>3 DEF Open, ConfirmBackup, Lock, Forget, EditRelays, ClearParentContext, Emit,
       CreateIdentity, RestoreIdentity, ImportIdentity, identity, vars, Invited
  <2>4. ASSUME NEW c \in Call,
               \/ \E k \in Key : Unlock(c, k)
               \/ \E ns \in Fresh : StartCommunity(c, ns) \/ SpawnSubCell(c, ns)
               \/ \E ns \in Community : founder[ns] # None /\ Recover(c, ns)
               \/ JoinCommunity(c) \/ ReturnToParentChapter(c)
               \/ Unlocked(c) \/ Online(c) \/ NodeStarted(c) \/ Shared(c)
               \/ GenesisStored(c) \/ Founded(c) \/ Recovered(c) \/ Fails(c)
        PROVE  invite' \in Joined \cup {None}
    <3>1. invite' \in {invite, None}
      BY <2>4 DEF Unlock, StartCommunity, SpawnSubCell, Recover, JoinCommunity,
         ReturnToParentChapter, Unlocked, Online, NodeStarted, Shared, GenesisStored,
         Founded, Recovered, Fails, StartNode, NoKey, Made, Continues, identity
    <3> QED BY <3>1 DEF Invited
  <2> QED BY <2>1, <2>2, <2>3, <2>4 DEF Next
<1>2. \A ns \in Joined : founder'[ns] # None
  <2>1. founder' = founder \/ \E c \in Call : GenesisStored(c)
    BY DEF Next, vars, disk, Open, Reload, ConfirmBackup, Lock, Forget, EditRelays,
       ClearParentContext, Emit, CreateIdentity, RestoreIdentity, ImportIdentity,
       SetPendingInvite, Unlock, StartCommunity, SpawnSubCell, Recover, JoinCommunity,
       ReturnToParentChapter, Unlocked, Online, NodeStarted, Shared, Founded, Recovered,
       Fails
  <2>2. CASE founder' = founder
    BY <2>2 DEF Invited
  <2>3. ASSUME NEW c \in Call, GenesisStored(c) PROVE \A ns \in Joined : founder'[ns] # None
    <3>1. founder \in [Community -> Key \cup {None, Other}] /\ Joined \subseteq Community
      BY DEF Inv, Kinds, TypeOK, Community
    <3>2. \A ns \in Community : founder[ns] # None => founder'[ns] = founder[ns]
      BY <2>3, <3>1 DEF GenesisStored
    <3> QED BY <3>1, <3>2 DEF Invited
  <2> QED BY <2>1, <2>2, <2>3
<1> QED BY <1>1, <1>2 DEF Invited

LEMMA RootedNext == ASSUME Inv, Rooted, Invited, [Next]_vars PROVE Rooted'
<1>1. impatient => impatient'
  <2>1. CASE \/ Open \/ Reload \/ ConfirmBackup \/ Lock \/ Forget \/ EditRelays
             \/ ClearParentContext \/ UNCHANGED vars
    <3>1. CASE Forget \/ EditRelays
      BY <3>1 DEF Forget, EditRelays, Noticed
    <3>2. CASE Open \/ ConfirmBackup \/ Lock \/ ClearParentContext
      BY <3>2 DEF Open, ConfirmBackup, Lock, ClearParentContext, history
    <3>3. CASE Reload \/ UNCHANGED vars
      BY <3>3 DEF Reload, vars, history
    <3> QED BY <2>1, <3>1, <3>2, <3>3
  <2>2. CASE \/ \E k \in Key : CreateIdentity(k) \/ RestoreIdentity(k) \/ ImportIdentity(k)
             \/ \E ns \in Joined \cup {None} : SetPendingInvite(ns)
             \/ \E n \in Node : Emit(n)
    BY <2>2 DEF CreateIdentity, RestoreIdentity, ImportIdentity, SetPendingInvite, Emit,
       history
  <2>3. ASSUME NEW c \in Call,
               \/ \E k \in Key : Unlock(c, k)
               \/ \E ns \in Fresh : StartCommunity(c, ns) \/ SpawnSubCell(c, ns)
               \/ \E ns \in Community : founder[ns] # None /\ Recover(c, ns)
               \/ JoinCommunity(c) \/ ReturnToParentChapter(c)
        PROVE  impatient => impatient'
    BY <2>3 DEF Unlock, StartCommunity, SpawnSubCell, Recover, JoinCommunity,
       ReturnToParentChapter, Noticed
  <2>4. ASSUME NEW c \in Call,
               \/ Unlocked(c) \/ Online(c) \/ NodeStarted(c) \/ Shared(c)
               \/ GenesisStored(c) \/ Founded(c) \/ Recovered(c) \/ Fails(c)
        PROVE  impatient => impatient'
    BY <2>4 DEF Unlocked, Online, NodeStarted, Shared, GenesisStored, Founded, Recovered,
       Fails, history
  <2> QED BY <2>1, <2>2, <2>3, <2>4 DEF Next
<1>2. CASE impatient'
  BY <1>2 DEF Rooted
<1>3. CASE ~ impatient'
  <2>1. ~ impatient
    BY <1>1, <1>3
  <2>2. CASE UNCHANGED vars
    BY <2>2 DEF vars, disk, identity, shown, history, Rooted, Named, Saved, InStore,
       Aimed, Exists, Founding, Founds, Unfounded
  <2> QED BY <1>3, <2>1, <2>2, PageRooted, LockRooted, EmitRooted,
          EditRooted, ReloadRooted, BeginRooted, UnlockedRooted, OnlineRooted,
          ChapterRooted, NodeStartedRooted, SharedRooted, GenesisRooted, EndRooted DEF Next
<1> QED BY <1>2, <1>3

LEMMA RootedInit == Init => Rooted /\ Invited
<1> SUFFICES ASSUME Init PROVE Rooted /\ Invited
  OBVIOUS
<1>1. \A c \in Call : calls[c].at = "idle"
  BY IdleRecord DEF Init
<1>2. Rooted
  BY <1>1 DEF Init, Rooted, Named, Saved, InStore, Aimed
<1>3. Invited
  BY FreshAssumption DEF Init, Invited, Community
<1> QED BY <1>2, <1>3

\* Wherever founding, joining, spawning or returning is cut off, the session the
\* browser comes back to names a community that has its genesis, or on a desktop
\* that hosts the one being founded or cut off in its founding, as long as one
\* operation at a time is under way (startCommunity, spawnSubCell, persistSession).
THEOREM SessionLeadsSomewhere == Spec => []SavedCommunityExists
<1>1. Rooted => SavedCommunityExists
  BY DEF Rooted, Named, Saved, Exists, SavedCommunityExists
<1>2. Inv /\ Rooted /\ Invited /\ [Next]_vars => Rooted' /\ Invited'
  BY RootedNext, InvitedNext
<1> QED BY <1>1, <1>2, RootedInit, InvHolds, PTL DEF Spec
=============================================================================
