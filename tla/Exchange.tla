------------------------------ MODULE Exchange ------------------------------
(***************************************************************************)
(* What event exchange promises: everybody's log only grows, and with      *)
(* nothing but events their authors signed; an author signs on top of an   *)
(* event of its own log and keeps what it signed.  What a device knows of  *)
(* the others' events, and when, is left open.                             *)
(***************************************************************************)
EXTENDS Dag

CONSTANTS
  Client,   \* devices, each with one key and one durable log
  Id        \* event hashes

Event == [id : Id, prevHash : Id \cup {None}, lamport : Nat, author : Client]

VARIABLES
  published,   \* every event ever signed
  log          \* what each device has on disk

vars == <<published, log>>

TypeOK ==
  /\ published \subseteq Event
  /\ log \in [Client -> SUBSET Event]

Init ==
  /\ published = {}
  /\ log = [c \in Client |-> {}]

\* What an author may sign: a root, or an event one step above an event of
\* its own log.
Grafts(id, c, known) ==
  {[id |-> id, prevHash |-> None, lamport |-> 1, author |-> c]} \cup
  {[id |-> id, prevHash |-> p.id, lamport |-> p.lamport + 1, author |-> c] :
     p \in known}

Publish(c) ==
  \E id \in Id : \E e \in Grafts(id, c, log[c]) :
    /\ id \notin Ids(published)
    /\ published' = published \cup {e}
    /\ log' = [log EXCEPT ![c] = @ \cup {e}]

Learn(c) ==
  \E S \in SUBSET published :
    /\ log' = [log EXCEPT ![c] = @ \cup S]
    /\ UNCHANGED published

Next == \E c \in Client : Publish(c) \/ Learn(c)

Spec == Init /\ [][Next]_vars

-----------------------------------------------------------------------------
\* Ids name one event, authors keep what they signed, and the published
\* events form trees whose Lamport times count the depth.
Sound ==
  /\ \A c \in Client : log[c] \subseteq published
  /\ \A e, f \in published : e.id = f.id => e = f
  /\ \A e \in published :
       /\ e \in log[e.author]
       /\ e \in Grafts(e.id, e.author, log[e.author])
=============================================================================
