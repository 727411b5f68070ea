------------------------------ MODULE MCSync ------------------------------
(***************************************************************************)
(* Instances of Sync for TLC.                                              *)
(***************************************************************************)
EXTENDS Sync, TLC

CONSTANTS a, b, a1, b1, r1

OneEngineEach == (a1 :> a) @@ (b1 :> b)

-----------------------------------------------------------------------------
(* To start from: both engines run, none has reached the relay yet, and     *)
(* what they published meanwhile is queued.  Start, Publish and             *)
(* FinishPublish lead here.                                                 *)

Offline(byA, byB) ==
  LET queue == (a :> byA) @@ (b :> byB)
  IN
  /\ published = Range(byA) \cup Range(byB)
  /\ carried = {} /\ disturbances = 0
  /\ storage = [c \in Client |-> Range(queue[c])]
  /\ saved = queue
  /\ status = [e \in Engine |-> "started"]
  /\ local = [e \in Engine |-> Range(queue[OwnerOf[e]])]
  /\ outbox = [e \in Engine |-> queue[OwnerOf[e]]]
  /\ publishing = [e \in Engine |-> {}]
  /\ ingesting = [e \in Engine |-> {}]
  /\ listed = [k \in Conn |-> TRUE]
  /\ ws = [k \in Conn |-> "connecting"]
  /\ timer = [k \in Conn |-> FALSE]
  /\ up = [k \in Conn |-> <<>>]
  /\ down = [k \in Conn |-> <<>>]
  /\ buffer = [r \in Relay |-> <<>>]
  /\ clients = [r \in Relay |-> {}]
  /\ rate = [k \in Conn |-> 0]
  /\ cut = [k \in Conn |-> FALSE]

Alone(author) == [id |-> 1, prevHash |-> None, lamport |-> 1, author |-> author]
Apart(author) == [Alone(author) EXCEPT !.id = 2]
OnTop(author) == [Apart(author) EXCEPT !.prevHash = 1, !.lamport = 2]

OfflineSpec ==
  /\ Offline(<<Alone(a), OnTop(a)>>, <<>>) \/ Offline(<<Alone(a)>>, <<Apart(b)>>)
  /\ [][Next]_vars
  /\ Fairness
=============================================================================
