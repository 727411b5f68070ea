---------------------------- MODULE MCController ----------------------------
(***************************************************************************)
(* An instance of Controller for TLC.                                      *)
(***************************************************************************)
EXTENDS Controller

\* Events 1, 2 and 3 with these parents and Lamport times.
Events(parents, times) ==
  {[id |-> i, prevHash |-> parents[i], lamport |-> times[i]] : i \in 1 .. 3}

\* Siblings of a root that arrive in any order; a chain against the order of the
\* hashes, whose clock runs behind its parent's; a parent nobody has; two events
\* that name each other.
MCHistories ==
  {Events(<<0, 1, 1>>, <<1, 2, 2>>),
   Events(<<3, 0, 2>>, <<1, 1, 2>>),
   Events(<<0, 4, 1>>, <<1, 1, 2>>),
   Events(<<0, 3, 2>>, <<1, 2, 2>>)}

\* Events 1 and 3 are of one author and contribute a mailbox each, the second in
\* place of the first, and event 2 revokes the first.  The reducer turns down 3
\* before its author joined by 1, and 2 unless the mailbox is there.
MCSigner(id) == 1
MCContributes(id) == CASE id = 1 -> "mailbox" [] id = 2 -> "no url" [] id = 3 -> "home"
MCRevokes(id) == IF id = 2 THEN "mailbox" ELSE "no url"
MCAccepts(s, id) ==
  CASE id = 1 -> TRUE
    [] id = 2 -> /\ \E i \in DOMAIN s : s[i] = 1
                 /\ \A i \in DOMAIN s : s[i] # 3
    [] id = 3 -> \E i \in DOMAIN s : s[i] = 1
=============================================================================
