------------------------------ MODULE MCMirror ------------------------------
(***************************************************************************)
(* Instances of Mirror for TLC.                                            *)
(***************************************************************************)
EXTENDS Mirror

CONSTANTS a, a1, a2

\* Every controller runs on the one device.
OnOneDevice == [c \in Controller |-> a]
=============================================================================
