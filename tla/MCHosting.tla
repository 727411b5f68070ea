------------------------------ MODULE MCHosting ------------------------------
(***************************************************************************)
(* An instance of Hosting for TLC.                                         *)
(***************************************************************************)
EXTENDS Hosting, TLC

Alike == Permutations(Call)
=============================================================================
