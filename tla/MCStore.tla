------------------------------ MODULE MCStore ------------------------------
(***************************************************************************)
(* An instance of Store for TLC.                                           *)
(***************************************************************************)
EXTENDS Store, TLC

Alike == Permutations(Call) \cup Permutations(Fresh) \cup Permutations(Key)
=============================================================================
