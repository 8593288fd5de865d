------------------------------ MODULE MCHandler ------------------------------
(***************************************************************************)
(* Instances of Handler for TLC.                                           *)
(***************************************************************************)
EXTENDS Handler, TLC

Symmetry == Permutations(Client)

=============================================================================
