--------------------------- MODULE MCAccountDeletion ---------------------------
(* The deletion of an account on small instances, without symmetry: some of its *)
(* properties are temporal.                                                     *)
EXTENDS AccountDeletion, TLC
=============================================================================
