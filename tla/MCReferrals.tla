------------------------------ MODULE MCReferrals ------------------------------
(* An instance of Referrals for TLC. *)
EXTENDS Referrals, TLC

Symmetry == Permutations(Recorders) \cup Permutations(Reversers) \cup Permutations(Runners)
=============================================================================
