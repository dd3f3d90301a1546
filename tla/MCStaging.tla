------------------------------ MODULE MCStaging -----------------------------
(* Staging on small instances. *)
EXTENDS Staging, TLC

CallSymmetry == Permutations(Calls) \cup Permutations(Entries) \cup Permutations(Copies)

=============================================================================
