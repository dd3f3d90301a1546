----------------------------- MODULE MCBufferMap ----------------------------
(* Instances of BufferMap for TLC *)
EXTENDS BufferMap, TLC

MapSymmetry == Permutations(Calls) \cup Permutations(Keys) \cup Permutations(Entries)

=============================================================================
