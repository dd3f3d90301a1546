---------------------------- MODULE MCMinioBridge ----------------------------
(* MinioBridge for TLC: the calls are interchangeable *)
EXTENDS MinioBridge, TLC

Symmetry == Permutations(Calls)
=============================================================================
