-------------------------- MODULE MCConnectionPool --------------------------
(* Instances of ConnectionPool for TLC *)
EXTENDS ConnectionPool, TLC

\* The specification tells threads apart by nothing but their state
ThreadSymmetry == Permutations(Threads)

=============================================================================
