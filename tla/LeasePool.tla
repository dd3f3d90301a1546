----------------------------- MODULE LeasePool ------------------------------
(***************************************************************************)
(* What a pool of connections promises the transfers that use it (the      *)
(* comments of ConnectionPool in src/src/rdma/connection-pool.h): a        *)
(* connection is leased to one thread at a time; a lease ends with the     *)
(* connection returned or dropped for good; a closed pool leases nothing.  *)
(* How a thread waits, and what happens to a connection between two        *)
(* leases, is left open.                                                   *)
(***************************************************************************)
EXTENDS Naturals

CONSTANTS Threads, Slots

VARIABLES
  leases,   \* the pairs <<thread, slot>> of the leases held
  dropped,  \* the connections that are gone
  closed

leaseVars == <<leases, dropped, closed>>

Init == leases = {} /\ dropped = {} /\ closed = FALSE

Lease(t, i) ==
  /\ ~closed
  /\ i \notin dropped
  /\ \A u \in Threads : <<u, i>> \notin leases
  /\ leases' = leases \cup {<<t, i>>}
  /\ UNCHANGED <<dropped, closed>>

Return(t, i) ==
  /\ <<t, i>> \in leases
  /\ leases' = leases \ {<<t, i>>}
  /\ UNCHANGED <<dropped, closed>>

Drop(t, i) ==
  /\ <<t, i>> \in leases
  /\ leases' = leases \ {<<t, i>>}
  /\ dropped' = dropped \cup {i}
  /\ UNCHANGED closed

Close ==
  /\ closed' = TRUE
  /\ UNCHANGED <<leases, dropped>>

Next ==
  \/ \E t \in Threads, i \in Slots : Lease(t, i) \/ Return(t, i) \/ Drop(t, i)
  \/ Close

Spec == Init /\ [][Next]_leaseVars

=============================================================================
