--------------------------- MODULE ConnectionPool ---------------------------
(***************************************************************************)
(* The pool of RDMA connections that transfers lease one at a time each    *)
(* (src/src/rdma/connection-pool.cpp), with the state machine of the       *)
(* reliable-connected queue pair and completion queue each slot holds      *)
(* (src/src/rdma/transport.cpp).                                           *)
(*                                                                         *)
(* A step is what a thread does between two points where another thread    *)
(* can be seen: a critical section of mutex_ is one step, and everything   *)
(* release() does outside it (resetting the connection, notifying) is a    *)
(* step of its own.                                                        *)
(***************************************************************************)
EXTENDS Integers, FiniteSets, SequencesExt

CONSTANTS
  Threads,    \* the application's threads
  N,          \* maxTransfers: the number of connections the pool created
  MaxNest,    \* bound: the most leases one thread holds, through callbacks
  CqDepth     \* cqe: the number of completions a CQ holds

ASSUME ThreadsAssumption == IsFiniteSet(Threads)
ASSUME NAssumption == N \in Nat \ {0}
ASSUME MaxNestAssumption == MaxNest \in Nat \ {0}
ASSUME CqDepthAssumption == CqDepth \in Nat \ {0}

VARIABLES
  pc,           \* where each thread is
  held,         \* held[t]: the slots thread t leases here, innermost last
  t_leasesHeld, \* t_leasesHeld[t]: the leases t holds, from any pool
  connected_,   \* connected_[i]: the lease on slot i called connect()
  qp,           \* qp[i]: the state of slot i's QP, "none" in an empty slot
  cq,           \* cq[i]: the number of completions on slot i's CQ
  free_,        \* the slots that aren't leased, the next to be leased last
  live_,        \* the number of slots that haven't been dropped
  closed_,      \* close() was called
  closing       \* where the thread that calls close() is

poolVars == <<free_, live_, closed_, closing>>
connVars == <<connected_, qp, cq>>
vars == <<pc, held, t_leasesHeld, connVars, poolVars>>

Slots == 1..N

QpState == {"RESET", "INIT", "RTR", "RTS", "ERR"}

\* Where release() is between taking the connection and giving it back
Restoring == {"reset", "drain", "init", "replace", "create"}
\* Why acquire() returned no lease
AcquireError == {"Closed", "NoConnections", "Busy"}
PC == {"app", "waiting", "woken", "poll", "return", "drop", "notify_one", "notify_all"}
        \cup Restoring \cup AcquireError

\* The innermost lease of thread t
Leased(t) == Last(held[t])

TypeOK ==
  /\ pc \in [Threads -> PC]
  /\ held \in [Threads -> Seq(Slots)]
  /\ t_leasesHeld \in [Threads -> Nat]
  /\ connected_ \in [Slots -> BOOLEAN]
  /\ qp \in [Slots -> QpState \cup {"none"}]
  /\ cq \in [Slots -> 0..CqDepth]
  /\ free_ \in Seq(Slots)
  /\ live_ \in Nat
  /\ closed_ \in BOOLEAN
  /\ closing \in {"no", "notify", "done"}

-----------------------------------------------------------------------------
\* The constructor created every connection: initWith() publishes no instance
\* whose pool is smaller than maxTransfers.
Init ==
  /\ pc = [t \in Threads |-> "app"]
  /\ held = [t \in Threads |-> <<>>]
  /\ t_leasesHeld = [t \in Threads |-> 0]
  /\ connected_ = [i \in Slots |-> FALSE]
  /\ qp = [i \in Slots |-> "INIT"]
  /\ cq = [i \in Slots |-> 0]
  /\ free_ = [i \in Slots |-> i]
  /\ live_ = N
  /\ closed_ = FALSE
  /\ closing = "no"

Goto(t, label) == pc' = [pc EXCEPT ![t] = label]
Waiting == {t \in Threads : pc[t] = "waiting"}

-----------------------------------------------------------------------------
(* acquire(), with mutex_ held *)

\* Mutant of MustWait: a thread that holds a lease waits too
MustWaitHolding(t) == ~closed_ /\ free_ = <<>> /\ live_ # 0

\* The condition of acquire()'s wait loop, for a thread that may wait
MustWait(t) == t_leasesHeld[t] = 0 /\ ~closed_ /\ free_ = <<>> /\ live_ # 0

Wait(t) ==
  /\ MustWait(t)
  /\ Goto(t, "waiting")
  /\ UNCHANGED <<held, t_leasesHeld, connVars, poolVars>>

\* Mutant of Refuse: acquire() waits in an if, and not in a loop
RefuseAfterOneWait(t) ==
  /\ pc[t] = "woken" \/ ~MustWait(t)
  /\ closed_ \/ free_ = <<>>
  /\ Goto(t, IF closed_ THEN "Closed" ELSE IF live_ = 0 THEN "NoConnections" ELSE "Busy")
  /\ UNCHANGED <<held, t_leasesHeld, connVars, poolVars>>

Refuse(t) ==
  /\ ~MustWait(t)
  /\ closed_ \/ free_ = <<>>
  /\ Goto(t, IF closed_ THEN "Closed" ELSE IF live_ = 0 THEN "NoConnections" ELSE "Busy")
  /\ UNCHANGED <<held, t_leasesHeld, connVars, poolVars>>

\* Mutant of Grant: the slot is read with back() and not popped
GrantWithoutPop(t) ==
  /\ ~closed_
  /\ free_ # <<>>
  /\ held' = [held EXCEPT ![t] = Append(@, Last(free_))]
  /\ connected_' = [connected_ EXCEPT ![Last(free_)] = FALSE]
  /\ t_leasesHeld' = [t_leasesHeld EXCEPT ![t] = @ + 1]
  /\ Goto(t, "app")
  /\ UNCHANGED <<qp, cq, poolVars>>

Grant(t) ==
  /\ ~closed_
  /\ free_ # <<>>
  /\ held' = [held EXCEPT ![t] = Append(@, Last(free_))]
  /\ connected_' = [connected_ EXCEPT ![Last(free_)] = FALSE]
  /\ free_' = Front(free_)
  /\ t_leasesHeld' = [t_leasesHeld EXCEPT ![t] = @ + 1]
  /\ Goto(t, "app")
  /\ UNCHANGED <<qp, cq, live_, closed_, closing>>

acquire(t) == Wait(t) \/ Refuse(t) \/ Grant(t)

\* A transfer starts on a thread that's in none, or in the callback of one,
\* which runs before that transfer connects
StartTransfer(t) ==
  /\ pc[t] = "app"
  /\ t_leasesHeld[t] < MaxNest
  /\ held[t] # <<>> => ~connected_[Leased(t)]
  /\ acquire(t)

\* wait() returned, with mutex_ taken back
Recheck(t) == pc[t] = "woken" /\ acquire(t)

\* wait() can return without being notified
WakeSpuriously(t) ==
  /\ pc[t] = "waiting"
  /\ Goto(t, "woken")
  /\ UNCHANGED <<held, t_leasesHeld, connVars, poolVars>>

\* runRdmaTransfer() returns the error to the application
ReportError(t) ==
  /\ pc[t] \in AcquireError
  /\ Goto(t, "app")
  /\ UNCHANGED <<held, t_leasesHeld, connVars, poolVars>>

\* A transfer of another instance's pool starts or ends on this thread, around
\* the ones here: a callback may shut the library down and initialize it again
StartElsewhere(t) ==
  /\ pc[t] = "app" /\ t_leasesHeld[t] = 0
  /\ t_leasesHeld' = [t_leasesHeld EXCEPT ![t] = 1]
  /\ UNCHANGED <<pc, held, connVars, poolVars>>

EndElsewhere(t) ==
  /\ pc[t] = "app" /\ t_leasesHeld[t] = 1 /\ held[t] = <<>>
  /\ t_leasesHeld' = [t_leasesHeld EXCEPT ![t] = 0]
  /\ UNCHANGED <<pc, held, connVars, poolVars>>

-----------------------------------------------------------------------------
(* The transfer that holds the lease *)

\* Where ~Lease starts: only a connected connection is restored
ReleaseOf(wasConnected) == IF wasConnected THEN "reset" ELSE "return"

\* A callback failed, or its reply did
FailTransfer(t) ==
  /\ pc[t] = "app" /\ held[t] # <<>>
  /\ Goto(t, ReleaseOf(connected_[Leased(t)]))
  /\ UNCHANGED <<held, t_leasesHeld, connVars, poolVars>>

\* The reply named no peer, so the transfer polls without connecting
PollUnconnected(t) ==
  /\ pc[t] = "app" /\ held[t] # <<>>
  /\ Goto(t, "poll")
  /\ UNCHANGED <<held, t_leasesHeld, connVars, poolVars>>

\* Mutant of Connect: connected_ is set once connectRcPeer() has succeeded
ConnectMarkedLate(t) ==
  LET i == Leased(t) IN
  /\ pc[t] = "app" /\ held[t] # <<>>
  /\ \/ /\ qp' = [qp EXCEPT ![i] = "RTS"]
        /\ connected_' = [connected_ EXCEPT ![i] = TRUE]
        /\ Goto(t, "poll")
     \/ /\ \E s \in QpState : qp' = [qp EXCEPT ![i] = s]
        /\ UNCHANGED connected_
        /\ Goto(t, ReleaseOf(FALSE))
  /\ UNCHANGED <<held, t_leasesHeld, cq, poolVars>>

\* The reply named a peer: connect() sets connected_ and then moves the QP to
\* RTR and RTS. When a transition fails the QP can be in any state.
Connect(t) ==
  LET i == Leased(t) IN
  /\ pc[t] = "app" /\ held[t] # <<>>
  /\ connected_' = [connected_ EXCEPT ![i] = TRUE]
  /\ \/ /\ qp' = [qp EXCEPT ![i] = "RTS"]
        /\ Goto(t, "poll")
     \/ /\ \E s \in QpState : qp' = [qp EXCEPT ![i] = s]
        /\ Goto(t, ReleaseOf(TRUE))
  /\ UNCHANGED <<held, t_leasesHeld, cq, poolVars>>

\* The QP puts a completion on its CQ, which it does in no other state
Complete(i) ==
  /\ qp[i] \in {"RTR", "RTS", "ERR"}
  /\ cq[i] < CqDepth
  /\ cq' = [cq EXCEPT ![i] = @ + 1]
  /\ UNCHANGED <<pc, held, t_leasesHeld, connected_, qp, poolVars>>

\* pollCompletion() takes a completion, or times out or fails without one; the
\* transfer ends either way
Poll(t) ==
  LET i == Leased(t) IN
  /\ pc[t] = "poll"
  /\ \/ cq[i] > 0 /\ cq' = [cq EXCEPT ![i] = @ - 1]
     \/ UNCHANGED cq
  /\ Goto(t, ReleaseOf(connected_[i]))
  /\ UNCHANGED <<held, t_leasesHeld, connected_, qp, poolVars>>

-----------------------------------------------------------------------------
(* release(), and restore() within it, which hold no lock *)

\* A step of resetRcConnection(): if it fails, the connection is replaced
ResetQp(t) ==
  LET i == Leased(t) IN
  /\ pc[t] = "reset"
  /\ \/ qp' = [qp EXCEPT ![i] = "RESET"] /\ Goto(t, "drain")
     \/ (\E s \in QpState : qp' = [qp EXCEPT ![i] = s]) /\ Goto(t, "replace")
  /\ UNCHANGED <<held, t_leasesHeld, connected_, cq, poolVars>>

\* As many polls as the CQ has entries, or fewer, when it's empty sooner
drainCompletions(t) ==
  LET i == Leased(t) IN
  /\ pc[t] = "drain"
  /\ \/ /\ cq' = [cq EXCEPT ![i] = IF @ > CqDepth THEN @ - CqDepth ELSE 0]
        /\ Goto(t, "init")
     \/ /\ \E n \in 0..cq[i] : cq' = [cq EXCEPT ![i] = n]
        /\ Goto(t, "replace")
  /\ UNCHANGED <<held, t_leasesHeld, connected_, qp, poolVars>>

InitQp(t) ==
  LET i == Leased(t) IN
  /\ pc[t] = "init"
  /\ \/ qp' = [qp EXCEPT ![i] = "INIT"] /\ Goto(t, "return")
     \/ (\E s \in QpState : qp' = [qp EXCEPT ![i] = s]) /\ Goto(t, "replace")
  /\ UNCHANGED <<held, t_leasesHeld, connected_, cq, poolVars>>

\* The old QP and CQ are destroyed before the new ones are created
Replace(t) ==
  LET i == Leased(t) IN
  /\ pc[t] = "replace"
  /\ qp' = [qp EXCEPT ![i] = "none"]
  /\ cq' = [cq EXCEPT ![i] = 0]
  /\ Goto(t, "create")
  /\ UNCHANGED <<held, t_leasesHeld, connected_, poolVars>>

\* createRcConnection(): a new CQ, and a new QP that ends in INIT
Create(t) ==
  LET i == Leased(t) IN
  /\ pc[t] = "create"
  /\ \/ qp' = [qp EXCEPT ![i] = "INIT"] /\ Goto(t, "return")
     \/ UNCHANGED qp /\ Goto(t, "drop")
  /\ UNCHANGED <<held, t_leasesHeld, connected_, cq, poolVars>>

\* An exception in restore(): the slot is emptied
RestoreThrows(t) ==
  LET i == Leased(t) IN
  /\ pc[t] \in Restoring
  /\ qp' = [qp EXCEPT ![i] = "none"]
  /\ cq' = [cq EXCEPT ![i] = 0]
  /\ Goto(t, "drop")
  /\ UNCHANGED <<held, t_leasesHeld, connected_, poolVars>>

\* release()'s critical section, when the connection is usable
Return(t) ==
  /\ pc[t] = "return"
  /\ free_' = Append(free_, Leased(t))
  /\ held' = [held EXCEPT ![t] = Front(@)]
  /\ Goto(t, "notify_one")
  /\ UNCHANGED <<t_leasesHeld, connVars, live_, closed_, closing>>

\* ... and when it isn't. ~Lease uncounts the lease when release() returns.
Drop(t) ==
  /\ pc[t] = "drop"
  /\ live_' = live_ - 1
  /\ held' = [held EXCEPT ![t] = Front(@)]
  /\ IF live_' = 0
     THEN Goto(t, "notify_all") /\ UNCHANGED t_leasesHeld
     ELSE Goto(t, "app") /\ t_leasesHeld' = [t_leasesHeld EXCEPT ![t] = @ - 1]
  /\ UNCHANGED <<connVars, free_, closed_, closing>>

\* Mutant of NotifyOne: release() returns without notifying
NotifyNobody(t) ==
  /\ pc[t] = "notify_one"
  /\ Goto(t, "app")
  /\ t_leasesHeld' = [t_leasesHeld EXCEPT ![t] = @ - 1]
  /\ UNCHANGED <<held, connVars, poolVars>>

\* notify_one() wakes some waiter, if there is one
NotifyOne(t) ==
  /\ pc[t] = "notify_one"
  /\ \/ \E w \in Waiting : pc' = [pc EXCEPT ![w] = "woken", ![t] = "app"]
     \/ Waiting = {} /\ Goto(t, "app")
  /\ t_leasesHeld' = [t_leasesHeld EXCEPT ![t] = @ - 1]
  /\ UNCHANGED <<held, connVars, poolVars>>

\* Every waiter, woken
Awakened == [t \in Threads |-> IF pc[t] = "waiting" THEN "woken" ELSE pc[t]]

NotifyAll(t) ==
  /\ pc[t] = "notify_all"
  /\ pc' = [Awakened EXCEPT ![t] = "app"]
  /\ t_leasesHeld' = [t_leasesHeld EXCEPT ![t] = @ - 1]
  /\ UNCHANGED <<held, connVars, poolVars>>

release(t) ==
  \/ ResetQp(t) \/ drainCompletions(t) \/ InitQp(t) \/ Replace(t) \/ Create(t)
  \/ RestoreThrows(t) \/ Return(t) \/ Drop(t) \/ NotifyOne(t) \/ NotifyAll(t)

-----------------------------------------------------------------------------
(* close(), which shutdownInstance() calls once *)

Close ==
  /\ closing = "no"
  /\ closed_' = TRUE
  /\ closing' = "notify"
  /\ UNCHANGED <<pc, held, t_leasesHeld, connVars, free_, live_>>

\* Mutant of CloseNotify: close() notifies one waiter
CloseNotifyOne ==
  /\ closing = "notify"
  /\ \/ \E w \in Waiting : Goto(w, "woken")
     \/ Waiting = {} /\ UNCHANGED pc
  /\ closing' = "done"
  /\ UNCHANGED <<held, t_leasesHeld, connVars, free_, live_, closed_>>

CloseNotify ==
  /\ closing = "notify"
  /\ pc' = Awakened
  /\ closing' = "done"
  /\ UNCHANGED <<held, t_leasesHeld, connVars, free_, live_, closed_>>

-----------------------------------------------------------------------------
ThreadStep(t) ==
  \/ StartTransfer(t) \/ Recheck(t) \/ WakeSpuriously(t) \/ ReportError(t)
  \/ StartElsewhere(t) \/ EndElsewhere(t)
  \/ FailTransfer(t) \/ PollUnconnected(t) \/ Connect(t) \/ Poll(t) \/ release(t)

Next ==
  \/ \E t \in Threads : ThreadStep(t)
  \/ \E i \in Slots : Complete(i)
  \/ Close \/ CloseNotify

Spec == Init /\ [][Next]_vars

\* What the scheduler and the application owe: a thread that can take a step of
\* the library takes it, and a transfer ends, since its callbacks return and
\* pollCompletion() times out. Nothing is assumed of when threads start
\* transfers, of which waiter is woken, or of spurious wakeups.
EndTransfer(t) == FailTransfer(t) \/ PollUnconnected(t) \/ Connect(t)

Fairness ==
  /\ \A t \in Threads :
       /\ WF_vars(Recheck(t)) /\ WF_vars(ReportError(t))
       /\ WF_vars(EndTransfer(t)) /\ WF_vars(Poll(t)) /\ WF_vars(release(t))
  /\ WF_vars(CloseNotify)

FairSpec == Spec /\ Fairness

-----------------------------------------------------------------------------
(* Safety *)

LeasedBy(t) == ToSet(held[t])
AllLeased == UNION {LeasedBy(t) : t \in Threads}
\* The slots release() has given up on
Dropped == Slots \ (ToSet(free_) \cup AllLeased)
\* The slots some thread is restoring, which no transfer uses
BeingRestored == {Leased(t) : t \in {u \in Threads : pc[u] \in Restoring \cup {"drop"}}}

\* No connection is leased twice: over free_ and all the leases of all threads,
\* each slot occurs at most once. acquire() pops it and release() pushes it in
\* different critical sections, with the whole restore in between.
LeasesAreExclusive ==
  /\ IsInjective(free_)
  /\ \A t \in Threads :
       /\ IsInjective(held[t])
       /\ LeasedBy(t) \cap ToSet(free_) = {}
       /\ \A u \in Threads \ {t} : LeasedBy(t) \cap LeasedBy(u) = {}

\* live_, which decides between waiting, Busy and NoConnections, is the number
\* of connections that are free or leased, through every reset, replacement
\* and drop. size() reports it.
LiveCountsUsable == live_ = Cardinality(ToSet(free_) \cup AllLeased)

\* The connection a lease hands out exists, with its QP in INIT and no
\* completions of an earlier transfer on its CQ, until the lease connects: what
\* makes "a transfer only sees its own completions" true of a reused connection.
\* A connection a transfer is using is never an emptied slot.
LeasesAreClean ==
  \A i \in Slots \ Dropped :
    /\ i \notin BeingRestored => qp[i] # "none"
    /\ i \notin BeingRestored /\ (i \in ToSet(free_) \/ ~connected_[i])
         => qp[i] = "INIT" /\ cq[i] = 0

\* A thread that holds a lease, of this pool or another, never waits: it may
\* hold the very connection it would wait for.
HoldersNeverWait ==
  \A t \in Threads : pc[t] \in {"waiting", "woken"} => t_leasesHeld[t] = 0 /\ held[t] = <<>>

\* t_leasesHeld never loses a lease: a thread's count covers the leases it holds
\* here, and the one whose release() it hasn't returned from, so the assertion in
\* ~Lease holds, and a transfer that's being released still keeps its thread
\* from waiting.
LeasesAreCounted ==
  \A t \in Threads :
    /\ t_leasesHeld[t] >= Len(held[t])
    /\ pc[t] \in {"notify_one", "notify_all"} => t_leasesHeld[t] > Len(held[t])
    /\ pc[t] \in {"poll", "return", "drop"} \cup Restoring => held[t] # <<>>

\* acquire() refuses for the reason it gives. Busy is only for a thread that
\* holds a lease, however often the wait loop woke, and NoConnections is final.
RefusalsAreHonest ==
  \A t \in Threads :
    /\ pc[t] = "Busy" => t_leasesHeld[t] > 0
    /\ pc[t] = "NoConnections" => live_ = 0
    /\ pc[t] = "Closed" => closed_

\* No wakeup is lost, though release() and close() notify after they unlock:
\* while a thread waits, every free connection has a thread about to look for
\* it or to notify one that does, and a closed or empty pool has a notify_all
\* still to come.
NoLostWakeup ==
  Waiting # {} =>
    /\ ~closed_ =>
         Len(free_) <= Cardinality({t \in Threads : pc[t] \in {"woken", "notify_one"}})
    /\ closed_ => closing = "notify"
    /\ live_ = 0 => \E t \in Threads : pc[t] = "notify_all"

\* Once close() has set closed_, no thread gets a lease, including the ones that
\* were waiting or had been woken before it.
NoLeaseOnceClosed ==
  [][closed_ => \A t \in Threads : LeasedBy(t)' \subseteq LeasedBy(t)]_vars

\* The pool does what LeasePool promises of it.
LP == INSTANCE LeasePool WITH
        leases <- UNION {{t} \X LeasedBy(t) : t \in Threads},
        dropped <- Dropped,
        closed <- closed_
LeasePoolSpec == LP!Spec

-----------------------------------------------------------------------------
(* Liveness, under FairSpec *)

\* No thread waits forever in acquire() once the application stops starting
\* transfers: what is returned reaches every waiter in the end. (While other
\* threads keep starting transfers they may overtake a waiter for ever, since
\* the pool keeps no queue.)
WaitersAreAnswered ==
  <>[][\A t \in Threads : ~StartTransfer(t)]_vars
    => \A t \in Threads : pc[t] = "waiting" ~> pc[t] \notin {"waiting", "woken"}

\* close() stops every wait, for good, whatever the application does.
CloseEndsWaits ==
  closed_ ~> [](\A t \in Threads : pc[t] \notin {"waiting", "woken"})

=============================================================================
