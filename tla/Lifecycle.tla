------------------------------ MODULE Lifecycle -----------------------------
(***************************************************************************)
(* The library's instance from hipObjInit() to its release (src/src/state.cpp, *)
(* and the calls of src/src/hipobj.cpp that find it): building one in steps    *)
(* that can each fail, publishing it, removing it, and destroying it, by       *)
(* whichever call lets it go last, possibly while the next one is built.       *)
(*                                                                         *)
(* A frame is one call on one thread: <<t, 1>> is thread t's outermost call,   *)
(* and <<t, d+1>> the call that the callback of the transfer <<t, d>> makes.   *)
(* A critical section of Current::mutex is one step. The pool's connections    *)
(* are ConnectionPool's matter: here one is free or leased.                    *)
(***************************************************************************)
EXTENDS Integers, FiniteSets, SequencesExt

CONSTANTS
  Threads,      \* the application's threads
  MaxDepth,     \* bound: how deep calls from callbacks nest
  Instances,    \* bound: the instances that exist at once
  NoInstance,   \* a null pointer
  MaxTransfers  \* maxTransfers: the connections the pool creates

ASSUME ThreadsAssumption == IsFiniteSet(Threads)
ASSUME MaxDepthAssumption == MaxDepth \in Nat \ {0}
ASSUME NoInstanceAssumption == NoInstance \notin Instances
ASSUME MaxTransfersAssumption == MaxTransfers \in Nat \ {0}

Frames == Threads \X (1..MaxDepth)
\* No frame: where Current::instance is, and what holds a mutex that's free
Global == <<"Current", 0>>

VARIABLES
  pc,        \* pc[f]: where the call of frame f is, "idle" when there's none
  inst,      \* inst[f]: the instance the call builds, uses, or destroys
  instance,  \* Current::instance
  initMutex, \* the frame that holds Current::initMutex
  platform,  \* what systemPlatform() caches
  owners,    \* owners[i]: the places that hold a shared_ptr to instance i
  parts,     \* parts[i]: what instance i is made of so far, in order
  closed_    \* closed_[i]: its pool is closed

frameVars == <<pc, inst>>
currentVars == <<instance, initMutex, platform>>
instVars == <<owners, parts, closed_>>
vars == <<frameVars, currentVars, instVars>>

\* The parts of an instance, in the order they're built
Part == {"context", "pd", "tokenConn", "conn"}
Plan == [n \in 1..(3 + MaxTransfers) |->
  CASE n = 1 -> "context" [] n = 2 -> "pd" [] n = 3 -> "tokenConn" [] n > 3 -> "conn"]
\* Where initWith() is while it builds one
Building == {"open_device", "alloc_pd", "query", "createToken", "connect", "publish"}
\* Where a call that holds an instance is
Using == {"use", "wait", "transfer", "refused", "stopped"}
PC == {"idle", "platform", "lockInit", "check", "lockShutdown", "moveOut", "close",
       "letGo", "destroy", "unlock"} \cup Building \cup Using

Init ==
  /\ pc = [f \in Frames |-> "idle"]
  /\ inst = [f \in Frames |-> NoInstance]
  /\ instance = NoInstance /\ initMutex = Global /\ platform = "unbuilt"
  /\ owners = [i \in Instances |-> {}]
  /\ parts = [i \in Instances |-> <<>>]
  /\ closed_ = [i \in Instances |-> FALSE]

Inner(f) == <<f[1], f[2] + 1>>
Outer(f) == <<f[1], f[2] - 1>>
\* The call of frame f runs: it isn't in a callback that has made another
Runs(f, label) == pc[f] = label /\ (f[2] < MaxDepth => pc[Inner(f)] = "idle")
\* A thread calls the library from outside it, or from a transfer's callback
CanCall(f) == pc[f] = "idle" /\ (f[2] > 1 => Runs(Outer(f), "transfer"))

Goto(f, label) == pc' = [pc EXCEPT ![f] = label]

-----------------------------------------------------------------------------
(* hipObjInit() and initWith() *)

\* hipObjInit() found no instance: it read Current::instance, which may change
\* before it locks initMutex. One that finds an instance returns.
hipObjInit(f) ==
  /\ CanCall(f)
  /\ instance = NoInstance
  /\ Goto(f, "platform")
  /\ UNCHANGED <<inst, currentVars, instVars>>

\* Loads libibverbs on the first call; whether that worked is kept for good. If
\* it throws, the next call tries again.
systemPlatform(f) ==
  /\ Runs(f, "platform")
  /\ \/ /\ platform' \in IF platform = "unbuilt" THEN {"loaded", "null"} ELSE {platform}
        /\ Goto(f, IF platform' = "loaded" THEN "lockInit" ELSE "idle")
     \/ platform = "unbuilt" /\ Goto(f, "idle") /\ UNCHANGED platform
  /\ UNCHANGED <<inst, instance, initMutex, instVars>>

Lock(f, at, next) ==
  /\ Runs(f, at)
  /\ initMutex = Global
  /\ initMutex' = f
  /\ Goto(f, next)
  /\ UNCHANGED <<inst, instance, platform, instVars>>

LockInit(f) == Lock(f, "lockInit", "check")

\* initWith() looks again, and then chooses a GPU and a NIC, or fails to
CheckAgain(f) ==
  /\ Runs(f, "check")
  /\ \/ instance = NoInstance /\ Goto(f, "open_device")
     \/ Goto(f, "unlock")
  /\ UNCHANGED <<inst, currentVars, instVars>>

\* Memory for a new instance can be where a destroyed one was
Unused(i) == parts[i] = <<>> /\ owners[i] = {} /\ \A f \in Frames : inst[f] # i

\* Opening the device is the first thing that's released on a failure
open_device(f) ==
  /\ Runs(f, "open_device")
  /\ \/ \E i \in Instances :
          /\ Unused(i)
          /\ inst' = [inst EXCEPT ![f] = i]
          /\ parts' = [parts EXCEPT ![i] = <<"context">>]
          /\ closed_' = [closed_ EXCEPT ![i] = FALSE]
          /\ Goto(f, "alloc_pd")
     \/ Goto(f, "unlock") /\ UNCHANGED <<inst, parts, closed_>>
  /\ UNCHANGED <<currentVars, owners>>

\* The next part is built, or isn't, and what there is so far is released
Build(f, at, part, next) ==
  /\ Runs(f, at)
  /\ \/ parts' = [parts EXCEPT ![inst[f]] = Append(@, part)] /\ Goto(f, next)
     \/ Goto(f, "destroy") /\ UNCHANGED parts
  /\ UNCHANGED <<inst, currentVars, owners, closed_>>

alloc_pd(f) == Build(f, "alloc_pd", "pd", "query")

\* The port, the GID and the vendor are read
QueryDevice(f) ==
  /\ Runs(f, "query")
  /\ Goto(f, "createToken") \/ Goto(f, "destroy")
  /\ UNCHANGED <<inst, currentVars, instVars>>

createToken(f) == Build(f, "createToken", "tokenConn", "connect")

\* make_shared<Instance>(), whose pool creates its connections until one can't
\* be created. A pool that's too small, or an exception, releases the rest.
createPool(f) ==
  /\ Runs(f, "connect")
  /\ \/ /\ Len(parts[inst[f]]) < Len(Plan)
        /\ parts' = [parts EXCEPT ![inst[f]] = Append(@, "conn")]
        /\ UNCHANGED <<pc, owners>>
     \/ /\ Len(parts[inst[f]]) < Len(Plan)
        /\ Goto(f, "destroy")
        /\ UNCHANGED <<parts, owners>>
     \/ /\ Len(parts[inst[f]]) = Len(Plan)
        /\ owners' = [owners EXCEPT ![inst[f]] = {f}]
        /\ Goto(f, "publish")
        /\ UNCHANGED parts
  /\ UNCHANGED <<inst, currentVars, closed_>>

\* The instance moves into Current::instance. If taking the lock throws, the
\* instance is let go.
publish(f) ==
  /\ Runs(f, "publish")
  /\ \/ /\ instance' = inst[f]
        /\ owners' = [owners EXCEPT ![inst[f]] = (@ \ {f}) \cup {Global}]
        /\ inst' = [inst EXCEPT ![f] = NoInstance]
        /\ Goto(f, "unlock")
     \/ Goto(f, "letGo") /\ UNCHANGED <<instance, owners, inst>>
  /\ UNCHANGED <<initMutex, platform, parts, closed_>>

-----------------------------------------------------------------------------
(* hipObjShutdown() and shutdownInstance() *)

hipObjShutdown(f) ==
  /\ CanCall(f)
  /\ Goto(f, "lockShutdown")
  /\ UNCHANGED <<inst, currentVars, instVars>>

LockShutdown(f) == Lock(f, "lockShutdown", "moveOut")

moveOut(f) ==
  /\ Runs(f, "moveOut")
  /\ inst' = [inst EXCEPT ![f] = instance]
  /\ instance' = NoInstance
  /\ IF instance = NoInstance
     THEN Goto(f, "unlock") /\ UNCHANGED owners
     ELSE /\ Goto(f, "close")
          /\ owners' = [owners EXCEPT ![instance] = (@ \ {Global}) \cup {f}]
  /\ UNCHANGED <<initMutex, platform, parts, closed_>>

\* Mutant of close: the pool isn't closed
closeNothing(f) ==
  /\ Runs(f, "close")
  /\ Goto(f, "letGo")
  /\ UNCHANGED <<inst, currentVars, instVars>>

close(f) ==
  /\ Runs(f, "close")
  /\ closed_' = [closed_ EXCEPT ![inst[f]] = TRUE]
  /\ Goto(f, "letGo")
  /\ UNCHANGED <<inst, currentVars, owners, parts>>

unlock(f) ==
  /\ Runs(f, "unlock")
  /\ initMutex' = Global
  /\ Goto(f, "idle")
  /\ UNCHANGED <<inst, instance, platform, instVars>>

-----------------------------------------------------------------------------
(* The other calls, each of which holds the instance that it finds *)

\* Mutant of currentInstance: the pointer is read and not shared
currentInstanceUnshared(f) ==
  /\ CanCall(f)
  /\ instance # NoInstance
  /\ inst' = [inst EXCEPT ![f] = instance]
  /\ Goto(f, "use")
  /\ UNCHANGED <<currentVars, instVars>>

\* A call that finds no instance returns hipObjNotInitialized
currentInstance(f) ==
  /\ CanCall(f)
  /\ instance # NoInstance
  /\ inst' = [inst EXCEPT ![f] = instance]
  /\ owners' = [owners EXCEPT ![instance] = @ \cup {f}]
  /\ Goto(f, "use")
  /\ UNCHANGED <<currentVars, parts, closed_>>

LeasesOf(i) == {f \in Frames : pc[f] = "transfer" /\ inst[f] = i}
HoldsLease(t) == \E d \in 1..MaxDepth : pc[<<t, d>>] = "transfer"
AllLeased(i) == Cardinality(LeasesOf(i)) >= MaxTransfers

\* What acquire() decides: it refuses once the pool is closed, and waits for a
\* connection only on a thread that leases none
acquire(f, at, refusal) ==
  /\ Runs(f, at)
  /\ \/ closed_[inst[f]] /\ Goto(f, refusal)
     \/ /\ ~closed_[inst[f]]
        /\ IF AllLeased(inst[f])
           THEN Goto(f, IF HoldsLease(f[1]) THEN "letGo" ELSE "wait") ELSE Goto(f, "transfer")
  /\ UNCHANGED <<inst, currentVars, instVars>>

StartTransfer(f) == acquire(f, "use", "refused")

\* WaitersAreAnswered of ConnectionPool: a free connection or close() ends a wait
StopWaiting(f) ==
  /\ Runs(f, "wait")
  /\ closed_[inst[f]] \/ ~AllLeased(inst[f])
  /\ acquire(f, "wait", "stopped")

\* The call is over: it needs no connection, or returns hipObjNotInitialized
EndCall(f) ==
  /\ \E label \in {"use", "refused", "stopped"} : Runs(f, label)
  /\ Goto(f, "letGo")
  /\ UNCHANGED <<inst, currentVars, instVars>>

\* The callbacks have returned, and the connection has been given back
EndTransfer(f) ==
  /\ Runs(f, "transfer")
  /\ Goto(f, "letGo")
  /\ UNCHANGED <<inst, currentVars, instVars>>

-----------------------------------------------------------------------------
(* Letting an instance go *)

\* The frame's pointer is gone: initWith() and shutdownInstance() still unlock
\* initMutex, and any other call returns
Done(f) ==
  /\ Goto(f, IF initMutex = f THEN "unlock" ELSE "idle")
  /\ inst' = [inst EXCEPT ![f] = NoInstance]

\* Mutant of letGo: hipObjShutdown() destroys the instance, whoever uses it
letGoEagerly(f) ==
  /\ Runs(f, "letGo")
  /\ owners' = [owners EXCEPT ![inst[f]] = @ \ {f}]
  /\ IF initMutex = f THEN Goto(f, "destroy") /\ UNCHANGED inst ELSE Done(f)
  /\ UNCHANGED <<currentVars, parts, closed_>>

\* Mutant of letGo: only hipObjShutdown() destroys
letGoUnowned(f) ==
  /\ Runs(f, "letGo")
  /\ owners' = [owners EXCEPT ![inst[f]] = @ \ {f}]
  /\ IF owners'[inst[f]] = {} /\ initMutex = f
     THEN Goto(f, "destroy") /\ UNCHANGED inst ELSE Done(f)
  /\ UNCHANGED <<currentVars, parts, closed_>>

\* The frame's shared_ptr is gone, and with the last one the instance
letGo(f) ==
  /\ Runs(f, "letGo")
  /\ owners' = [owners EXCEPT ![inst[f]] = @ \ {f}]
  /\ IF owners'[inst[f]] = {} THEN Goto(f, "destroy") /\ UNCHANGED inst ELSE Done(f)
  /\ UNCHANGED <<currentVars, parts, closed_>>

\* The members, or initWith()'s locals, are destroyed in reverse order
destroy(f) ==
  /\ Runs(f, "destroy")
  /\ parts' = [parts EXCEPT ![inst[f]] = Front(@)]
  /\ IF Len(parts[inst[f]]) = 1 THEN Done(f) ELSE UNCHANGED frameVars
  /\ UNCHANGED <<currentVars, owners, closed_>>

-----------------------------------------------------------------------------
\* What a call does by itself, with no callback of the application's
Step(f) ==
  \/ systemPlatform(f) \/ LockInit(f) \/ CheckAgain(f) \/ open_device(f) \/ alloc_pd(f)
  \/ QueryDevice(f) \/ createToken(f) \/ createPool(f) \/ publish(f)
  \/ LockShutdown(f) \/ moveOut(f) \/ close(f) \/ unlock(f)
  \/ StartTransfer(f) \/ StopWaiting(f) \/ EndCall(f) \/ letGo(f) \/ destroy(f)

Call(f) == hipObjInit(f) \/ hipObjShutdown(f) \/ currentInstance(f)

Next == \E f \in Frames : Call(f) \/ Step(f) \/ EndTransfer(f)

Spec == Init /\ [][Next]_vars

\* The scheduler runs every thread. Nothing is assumed of the callbacks.
RunningSpec == Spec /\ \A f \in Frames : WF_vars(Step(f))

-----------------------------------------------------------------------------
(* Properties *)

\* The types of the variables; and shutdownInstance(), a call that's in progress and
\* the code that releases an instance never use a null pointer.
TypeOK ==
  /\ pc \in [Frames -> PC]
  /\ inst \in [Frames -> Instances \cup {NoInstance}]
  /\ \A f \in Frames : pc[f] \in Using \cup {"close", "letGo", "destroy"} => inst[f] # NoInstance
  /\ instance \in Instances \cup {NoInstance}
  /\ initMutex \in Frames \cup {Global}
  /\ platform \in {"unbuilt", "loaded", "null"}
  /\ owners \in [Instances -> SUBSET (Frames \cup {Global})]
  /\ parts \in [Instances -> Seq(Part)]
  /\ closed_ \in [Instances -> BOOLEAN]

\* "of several calls at once, only one opens a device and succeeds" (state.h):
\* while an instance is published, or another is being built, no call builds one,
\* although hipObjInit() first looks without initMutex.
OneAtATime ==
  \A f \in Frames : pc[f] \in Building =>
    instance = NoInstance /\ \A g \in Frames \ {f} : pc[g] \notin Building

\* The published instance, and that of every call in progress, is whole: it isn't
\* being destroyed, whoever shuts the library down, and however often.
InUseIsWhole ==
  /\ instance # NoInstance => parts[instance] = Plan /\ ~closed_[instance]
  /\ \A f \in Frames : pc[f] \in Using => parts[inst[f]] = Plan

\* What exists is owned: an instance that's been built to any extent is published,
\* held by a call, or on its way to being built or destroyed by exactly one. A
\* failed hipObjInit() leaves nothing open.
NothingLeaks ==
  \A i \in Instances : parts[i] # <<>> =>
    \/ owners[i] # {}
    \/ \E f \in Frames : /\ inst[f] = i /\ pc[f] \in Building \cup {"destroy"}
                        /\ \A g \in Frames \ {f} : inst[g] # i

\* The order the verbs need, in building, in unwinding and in destruction: a
\* connection exists only with its PD, and a PD only with its context.
DependentsGoFirst ==
  \A i \in Instances :
    Len(parts[i]) <= Len(Plan) /\ \A n \in DOMAIN parts[i] : parts[i][n] = Plan[n]

\* An instance that hipObjShutdown() removed never starts another transfer once its
\* pool is closed, and is never published again.
RemovedForGood ==
  [][\A i \in Instances : closed_[i] /\ closed_'[i] =>
       instance' # i /\ LeasesOf(i)' \subseteq LeasesOf(i)]_vars

\* "A transfer that's waiting for a connection returns hipObjNotInitialized": it stops
\* waiting once its instance is removed, even when no callback ever returns and so
\* no connection is ever given back.
ShutdownEndsWaits ==
  \A f \in Frames : pc[f] = "wait" /\ instance # inst[f] ~> pc[f] # "wait"

\* Every callback returns, and a mutex isn't denied to one thread for good
CallbacksReturn ==
  \A f \in Frames : SF_vars(EndTransfer(f)) /\ SF_vars(LockInit(f) \/ LockShutdown(f))

\* "hipObject releases its RDMA resources ... when the last of them returns": when
\* callbacks return, what's been built is published or released in the end, and what
\* was published and then shut down is released.
ShutdownReleases ==
  CallbacksReturn =>
    \A i \in Instances : parts[i] # <<>> /\ instance # i ~> parts[i] = <<>> \/ instance = i

\* What InstanceLife sees: an instance is retired from when it's moved out until
\* its last part is gone, and its users are the calls that own it, other than the
\* hipObjInit() or hipObjShutdown() in progress.
life == [i \in Instances |->
  IF instance = i THEN "current"
  ELSE IF parts[i] # <<>> /\ (closed_[i] \/ \E f \in Frames : inst[f] = i /\ pc[f] = "close")
       THEN "retired" ELSE "absent"]
users == [i \in Instances |-> {f \in Frames : f \in owners[i] /\ initMutex # f}]

Promise == INSTANCE InstanceLife

\* The locks, the two checks and the shared pointers implement the promise of
\* InstanceLife: nothing is released while a call uses it, and there's never more
\* than one current instance.
InstanceLifeSpec == Promise!Spec

=============================================================================
