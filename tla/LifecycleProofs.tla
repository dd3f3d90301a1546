--------------------------- MODULE LifecycleProofs --------------------------
(***************************************************************************)
(* What holds of the library's instance for any number of threads, any     *)
(* depth of nested calls and any number of connections.                    *)
(***************************************************************************)
EXTENDS Lifecycle, SequenceTheorems, TLAPS

\* Where a call holds a shared_ptr to its instance, where it has the instance to
\* itself with none, and where it holds initMutex
Holding == Using \cup {"publish", "close", "letGo"}
Alone == {"alloc_pd", "query", "createToken", "connect", "destroy"}
Locked == Building \cup {"check", "moveOut", "close", "unlock"}

Prefix(s) == s \in Seq(Part) /\ Len(s) <= Len(Plan) /\ \A n \in 1..Len(s) : s[n] = Plan[n]

\* How much of the instance there is where a call has it to itself
BuiltAt(label, n) ==
  /\ label = "alloc_pd" => n = 1
  /\ label \in {"query", "createToken"} => n = 2
  /\ label = "connect" => n >= 3
  /\ label = "destroy" => n >= 1

FrameOK(f) ==
  /\ pc[f] \in Holding \cup Alone <=> inst[f] # NoInstance
  /\ pc[f] \in Locked => initMutex = f
  /\ pc[f] \in Building \cup {"close"} => instance = NoInstance
  /\ pc[f] \in Building /\ inst[f] # NoInstance => ~closed_[inst[f]]
  /\ pc[f] \in Alone => BuiltAt(pc[f], Len(parts[inst[f]]))

FrameInv == \A f \in Frames : FrameOK(f)

AloneOK(f) ==
  pc[f] \in Alone => owners[inst[f]] = {} /\ \A g \in Frames \ {f} : inst[g] # inst[f]

AloneInv == \A f \in Frames : AloneOK(f)

OwnersInv ==
  \A i \in Instances :
    /\ Global \in owners[i] <=> instance = i
    /\ \A f \in Frames : f \in owners[i] <=> inst[f] = i /\ pc[f] \in Holding

PartsInv ==
  /\ \A i \in Instances : Prefix(parts[i]) /\ (owners[i] # {} => parts[i] = Plan)
  /\ instance # NoInstance => ~closed_[instance]

LeakInv ==
  \A i \in Instances : parts[i] # <<>> =>
    owners[i] # {} \/ \E f \in Frames : inst[f] = i /\ pc[f] \in Alone

IInv == TypeOK /\ FrameInv /\ AloneInv /\ OwnersInv /\ PartsInv /\ LeakInv

-----------------------------------------------------------------------------
(* Lemmas about the parts *)

\* Current::instance is no frame.
LEMMA GlobalIsNoFrame == Global \notin Frames
  BY MaxDepthAssumption DEF Global, Frames

\* The parts of an instance (state.h's Instance).
LEMMA PlanFacts ==
    /\ Plan \in Seq(Part) /\ Len(Plan) = 3 + MaxTransfers /\ Len(Plan) \in Nat /\ Len(Plan) > 3
    /\ Plan[1] = "context" /\ Plan[2] = "pd" /\ Plan[3] = "tokenConn"
    /\ \A n \in 4..Len(Plan) : Plan[n] = "conn"
  <1> DEFINE N == 3 + MaxTransfers
             P(n) == CASE n = 1 -> "context" [] n = 2 -> "pd" [] n = 3 -> "tokenConn" [] n > 3 -> "conn"
  <1>1. N \in Nat /\ N > 3
    BY MaxTransfersAssumption
  <1>2. \A n \in 1..N : P(n) \in Part
    BY <1>1 DEF Part
  <1>3. Plan = [n \in 1..N |-> P(n)]
    BY DEF Plan
  <1>4. P(1) = "context" /\ P(2) = "pd" /\ P(3) = "tokenConn" /\ \A n \in 4..N : P(n) = "conn"
    BY <1>1
  <1> HIDE DEF P, N
  <1>5. Plan \in Seq(Part) /\ Len(Plan) = N
    BY <1>1, <1>2, <1>3
  <1>6. 1 \in 1..N /\ 2 \in 1..N /\ 3 \in 1..N /\ \A n \in 4..N : n \in 1..N
    BY <1>1
  <1>7. /\ Plan[1] = "context" /\ Plan[2] = "pd" /\ Plan[3] = "tokenConn"
        /\ \A n \in 4..N : Plan[n] = "conn"
    BY <1>3, <1>4, <1>6
  <1> QED
    BY <1>1, <1>5, <1>7 DEF N

\* One part more, in the order of building.
LEMMA AppendPrefix ==
    ASSUME NEW s, Prefix(s), Len(s) < Len(Plan), NEW part \in Part, part = Plan[Len(s) + 1]
    PROVE  /\ Prefix(Append(s, part)) /\ Len(Append(s, part)) = Len(s) + 1
           /\ Append(s, part) # <<>>
  <1> DEFINE t == Append(s, part)
  <1>1. s \in Seq(Part) /\ Len(s) \in Nat /\ \A n \in 1..Len(s) : s[n] = Plan[n]
    BY DEF Prefix
  <1>2. /\ t \in Seq(Part) /\ Len(t) = Len(s) + 1 /\ t[Len(s) + 1] = part
        /\ \A n \in 1..Len(s) : t[n] = s[n]
    BY <1>1
  <1> HIDE DEF t
  <1>3. ASSUME NEW n \in 1..Len(t) PROVE t[n] = Plan[n]
    <2>1. n \in 1..Len(s) \/ n = Len(s) + 1
      BY <1>1, <1>2
    <2>2. CASE n \in 1..Len(s)
      BY <1>1, <1>2, <2>2
    <2>3. CASE n = Len(s) + 1
      BY <1>2, <2>3
    <2> QED
      BY <2>1, <2>2, <2>3
  <1>4. Len(t) <= Len(Plan) /\ t # <<>>
    BY <1>1, <1>2, PlanFacts
  <1> QED
    BY <1>2, <1>3, <1>4 DEF Prefix, t

\* One part less, in the reverse order.
LEMMA FrontPrefix ==
    ASSUME NEW s, Prefix(s), Len(s) >= 1
    PROVE  /\ Prefix(Front(s)) /\ Len(Front(s)) = Len(s) - 1
           /\ Len(s) = 1 <=> Front(s) = <<>>
  <1>1. s \in Seq(Part) /\ Len(s) \in Nat
    BY DEF Prefix
  <1>2. Front(s) \in Seq(Part) /\ Len(Front(s)) = Len(s) - 1 /\ \A n \in 1..(Len(s) - 1) : Front(s)[n] = s[n]
    <2>1. \A n \in 1..(Len(s) - 1) : s[n] \in Part
      BY <1>1
    <2>2. Len(s) - 1 \in Int /\ Len(s) - 1 >= 0
      BY <1>1
    <2> QED
      <3>1. /\ SubSeq(s, 1, Len(s) - 1) \in Seq(Part)
            /\ Len(SubSeq(s, 1, Len(s) - 1)) = IF 1 <= Len(s) - 1 THEN (Len(s) - 1) - 1 + 1 ELSE 0
            /\ \A n \in 1..((Len(s) - 1) - 1 + 1) : SubSeq(s, 1, Len(s) - 1)[n] = s[1 + n - 1]
        BY <2>1, <2>2, SubSeqProperties
      <3>2. (Len(s) - 1) - 1 + 1 = Len(s) - 1 /\ \A n \in 1..(Len(s) - 1) : 1 + n - 1 = n
        BY <2>2
      <3>3. /\ Len(SubSeq(s, 1, Len(s) - 1)) = Len(s) - 1
            /\ \A n \in 1..(Len(s) - 1) : SubSeq(s, 1, Len(s) - 1)[n] = s[n]
        BY <2>2, <3>1, <3>2
      <3> QED
        BY <3>1, <3>3 DEF Front
  <1> QED
    BY <1>1, <1>2, PlanFacts DEF Prefix

\* An instance with all its parts.
LEMMA WholePrefix ==
    ASSUME NEW s, Prefix(s), Len(s) = Len(Plan)
    PROVE  s = Plan
  BY PlanFacts DEF Prefix

\* initWith() starts with nothing and then the device.
LEMMA FirstPrefix == Prefix(<<>>) /\ Prefix(<<"context">>)
  BY PlanFacts DEF Prefix, Part
-----------------------------------------------------------------------------
(* The inductive invariant *)

\* Before the first hipObjInit().
THEOREM InitIInv == Init => IInv
  BY GlobalIsNoFrame, FirstPrefix, NoInstanceAssumption
  DEF Init, IInv, TypeOK, FrameInv, FrameOK, AloneInv, AloneOK, OwnersInv, PartsInv, LeakInv, Holding, Alone, Locked,
      Using, Building, PC

\* A step of a call that changes neither an instance nor who holds it, as most
\* of hipobj.cpp's and state.cpp's steps do, keeps the invariant if the call ends
\* up where its mutex and its instance allow.
LEMMA StepsAlong ==
    ASSUME IInv, NEW f \in Frames, NEW label \in PC, pc' = [pc EXCEPT ![f] = label],
           UNCHANGED <<inst, instance, instVars>>,
           initMutex' \in Frames \cup {Global}, platform' \in {"unbuilt", "loaded", "null"},
           label \in Holding <=> pc[f] \in Holding,
           label \in Alone <=> pc[f] \in Alone,
           label \in Locked => initMutex' = f,
           initMutex' # initMutex => initMutex \in {Global, f},
           label \in Building \cup {"close"} => instance = NoInstance,
           label \in Building /\ inst[f] # NoInstance => ~closed_[inst[f]],
           label \in Alone => BuiltAt(label, Len(parts[inst[f]]))
    PROVE  IInv'
  <1> USE DEF IInv, instVars
  <1>1. pc' \in [Frames -> PC] /\ pc'[f] = label /\ \A g \in Frames \ {f} : pc'[g] = pc[g]
    BY DEF TypeOK
  <1>2. FrameInv'
    <2>1. \A g \in Frames \ {f} : pc[g] \in Locked => initMutex' = g
      BY GlobalIsNoFrame DEF FrameInv, FrameOK
    <2> QED
      BY <1>1, <2>1 DEF FrameInv, FrameOK, BuiltAt
  <1>3. TypeOK'
    <2>1. \A g \in Frames : pc'[g] \in Using \cup {"close", "letGo", "destroy"} => inst[g] # NoInstance
      BY <1>1, <1>2 DEF FrameInv, FrameOK, Holding, Alone
    <2> QED
      BY <1>1, <2>1 DEF TypeOK
  <1>4. AloneInv' /\ OwnersInv' /\ PartsInv' /\ LeakInv'
    BY <1>1 DEF AloneInv, AloneOK, OwnersInv, PartsInv, LeakInv, Prefix
  <1> QED
    BY <1>2, <1>3, <1>4
\* hipObjInit() as far as the device.
LEMMA InitSteps ==
    ASSUME IInv, NEW f \in Frames,
           hipObjInit(f) \/ systemPlatform(f) \/ LockInit(f) \/ CheckAgain(f) \/ QueryDevice(f)
    PROVE  IInv'
  <1>0. initMutex \in Frames \cup {Global} /\ platform \in {"unbuilt", "loaded", "null"} /\ FrameInv
    BY DEF IInv, TypeOK
  <1> USE <1>0 DEF Goto, Runs, CanCall, currentVars, instVars, PC, Holding, Alone, Using, Building, Locked
  <1>1. CASE hipObjInit(f)
    BY <1>1, StepsAlong DEF hipObjInit
  <1>2. CASE systemPlatform(f)
    BY <1>2, StepsAlong DEF systemPlatform
  <1>3. CASE LockInit(f)
    BY <1>3, StepsAlong DEF LockInit, Lock
  <1>4. CASE CheckAgain(f)
    BY <1>4, StepsAlong DEF CheckAgain, FrameInv, FrameOK
  <1>5. CASE QueryDevice(f)
    BY <1>5, StepsAlong DEF QueryDevice, FrameInv, FrameOK, BuiltAt
  <1> QED
    BY <1>1, <1>2, <1>3, <1>4, <1>5

\* hipObjShutdown()'s locking, and the steps of a call that holds an instance.
LEMMA CallSteps ==
    ASSUME IInv, NEW f \in Frames,
           \/ hipObjShutdown(f) \/ LockShutdown(f) \/ unlock(f)
           \/ StartTransfer(f) \/ StopWaiting(f) \/ EndCall(f) \/ EndTransfer(f)
    PROVE  IInv'
  <1>0. initMutex \in Frames \cup {Global} /\ platform \in {"unbuilt", "loaded", "null"} /\ FrameInv
    BY DEF IInv, TypeOK
  <1> USE <1>0 DEF Goto, Runs, CanCall, currentVars, instVars, PC, Holding, Alone, Using, Building, Locked
  <1>1. CASE hipObjShutdown(f)
    BY <1>1, StepsAlong DEF hipObjShutdown
  <1>2. CASE LockShutdown(f)
    BY <1>2, StepsAlong DEF LockShutdown, Lock
  <1>3. CASE unlock(f)
    BY <1>3, StepsAlong DEF unlock, FrameInv, FrameOK
  <1>4. CASE StartTransfer(f)
    BY <1>4, StepsAlong DEF StartTransfer, acquire
  <1>5. CASE StopWaiting(f)
    BY <1>5, StepsAlong DEF StopWaiting, acquire
  <1>6. CASE EndCall(f)
    BY <1>6, StepsAlong DEF EndCall
  <1>7. CASE EndTransfer(f)
    BY <1>7, StepsAlong DEF EndTransfer
  <1> QED
    BY <1>1, <1>2, <1>3, <1>4, <1>5, <1>6, <1>7
\* initWith() opens the device, for an instance of its own, or fails to.
LEMMA OpenStep == ASSUME IInv, NEW f \in Frames, open_device(f) PROVE IInv'
  <1>0. /\ initMutex \in Frames \cup {Global} /\ platform \in {"unbuilt", "loaded", "null"}
        /\ pc[f] = "open_device" /\ initMutex = f /\ instance = NoInstance /\ inst[f] = NoInstance
        /\ UNCHANGED <<instance, initMutex, platform, owners>>
    BY DEF IInv, TypeOK, FrameInv, FrameOK, open_device, Runs, currentVars, Building, Locked, Holding, Alone, Using
  <1>1. CASE Goto(f, "unlock") /\ UNCHANGED <<inst, parts, closed_>>
    BY <1>0, <1>1, StepsAlong DEF Goto, instVars, PC, Holding, Alone, Using, Building, Locked
  <1>2. ASSUME NEW i \in Instances, Unused(i), inst' = [inst EXCEPT ![f] = i],
               parts' = [parts EXCEPT ![i] = <<"context">>],
               closed_' = [closed_ EXCEPT ![i] = FALSE], Goto(f, "alloc_pd")
        PROVE  IInv'
    <2>1. /\ pc' \in [Frames -> PC] /\ pc'[f] = "alloc_pd" /\ \A g \in Frames \ {f} : pc'[g] = pc[g]
          /\ inst' \in [Frames -> Instances \cup {NoInstance}] /\ inst'[f] = i
          /\ \A g \in Frames \ {f} : inst'[g] = inst[g] /\ inst[g] # i
          /\ parts' \in [Instances -> Seq(Part)] /\ parts'[i] = <<"context">>
          /\ \A k \in Instances \ {i} : parts'[k] = parts[k]
          /\ closed_' \in [Instances -> BOOLEAN] /\ ~closed_'[i]
          /\ \A k \in Instances \ {i} : closed_'[k] = closed_[k]
          /\ owners[i] = {} /\ i # NoInstance
      BY <1>2, NoInstanceAssumption DEF IInv, TypeOK, Goto, Unused, PC, Building, Part
    <2>2. TypeOK'
      <3>1. \A g \in Frames : pc'[g] \in Using \cup {"close", "letGo", "destroy"} => inst'[g] # NoInstance
        BY <2>1 DEF IInv, TypeOK, Using
      <3> QED
        BY <1>0, <2>1, <3>1 DEF IInv, TypeOK
    <2>3. FrameInv'
      <3>1. ASSUME NEW g \in Frames \ {f}, inst[g] # NoInstance
            PROVE  inst[g] \in Instances \ {i} /\ parts'[inst[g]] = parts[inst[g]] /\ closed_'[inst[g]] = closed_[inst[g]]
        BY <2>1, <3>1 DEF IInv, TypeOK
      <3>2. \A g \in Frames \ {f} : FrameOK(g)'
        BY <1>0, <2>1, <3>1 DEF IInv, FrameInv, FrameOK, BuiltAt, Holding, Alone, Locked, Building, Using
      <3>3. FrameOK(f)'
        BY <1>0, <2>1 DEF FrameOK, BuiltAt, Holding, Alone, Locked, Building, Using
      <3> QED
        BY <3>2, <3>3 DEF FrameInv
    <2>4. AloneInv'
      <3>1. AloneOK(f)'
        BY <1>0, <2>1 DEF AloneOK
      <3>2. ASSUME NEW g \in Frames \ {f} PROVE AloneOK(g)'
        <4>1. AloneOK(g) /\ inst'[g] = inst[g] /\ pc'[g] = pc[g] /\ owners' = owners
          BY <1>0, <2>1 DEF IInv, AloneInv
        <4>2. \A h \in Frames \ {g} : inst[h] # inst[g] => inst'[h] # inst[g]
          BY <2>1
        <4> QED
          BY <4>1, <4>2 DEF AloneOK
      <3> QED
        BY <3>1, <3>2 DEF AloneInv
    <2>5. OwnersInv'
      BY <1>0, <2>1 DEF IInv, OwnersInv, Holding, Using
    <2>6. PartsInv'
      <3>1. \A k \in Instances : Prefix(parts'[k]) /\ (owners[k] # {} => parts'[k] = Plan)
        BY <2>1, FirstPrefix DEF IInv, PartsInv
      <3> QED
        BY <1>0, <3>1 DEF PartsInv
    <2>7. LeakInv'
      <3>1. inst'[f] = i /\ pc'[f] \in Alone
        BY <2>1 DEF IInv, TypeOK, Alone, Building
      <3>2. ASSUME NEW k \in Instances \ {i}, parts'[k] # <<>>
            PROVE  owners'[k] # {} \/ \E g \in Frames : inst'[g] = k /\ pc'[g] \in Alone
        <4>1. parts[k] # <<>> /\ owners'[k] = owners[k]
          BY <1>0, <2>1, <3>2 DEF IInv, TypeOK
        <4>2. CASE owners[k] # {}
          BY <4>1, <4>2
        <4>3. ASSUME NEW g \in Frames, inst[g] = k, pc[g] \in Alone
              PROVE  inst'[g] = k /\ pc'[g] \in Alone
          <5>1. CASE g = f
            BY <1>0, <4>3, <5>1, NoInstanceAssumption
          <5>2. CASE g # f
            BY <1>0, <2>1, <4>3, <5>2
          <5> QED
            BY <5>1, <5>2
        <4> QED
          BY <4>1, <4>2, <4>3 DEF IInv, LeakInv
      <3> QED
        BY <3>1, <3>2 DEF LeakInv
    <2> QED
      BY <2>2, <2>3, <2>4, <2>5, <2>6, <2>7 DEF IInv
  <1> QED
    BY <1>1, <1>2 DEF open_device
\* A part more or less of an instance that the call has to itself.
LEMMA PartsStep ==
    ASSUME IInv, NEW f \in Frames, pc[f] \in Alone,
           NEW s, Prefix(s), s # <<>>, parts' = [parts EXCEPT ![inst[f]] = s],
           NEW label \in Alone, pc' = [pc EXCEPT ![f] = label],
           label \in Building => pc[f] \in Building, BuiltAt(label, Len(s)),
           UNCHANGED <<inst, currentVars, owners, closed_>>
    PROVE  IInv'
  <1>1. PICK i \in Instances : i = inst[f]
    BY NoInstanceAssumption DEF IInv, TypeOK, FrameInv, FrameOK
  <1>2. /\ pc' \in [Frames -> PC] /\ pc'[f] = label /\ \A g \in Frames \ {f} : pc'[g] = pc[g]
        /\ parts' \in [Instances -> Seq(Part)] /\ parts'[i] = s
        /\ \A k \in Instances \ {i} : parts'[k] = parts[k]
        /\ owners[i] = {} /\ \A g \in Frames \ {f} : inst[g] # i
    BY <1>1 DEF IInv, TypeOK, AloneInv, AloneOK, Prefix, Alone, PC, Building
  <1>3. UNCHANGED <<inst, instance, initMutex, platform, owners, closed_>>
    BY DEF currentVars
  <1>4. TypeOK'
    <2>1. \A g \in Frames : pc'[g] \in Using \cup {"close", "letGo", "destroy"} => inst[g] # NoInstance
      BY <1>1, <1>2, NoInstanceAssumption DEF IInv, TypeOK
    <2> QED
      BY <1>2, <1>3, <2>1 DEF IInv, TypeOK
  <1>5. FrameInv'
    <2>1. ASSUME NEW g \in Frames \ {f} PROVE FrameOK(g)'
      <3>1. inst[g] # NoInstance => parts'[inst[g]] = parts[inst[g]]
        BY <1>2 DEF IInv, TypeOK
      <3>2. FrameOK(g) /\ (pc[g] \in Alone => inst[g] # NoInstance)
        BY DEF IInv, FrameInv, FrameOK
      <3> QED
        BY <1>2, <1>3, <3>1, <3>2 DEF FrameOK
    <2>2. FrameOK(f)'
      <3>1. FrameOK(f)
        BY DEF IInv, FrameInv
      <3>2. label \notin Holding /\ (label \in Locked => label \in Building) /\ label # "close" /\ (pc[f] \in Building => pc[f] \in Locked)
        BY DEF Alone, Holding, Using, Locked, Building
      <3> QED
        BY <1>1, <1>2, <1>3, <3>1, <3>2, NoInstanceAssumption DEF FrameOK
    <2> QED
      BY <2>1, <2>2 DEF FrameInv
  <1>6. AloneInv'
    BY <1>2, <1>3 DEF IInv, AloneInv, AloneOK
  <1>7. OwnersInv'
    <2>1. label \notin Holding /\ pc[f] \notin Holding
      BY DEF Alone, Holding, Using
    <2> QED
      BY <1>2, <1>3, <2>1 DEF IInv, OwnersInv
  <1>8. PartsInv'
    BY <1>2, <1>3 DEF IInv, PartsInv
  <1>9. LeakInv'
    BY <1>1, <1>2, <1>3 DEF IInv, LeakInv
  <1> QED
    BY <1>4, <1>5, <1>6, <1>7, <1>8, <1>9 DEF IInv
\* initWith() builds the next part of the instance, or releases what there is.
LEMMA BuildSteps ==
    ASSUME IInv, NEW f \in Frames, alloc_pd(f) \/ createToken(f) PROVE IInv'
  <1>1. ASSUME NEW at \in {"alloc_pd", "createToken"}, NEW part \in Part, NEW next \in {"query", "connect"},
               Build(f, at, part, next),
               \/ at = "alloc_pd" /\ part = "pd" /\ next = "query"
               \/ at = "createToken" /\ part = "tokenConn" /\ next = "connect"
        PROVE  IInv'
    <2>1. /\ pc[f] = at /\ UNCHANGED <<inst, currentVars, owners, closed_>>
          /\ \/ parts' = [parts EXCEPT ![inst[f]] = Append(@, part)] /\ Goto(f, next)
             \/ Goto(f, "destroy") /\ UNCHANGED parts
      BY <1>1 DEF Build, Runs
    <2>2. pc[f] \in Alone /\ inst[f] \in Instances /\ Prefix(parts[inst[f]]) /\ BuiltAt(at, Len(parts[inst[f]]))
      BY <2>1, NoInstanceAssumption DEF IInv, TypeOK, FrameInv, FrameOK, PartsInv, Alone
    <2> DEFINE s == parts[inst[f]]
    <2>3. /\ Len(s) < Len(Plan)
          /\ part = Plan[Len(s) + 1]
          /\ BuiltAt(next, Len(s) + 1) /\ BuiltAt("destroy", Len(s))
      <3>1. CASE at = "alloc_pd"
        <4>1. Len(s) = 1 /\ part = "pd" /\ next = "query"
          BY <1>1, <2>2, <3>1 DEF BuiltAt
        <4>2. Len(s) < Len(Plan) /\ part = Plan[Len(s) + 1]
          BY <4>1, PlanFacts
        <4> QED
          BY <4>1, <4>2 DEF BuiltAt
      <3>2. CASE at = "createToken"
        <4>1. Len(s) = 2 /\ part = "tokenConn" /\ next = "connect"
          BY <1>1, <2>2, <3>2 DEF BuiltAt
        <4>2. Len(s) < Len(Plan) /\ part = Plan[Len(s) + 1]
          BY <4>1, PlanFacts
        <4> QED
          BY <4>1, <4>2 DEF BuiltAt
      <3> QED
        BY <3>1, <3>2
    <2> HIDE DEF s
    <2>4. CASE parts' = [parts EXCEPT ![inst[f]] = Append(@, part)] /\ Goto(f, next)
      <3>1. Prefix(s)
        BY <2>2 DEF s
      <3>2. Prefix(Append(s, part)) /\ Len(Append(s, part)) = Len(s) + 1 /\ Append(s, part) # <<>>
        BY <2>3, <3>1, AppendPrefix
      <3>3. BuiltAt(next, Len(Append(s, part)))
        BY <2>3, <3>2
      <3>4. parts' = [parts EXCEPT ![inst[f]] = Append(s, part)] /\ pc' = [pc EXCEPT ![f] = next]
        BY <2>4 DEF Goto, s
      <3>5. next \in Alone /\ (next \in Building => pc[f] \in Building)
        BY <1>1, <2>1 DEF Alone, Building
      <3> QED
        BY <2>1, <2>2, <3>2, <3>3, <3>4, <3>5, PartsStep
    <2>5. CASE Goto(f, "destroy") /\ UNCHANGED parts
      <3>1. BuiltAt("destroy", Len(parts[inst[f]]))
        BY <2>3 DEF s
      <3>2. initMutex \in Frames \cup {Global} /\ platform \in {"unbuilt", "loaded", "null"}
        BY DEF IInv, TypeOK
      <3> QED
        BY <2>1, <2>2, <2>5, <3>1, <3>2, StepsAlong
        DEF Goto, currentVars, instVars, PC, Holding, Alone, Using, Building, Locked
    <2> QED
      BY <2>1, <2>4, <2>5
  <1> QED
    BY <1>1 DEF alloc_pd, createToken, Part
\* A step that changes who holds instance i: the call f goes on at label, with
\* its pointer at j, and O are the places that hold i from now on. O is exact,
\* and f has what it needs where it goes.
HandedOver(f, i, O, label, j) ==
  /\ O \subseteq Frames \cup {Global} /\ label \in PC
  /\ j \in {i, NoInstance} /\ inst[f] \in {i, NoInstance}
  /\ pc' = [pc EXCEPT ![f] = label] /\ inst' = [inst EXCEPT ![f] = j]
  /\ owners' = [owners EXCEPT ![i] = O] /\ UNCHANGED <<initMutex, platform, parts, closed_>>
  /\ instance' \in {i, NoInstance} \/ instance' = instance
  /\ instance' # instance => initMutex = f /\ instance \in {i, NoInstance}
  /\ instance' # NoInstance => ~closed_[instance']
  /\ \A g \in Frames \ {f} : g \in O <=> g \in owners[i]
  /\ f \in O <=> j = i /\ label \in Holding
  /\ Global \in O <=> instance' = i
  /\ O # {} => parts[i] = Plan
  /\ O = {} => label \in Alone \/ parts[i] = <<>>
  /\ label \in Alone => O = {} /\ \A g \in Frames \ {f} : inst[g] # i
  /\ \A g \in Frames \ {f} : inst[g] = i => pc[g] \notin Alone
  /\ label \in Holding \cup Alone <=> j # NoInstance
  /\ label \in Locked => initMutex = f
  /\ label \in Building \cup {"close"} => instance' = NoInstance
  /\ label \in Building /\ j # NoInstance => ~closed_[j]
  /\ label \in Alone => BuiltAt(label, Len(parts[j]))

\* Such a step keeps the invariant: sharing, publishing, moving out, finding and
\* letting go of an instance (state.cpp).
LEMMA HandOver ==
    ASSUME IInv, NEW f \in Frames, NEW i \in Instances, NEW O, NEW label, NEW j,
           HandedOver(f, i, O, label, j)
    PROVE  IInv'
  <1> USE DEF HandedOver
  <1>0. i # NoInstance
    BY NoInstanceAssumption
  <1>1. /\ pc' \in [Frames -> PC] /\ pc'[f] = label /\ \A g \in Frames \ {f} : pc'[g] = pc[g]
        /\ inst' \in [Frames -> Instances \cup {NoInstance}]
        /\ inst'[f] = j /\ \A g \in Frames \ {f} : inst'[g] = inst[g]
        /\ owners' \in [Instances -> SUBSET (Frames \cup {Global})]
        /\ owners'[i] = O /\ \A k \in Instances \ {i} : owners'[k] = owners[k]
    BY DEF IInv, TypeOK
  <1>2. FrameInv'
    <2>1. ASSUME NEW g \in Frames \ {f} PROVE FrameOK(g)'
      <3>1. FrameOK(g)
        BY DEF IInv, FrameInv
      <3>2. pc[g] \in Building \cup {"close"} => pc[g] \in Locked
        BY DEF Locked
      <3>3. pc[g] \in Building \cup {"close"} => instance' = NoInstance
        BY <3>1, <3>2 DEF FrameOK
      <3> QED
        BY <1>1, <3>1, <3>3 DEF FrameOK
    <2>2. FrameOK(f)'
      BY <1>1 DEF FrameOK
    <2> QED
      BY <2>1, <2>2 DEF FrameInv
  <1>3. TypeOK'
    <2>1. \A g \in Frames : pc'[g] \in Using \cup {"close", "letGo", "destroy"} => inst'[g] # NoInstance
      BY <1>2 DEF FrameInv, FrameOK, Holding, Alone
    <2>2. instance' \in Instances \cup {NoInstance}
      BY DEF IInv, TypeOK
    <2> QED
      BY <1>1, <2>1, <2>2 DEF IInv, TypeOK
  <1>4. AloneInv'
    <2>1. AloneOK(f)'
      BY <1>0, <1>1 DEF AloneOK
    <2>2. ASSUME NEW g \in Frames \ {f}, pc[g] \in Alone PROVE AloneOK(g)'
      <3>1. AloneOK(g) /\ FrameOK(g)
        BY DEF IInv, AloneInv, FrameInv
      <3>2. inst[g] \in Instances \ {i}
        BY <2>2, <3>1 DEF IInv, TypeOK, FrameOK
      <3>3. inst'[g] = inst[g] /\ owners'[inst[g]] = {}
        BY <1>1, <2>2, <3>1, <3>2 DEF AloneOK
      <3>4. \A h \in Frames \ {g} : inst'[h] # inst[g]
        BY <1>1, <2>2, <3>1, <3>2, NoInstanceAssumption DEF AloneOK
      <3> QED
        BY <3>3, <3>4 DEF AloneOK
    <2>3. \A g \in Frames \ {f} : pc[g] \notin Alone => AloneOK(g)'
      BY <1>1 DEF AloneOK
    <2> QED
      BY <2>1, <2>2, <2>3 DEF AloneInv
  <1>5. OwnersInv'
    <2>1. ASSUME NEW k \in Instances \ {i}, NEW g \in Frames
          PROVE  g \in owners'[k] <=> inst'[g] = k /\ pc'[g] \in Holding
      BY <1>0, <1>1, NoInstanceAssumption DEF IInv, OwnersInv
    <2>2. \A g \in Frames : g \in owners'[i] <=> inst'[g] = i /\ pc'[g] \in Holding
      BY <1>0, <1>1 DEF IInv, OwnersInv
    <2>3. \A k \in Instances \ {i} : Global \in owners'[k] <=> instance' = k
      BY <1>1, NoInstanceAssumption DEF IInv, OwnersInv
    <2> QED
      BY <1>1, <2>1, <2>2, <2>3 DEF OwnersInv
  <1>6. PartsInv'
    BY <1>1 DEF IInv, PartsInv
  <1>7. LeakInv'
    <2>1. ASSUME NEW k \in Instances \ {i}, parts[k] # <<>>
          PROVE  owners'[k] # {} \/ \E g \in Frames : inst'[g] = k /\ pc'[g] \in Alone
      <3>1. owners[k] # {} \/ \E g \in Frames : inst[g] = k /\ pc[g] \in Alone
        BY <2>1 DEF IInv, LeakInv
      <3> QED
        BY <1>1, <3>1, NoInstanceAssumption
    <2>2. parts[i] # <<>> => owners'[i] # {} \/ (inst'[f] = i /\ pc'[f] \in Alone)
      BY <1>1
    <2> QED
      BY <2>1, <2>2 DEF LeakInv
  <1> QED
    BY <1>2, <1>3, <1>4, <1>5, <1>6, <1>7 DEF IInv
\* The pool creates its connections, one by one, and the instance is shared.
LEMMA PoolStep == ASSUME IInv, NEW f \in Frames, createPool(f) PROVE IInv'
  <1> DEFINE s == parts[inst[f]]
  <1>1. /\ pc[f] = "connect" /\ pc[f] \in Alone /\ pc[f] \in Building
        /\ initMutex \in Frames \cup {Global} /\ platform \in {"unbuilt", "loaded", "null"}
        /\ UNCHANGED <<inst, currentVars, closed_>>
    BY DEF createPool, Runs, IInv, TypeOK, Alone, Building
  <1>2. /\ inst[f] \in Instances /\ initMutex = f /\ instance = NoInstance /\ ~closed_[inst[f]]
        /\ Prefix(s) /\ Len(s) \in Nat /\ Len(s) >= 3
    BY <1>1, NoInstanceAssumption DEF IInv, TypeOK, FrameInv, FrameOK, PartsInv, Prefix, Locked, BuiltAt
  <1> HIDE DEF s
  <1>3. CASE Len(s) < Len(Plan) /\ parts' = [parts EXCEPT ![inst[f]] = Append(@, "conn")] /\ UNCHANGED <<pc, owners>>
    <2>1. "conn" \in Part /\ "conn" = Plan[Len(s) + 1]
      BY <1>2, <1>3, PlanFacts DEF Part
    <2>2. Prefix(Append(s, "conn")) /\ Len(Append(s, "conn")) = Len(s) + 1 /\ Append(s, "conn") # <<>>
      BY <1>2, <1>3, <2>1, AppendPrefix
    <2>3. BuiltAt("connect", Len(Append(s, "conn")))
      BY <1>2, <2>2 DEF BuiltAt
    <2>4. pc' = [pc EXCEPT ![f] = "connect"]
      BY <1>1, <1>3 DEF IInv, TypeOK
    <2>5. parts' = [parts EXCEPT ![inst[f]] = Append(s, "conn")]
      BY <1>3 DEF s
    <2> QED
      BY <1>1, <1>3, <2>2, <2>3, <2>4, <2>5, PartsStep
  <1>4. CASE Goto(f, "destroy") /\ UNCHANGED <<parts, owners>>
    <2>1. BuiltAt("destroy", Len(parts[inst[f]]))
      BY <1>2 DEF BuiltAt, s
    <2> QED
      BY <1>1, <1>4, <2>1, StepsAlong
      DEF Goto, currentVars, instVars, PC, Holding, Alone, Using, Building, Locked
  <1>5. CASE Len(s) = Len(Plan) /\ owners' = [owners EXCEPT ![inst[f]] = {f}] /\ Goto(f, "publish") /\ UNCHANGED parts
    <2>1. PICK i \in Instances : i = inst[f]
      BY <1>2
    <2>2. parts[i] = Plan
      BY <1>2, <1>5, <2>1, WholePrefix DEF s
    <2>3. owners[i] = {} /\ \A g \in Frames \ {f} : inst[g] # i
      BY <1>1, <2>1 DEF IInv, AloneInv, AloneOK
    <2>4. pc' = [pc EXCEPT ![f] = "publish"] /\ inst' = [inst EXCEPT ![f] = i]
      BY <1>1, <1>5, <2>1 DEF Goto, IInv, TypeOK
    <2>5. "publish" \in PC /\ "publish" \in Holding /\ "publish" \notin Alone /\ "publish" \in Building
      BY DEF PC, Holding, Alone, Building
    <2>6. owners' = [owners EXCEPT ![i] = {f}] /\ UNCHANGED <<initMutex, platform, parts, closed_, instance>>
      BY <1>1, <1>5, <2>1 DEF currentVars
    <2>7. HandedOver(f, i, {f}, "publish", i)
      BY <1>2, <2>1, <2>2, <2>3, <2>4, <2>5, <2>6, GlobalIsNoFrame, NoInstanceAssumption DEF HandedOver
    <2> QED
      BY <2>7, HandOver
  <1> QED
    BY <1>3, <1>4, <1>5 DEF createPool, s
\* initWith() publishes the instance, or lets it go.
LEMMA PublishStep == ASSUME IInv, NEW f \in Frames, publish(f) PROVE IInv'
  <1>1. /\ pc[f] = "publish" /\ "publish" \in Holding /\ "publish" \notin Alone /\ "publish" \in Building
        /\ "publish" \in Locked /\ UNCHANGED <<initMutex, platform, parts, closed_>>
        /\ initMutex \in Frames \cup {Global} /\ platform \in {"unbuilt", "loaded", "null"}
    BY DEF publish, Runs, Holding, Alone, Building, Locked, IInv, TypeOK
  <1>2. PICK i \in Instances : i = inst[f]
    BY <1>1 DEF IInv, TypeOK, FrameInv, FrameOK
  <1>3. initMutex = f /\ instance = NoInstance /\ ~closed_[i] /\ i # NoInstance
    BY <1>1, <1>2, NoInstanceAssumption DEF IInv, FrameInv, FrameOK
  <1>4. f \in owners[i] /\ owners[i] \subseteq Frames \cup {Global} /\ parts[i] = Plan
    BY <1>1, <1>2 DEF IInv, OwnersInv, PartsInv, TypeOK
  <1>5. CASE /\ instance' = inst[f] /\ owners' = [owners EXCEPT ![inst[f]] = (@ \ {f}) \cup {Global}]
             /\ inst' = [inst EXCEPT ![f] = NoInstance] /\ Goto(f, "unlock")
    <2>1. "unlock" \in PC /\ "unlock" \notin Holding \cup Alone \cup Building /\ "unlock" # "close"
      BY DEF PC, Holding, Alone, Building, Using
    <2>2. \A g \in Frames \ {f} : inst[g] = i => pc[g] \notin Alone
      BY <1>2 DEF IInv, AloneInv, AloneOK
    <2>3. HandedOver(f, i, (owners[i] \ {f}) \cup {Global}, "unlock", NoInstance)
      BY <1>1, <1>2, <1>3, <1>4, <1>5, <2>1, <2>2, GlobalIsNoFrame DEF HandedOver, Goto
    <2> QED
      BY <2>3, HandOver
  <1>6. CASE Goto(f, "letGo") /\ UNCHANGED <<instance, owners, inst>>
    BY <1>1, <1>6, StepsAlong DEF Goto, instVars, PC, Holding, Alone, Using, Building, Locked
  <1> QED
    BY <1>5, <1>6 DEF publish

\* shutdownInstance() takes the instance out of Current::instance.
LEMMA MoveOutStep == ASSUME IInv, NEW f \in Frames, moveOut(f) PROVE IInv'
  <1>1. /\ pc[f] = "moveOut" /\ "moveOut" \notin Holding \cup Alone /\ "moveOut" \in Locked
        /\ UNCHANGED <<initMutex, platform, parts, closed_>>
        /\ instance' = NoInstance /\ inst' = [inst EXCEPT ![f] = instance]
        /\ initMutex \in Frames \cup {Global} /\ platform \in {"unbuilt", "loaded", "null"}
    BY DEF moveOut, Runs, Holding, Alone, Using, Building, Locked, IInv, TypeOK
  <1>2. inst[f] = NoInstance /\ initMutex = f
    BY <1>1 DEF IInv, FrameInv, FrameOK
  <1>3. CASE instance = NoInstance
    <2>1. pc' = [pc EXCEPT ![f] = "unlock"] /\ inst' = inst /\ owners' = owners
      BY <1>1, <1>2, <1>3 DEF moveOut, Goto, IInv, TypeOK
    <2> QED
      BY <1>1, <1>2, <1>3, <2>1, StepsAlong DEF instVars, PC, Holding, Alone, Using, Building, Locked
  <1>4. CASE instance # NoInstance
    <2>1. PICK i \in Instances : i = instance
      BY <1>4 DEF IInv, TypeOK
    <2>2. pc' = [pc EXCEPT ![f] = "close"] /\ owners' = [owners EXCEPT ![i] = (@ \ {Global}) \cup {f}]
      BY <1>4, <2>1 DEF moveOut, Goto
    <2>3. "close" \in PC /\ "close" \in Holding /\ "close" \notin Alone \cup Building
      BY DEF PC, Holding, Alone, Building
    <2>4. Global \in owners[i] /\ owners[i] \subseteq Frames \cup {Global} /\ parts[i] = Plan
      BY <2>1 DEF IInv, OwnersInv, PartsInv, TypeOK
    <2>5. \A g \in Frames \ {f} : inst[g] = i => pc[g] \notin Alone
      BY <2>4 DEF IInv, AloneInv, AloneOK
    <2>6. HandedOver(f, i, (owners[i] \ {Global}) \cup {f}, "close", i)
      BY <1>1, <1>2, <2>1, <2>2, <2>3, <2>4, <2>5, GlobalIsNoFrame, NoInstanceAssumption DEF HandedOver
    <2> QED
      BY <2>6, HandOver
  <1> QED
    BY <1>3, <1>4

\* A call finds the published instance and shares it.
LEMMA FindStep == ASSUME IInv, NEW f \in Frames, currentInstance(f) PROVE IInv'
  <1>1. /\ pc[f] = "idle" /\ "idle" \notin Holding \cup Alone
        /\ UNCHANGED <<initMutex, platform, instance, parts, closed_>>
    BY DEF currentInstance, CanCall, Holding, Alone, Using, currentVars
  <1>2. PICK i \in Instances : i = instance
    BY DEF currentInstance, IInv, TypeOK
  <1>3. /\ pc' = [pc EXCEPT ![f] = "use"] /\ inst' = [inst EXCEPT ![f] = i]
        /\ owners' = [owners EXCEPT ![i] = @ \cup {f}]
    BY <1>2 DEF currentInstance, Goto
  <1>4. "use" \in PC /\ "use" \in Holding /\ "use" \notin Alone \cup Building \cup Locked /\ "use" # "close"
    BY DEF PC, Holding, Alone, Building, Locked, Using
  <1>5. Global \in owners[i] /\ owners[i] \subseteq Frames \cup {Global} /\ parts[i] = Plan /\ ~closed_[i]
    BY <1>2, NoInstanceAssumption DEF IInv, OwnersInv, PartsInv, TypeOK
  <1>6. \A g \in Frames \ {f} : inst[g] = i => pc[g] \notin Alone
    BY <1>5 DEF IInv, AloneInv, AloneOK
  <1>7. inst[f] = NoInstance
    BY <1>1 DEF IInv, FrameInv, FrameOK
  <1>8. HandedOver(f, i, owners[i] \cup {f}, "use", i)
    BY <1>1, <1>2, <1>3, <1>4, <1>5, <1>6, <1>7, GlobalIsNoFrame, NoInstanceAssumption DEF HandedOver
  <1> QED
    BY <1>8, HandOver
\* A call lets its instance go, and the last one to do so destroys it.
LEMMA LetGoStep == ASSUME IInv, NEW f \in Frames, letGo(f) PROVE IInv'
  <1>1. /\ pc[f] = "letGo" /\ "letGo" \in Holding /\ "letGo" \notin Alone
        /\ UNCHANGED <<initMutex, platform, instance, parts, closed_>>
    BY DEF letGo, Runs, Holding, Alone, currentVars
  <1>2. PICK i \in Instances : i = inst[f]
    BY <1>1 DEF IInv, TypeOK, FrameInv, FrameOK
  <1>3. owners' = [owners EXCEPT ![i] = @ \ {f}] /\ owners'[i] = owners[i] \ {f}
    BY <1>2 DEF letGo, IInv, TypeOK
  <1>4. owners[i] \subseteq Frames \cup {Global} /\ f \in owners[i] /\ parts[i] = Plan /\ parts[i] # <<>>
    <2>1. owners[i] \subseteq Frames \cup {Global} /\ f \in owners[i] /\ parts[i] = Plan
      BY <1>1, <1>2 DEF IInv, OwnersInv, PartsInv, TypeOK
    <2> QED
      BY <2>1, PlanFacts
  <1>5. (Global \in owners[i] <=> instance = i) /\ (instance # NoInstance => ~closed_[instance])
    BY DEF IInv, OwnersInv, PartsInv
  <1>6. \A g \in Frames \ {f} : inst[g] = i => pc[g] \notin Alone
    BY <1>2 DEF IInv, AloneInv, AloneOK
  <1>7. CASE owners[i] \ {f} = {}
    <2>1. pc' = [pc EXCEPT ![f] = "destroy"] /\ inst' = [inst EXCEPT ![f] = i]
      BY <1>2, <1>3, <1>7 DEF letGo, Goto, IInv, TypeOK
    <2>2. "destroy" \in PC /\ "destroy" \in Alone /\ "destroy" \notin Holding \cup Building \cup Locked /\ "destroy" # "close"
      BY DEF PC, Holding, Alone, Building, Locked, Using
    <2>3. ASSUME NEW g \in Frames \ {f} PROVE inst[g] # i
      <3>1. FrameOK(g) /\ g \notin owners[i]
        BY <1>7 DEF IInv, FrameInv
      <3> QED
        BY <1>6, <3>1, NoInstanceAssumption DEF IInv, OwnersInv, FrameOK
    <2>4. BuiltAt("destroy", Len(parts[i]))
      BY <1>4, PlanFacts DEF BuiltAt
    <2>5. HandedOver(f, i, owners[i] \ {f}, "destroy", i)
      BY <1>1, <1>2, <1>3, <1>4, <1>5, <1>6, <1>7, <2>1, <2>2, <2>3, <2>4, GlobalIsNoFrame, NoInstanceAssumption
      DEF HandedOver
    <2> QED
      BY <2>5, HandOver
  <1>8. CASE owners[i] \ {f} # {}
    <2>1. PICK label \in {"unlock", "idle"} :
            /\ pc' = [pc EXCEPT ![f] = label] /\ (label = "unlock" => initMutex = f)
      BY <1>2, <1>3, <1>8 DEF letGo, Done, Goto
    <2>2. inst' = [inst EXCEPT ![f] = NoInstance]
      BY <1>2, <1>3, <1>8 DEF letGo, Done
    <2>3. /\ label \in PC /\ label \notin Holding \cup Alone \cup Building /\ label # "close"
          /\ (label \in Locked => initMutex = f)
      BY <2>1 DEF PC, Holding, Alone, Building, Locked, Using
    <2>4. HandedOver(f, i, owners[i] \ {f}, label, NoInstance)
      BY <1>1, <1>2, <1>3, <1>4, <1>5, <1>6, <1>8, <2>1, <2>2, <2>3, GlobalIsNoFrame, NoInstanceAssumption
      DEF HandedOver
    <2> QED
      BY <2>4, HandOver
  <1> QED
    BY <1>7, <1>8

\* shutdownInstance() closes the pool of the instance it took out.
LEMMA CloseStep == ASSUME IInv, NEW f \in Frames, close(f) PROVE IInv'
  <1>1. /\ pc[f] = "close" /\ "close" \in Holding /\ "close" \in Locked
        /\ UNCHANGED <<inst, initMutex, platform, instance, owners, parts>>
        /\ pc' = [pc EXCEPT ![f] = "letGo"] /\ closed_' = [closed_ EXCEPT ![inst[f]] = TRUE]
    BY DEF close, Runs, Goto, Holding, Locked, currentVars
  <1>2. inst[f] \in Instances /\ initMutex = f /\ instance = NoInstance
    BY <1>1 DEF IInv, TypeOK, FrameInv, FrameOK
  <1>3. /\ pc' \in [Frames -> PC] /\ pc'[f] = "letGo" /\ \A g \in Frames \ {f} : pc'[g] = pc[g]
        /\ closed_' \in [Instances -> BOOLEAN]
    BY <1>1, <1>2 DEF IInv, TypeOK, PC
  <1>4. "letGo" \in Holding /\ "letGo" \notin Alone \cup Locked \cup Building /\ "close" \notin Alone
    BY DEF Holding, Alone, Locked, Building
  <1>5. \A g \in Frames \ {f} : pc[g] \notin Locked
    BY <1>2 DEF IInv, FrameInv, FrameOK
  <1>6. FrameInv'
    <2>1. ASSUME NEW g \in Frames \ {f} PROVE FrameOK(g)'
      <3>1. FrameOK(g) /\ pc[g] \notin Building \cup {"close"}
        BY <1>5 DEF IInv, FrameInv, Locked
      <3> QED
        BY <1>1, <1>3, <3>1 DEF FrameOK
    <2>2. FrameOK(f)'
      <3>1. FrameOK(f)
        BY DEF IInv, FrameInv
      <3> QED
        BY <1>1, <1>2, <1>3, <1>4, <3>1 DEF FrameOK
    <2> QED
      BY <2>1, <2>2 DEF FrameInv
  <1>7. TypeOK'
    <2>1. \A g \in Frames : pc'[g] \in Using \cup {"close", "letGo", "destroy"} => inst'[g] # NoInstance
      BY <1>6 DEF FrameInv, FrameOK, Holding, Alone
    <2> QED
      BY <1>1, <1>3, <2>1 DEF IInv, TypeOK
  <1>8. AloneInv' /\ OwnersInv' /\ PartsInv' /\ LeakInv'
    <2>1. AloneInv'
      BY <1>1, <1>3, <1>4 DEF IInv, AloneInv, AloneOK
    <2>2. OwnersInv'
      <3>1. \A g \in Frames : pc'[g] \in Holding <=> pc[g] \in Holding
        BY <1>1, <1>3, <1>4
      <3> QED
        BY <1>1, <3>1 DEF IInv, OwnersInv
    <2>3. PartsInv'
      BY <1>1, <1>2, NoInstanceAssumption DEF IInv, PartsInv
    <2>4. LeakInv'
      BY <1>1, <1>3, <1>4 DEF IInv, LeakInv
    <2> QED
      BY <2>1, <2>2, <2>3, <2>4
  <1> QED
    BY <1>6, <1>7, <1>8 DEF IInv
\* The last part is destroyed, or another one.
LEMMA DestroyStep == ASSUME IInv, NEW f \in Frames, destroy(f) PROVE IInv'
  <1>1. /\ pc[f] = "destroy" /\ "destroy" \in Alone /\ "destroy" \notin Holding \cup Building
        /\ UNCHANGED <<currentVars, owners, closed_>>
    BY DEF destroy, Runs, Holding, Alone, Using, Building
  <1>2. PICK i \in Instances : i = inst[f]
    BY <1>1 DEF IInv, TypeOK
  <1>3. /\ Prefix(parts[i]) /\ Len(parts[i]) >= 1 /\ Len(parts[i]) \in Nat
        /\ owners[i] = {} /\ \A g \in Frames \ {f} : inst[g] # i
    <2>1. Prefix(parts[i]) /\ Len(parts[i]) \in Nat
      BY <1>2 DEF IInv, PartsInv, Prefix
    <2>2. Len(parts[i]) >= 1
      BY <1>1, <1>2 DEF IInv, FrameInv, FrameOK, BuiltAt
    <2>3. owners[i] = {} /\ \A g \in Frames \ {f} : inst[g] # i
      BY <1>1, <1>2 DEF IInv, AloneInv, AloneOK
    <2> QED
      BY <2>1, <2>2, <2>3
  <1>4. PICK s : s = Front(parts[i])
    OBVIOUS
  <1>5. Prefix(s) /\ Len(s) = Len(parts[i]) - 1 /\ (Len(parts[i]) = 1 <=> s = <<>>)
    BY <1>3, <1>4, FrontPrefix
  <1>6. parts' = [parts EXCEPT ![i] = s]
    BY <1>2, <1>4 DEF destroy
  <1>7. CASE Len(parts[i]) # 1
    <2>1. pc' = [pc EXCEPT ![f] = "destroy"] /\ inst' = inst
      BY <1>1, <1>2, <1>7 DEF destroy, frameVars, IInv, TypeOK
    <2>2. BuiltAt("destroy", Len(s)) /\ s # <<>>
      BY <1>3, <1>5, <1>7 DEF BuiltAt
    <2> QED
      BY <1>1, <1>2, <1>5, <1>6, <2>1, <2>2, PartsStep
  <1>8. CASE Len(parts[i]) = 1
    <2>1. PICK label \in {"unlock", "idle"} :
            /\ pc' = [pc EXCEPT ![f] = label] /\ (label = "unlock" => initMutex = f)
      BY <1>2, <1>8 DEF destroy, Done, Goto
    <2>2. inst' = [inst EXCEPT ![f] = NoInstance] /\ UNCHANGED <<instance, initMutex, platform, owners, closed_>>
      BY <1>1, <1>2, <1>8 DEF destroy, Done, currentVars
    <2>3. /\ label \in PC /\ label \notin Holding \cup Alone \cup Building \cup Using /\ label # "close"
          /\ label \notin {"letGo", "destroy"} /\ (label \in Locked => initMutex = f)
      BY <2>1 DEF PC, Holding, Alone, Building, Locked, Using
    <2>4. /\ pc' \in [Frames -> PC] /\ pc'[f] = label /\ \A g \in Frames \ {f} : pc'[g] = pc[g]
          /\ inst' \in [Frames -> Instances \cup {NoInstance}]
          /\ inst'[f] = NoInstance /\ \A g \in Frames \ {f} : inst'[g] = inst[g]
          /\ parts' \in [Instances -> Seq(Part)] /\ parts'[i] = <<>>
          /\ \A k \in Instances \ {i} : parts'[k] = parts[k]
      BY <1>5, <1>6, <1>8, <2>1, <2>2, <2>3 DEF IInv, TypeOK, Prefix
    <2>5. FrameInv'
      <3>1. ASSUME NEW g \in Frames \ {f} PROVE FrameOK(g)'
        <4>1. FrameOK(g) /\ (inst[g] # NoInstance => parts'[inst[g]] = parts[inst[g]])
          BY <1>3, <2>4 DEF IInv, FrameInv, TypeOK
        <4> QED
          BY <2>2, <2>4, <4>1 DEF FrameOK
      <3>2. FrameOK(f)'
        BY <2>2, <2>3, <2>4 DEF FrameOK
      <3> QED
        BY <3>1, <3>2 DEF FrameInv
    <2>6. TypeOK'
      <3>1. \A g \in Frames : pc'[g] \in Using \cup {"close", "letGo", "destroy"} => inst'[g] # NoInstance
        BY <2>5 DEF FrameInv, FrameOK, Holding, Alone
      <3> QED
        BY <2>2, <2>4, <3>1 DEF IInv, TypeOK
    <2>7. AloneInv'
      <3>1. ASSUME NEW g \in Frames \ {f} PROVE AloneOK(g)'
        <4>1. AloneOK(g) /\ FrameOK(g)
          BY DEF IInv, AloneInv, FrameInv
        <4> QED
          BY <2>2, <2>4, <4>1 DEF AloneOK, FrameOK
      <3>2. AloneOK(f)'
        BY <2>3, <2>4 DEF AloneOK
      <3> QED
        BY <3>1, <3>2 DEF AloneInv
    <2>8. OwnersInv'
      BY <1>1, <1>2, <2>2, <2>3, <2>4, NoInstanceAssumption DEF IInv, OwnersInv
    <2>9. PartsInv'
      <3>1. \A k \in Instances : Prefix(parts'[k]) /\ (owners[k] # {} => parts'[k] = Plan)
        BY <1>3, <2>4, FirstPrefix DEF IInv, PartsInv
      <3> QED
        BY <2>2, <3>1 DEF IInv, PartsInv
    <2>10. LeakInv'
      <3>1. ASSUME NEW k \in Instances \ {i}, parts[k] # <<>>
            PROVE  owners[k] # {} \/ \E g \in Frames : inst'[g] = k /\ pc'[g] \in Alone
        <4>1. owners[k] # {} \/ \E g \in Frames \ {f} : inst[g] = k /\ pc[g] \in Alone
          BY <1>2, <3>1 DEF IInv, LeakInv
        <4> QED
          BY <2>4, <4>1
      <3> QED
        BY <2>2, <2>4, <3>1 DEF LeakInv
    <2> QED
      BY <2>5, <2>6, <2>7, <2>8, <2>9, <2>10 DEF IInv
  <1> QED
    BY <1>7, <1>8

\* Every step of every call keeps the invariant.
THEOREM NextIInv == IInv /\ [Next]_vars => IInv'
  <1> SUFFICES ASSUME IInv, [Next]_vars PROVE IInv'
    OBVIOUS
  <1>1. CASE UNCHANGED vars
    <2>1. UNCHANGED <<pc, inst, instance, initMutex, platform, owners, parts, closed_>>
      BY <1>1 DEF vars, frameVars, currentVars, instVars
    <2>2. TypeOK'
      BY <2>1 DEF IInv, TypeOK
    <2>3. FrameInv' /\ AloneInv'
      BY <2>1 DEF IInv, FrameInv, FrameOK, BuiltAt, AloneInv, AloneOK
    <2>4. OwnersInv' /\ LeakInv'
      BY <2>1 DEF IInv, OwnersInv, LeakInv
    <2>5. PartsInv'
      BY <2>1 DEF IInv, PartsInv, Prefix
    <2> QED
      BY <2>2, <2>3, <2>4, <2>5 DEF IInv
  <1>2. ASSUME NEW f \in Frames, Call(f) \/ Step(f) \/ EndTransfer(f) PROVE IInv'
    BY <1>2, InitSteps, CallSteps, OpenStep, BuildSteps, PoolStep, PublishStep, MoveOutStep, FindStep,
       LetGoStep, CloseStep, DestroyStep DEF Call, Step
  <1> QED
    BY <1>1, <1>2 DEF Next

\* However many threads initialize, use and shut down the library, and from
\* callbacks too: one instance at a time is built; what is published or in use
\* is whole; nothing is leaked; and what depends goes first.
THEOREM InstanceIsSafe == Spec => [](TypeOK /\ OneAtATime /\ InUseIsWhole /\ NothingLeaks /\ DependentsGoFirst)
  <1>1. ASSUME IInv PROVE TypeOK /\ OneAtATime /\ InUseIsWhole /\ NothingLeaks /\ DependentsGoFirst
    <2> USE <1>1
    <2>1. TypeOK
      BY DEF IInv
    <2>2. OneAtATime
      BY DEF IInv, FrameInv, FrameOK, OneAtATime, Locked
    <2>3. InUseIsWhole
      <3>1. instance # NoInstance => parts[instance] = Plan /\ ~closed_[instance]
        BY DEF IInv, TypeOK, OwnersInv, PartsInv
      <3>2. ASSUME NEW f \in Frames, pc[f] \in Using PROVE parts[inst[f]] = Plan
        <4>1. inst[f] \in Instances /\ f \in owners[inst[f]]
          BY <3>2 DEF IInv, TypeOK, OwnersInv, Holding
        <4> QED
          BY <4>1 DEF IInv, PartsInv
      <3> QED
        BY <3>1, <3>2 DEF InUseIsWhole
    <2>4. NothingLeaks
      <3>1. ASSUME NEW i \in Instances, parts[i] # <<>>, owners[i] = {}
            PROVE  \E f \in Frames : /\ inst[f] = i /\ pc[f] \in Building \cup {"destroy"}
                                     /\ \A g \in Frames \ {f} : inst[g] # i
        <4>1. PICK f \in Frames : inst[f] = i /\ pc[f] \in Alone
          BY <3>1 DEF IInv, LeakInv
        <4>2. pc[f] \in Building \cup {"destroy"} /\ \A g \in Frames \ {f} : inst[g] # i
          BY <4>1 DEF IInv, AloneInv, AloneOK, Alone, Building
        <4> QED
          BY <4>1, <4>2
      <3> QED
        BY <3>1 DEF NothingLeaks
    <2>5. DependentsGoFirst
      BY DEF IInv, PartsInv, Prefix, DependentsGoFirst
    <2> QED
      BY <2>1, <2>2, <2>3, <2>4, <2>5
  <1> QED
    BY <1>1, InitIInv, NextIInv, PTL DEF Spec
\* An instance that was shut down starts no transfer and is never published
\* again.
THEOREM RemovedStaysRemoved == Spec => RemovedForGood
  <1> DEFINE Gone == \A i \in Instances : closed_[i] /\ closed_'[i] => instance' # i /\ LeasesOf(i)' \subseteq LeasesOf(i)
  <1>1. ASSUME IInv, IInv', [Next]_vars, NEW i \in Instances, closed_[i], closed_'[i]
        PROVE  instance' # i /\ LeasesOf(i)' \subseteq LeasesOf(i)
    <2> USE <1>1
    <2>1. instance' # i
      BY NoInstanceAssumption DEF IInv, PartsInv
    <2>2. ASSUME NEW g \in Frames, pc'[g] = "transfer", inst'[g] = i PROVE pc[g] = "transfer" /\ inst[g] = i
      <3>1. CASE UNCHANGED vars
        BY <2>2, <3>1 DEF vars, frameVars
      <3>2. ASSUME NEW f \in Frames, Call(f) \/ Step(f) \/ EndTransfer(f) PROVE pc[g] = "transfer" /\ inst[g] = i
        <4>1. CASE StartTransfer(f) \/ StopWaiting(f)
          BY <2>2, <4>1 DEF StartTransfer, StopWaiting, acquire, Goto, Runs, IInv, TypeOK
        <4>2. CASE Call(f)
          BY <2>2, <4>2 DEF Call, hipObjInit, hipObjShutdown, currentInstance, Goto, CanCall, IInv, TypeOK
        <4>3. CASE systemPlatform(f) \/ LockInit(f) \/ CheckAgain(f) \/ LockShutdown(f) \/ unlock(f) \/ EndCall(f) \/ EndTransfer(f) \/ QueryDevice(f)
          BY <2>2, <4>3 DEF systemPlatform, LockInit, LockShutdown, Lock, CheckAgain, unlock, EndCall, EndTransfer,
                            QueryDevice, Goto, Runs, IInv, TypeOK
        <4>4. CASE open_device(f) \/ alloc_pd(f) \/ createToken(f) \/ createPool(f) \/ publish(f)
          BY <2>2, <4>4 DEF open_device, alloc_pd, createToken, Build, createPool, publish, Goto, Runs, IInv, TypeOK
        <4>5. CASE moveOut(f) \/ close(f)
          BY <2>2, <4>5 DEF moveOut, close, Goto, Runs, IInv, TypeOK
        <4>6. CASE letGo(f)
          BY <2>2, <4>6 DEF letGo, Done, frameVars, Goto, Runs, IInv, TypeOK
        <4>7. CASE destroy(f)
          BY <2>2, <4>7 DEF destroy, Done, frameVars, Goto, Runs, IInv, TypeOK
        <4> QED
          BY <3>2, <4>1, <4>2, <4>3, <4>4, <4>5, <4>6, <4>7 DEF Step
      <3> QED
        BY <3>1, <3>2 DEF Next
    <2>3. LeasesOf(i)' \subseteq LeasesOf(i)
      BY <2>2 DEF LeasesOf
    <2> QED
      BY <2>1, <2>3
  <1>2. IInv /\ IInv' /\ [Next]_vars => [Gone]_vars
    BY <1>1
  <1> HIDE DEF Gone
  <1>3. Spec => [][Gone]_vars
    BY <1>2, InitIInv, NextIInv, PTL DEF Spec
  <1> QED
    BY <1>3 DEF RemovedForGood, Gone
-----------------------------------------------------------------------------
(* Lifecycle implements InstanceLife *)

Closing(i) == \E f \in Frames : inst[f] = i /\ pc[f] = "close"
Retired(i) == parts[i] # <<>> /\ (closed_[i] \/ Closing(i))
UserOf(f, i) == f \in owners[i] /\ initMutex # f

\* A step that publishes, retires and releases nothing.
LEMMA SameLife ==
    ASSUME \A i \in Instances : (instance' = i <=> instance = i) /\ (instance # i => (Retired(i)' <=> Retired(i)))
    PROVE  life' = life
  <1> DEFINE L(i) == IF instance = i THEN "current" ELSE IF Retired(i) THEN "retired" ELSE "absent"
  <1>1. life = [i \in Instances |-> L(i)] /\ life' = [i \in Instances |-> L(i)']
    BY DEF life, Retired, Closing
  <1>2. \A i \in Instances : L(i)' = L(i)
    OBVIOUS
  <1> QED
    BY <1>1, <1>2

\* A step that does so to one instance.
LEMMA LifeChanges ==
    ASSUME NEW i \in Instances,
           \A k \in Instances \ {i} : (instance' = k <=> instance = k) /\ (Retired(k)' <=> Retired(k))
    PROVE  life' = [life EXCEPT ![i] = IF instance' = i THEN "current" ELSE IF Retired(i)' THEN "retired" ELSE "absent"]
  <1> DEFINE L(k) == IF instance = k THEN "current" ELSE IF Retired(k) THEN "retired" ELSE "absent"
  <1>1. life = [k \in Instances |-> L(k)] /\ life' = [k \in Instances |-> L(k)']
    BY DEF life, Retired, Closing
  <1>2. \A k \in Instances \ {i} : L(k)' = L(k)
    OBVIOUS
  <1>3. L(i)' = IF instance' = i THEN "current" ELSE IF Retired(i)' THEN "retired" ELSE "absent"
    OBVIOUS
  <1> HIDE DEF L
  <1> QED
    BY <1>1, <1>2, <1>3

\* A step by which no call starts or stops using an instance.
LEMMA SameUsers ==
    ASSUME \A i \in Instances, f \in Frames : UserOf(f, i)' <=> UserOf(f, i)
    PROVE  users' = users
  BY DEF users, UserOf

\* Most steps change none of what InstanceLife sees.
LEMMA Unseen ==
    ASSUME IInv, NEW f \in Frames,
           \/ hipObjInit(f) \/ systemPlatform(f) \/ LockInit(f) \/ CheckAgain(f) \/ QueryDevice(f)
           \/ hipObjShutdown(f) \/ LockShutdown(f) \/ unlock(f)
           \/ StartTransfer(f) \/ StopWaiting(f) \/ EndCall(f) \/ EndTransfer(f)
    PROVE  UNCHANGED <<life, users>>
  <1>1. /\ UNCHANGED <<inst, instance, owners, parts, closed_>>
        /\ \E label \in PC \ {"close"} : pc' = [pc EXCEPT ![f] = label]
        /\ pc[f] # "close"
    BY DEF hipObjInit, systemPlatform, LockInit, LockShutdown, Lock, CheckAgain, QueryDevice, hipObjShutdown, unlock,
           StartTransfer, StopWaiting, acquire, EndCall, EndTransfer, Goto, Runs, CanCall, currentVars, instVars,
           PC, Building, Using
  <1>2. initMutex' # initMutex => pc[f] \in {"lockInit", "lockShutdown", "unlock"} /\ initMutex \in {f, Global} /\ initMutex' \in {f, Global}
    BY DEF IInv, FrameInv, FrameOK, Locked, hipObjInit, systemPlatform, LockInit, LockShutdown, Lock, CheckAgain,
           QueryDevice, hipObjShutdown, unlock, StartTransfer, StopWaiting, acquire, EndCall, EndTransfer, Runs, currentVars
  <1>3. life' = life
    <2>1. \A g \in Frames : pc'[g] = "close" <=> pc[g] = "close"
      BY <1>1 DEF IInv, TypeOK
    <2> QED
      BY <1>1, <2>1, SameLife DEF Retired, Closing
  <1>4. users' = users
    <2>1. CASE initMutex' = initMutex
      BY <1>1, <2>1, SameUsers DEF UserOf
    <2>2. CASE initMutex' # initMutex
      <3>1. \A i \in Instances : f \notin owners[i]
        BY <1>2, <2>2 DEF IInv, OwnersInv, Holding, Using
      <3> QED
        BY <1>1, <1>2, <2>2, <3>1, SameUsers, GlobalIsNoFrame DEF UserOf
    <2> QED
      BY <2>1, <2>2
  <1> QED
    BY <1>3, <1>4

\* Building an instance, which InstanceLife does not see until it is published.
LEMMA UnseenBuilding ==
    ASSUME IInv, NEW f \in Frames, open_device(f) \/ alloc_pd(f) \/ createToken(f) \/ createPool(f)
    PROVE  UNCHANGED <<life, users>>
  <1>1. /\ pc[f] \in Building /\ pc[f] # "publish" /\ UNCHANGED <<instance, initMutex>>
        /\ \E label \in PC \ {"close"} : pc' = [pc EXCEPT ![f] = label]
    <2>1. CASE open_device(f)
      BY <2>1 DEF open_device, Goto, Runs, currentVars, Building, PC
    <2>2. CASE alloc_pd(f) \/ createToken(f)
      BY <2>2 DEF alloc_pd, createToken, Build, Goto, Runs, currentVars, Building, PC
    <2>3. CASE createPool(f)
      <3>1. pc[f] = "connect" /\ UNCHANGED <<instance, initMutex>> /\ pc \in [Frames -> PC]
        BY <2>3 DEF createPool, Runs, currentVars, IInv, TypeOK
      <3>2. pc' = pc \/ pc' = [pc EXCEPT ![f] = "destroy"] \/ pc' = [pc EXCEPT ![f] = "publish"]
        BY <2>3 DEF createPool, Goto
      <3>3. \E label \in {"connect", "destroy", "publish"} : pc' = [pc EXCEPT ![f] = label]
        BY <3>1, <3>2
      <3> QED
        BY <3>1, <3>3 DEF Building, PC
    <2> QED
      BY <2>1, <2>2, <2>3
  <1>2. instance = NoInstance /\ initMutex = f
    BY <1>1 DEF IInv, FrameInv, FrameOK, Locked
  <1>3. \A g \in Frames : pc[g] # "close" /\ pc'[g] # "close"
    <2>1. \A g \in Frames \ {f} : pc[g] \notin Locked
      BY <1>2 DEF IInv, FrameInv, FrameOK
    <2> QED
      BY <1>1, <2>1 DEF IInv, TypeOK, Locked, Building
  <1>4. \A i \in Instances : Retired(i)' <=> Retired(i)
    <2>1. CASE open_device(f)
      <3>1. CASE UNCHANGED <<parts, closed_>>
        BY <1>3, <3>1 DEF Retired, Closing
      <3>2. ASSUME NEW k \in Instances, Unused(k), parts' = [parts EXCEPT ![k] = <<"context">>],
                   closed_' = [closed_ EXCEPT ![k] = FALSE]
            PROVE  \A i \in Instances : Retired(i)' <=> Retired(i)
        <4>1. parts[k] = <<>> /\ ~closed_'[k] /\ \A i \in Instances \ {k} : parts'[i] = parts[i] /\ closed_'[i] = closed_[i]
          BY <3>2 DEF Unused, IInv, TypeOK
        <4> QED
          BY <1>3, <4>1 DEF Retired, Closing
      <3> QED
        BY <2>1, <3>1, <3>2 DEF open_device
    <2>2. CASE alloc_pd(f) \/ createToken(f) \/ createPool(f)
      <3>1. pc[f] # "open_device" /\ UNCHANGED closed_
        BY <2>2 DEF alloc_pd, createToken, Build, createPool, Runs
      <3>2. inst[f] \in Instances /\ ~closed_[inst[f]]
        BY <1>1, <3>1 DEF IInv, TypeOK, FrameInv, FrameOK, Holding, Alone, Building
      <3>3. \A i \in Instances \ {inst[f]} : parts'[i] = parts[i]
        BY <2>2, <3>2 DEF alloc_pd, createToken, Build, createPool, IInv, TypeOK
      <3> QED
        BY <1>3, <3>1, <3>2, <3>3 DEF Retired, Closing
    <2> QED
      BY <2>1, <2>2
  <1>5. \A i \in Instances, g \in Frames : UserOf(g, i)' <=> UserOf(g, i)
    <2>1. \A i \in Instances, g \in Frames \ {f} : g \in owners'[i] <=> g \in owners[i]
      <3>1. CASE UNCHANGED owners
        BY <3>1
      <3>2. CASE createPool(f) /\ owners' = [owners EXCEPT ![inst[f]] = {f}]
        <4>1. inst[f] \in Instances /\ owners[inst[f]] = {}
          BY <3>2 DEF createPool, Runs, IInv, TypeOK, FrameInv, FrameOK, AloneInv, AloneOK, Alone
        <4> QED
          BY <3>2, <4>1 DEF IInv, TypeOK
      <3> QED
        BY <3>1, <3>2 DEF open_device, alloc_pd, createToken, Build, createPool
    <2> QED
      BY <1>1, <1>2, <2>1 DEF UserOf
  <1> QED
    BY <1>1, <1>4, <1>5, SameLife, SameUsers

\* publish() and moveOut() are InstanceLife's Publish and Retire.
LEMMA SeenChanges ==
    ASSUME IInv, NEW f \in Frames, publish(f) \/ moveOut(f)
    PROVE  Promise!Next \/ UNCHANGED <<life, users>>
  <1>1. pc[f] \in Locked /\ UNCHANGED <<initMutex, parts, closed_>>
    BY DEF publish, moveOut, Runs, Locked, Building
  <1>2. initMutex = f
    BY <1>1 DEF IInv, FrameInv, FrameOK
  <1>3. \A g \in Frames : pc[g] # "close"
    <2>1. \A g \in Frames \ {f} : pc[g] \notin Locked
      BY <1>2 DEF IInv, FrameInv, FrameOK
    <2> QED
      BY <2>1 DEF publish, moveOut, Runs, Locked
  <1>4. users' = users
    <2>1. \A i \in Instances, g \in Frames \ {f} : g \in owners'[i] <=> g \in owners[i]
      <3>1. CASE UNCHANGED owners
        BY <3>1
      <3>2. ASSUME NEW k \in Instances,
                   \/ owners' = [owners EXCEPT ![k] = (@ \ {f}) \cup {Global}]
                   \/ owners' = [owners EXCEPT ![k] = (@ \ {Global}) \cup {f}]
            PROVE  \A i \in Instances, g \in Frames \ {f} : g \in owners'[i] <=> g \in owners[i]
        <4>1. /\ \A i \in Instances \ {k} : owners'[i] = owners[i]
              /\ owners'[k] = (owners[k] \ {f}) \cup {Global} \/ owners'[k] = (owners[k] \ {Global}) \cup {f}
          BY <3>2 DEF IInv, TypeOK
        <4>2. ASSUME NEW g \in Frames \ {f} PROVE g \in owners'[k] <=> g \in owners[k]
          <5>1. g # f /\ g # Global
            BY GlobalIsNoFrame
          <5> QED
            BY <4>1, <5>1
        <4> QED
          BY <4>1, <4>2
      <3>3. publish(f) => inst[f] \in Instances
        BY DEF publish, Runs, IInv, TypeOK, FrameInv, FrameOK, Holding
      <3>4. moveOut(f) => instance \in Instances \cup {NoInstance}
        BY DEF IInv, TypeOK
      <3>5. CASE publish(f)
        <4>1. PICK k \in Instances : k = inst[f]
          BY <3>3, <3>5
        <4>2. UNCHANGED owners \/ owners' = [owners EXCEPT ![k] = (@ \ {f}) \cup {Global}]
          BY <3>5, <4>1 DEF publish
        <4> QED
          BY <3>1, <3>2, <4>2
      <3>6. CASE moveOut(f) /\ instance = NoInstance
        BY <3>1, <3>6 DEF moveOut
      <3>7. CASE moveOut(f) /\ instance # NoInstance
        BY <3>2, <3>4, <3>7 DEF moveOut
      <3> QED
        BY <3>5, <3>6, <3>7
    <2> QED
      BY <1>1, <1>2, <2>1, SameUsers DEF UserOf
  <1>5. CASE UNCHANGED instance
    <2>1. \A g \in Frames : pc'[g] # "close"
      BY <1>3, <1>5 DEF publish, moveOut, Runs, Goto, IInv, TypeOK, FrameInv, FrameOK, Building, Holding
    <2> QED
      BY <1>1, <1>3, <1>4, <1>5, <2>1, SameLife DEF Retired, Closing
  <1>6. CASE publish(f) /\ ~UNCHANGED instance
    <2>1. PICK i \in Instances : i = inst[f]
      BY <1>6 DEF publish, Runs, IInv, TypeOK, FrameInv, FrameOK, Holding
    <2>2. instance' = i /\ instance = NoInstance /\ ~closed_[i] /\ pc' = [pc EXCEPT ![f] = "unlock"]
      BY <1>6, <2>1, NoInstanceAssumption DEF publish, Runs, Goto, IInv, FrameInv, FrameOK, Building
    <2>3. \A g \in Frames : pc'[g] # "close"
      BY <1>3, <2>2 DEF IInv, TypeOK
    <2>4. \A k \in Instances : Retired(k)' <=> Retired(k)
      BY <1>1, <1>3, <2>3 DEF Retired, Closing
    <2>5. ~Retired(i)
      BY <1>3, <2>2 DEF Retired, Closing
    <2>6. life[i] = "absent" /\ \A k \in Instances : life[k] # "current"
      BY <2>2, <2>5, NoInstanceAssumption DEF life, Retired, Closing
    <2>7. life' = [life EXCEPT ![i] = "current"]
      BY <2>2, <2>4, NoInstanceAssumption, LifeChanges
    <2>8. Promise!Publish(i)
      BY <1>4, <2>6, <2>7 DEF Promise!Publish
    <2> QED
      BY <2>8 DEF Promise!Next
  <1>7. CASE moveOut(f) /\ ~UNCHANGED instance
    <2>1. PICK i \in Instances : i = instance
      BY <1>7 DEF moveOut, IInv, TypeOK
    <2>2. instance' = NoInstance /\ pc' = [pc EXCEPT ![f] = "close"] /\ inst' = [inst EXCEPT ![f] = i] /\ i # NoInstance
      BY <1>7, <2>1, NoInstanceAssumption DEF moveOut, Goto
    <2>3. pc'[f] = "close" /\ inst'[f] = i /\ \A g \in Frames \ {f} : pc'[g] # "close"
      BY <1>3, <2>2 DEF IInv, TypeOK
    <2>4. parts[i] # <<>>
      <3>1. parts[i] = Plan
        BY <2>1 DEF IInv, OwnersInv, PartsInv
      <3> QED
        BY <3>1, PlanFacts
    <2>5. Retired(i)' /\ \A k \in Instances \ {i} : Retired(k)' <=> Retired(k)
      BY <1>1, <1>3, <2>3, <2>4 DEF Retired, Closing
    <2>6. life[i] = "current"
      BY <2>1 DEF life
    <2>7. life' = [life EXCEPT ![i] = "retired"]
      BY <2>1, <2>2, <2>5, NoInstanceAssumption, LifeChanges
    <2>8. Promise!Retire(i)
      BY <1>4, <2>6, <2>7 DEF Promise!Retire
    <2> QED
      BY <2>8 DEF Promise!Next
  <1> QED
    BY <1>5, <1>6, <1>7

\* close() leaves an instance retired.
LEMMA CloseUnseen == ASSUME IInv, NEW f \in Frames, close(f) PROVE UNCHANGED <<life, users>>
  <1>1. /\ pc[f] = "close" /\ UNCHANGED <<inst, instance, initMutex, owners, parts>>
        /\ pc' = [pc EXCEPT ![f] = "letGo"] /\ closed_' = [closed_ EXCEPT ![inst[f]] = TRUE]
    BY DEF close, Runs, Goto, currentVars
  <1>2. inst[f] \in Instances
    BY <1>1 DEF IInv, TypeOK
  <1>3. \A i \in Instances : Retired(i)' <=> Retired(i)
    <2>1. \A i \in Instances \ {inst[f]} : closed_'[i] = closed_[i] /\ (Closing(i)' <=> Closing(i))
      BY <1>1, <1>2 DEF Closing, IInv, TypeOK
    <2>2. closed_'[inst[f]] /\ Closing(inst[f])
      BY <1>1, <1>2 DEF Closing, IInv, TypeOK
    <2> QED
      BY <1>1, <1>2, <2>1, <2>2 DEF Retired
  <1> QED
    BY <1>1, <1>3, SameLife, SameUsers DEF UserOf

\* A call starts to use the instance it finds.
LEMMA FindSeen == ASSUME IInv, NEW f \in Frames, currentInstance(f) PROVE Promise!Next \/ UNCHANGED <<life, users>>
  <1>1. PICK i \in Instances : i = instance
    BY DEF currentInstance, IInv, TypeOK
  <1>2. /\ UNCHANGED <<instance, initMutex, parts, closed_>> /\ pc[f] = "idle" /\ pc' = [pc EXCEPT ![f] = "use"]
        /\ inst' = [inst EXCEPT ![f] = i] /\ owners' = [owners EXCEPT ![i] = @ \cup {f}]
    BY <1>1 DEF currentInstance, CanCall, Goto, currentVars
  <1>3. life' = life
    <2>1. \A g \in Frames : (pc'[g] = "close" <=> pc[g] = "close") /\ (pc[g] = "close" => inst'[g] = inst[g])
      BY <1>2 DEF IInv, TypeOK
    <2> QED
      BY <1>2, <2>1, SameLife DEF Retired, Closing
  <1>4. CASE initMutex = f
    <2>1. \A k \in Instances, g \in Frames : UserOf(g, k)' <=> UserOf(g, k)
      BY <1>2, <1>4 DEF UserOf, IInv, TypeOK
    <2> QED
      BY <1>3, <2>1, SameUsers
  <1>5. CASE initMutex # f
    <2>1. users' = [users EXCEPT ![i] = @ \cup {f}]
      BY <1>2, <1>5 DEF users, IInv, TypeOK
    <2>2. life[i] = "current"
      BY <1>1 DEF life
    <2>3. Promise!Enter(f, i)
      BY <1>3, <2>1, <2>2 DEF Promise!Enter
    <2> QED
      BY <2>3 DEF Promise!Next
  <1> QED
    BY <1>4, <1>5

\* A call that lets its instance go stops using it.
LEMMA LetGoSeen == ASSUME IInv, NEW f \in Frames, letGo(f) PROVE Promise!Next \/ UNCHANGED <<life, users>>
  <1>1. PICK i \in Instances : i = inst[f]
    BY DEF letGo, Runs, IInv, TypeOK
  <1>2. /\ UNCHANGED <<instance, initMutex, parts, closed_>> /\ pc[f] = "letGo"
        /\ owners' = [owners EXCEPT ![i] = @ \ {f}]
        /\ \E label \in {"destroy", "unlock", "idle"} : pc' = [pc EXCEPT ![f] = label]
        /\ inst' = inst \/ inst' = [inst EXCEPT ![f] = NoInstance]
    BY <1>1 DEF letGo, Runs, Done, Goto, currentVars
  <1>3. life' = life
    <2>1. \A g \in Frames : (pc'[g] = "close" <=> pc[g] = "close") /\ (pc[g] = "close" => inst'[g] = inst[g])
      BY <1>2 DEF IInv, TypeOK
    <2> QED
      BY <1>2, <2>1, SameLife DEF Retired, Closing
  <1>4. users' = [users EXCEPT ![i] = @ \ {f}]
    BY <1>2 DEF users, IInv, TypeOK
  <1>5. Promise!Leave(f, i)
    BY <1>3, <1>4 DEF Promise!Leave
  <1> QED
    BY <1>5 DEF Promise!Next
\* Destroying the last part of an instance releases it, when no call uses it.
LEMMA DestroySeen == ASSUME IInv, NEW f \in Frames, destroy(f) PROVE Promise!Next \/ UNCHANGED <<life, users>>
  <1>1. PICK i \in Instances : i = inst[f]
    BY DEF destroy, Runs, IInv, TypeOK
  <1>2. /\ UNCHANGED <<instance, initMutex, owners, closed_>> /\ pc[f] = "destroy"
        /\ parts' = [parts EXCEPT ![i] = Front(@)]
        /\ (pc' = pc /\ inst' = inst) \/ pc' = [pc EXCEPT ![f] = "unlock"] \/ pc' = [pc EXCEPT ![f] = "idle"]
    BY <1>1 DEF destroy, Runs, Done, Goto, currentVars, frameVars
  <1>3. owners[i] = {} /\ (\A g \in Frames \ {f} : inst[g] # i) /\ parts[i] # <<>>
    <2>1. owners[i] = {} /\ (\A g \in Frames \ {f} : inst[g] # i) /\ Len(parts[i]) >= 1
      BY <1>1, <1>2 DEF IInv, AloneInv, AloneOK, FrameInv, FrameOK, BuiltAt, Alone
    <2>2. ASSUME parts[i] = <<>> PROVE FALSE
      <3>1. Len(parts[i]) = 0
        BY <2>2
      <3> QED
        BY <2>1, <3>1
    <2> QED
      BY <2>1, <2>2
  <1>4. instance # i
    BY <1>3 DEF IInv, OwnersInv
  <1>5. users' = users
    BY <1>2, SameUsers DEF UserOf
  <1>6. (\A g \in Frames : pc'[g] = "close" <=> pc[g] = "close") /\ (\A g \in Frames \ {f} : inst'[g] = inst[g]) /\ pc'[f] # "close"
    BY <1>2 DEF destroy, Done, frameVars, IInv, TypeOK
  <1>7. \A k \in Instances \ {i} : Retired(k)' <=> Retired(k)
    <2>1. \A k \in Instances \ {i} : parts'[k] = parts[k]
      BY <1>2 DEF IInv, TypeOK
    <2>2. \A k \in Instances : Closing(k)' <=> Closing(k)
      BY <1>2, <1>6 DEF Closing
    <2> QED
      BY <1>2, <2>1, <2>2 DEF Retired
  <1>8. ~Closing(i) /\ ~Closing(i)'
    BY <1>1, <1>2, <1>3, <1>6 DEF Closing
  <1>9. CASE Retired(i)' <=> Retired(i)
    BY <1>2, <1>5, <1>7, <1>9, SameLife
  <1>10. CASE Retired(i) /\ ~Retired(i)'
    <2>1. life[i] = "retired"
      BY <1>4, <1>10 DEF life, Retired, Closing
    <2>2. life' = [life EXCEPT ![i] = "absent"]
      BY <1>2, <1>4, <1>7, <1>10, LifeChanges
    <2>3. users[i] = {}
      BY <1>3 DEF users
    <2>4. Promise!Release(i)
      BY <1>5, <2>1, <2>2, <2>3 DEF Promise!Release
    <2> QED
      BY <2>4 DEF Promise!Next
  <1>11. Retired(i)' => Retired(i)
    BY <1>2, <1>3, <1>8 DEF Retired
  <1> QED
    BY <1>9, <1>10, <1>11

\* initMutex, the two checks of the current instance and the shared pointers (state.cpp) implement InstanceLife:
\* there's never more than one current instance, and it's released, once, when no call uses it.
THEOREM ImplementsInstanceLife == Spec => InstanceLifeSpec
  <1>1. Init => Promise!Init
    <2> SUFFICES ASSUME Init PROVE Promise!Init
      OBVIOUS
    <2>1. life = [i \in Instances |-> "absent"]
      BY NoInstanceAssumption DEF Init, life
    <2>2. users = [i \in Instances |-> {}]
      BY DEF Init, users
    <2> QED
      BY <2>1, <2>2 DEF Promise!Init
  <1>2. IInv /\ [Next]_vars => [Promise!Next]_(Promise!lifeVars)
    <2> SUFFICES ASSUME IInv, [Next]_vars PROVE Promise!Next \/ UNCHANGED <<life, users>>
      BY DEF Promise!lifeVars
    <2>1. CASE UNCHANGED vars
      BY <2>1 DEF vars, frameVars, currentVars, instVars, life, users
    <2>2. ASSUME NEW f \in Frames, Call(f) \/ Step(f) \/ EndTransfer(f)
          PROVE  Promise!Next \/ UNCHANGED <<life, users>>
      BY <2>2, Unseen, UnseenBuilding, SeenChanges, CloseUnseen, FindSeen, LetGoSeen, DestroySeen DEF Call, Step
    <2> QED
      BY <2>1, <2>2 DEF Next
  <1> QED
    BY <1>1, <1>2, InitIInv, NextIInv, PTL DEF Spec, InstanceLifeSpec, Promise!Spec
=============================================================================
