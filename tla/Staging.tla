------------------------------- MODULE Staging ------------------------------
(***************************************************************************)
(* The calls that use a registered buffer (hipObjGet, hipObjPut,           *)
(* hipObjBufSync, hipObjGetRdmaToken and hipObjBufDeregister in            *)
(* src/src/hipobj.cpp), the staging copies they make on the GPU, and the   *)
(* list of copies that timed out (src/src/abandoned-copies.cpp), over the  *)
(* map of BufferMap, until the instance that holds them is destroyed.      *)
(*                                                                         *)
(* A copy runs on the GPU from memcpyAsync() until the GPU ends it, which  *)
(* may be never. Which connection a transfer leases is ConnectionPool's    *)
(* matter: here a transfer is the step in which the NIC uses the buffer.   *)
(***************************************************************************)
EXTENDS BufferMap, FiniteSetsExt, SequencesExt

CONSTANTS
  Parts,           \* disjoint parts of a buffer, numbered from 1
  Copies,          \* bound: the copies, and the events, that exist at once
  NoCopy,          \* no event; no copy
  RecordCanFail    \* whether eventRecord() can fail after memcpyAsync() worked

ASSUME PartsAssumption == Parts \subseteq Nat \ {0}
ASSUME NoCopyAssumption == NoCopy \notin Copies
ASSUME RecordCanFailAssumption == RecordCanFail \in BOOLEAN

VARIABLES
  todo,        \* what each call has left to do with its buffer, in order
  part,        \* the part of a staging buffer a call uses, or NoPart
  done,        \* done[c]: the event of the copy that call c waits for
  over,        \* over[c]: the copies c took off the list and hasn't released
  gpu,         \* gpu[x]: the entry and part that copy x, still running, uses
  copies_,     \* the copies that timed out, each with its entry and event
  reserved_,   \* the room set aside in copies_ for copies that may time out
  capacity,    \* copies_.capacity()
  leakHostBuf, \* leakHostBuf[e]: a copy may outlive the entry
  phase        \* "up", or the member of the instance being destroyed

listVars == <<copies_, reserved_, capacity>>
endVars == <<leakHostBuf, phase>>
stageVars == <<todo, part, done, over, gpu, listVars, endVars>>
vars == <<mapVars, stageVars>>

NoPart == 0

\* What each function does between find() and its return. Only Get and Put lease
\* a connection; a buffer the NIC reaches itself is neither checked nor copied.
Check == <<"running", "release">>
Stage == <<"reserve", "start", "query", "slot">>
Transfer == <<"transfer">>
Body(f, staged) ==
  CASE f = "Get"   -> IF staged THEN Check \o Transfer \o Stage ELSE Transfer
    [] f = "Put"   -> IF staged THEN Check \o Stage \o Transfer ELSE Transfer
    [] f = "Sync"  -> IF staged THEN Check \o Stage ELSE <<>>
    [] f = "Token" -> IF staged THEN Check ELSE <<>>

\* The next thing call c does is label
At(c, label) == todo[c] # <<>> /\ Head(todo[c]) = label
Do(c) == todo' = [todo EXCEPT ![c] = Tail(@)]
\* The call returns an error after the given clean-up
Fail(c, cleanup) == todo' = [todo EXCEPT ![c] = cleanup]

Init ==
  /\ MapInit
  /\ todo = [c \in Calls |-> <<>>]
  /\ part = [c \in Calls |-> NoPart]
  /\ done = [c \in Calls |-> NoCopy]
  /\ over = [c \in Calls |-> <<>>]
  /\ gpu = [x \in Copies |-> NoCopy]
  /\ copies_ = <<>> /\ reserved_ = 0 /\ capacity = 0
  /\ leakHostBuf = [e \in Entries |-> FALSE]
  /\ phase = "up"

-----------------------------------------------------------------------------
(* The GPU *)

\* A copy ends, whether it finished or failed
GpuEnds(x) ==
  /\ gpu[x] # NoCopy
  /\ gpu' = [gpu EXCEPT ![x] = NoCopy]
  /\ UNCHANGED <<mapVars, todo, part, done, over, listVars, endVars>>

\* An event nothing owns, and that no copy still runs under
FreshCopy(x) ==
  /\ gpu[x] = NoCopy
  /\ \A c \in Calls : done[c] # x /\ \A i \in DOMAIN over[c] : over[c][i].done # x
  /\ \A i \in DOMAIN copies_ : copies_[i].done # x

-----------------------------------------------------------------------------
(* AbandonedCopies *)

\* eventQuery() no longer says hipErrorNotReady
isOver(copy) == gpu[copy.done] = NoCopy

\* release(entry), with the lock held: the copies that are over, those of every
\* entry when it's null, move from the list to the caller's own
release(c, entry) ==
  LET Gone(copy) == (entry = NoEntry \/ copy.entry = entry) /\ isOver(copy)
      Kept(copy) == ~Gone(copy)
  IN /\ over' = [over EXCEPT ![c] = SelectSeq(copies_, Gone)]
     /\ copies_' = SelectSeq(copies_, Kept)

\* The result of running(), which the same pass over the list finds
StillRunning(entry) ==
  \E i \in DOMAIN copies_ : copies_[i].entry = entry /\ ~isOver(copies_[i])

\* The counts once the copies in list have released their entries
Released(list) ==
  [e \in Entries |-> use_count[e] - Cardinality({i \in DOMAIN list : list[i].entry = e})]

\* The end of release(), without the lock. NothingLeaks and AbandonedStay
\* show that these are never the last owners of an entry.
ReleaseOver(c) ==
  /\ At(c, "release")
  /\ use_count' = Released(over[c])
  /\ over' = [over EXCEPT ![c] = <<>>]
  /\ Do(c)
  /\ UNCHANGED <<pc, key, ref, entries_, mr, hostBuf, part, done, gpu, listVars, endVars>>

\* reserve(), which fails if the list can't grow
reserve(c) ==
  LET needed == Len(copies_) + reserved_ + 1
  IN /\ At(c, "reserve")
     /\ \/ /\ capacity' = IF needed > capacity
                          THEN Max({needed, capacity + (capacity \div 2)}) ELSE capacity
           /\ reserved_' = reserved_ + 1
           /\ Do(c)
        \/ needed > capacity /\ Fail(c, <<>>) /\ UNCHANGED <<capacity, reserved_>>
     /\ UNCHANGED <<mapVars, part, done, over, gpu, copies_, endVars>>

\* Slot::~Slot(), of a slot that add() didn't use
GiveRoomBack(c) ==
  /\ At(c, "slot")
  /\ reserved_' = reserved_ - 1
  /\ Do(c)
  /\ UNCHANGED <<mapVars, part, done, over, gpu, copies_, capacity, endVars>>

\* Mutant of add: the copy doesn't own its entry
addUnowned(c) ==
  /\ copies_' = Append(copies_, [entry |-> ref[c], done |-> done[c]])
  /\ reserved_' = reserved_ - 1
  /\ UNCHANGED <<capacity, use_count>>

\* add(): the copy, its event and a pointer to its entry join the list
add(c) ==
  /\ copies_' = Append(copies_, [entry |-> ref[c], done |-> done[c]])
  /\ use_count' = [use_count EXCEPT ![ref[c]] = @ + 1]
  /\ reserved_' = reserved_ - 1
  /\ UNCHANGED capacity

-----------------------------------------------------------------------------
(* stageCopyWithDeadline() *)


StartCopy(c) ==
  /\ At(c, "start")
  /\ \/ \* eventCreate() or memcpyAsync() fails
        Fail(c, <<"slot">>) /\ UNCHANGED <<done, gpu>>
     \/ \E x \in Copies :
          /\ FreshCopy(x)
          /\ gpu' = [gpu EXCEPT ![x] = <<ref[c], part[c]>>]
          /\ \/ done' = [done EXCEPT ![c] = x] /\ Do(c)
             \/ \* eventRecord() fails, and the event is destroyed
                RecordCanFail /\ Fail(c, <<"slot">>) /\ UNCHANGED done
  /\ UNCHANGED <<mapVars, part, over, listVars, endVars>>

\* The copy is over: it succeeded, or it failed
CopyEnds(c) ==
  /\ At(c, "query")
  /\ gpu[done[c]] = NoCopy
  /\ Do(c) \/ Fail(c, <<"slot">>)
  /\ done' = [done EXCEPT ![c] = NoCopy]
  /\ UNCHANGED <<mapVars, part, over, gpu, listVars, endVars>>

\* Mutant of CopyTimesOut: the copy is given up on and not handed over
TimeOutUntracked(c) ==
  /\ At(c, "query")
  /\ Fail(c, <<"slot">>)
  /\ done' = [done EXCEPT ![c] = NoCopy]
  /\ UNCHANGED <<mapVars, part, over, gpu, listVars, endVars>>


\* The copy wasn't over when it was last queried, and the deadline is past. It
\* may end between the query and this.
CopyTimesOut(c) ==
  /\ At(c, "query")
  /\ add(c)
  /\ Fail(c, <<>>)
  /\ done' = [done EXCEPT ![c] = NoCopy]
  /\ UNCHANGED <<pc, key, ref, entries_, mr, hostBuf, part, over, gpu, endVars>>

-----------------------------------------------------------------------------
(* The calls *)

\* Calls in progress at once don't use the same part of a staging buffer: the
\* application's side of the contract. Token touches none.
StartUse(c, k, f, p) ==
  LET staged == entries_[k] # NoEntry /\ hostBuf[entries_[k]] # "none" IN
  /\ phase = "up"
  /\ find(c, k)
  /\ todo' = [todo EXCEPT ![c] = Body(f, staged)]
  /\ IF staged /\ f # "Token"
     THEN /\ \A d \in Calls : part[d] = p => key[d] # k
          /\ part' = [part EXCEPT ![c] = p]
     ELSE UNCHANGED part
  /\ UNCHANGED <<done, over, gpu, listVars, endVars>>

\* Mutant of CheckNoAbandonedCopy: the result of running() isn't used
CheckIgnored(c) ==
  /\ At(c, "running")
  /\ release(c, ref[c])
  /\ Do(c)
  /\ UNCHANGED <<mapVars, part, done, gpu, reserved_, capacity, endVars>>

\* checkNoAbandonedCopy()
CheckNoAbandonedCopy(c) ==
  /\ At(c, "running")
  /\ release(c, ref[c])
  /\ IF StillRunning(ref[c]) THEN Fail(c, <<"release">>) ELSE Do(c)
  /\ UNCHANGED <<mapVars, part, done, gpu, reserved_, capacity, endVars>>

\* runRdmaTransfer() ends
EndTransfer(c) ==
  /\ At(c, "transfer")
  /\ Do(c) \/ Fail(c, <<>>)
  /\ UNCHANGED <<mapVars, part, done, over, gpu, listVars, endVars>>

EndUse(c) ==
  /\ todo[c] = <<>>
  /\ LetGo(c)
  /\ part' = [part EXCEPT ![c] = NoPart]
  /\ UNCHANGED <<todo, done, over, gpu, listVars, endVars>>

\* hipObjBufDeregister(): reclaim(), and then deregisterBuffer()
StartBufDeregister(c, k) ==
  /\ phase = "up"
  /\ StartDeregister(c, k)
  /\ todo' = [todo EXCEPT ![c] = <<"reclaim", "release">>]
  /\ UNCHANGED <<part, done, over, gpu, listVars, endVars>>

reclaim(c) ==
  /\ At(c, "reclaim")
  /\ release(c, NoEntry)
  /\ Do(c)
  /\ UNCHANGED <<mapVars, part, done, gpu, reserved_, capacity, endVars>>

\* Registering, and deregistering once reclaim() is done, are the map's steps
MapCall(c) ==
  /\ todo[c] = <<>>
  /\ phase = "up"
  /\ MapStep(c)
  /\ UNCHANGED stageVars

-----------------------------------------------------------------------------
(* The instance is destroyed once no call holds it: first abandoned, and then   *)
(* buffers. The next one starts empty.                                          *)

\* Mutant of DestroyAbandoned: the copies still running are released too
DestroyAbandonedUnleaked ==
  /\ phase = "up"
  /\ \A c \in Calls : pc[c] = "idle"
  /\ use_count' = Released(copies_)
  /\ copies_' = <<>> /\ capacity' = 0
  /\ phase' = "buffers"
  /\ UNCHANGED <<pc, key, ref, entries_, mr, hostBuf, todo, part, done, over, gpu, reserved_, leakHostBuf>>

DestroyAbandoned ==
  /\ phase = "up"
  /\ \A c \in Calls : pc[c] = "idle"
  /\ leakHostBuf' = [e \in Entries |-> leakHostBuf[e] \/ StillRunning(e)]
  /\ use_count' = Released(copies_)
  /\ copies_' = <<>> /\ capacity' = 0
  /\ phase' = "buffers"
  /\ UNCHANGED <<pc, key, ref, entries_, mr, hostBuf, todo, part, done, over, gpu, reserved_>>

\* Mutant of DestroyMr: the staging buffer is freed first
DestroyMrLast(k) ==
  LET e == entries_[k] IN
  /\ phase = "buffers"
  /\ e # NoEntry /\ hostBuf[e] = "live"
  /\ hostBuf' = [hostBuf EXCEPT ![e] = IF leakHostBuf[e] THEN "leaked" ELSE "none"]
  /\ UNCHANGED <<pc, key, ref, entries_, use_count, mr, stageVars>>

\* ~BufEntry(): the staging buffer is let go if it has to be leaked, and the
\* MR is deregistered
DestroyMr(k) ==
  LET e == entries_[k] IN
  /\ phase = "buffers"
  /\ e # NoEntry /\ mr[e] # "none"
  /\ hostBuf' = [hostBuf EXCEPT ![e] = IF leakHostBuf[e] THEN "leaked" ELSE @]
  /\ mr' = [mr EXCEPT ![e] = "none"]
  /\ UNCHANGED <<pc, key, ref, entries_, use_count, stageVars>>

\* ... and then a staging buffer that it still owns is freed
DestroyHostBuf(k) ==
  LET e == entries_[k] IN
  /\ phase = "buffers"
  /\ e # NoEntry /\ mr[e] = "none"
  /\ hostBuf' = [hostBuf EXCEPT ![e] = IF @ = "live" THEN "none" ELSE @]
  /\ use_count' = [use_count EXCEPT ![e] = @ - 1]
  /\ entries_' = [entries_ EXCEPT ![k] = NoEntry]
  /\ leakHostBuf' = [leakHostBuf EXCEPT ![e] = FALSE]
  /\ UNCHANGED <<pc, key, ref, mr, todo, part, done, over, gpu, listVars, phase>>

NextInstance ==
  /\ phase = "buffers" /\ Registered = {}
  /\ phase' = "up"
  /\ UNCHANGED <<mapVars, todo, part, done, over, gpu, listVars, leakHostBuf>>

-----------------------------------------------------------------------------
\* A step of a call that has started
CallStep(c) ==
  \/ MapCall(c) /\ pc[c] # "idle"
  \/ CheckNoAbandonedCopy(c) \/ reclaim(c) \/ ReleaseOver(c)
  \/ reserve(c) \/ StartCopy(c) \/ CopyEnds(c) \/ CopyTimesOut(c) \/ GiveRoomBack(c)
  \/ EndTransfer(c) \/ EndUse(c)

StartCall(c) ==
  \/ MapCall(c) /\ pc[c] = "idle"
  \/ \E k \in Keys : StartBufDeregister(c, k)
  \/ \E k \in Keys, p \in Parts, f \in {"Get", "Put", "Sync", "Token"} : StartUse(c, k, f, p)

Next ==
  \/ \E c \in Calls : CallStep(c) \/ StartCall(c)
  \/ \E x \in Copies : GpuEnds(x)
  \/ DestroyAbandoned \/ NextInstance
  \/ \E k \in Keys : DestroyMr(k) \/ DestroyHostBuf(k)

Spec == Init /\ [][Next]_vars

\* A thread runs its call's steps: the callbacks and the NIC's deadline end a
\* transfer, and the staging deadline passes. The GPU promises nothing.
FairSpec == Spec /\ \A c \in Calls : WF_vars(CallStep(c))

-----------------------------------------------------------------------------
(* Properties *)

CopiesOf(e, list) == {i \in DOMAIN list : list[i].entry = e}

\* use_count, on which deregisterBuffer() decides, counts exactly the map, the
\* calls that hold the entry, the copies on the list, and those that release()
\* took off it and hasn't destroyed yet.
OwnersAreCounted ==
  \A e \in Entries :
    use_count[e] = Cardinality(KeysOf(e)) + Cardinality(Owners(e))
      + Cardinality(CopiesOf(e, copies_))
      + MapThenSumSet(LAMBDA c : Cardinality(CopiesOf(e, over[c])), Calls)

\* A running copy never uses freed memory: its staging buffer is neither freed
\* by a deregistration nor by the instance's end, however late the GPU is.
CopyUsesLiveMemory ==
  \A x \in Copies : gpu[x] # NoCopy => hostBuf[gpu[x][1]] # "none"

\* While a call copies or transfers a part of a staging buffer, no other copy of
\* that part is running: not one that timed out in an earlier call, nor one that
\* timed out after this call checked.
PartIsUnshared ==
  \A c \in Calls : At(c, "transfer") \/ At(c, "query") =>
    \A x \in Copies \ {done[c]} : gpu[x] # NoCopy => gpu[x] # <<ref[c], part[c]>>

\* "handing them over can't fail and leave a running copy untracked": every copy
\* that's running has an event that a call, the list, or a leak accounts for.
RunningCopiesAreTracked ==
  \A x \in Copies : gpu[x] # NoCopy =>
    \/ \E c \in Calls : done[c] = x
    \/ \E i \in DOMAIN copies_ : copies_[i].done = x
    \/ leakHostBuf[gpu[x][1]] \/ hostBuf[gpu[x][1]] = "leaked"


\* The entry of a copy that timed out stays registered until the copy has been
\* released, so releasing it, under whichever call, never destroys an entry.
AbandonedStay ==
  \A list \in {copies_} \cup Range(over) : \A i \in DOMAIN list : KeysOf(list[i].entry) # {}


=============================================================================
