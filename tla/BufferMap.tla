------------------------------ MODULE BufferMap -----------------------------
(***************************************************************************)
(* The registered buffers (src/src/buffer.h, src/src/buffer.cpp): a map    *)
(* from addresses to entries that shared_ptrs own, each entry with its     *)
(* memory region (MR) and, for a buffer the NIC can't reach, a host        *)
(* staging buffer.                                                         *)
(*                                                                         *)
(* The actors are the library calls in progress, on any threads; a call    *)
(* that a callback makes is one more of them. A critical section of mutex_ *)
(* is one step, and registering with the NIC, allocating, and releasing an *)
(* entry are steps outside it. A size or an address that is refused before *)
(* anything happens is left out.                                           *)
(***************************************************************************)
EXTENDS Integers, FiniteSets

CONSTANTS
  Calls,             \* the calls in progress at once
  Keys,              \* the addresses the application registers
  Entries,           \* bound: the BufEntry objects that exist at once
  NoEntry,           \* a null pointer to an entry
  kMaxEntries,       \* the most buffers registered at once
  requireGpuDirect_  \* HIPOBJ_REQUIRE_GPU_DIRECT

ASSUME CallsAssumption == IsFiniteSet(Calls)
ASSUME KeysAssumption == IsFiniteSet(Keys)
ASSUME NoEntryAssumption == NoEntry \notin Entries
ASSUME kMaxEntriesAssumption == kMaxEntries \in Nat
ASSUME requireGpuDirectAssumption == requireGpuDirect_ \in BOOLEAN

VARIABLES
  pc,         \* where each call is
  key,        \* the address each call was given
  ref,        \* ref[c]: the entry that call c's shared_ptr owns
  entries_,   \* the map, NoEntry at an address that isn't registered
  use_count,  \* use_count[e]: the shared_ptrs that own e
  mr,         \* the memory e's MR covers: the caller's ("direct"), "staging" or "none"
  hostBuf     \* e's staging buffer: "none", "live" or "leaked"

mapVars == <<pc, key, ref, entries_, use_count, mr, hostBuf>>

Registering == {"register", "registerHost", "stagingMr", "insert"}
Releasing == {"deregMr", "hostFree"}
MapPC == {"idle", "using", "deregister"} \cup Registering \cup Releasing

Registered == {k \in Keys : entries_[k] # NoEntry}
\* An entry no object uses, for the next one to be built as
Fresh(e) == e \in Entries /\ use_count[e] = 0 /\ mr[e] = "none" /\ hostBuf[e] = "none"

Goto(c, label) == pc' = [pc EXCEPT ![c] = label]

MapInit ==
  /\ pc = [c \in Calls |-> "idle"]
  /\ key \in [Calls -> Keys]
  /\ ref = [c \in Calls |-> NoEntry]
  /\ entries_ = [k \in Keys |-> NoEntry]
  /\ use_count = [e \in Entries |-> 0]
  /\ mr = [e \in Entries |-> "none"]
  /\ hostBuf = [e \in Entries |-> "none"]

-----------------------------------------------------------------------------
(* registerBuffer() and registerHostBuffer() *)

\* Why an entry can't be inserted at k: it's registered, or the map is full
refusal(k) == entries_[k] # NoEntry \/ Cardinality(Registered) >= kMaxEntries

\* precheck(), so a registration that's refused does nothing
StartRegister(c, k, how) ==
  /\ pc[c] = "idle"
  /\ key' = [key EXCEPT ![c] = k]
  /\ IF refusal(k) THEN UNCHANGED pc ELSE Goto(c, how)
  /\ UNCHANGED <<ref, entries_, use_count, mr, hostBuf>>

\* The entry e that call c builds, which its own pointers own until insert()
Build(c, e, covered, buf) ==
  /\ Fresh(e)
  /\ ref' = [ref EXCEPT ![c] = e]
  /\ use_count' = [use_count EXCEPT ![e] = 1]
  /\ mr' = [mr EXCEPT ![e] = covered]
  /\ hostBuf' = [hostBuf EXCEPT ![e] = buf]

\* The caller's memory is registered as it is: device memory, directly or as a
\* dma-buf, or host memory
RegisterDirect(c) ==
  /\ pc[c] \in {"register", "registerHost"}
  /\ \E e \in Entries : Build(c, e, "direct", "none")
  /\ Goto(c, "insert")
  /\ UNCHANGED <<key, entries_>>

\* The NIC can't reach the memory: a host registration fails, and so does one
\* of device memory that has to be GPU-direct
RegisterFails(c) ==
  /\ pc[c] \in {"register", "registerHost"}
  /\ Goto(c, "idle")
  /\ UNCHANGED <<key, ref, entries_, use_count, mr, hostBuf>>

\* ... or else a staging buffer is allocated
hostMalloc(c, isDevicePointer) ==
  /\ pc[c] = "register"
  /\ ~(isDevicePointer /\ requireGpuDirect_)
  /\ \E e \in Entries : Build(c, e, "none", "live")
  /\ Goto(c, "stagingMr")
  /\ UNCHANGED <<key, entries_>>

\* The staging buffer is registered, or freed if it can't be
RegisterStaging(c) ==
  /\ pc[c] = "stagingMr"
  /\ \/ mr' = [mr EXCEPT ![ref[c]] = "staging"] /\ Goto(c, "insert")
     \/ UNCHANGED mr /\ Goto(c, "deregMr")
  /\ UNCHANGED <<key, ref, entries_, use_count, hostBuf>>

\* Mutant of insert: refusal() isn't checked again with the lock held
insertUnchecked(c) ==
  /\ pc[c] = "insert"
  /\ entries_' = [entries_ EXCEPT ![key[c]] = ref[c]]
  /\ ref' = [ref EXCEPT ![c] = NoEntry]
  /\ Goto(c, "idle")
  /\ UNCHANGED <<key, use_count, mr, hostBuf>>

\* Mutant of insert: the entry of a registration that lost is forgotten
insertForgets(c) ==
  /\ pc[c] = "insert"
  /\ \/ /\ ~refusal(key[c])
        /\ entries_' = [entries_ EXCEPT ![key[c]] = ref[c]]
     \/ refusal(key[c]) /\ UNCHANGED entries_
  /\ ref' = [ref EXCEPT ![c] = NoEntry]
  /\ Goto(c, "idle")
  /\ UNCHANGED <<key, use_count, mr, hostBuf>>

\* insert(): the map's lock is held exclusively, and refusal() is checked again.
\* An entry that's refused, or that couldn't be built or inserted since an
\* allocation threw, is released after the lock is.
insert(c) ==
  /\ pc[c] = "insert"
  /\ \/ /\ ~refusal(key[c])
        /\ entries_' = [entries_ EXCEPT ![key[c]] = ref[c]]
        /\ ref' = [ref EXCEPT ![c] = NoEntry]
        /\ Goto(c, "idle")
     \/ /\ Goto(c, "deregMr")
        /\ UNCHANGED <<entries_, ref>>
  /\ UNCHANGED <<key, use_count, mr, hostBuf>>

-----------------------------------------------------------------------------
(* The end of an entry: its last shared_ptr is call c's. The MR is             *)
(* deregistered and then the staging buffer it covers is freed.                *)

deregMr(c) ==
  /\ pc[c] = "deregMr"
  /\ mr' = [mr EXCEPT ![ref[c]] = "none"]
  /\ Goto(c, "hostFree")
  /\ UNCHANGED <<key, ref, entries_, use_count, hostBuf>>

hostFree(c) ==
  /\ pc[c] = "hostFree"
  /\ hostBuf' = [hostBuf EXCEPT ![ref[c]] = "none"]
  /\ use_count' = [use_count EXCEPT ![ref[c]] = 0]
  /\ ref' = [ref EXCEPT ![c] = NoEntry]
  /\ Goto(c, "idle")
  /\ UNCHANGED <<key, entries_, mr>>

-----------------------------------------------------------------------------
(* deregisterBuffer() *)

\* Mutant of deregisterBuffer: it doesn't ask who else owns the entry
deregisterInUse(c) ==
  LET k == key[c] IN
  /\ pc[c] = "deregister"
  /\ IF entries_[k] = NoEntry
     THEN Goto(c, "idle") /\ UNCHANGED <<ref, entries_, use_count>>
     ELSE /\ entries_' = [entries_ EXCEPT ![k] = NoEntry]
          /\ IF use_count[entries_[k]] = 1
             THEN ref' = [ref EXCEPT ![c] = entries_[k]] /\ Goto(c, "deregMr") /\ UNCHANGED use_count
             ELSE /\ use_count' = [use_count EXCEPT ![entries_[k]] = @ - 1]
                  /\ Goto(c, "idle")
                  /\ UNCHANGED ref
  /\ UNCHANGED <<key, mr, hostBuf>>

\* Under the exclusive lock: nothing is removed when the address isn't
\* registered, or when anything but the map owns the entry
deregisterBuffer(c) ==
  LET k == key[c] IN
  /\ pc[c] = "deregister"
  /\ IF entries_[k] = NoEntry \/ use_count[entries_[k]] > 1
     THEN Goto(c, "idle") /\ UNCHANGED <<ref, entries_>>
     ELSE /\ ref' = [ref EXCEPT ![c] = entries_[k]]
          /\ entries_' = [entries_ EXCEPT ![k] = NoEntry]
          /\ Goto(c, "deregMr")
  /\ UNCHANGED <<key, use_count, mr, hostBuf>>

StartDeregister(c, k) ==
  /\ pc[c] = "idle"
  /\ key' = [key EXCEPT ![c] = k]
  /\ Goto(c, "deregister")
  /\ UNCHANGED <<ref, entries_, use_count, mr, hostBuf>>

-----------------------------------------------------------------------------
(* find(), by a call that uses the buffer until it lets go of its copy *)

find(c, k) ==
  /\ pc[c] = "idle"
  /\ entries_[k] # NoEntry
  /\ key' = [key EXCEPT ![c] = k]
  /\ ref' = [ref EXCEPT ![c] = entries_[k]]
  /\ use_count' = [use_count EXCEPT ![entries_[k]] = @ + 1]
  /\ Goto(c, "using")
  /\ UNCHANGED <<entries_, mr, hostBuf>>

\* The call ends; the last owner of an entry destroys it
LetGo(c) ==
  /\ pc[c] = "using"
  /\ IF use_count[ref[c]] = 1
     THEN Goto(c, "deregMr") /\ UNCHANGED <<ref, use_count>>
     ELSE /\ use_count' = [use_count EXCEPT ![ref[c]] = @ - 1]
          /\ ref' = [ref EXCEPT ![c] = NoEntry]
          /\ Goto(c, "idle")
  /\ UNCHANGED <<key, entries_, mr, hostBuf>>

-----------------------------------------------------------------------------
\* The steps that only the map's own calls take
MapStep(c) ==
  \/ \E k \in Keys, how \in {"register", "registerHost"} : StartRegister(c, k, how)
  \/ RegisterDirect(c) \/ RegisterFails(c)
  \/ \E isDevicePointer \in BOOLEAN : hostMalloc(c, isDevicePointer)
  \/ RegisterStaging(c) \/ insert(c)
  \/ deregisterBuffer(c) \/ deregMr(c) \/ hostFree(c)

MapNext ==
  \E c \in Calls :
    \/ MapStep(c)
    \/ \E k \in Keys : StartDeregister(c, k) \/ find(c, k)
    \/ LetGo(c)

MapSpec == MapInit /\ [][MapNext]_mapVars

-----------------------------------------------------------------------------
(* Properties of any specification that uses the map *)

Owners(e) == {c \in Calls : ref[c] = e}
KeysOf(e) == {k \in Keys : entries_[k] = e}

\* A buffer can't be deregistered while a call is using it: the entry find()
\* returned stays the one registered at its address, with its MR and its
\* staging buffer, until the call lets it go.
HeldStaysRegistered ==
  \A c \in Calls : pc[c] = "using" =>
    /\ entries_[key[c]] = ref[c]
    /\ mr[ref[c]] # "none"

\* The NIC can never reach freed memory: a staging buffer is freed only after
\* the MR that covers it is deregistered, on every path (a failed registration,
\* a lost race, a deregistration, an instance's end).
MrCoversLiveMemory ==
  \A e \in Entries : mr[e] = "staging" => hostBuf[e] # "none"

\* Nothing is leaked: what isn't registered and isn't owned by a call in
\* progress has neither an MR nor a staging buffer. The loser of a race to
\* register an address, and a failed registration, release all they made.
NothingLeaks ==
  \A e \in Entries : KeysOf(e) = {} /\ Owners(e) = {} => mr[e] = "none" /\ hostBuf[e] # "live"

\* However many calls pass precheck() at once, no more than kMaxEntries buffers
\* are ever registered.
NeverOverfull == Cardinality(Registered) <= kMaxEntries

\* A registration is only ever replaced by being deregistered first: the second
\* of two calls that register an address never overwrites the first's entry.
NeverOverwritten ==
  [][\A k \in Registered : entries_'[k] \in {entries_[k], NoEntry}]_mapVars

=============================================================================
