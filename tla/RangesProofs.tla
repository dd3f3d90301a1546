---------------------------- MODULE RangesProofs ----------------------------
(***************************************************************************)
(* The range properties of module Ranges, for every word size and every    *)
(* largest registration.                                                   *)
(*                                                                         *)
(* The range of a token or a copy is checked against the registration that *)
(* is there when it is made, so the induction needs that none is left over *)
(* when a registration goes (Cleared).                                     *)
(***************************************************************************)
EXTENDS Ranges, TLAPS

\* Nothing made for a registration is left when there is none
Cleared == buf = NoBuf => token = NoRange /\ copied = NoCopy

IInv ==
    /\ TypeOK /\ Cleared
    /\ RegistrationInAllocation /\ TokenInRegistration /\ CopyInBothBuffers

\* rangeInRegistration(), which never computes offset + size, accepts exactly
\* the ranges that start at or after 0 and end at or before regSize.
LEMMA RangeIsExact ==
    ASSUME NEW offset \in off_t, NEW size \in size_t, NEW regSize \in size_t
    PROVE  rangeInRegistration(offset, size, regSize) <=> offset >= 0 /\ offset + size <= regSize
BY WordAssumption DEF rangeInRegistration, Unsigned, Wrap, off_t, size_t

\* checkRegistrationArgs() accepts only buffers whose end is a word.
LEMMA ArgsDontWrap ==
    ASSUME NEW ptr \in size_t, NEW size \in size_t, checkRegistrationArgs(ptr, size)
    PROVE  ptr + size < Word /\ size <= MAX_MR_SIZE /\ size > 0 /\ ptr > 0
BY WordAssumption DEF checkRegistrationArgs, Wrap, size_t

\* isValidDeviceRange() accepts only ranges inside the allocation.
LEMMA DeviceRangeIsInside ==
    ASSUME NEW ptr \in size_t, NEW size \in size_t, NEW a \in Range,
           isValidDeviceRange(ptr, size, a)
    PROVE  a.addr <= ptr /\ ptr + size <= a.addr + a.size
BY WordAssumption DEF isValidDeviceRange, Wrap, size_t, Range

\* An offset into a registration gives an address that does not wrap.
LEMMA OffsetDoesntWrap ==
    ASSUME NEW base \in size_t, NEW regSize \in size_t, base + regSize \in size_t,
           NEW offset \in off_t, offset >= 0, offset <= regSize
    PROVE  Wrap(base + Unsigned(offset)) = base + offset
BY WordAssumption DEF Wrap, Unsigned, off_t, size_t

\* The invariant holds at the start: nothing is registered.
THEOREM InitIInv == Init => IInv
BY WordAssumption DEF Init, IInv, TypeOK, Cleared, RegistrationInAllocation, TokenInRegistration,
    CopyInBothBuffers, Allocation, Range, NoBuf, NoRange, NoCopy, size_t

\* A registration call keeps the invariant.
LEMMA RegisterIInv ==
    ASSUME IInv, NEW ptr \in size_t, NEW size \in size_t,
           hipObjBufRegister(ptr, size) \/ hipObjBufRegisterHost(ptr, size)
    PROVE  IInv'
<1>1. buf = NoBuf /\ checkRegistrationArgs(ptr, size) /\ UNCHANGED <<token, copied>>
  BY DEF hipObjBufRegister, hipObjBufRegisterHost
<1>2. ptr + size < Word /\ size <= MAX_MR_SIZE /\ size > 0 /\ ptr > 0
  BY <1>1, ArgsDontWrap
<1>3. token' = NoRange /\ copied' = NoCopy
  BY <1>1 DEF IInv, Cleared
<1>4. /\ alloc' \in Range
      /\ alloc'.addr <= ptr /\ ptr + size <= alloc'.addr + alloc'.size
  <2>1. CASE isValidDeviceRange(ptr, size, alloc) /\ UNCHANGED alloc
    BY <2>1, DeviceRangeIsInside DEF IInv, TypeOK
  <2>2. CASE Vouched(ptr, size)
    BY <2>2 DEF Vouched, Range, size_t
  <2> QED
    BY <2>1, <2>2 DEF hipObjBufRegister, hipObjBufRegisterHost
<1>5. PICK addr \in size_t, staged \in BOOLEAN :
        /\ addr + size < Word
        /\ buf' = [addr |-> ptr, size |-> size, remoteAddr |-> addr, staged |-> staged]
  BY <1>2 DEF hipObjBufRegister, hipObjBufRegisterHost, Allocation, Range, size_t
<1>6. /\ buf'.addr = ptr /\ buf'.size = size /\ buf'.remoteAddr = addr
      /\ buf' \in [addr : size_t, size : size_t, remoteAddr : size_t, staged : BOOLEAN]
  BY <1>5
<1>7. TypeOK'
  BY <1>2, <1>3, <1>4, <1>5, <1>6, WordAssumption DEF TypeOK, NoRange, NoCopy, Range, size_t
<1>8. RegistrationInAllocation'
  BY <1>2, <1>4, <1>6 DEF RegistrationInAllocation, Inside, Application
<1> QED
  BY <1>3, <1>7, <1>8 DEF IInv, Cleared, TokenInRegistration, CopyInBothBuffers

\* A token made for a range of the registration keeps to it, and so does the
\* staging copy of that range.
LEMMA UseIInv ==
    ASSUME IInv, NEW size \in size_t, NEW offset \in off_t, checkBufferArgs(size, offset),
           UNCHANGED <<alloc, buf>>,
           buildRdmaToken(size, offset) \/ UNCHANGED token,
           stage(size, offset) \/ UNCHANGED copied
    PROVE  IInv'
<1> DEFINE dev == [addr |-> Wrap(buf.addr + Unsigned(offset)), size |-> size]
           host == [addr |-> Wrap(buf.remoteAddr + Unsigned(offset)), size |-> size]
<1>1. /\ buf \in [addr : size_t, size : size_t, remoteAddr : size_t, staged : BOOLEAN]
      /\ buf.addr + buf.size \in size_t /\ buf.remoteAddr + buf.size \in size_t
      /\ buf # NoBuf
  BY DEF IInv, TypeOK, checkBufferArgs
<1>2. offset >= 0 /\ offset + size <= buf.size /\ offset <= buf.size /\ offset \in Int /\ size \in Nat
  BY <1>1, RangeIsExact, WordAssumption DEF checkBufferArgs, off_t, size_t
<1>3. /\ dev = [addr |-> buf.addr + offset, size |-> size]
      /\ host = [addr |-> buf.remoteAddr + offset, size |-> size]
  BY <1>1, <1>2, OffsetDoesntWrap
<1>4. dev \in Range /\ host \in Range
  BY <1>1, <1>2, <1>3, WordAssumption DEF Range, size_t
<1>5. Inside(dev, Application) /\ Inside(host, Registered)
  BY <1>1, <1>2, <1>3 DEF Inside, Application, Registered, size_t
<1>6. dev.addr - buf.addr = host.addr - buf.remoteAddr
  BY <1>1, <1>2, <1>3 DEF size_t
<1>7. token' = token \/ token' = host
  BY DEF buildRdmaToken
<1>8. copied' = copied \/ copied' = [dev |-> dev, host |-> host]
  BY DEF stage
<1>9. TypeOK'
  BY <1>4, <1>7, <1>8 DEF IInv, TypeOK
<1>10. TokenInRegistration'
  BY <1>5, <1>7 DEF IInv, TokenInRegistration, Registered
<1>11. CopyInBothBuffers'
  <2>1. CASE copied' = copied
    BY <2>1 DEF IInv, CopyInBothBuffers, Registered, Application
  <2>2. CASE copied' = [dev |-> dev, host |-> host]
    <3>1. copied'.dev = dev /\ copied'.host = host
      BY <2>2
    <3> QED
      BY <3>1, <1>5, <1>6 DEF CopyInBothBuffers, Registered, Application
  <2> QED
    BY <1>8, <2>1, <2>2
<1> QED
  BY <1>1, <1>9, <1>10, <1>11 DEF IInv, Cleared, RegistrationInAllocation, Application

\* hipObjBufDeregister() keeps the invariant.
LEMMA DeregisterIInv ==
    ASSUME IInv, hipObjBufDeregister
    PROVE  IInv'
BY WordAssumption DEF hipObjBufDeregister, IInv, TypeOK, Cleared, RegistrationInAllocation,
    TokenInRegistration, CopyInBothBuffers, NoBuf, NoRange, NoCopy, Range, size_t

\* Every call keeps the invariant.
THEOREM NextIInv == IInv /\ [Next]_vars => IInv'
<1> SUFFICES ASSUME IInv, [Next]_vars PROVE IInv'
  OBVIOUS
<1>1. CASE UNCHANGED vars
  BY <1>1 DEF vars, IInv, TypeOK, Cleared, RegistrationInAllocation, TokenInRegistration,
     CopyInBothBuffers, Registered, Application
<1>2. ASSUME NEW ptr \in size_t, NEW size \in size_t,
             hipObjBufRegister(ptr, size) \/ hipObjBufRegisterHost(ptr, size)
      PROVE  IInv'
  BY <1>2, RegisterIInv
<1>3. CASE hipObjBufDeregister
  BY <1>3, DeregisterIInv
<1>4. ASSUME NEW size \in size_t, NEW offset \in off_t, Transfer(size, offset)
      PROVE  IInv'
  BY <1>4, UseIInv DEF Transfer
<1>5. ASSUME NEW size \in size_t, NEW offset \in off_t, hipObjBufSync(size, offset)
      PROVE  IInv'
  BY <1>5, UseIInv DEF hipObjBufSync
<1>6. ASSUME NEW size \in size_t, hipObjGetRdmaToken(size)
      PROVE  IInv'
  <2>1. 0 \in off_t
    BY WordAssumption DEF off_t
  <2> QED
    BY <1>6, <2>1, UseIInv DEF hipObjGetRdmaToken
<1> QED
  BY <1>1, <1>2, <1>3, <1>4, <1>5, <1>6 DEF Next

\* The ranges are right for every word size: a registration lies in its
\* allocation, and tokens and staging copies lie in their registration,
\* whatever offsets and sizes the calls are given.
THEOREM RangesAreRight ==
    Spec => [](TypeOK /\ RegistrationInAllocation /\ TokenInRegistration /\ CopyInBothBuffers)
<1>1. IInv => TypeOK /\ RegistrationInAllocation /\ TokenInRegistration /\ CopyInBothBuffers
  BY DEF IInv
<1> QED
  BY <1>1, InitIInv, NextIInv, PTL DEF Spec

\* A transfer of a staged buffer gives the server exactly the range that it
\* copies, for every word size.
THEOREM TransfersMoveTheCopy == Spec => TransferMovesTheCopy
<1>1. [Next]_vars => [token' # token /\ copied' # copied => token' = copied'.host]_vars
  <2> SUFFICES ASSUME Next, token' # token, copied' # copied
               PROVE  token' = copied'.host
    BY DEF vars
  <2>1. CASE hipObjBufDeregister
    BY <2>1 DEF hipObjBufDeregister, NoCopy
  <2>2. ASSUME NEW size \in size_t, NEW offset \in off_t, Transfer(size, offset)
        PROVE  token' = copied'.host
    BY <2>2 DEF Transfer, buildRdmaToken, stage
  <2> QED
    BY <2>1, <2>2 DEF Next, hipObjBufRegister, hipObjBufRegisterHost, hipObjBufSync,
       hipObjGetRdmaToken
<1> QED
  BY <1>1, PTL DEF Spec, TransferMovesTheCopy
=============================================================================
