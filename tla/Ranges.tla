------------------------------- MODULE Ranges -------------------------------
(***************************************************************************)
(* The address arithmetic of registrations, tokens and staging copies: the *)
(* checks that hipObjBufRegister(), hipObjBufRegisterHost(), hipObjPut(),  *)
(* hipObjGet(), hipObjBufSync() and hipObjGetRdmaToken() make on sizes,    *)
(* offsets and addresses, and the addresses they then compute.             *)
(*                                                                         *)
(* uintptr_t, uint64_t and size_t are the numbers below Word, and their    *)
(* arithmetic wraps; off_t is their signed counterpart.  One registration  *)
(* is followed: another one shares no arithmetic with it.                  *)
(***************************************************************************)
EXTENDS Integers

CONSTANTS Word,        \* The number of values of a word (2^64)
          MAX_MR_SIZE  \* The largest registration

ASSUME WordAssumption ==
    /\ Word \in Nat /\ Word % 2 = 0 /\ Word > 2
    /\ MAX_MR_SIZE \in 0 .. Word - 1

VARIABLES alloc,  \* The allocation the application's pointer is in
          buf,    \* Its registration, or NoBuf
          token,  \* The last token made
          copied  \* The last staging copy started

vars == <<alloc, buf, token, copied>>

size_t == 0 .. Word - 1
off_t == -(Word \div 2) .. (Word \div 2) - 1

\* What is left of the sum or the difference of two words in one
Wrap(x) == IF x < 0 THEN x + Word ELSE IF x >= Word THEN x - Word ELSE x

\* static_cast<size_t>(offset)
Unsigned(offset) == Wrap(offset)

\* The bytes from addr, size of them; an allocation ends below the top of
\* the address space and does not start at null
Range == [addr : size_t, size : size_t]
Allocation == {r \in Range : r.addr > 0 /\ r.size > 0 /\ r.addr + r.size < Word}

Inside(r, s) == s.addr <= r.addr /\ r.addr + r.size <= s.addr + s.size

NoBuf == [addr |-> 0, size |-> 0, remoteAddr |-> 0, staged |-> FALSE]
NoRange == [addr |-> 0, size |-> 0]
NoCopy == [dev |-> NoRange, host |-> NoRange]

\* Mutant of rangeInRegistration: compares the end of the range, which wraps
rangeInRegistrationWraps(offset, size, regSize) ==
    /\ offset >= 0 /\ offset <= regSize
    /\ Wrap(Unsigned(offset) + size) <= regSize

\* Mutant of rangeInRegistration: does not look at the sign or the size of
\* the offset
rangeInRegistrationUnsigned(offset, size, regSize) ==
    size <= Wrap(regSize - Unsigned(offset))

rangeInRegistration(offset, size, regSize) ==
    /\ offset >= 0 /\ offset <= regSize
    /\ size <= Wrap(regSize - Unsigned(offset))

checkRegistrationArgs(ptr, size) ==
    /\ ptr # 0 /\ size # 0
    /\ size <= MAX_MR_SIZE
    /\ size <= Wrap((Word - 1) - ptr)

\* a is what hipMemGetAddressRange() says of the allocation ptr is in
isValidDeviceRange(ptr, size, a) ==
    /\ ptr >= a.addr /\ Wrap(ptr - a.addr) < a.size
    /\ size <= Wrap(a.size - Wrap(ptr - a.addr))

checkBufferArgs(size, offset) ==
    /\ size # 0 /\ offset >= 0
    /\ buf # NoBuf
    /\ rangeInRegistration(offset, size, buf.size)

Init ==
    /\ alloc \in Allocation
    /\ buf = NoBuf /\ token = NoRange /\ copied = NoCopy

\* The application vouches for host memory: nothing here knows what of it is
\* allocated
Vouched(ptr, size) == alloc' = [addr |-> ptr, size |-> size]

\* A buffer, of the device or not, which the NIC reaches itself or through a
\* staging buffer of the same size that hipHostMalloc() returns
hipObjBufRegister(ptr, size) ==
    /\ buf = NoBuf
    /\ checkRegistrationArgs(ptr, size)
    /\ \/ isValidDeviceRange(ptr, size, alloc) /\ UNCHANGED alloc
       \/ Vouched(ptr, size)
    /\ \/ buf' = [addr |-> ptr, size |-> size, remoteAddr |-> ptr, staged |-> FALSE]
       \/ \E host \in Allocation :
            /\ host.size = size
            /\ buf' = [addr |-> ptr, size |-> size, remoteAddr |-> host.addr, staged |-> TRUE]
    /\ UNCHANGED <<token, copied>>

hipObjBufRegisterHost(ptr, size) ==
    /\ buf = NoBuf
    /\ checkRegistrationArgs(ptr, size)
    /\ buf' = [addr |-> ptr, size |-> size, remoteAddr |-> ptr, staged |-> FALSE]
    /\ Vouched(ptr, size)
    /\ UNCHANGED <<token, copied>>

hipObjBufDeregister ==
    /\ buf # NoBuf
    /\ buf' = NoBuf /\ token' = NoRange /\ copied' = NoCopy
    /\ UNCHANGED alloc

buildRdmaToken(size, offset) ==
    /\ rangeInRegistration(offset, size, buf.size)
    /\ token' = [addr |-> Wrap(buf.remoteAddr + Unsigned(offset)), size |-> size]

\* stageToDevice() and stageToHost(): the subspans a copy runs between
stage(size, offset) ==
    IF buf.staged
    THEN copied' = [dev  |-> [addr |-> Wrap(buf.addr + Unsigned(offset)), size |-> size],
                    host |-> [addr |-> Wrap(buf.remoteAddr + Unsigned(offset)), size |-> size]]
    ELSE UNCHANGED copied

\* hipObjPut() and hipObjGet(): a token for the range, and the copy of it
\* before or after the transfer
Transfer(size, offset) ==
    /\ checkBufferArgs(size, offset)
    /\ buildRdmaToken(size, offset) /\ stage(size, offset)
    /\ UNCHANGED <<alloc, buf>>

hipObjBufSync(size, offset) ==
    /\ checkBufferArgs(size, offset)
    /\ stage(size, offset)
    /\ UNCHANGED <<alloc, buf, token>>

hipObjGetRdmaToken(size) ==
    /\ checkBufferArgs(size, 0)
    /\ buildRdmaToken(size, 0)
    /\ UNCHANGED <<alloc, buf, copied>>

Next ==
    \/ \E ptr \in size_t, size \in size_t :
        hipObjBufRegister(ptr, size) \/ hipObjBufRegisterHost(ptr, size)
    \/ hipObjBufDeregister
    \/ \E size \in size_t, offset \in off_t :
        Transfer(size, offset) \/ hipObjBufSync(size, offset)
    \/ \E size \in size_t : hipObjGetRdmaToken(size)

Spec == Init /\ [][Next]_vars

(***************************************************************************)
(* Properties                                                              *)
(***************************************************************************)
\* Each variable has its type, and the end of a registration is a word too:
\* neither the application's memory nor what the NIC reaches of it wraps
\* (checkRegistrationArgs()).
TypeOK ==
    /\ alloc \in Range
    /\ buf \in [addr : size_t, size : size_t, remoteAddr : size_t, staged : BOOLEAN]
    /\ buf.addr + buf.size \in size_t /\ buf.remoteAddr + buf.size \in size_t
    /\ token \in Range
    /\ copied \in [dev : Range, host : Range]

\* What is registered at addr or, when it is staged, where the staging buffer is
Registered == [addr |-> buf.remoteAddr, size |-> buf.size]
Application == [addr |-> buf.addr, size |-> buf.size]

\* A registration covers memory of the application only: it lies in the
\* allocation its pointer is in (isValidDeviceRange()), and is no larger than
\* the largest memory region (checkRegistrationArgs()).
RegistrationInAllocation ==
    buf # NoBuf => Inside(Application, alloc) /\ buf.size <= MAX_MR_SIZE

\* A token never names a byte outside the registration it is made for,
\* whatever the offset and the size (rangeInRegistration() and
\* buildRdmaToken()).
TokenInRegistration == token # NoRange => Inside(token, Registered)

\* A staging copy runs between the same offsets of the application's memory
\* and of the staging buffer, inside both (stageToDevice() and
\* stageToHost()).
CopyInBothBuffers ==
    copied # NoCopy =>
        /\ Inside(copied.dev, Application) /\ Inside(copied.host, Registered)
        /\ copied.dev.addr - buf.addr = copied.host.addr - buf.remoteAddr

\* A transfer that stages a range gives the server a token for that same
\* range of the staging buffer: the bytes it copies are the bytes that move
\* (hipObjPut() and hipObjGet() give buildRdmaToken() and the copy one size
\* and one offset).
TransferMovesTheCopy ==
    [][token' # token /\ copied' # copied => token' = copied'.host]_vars
=============================================================================
