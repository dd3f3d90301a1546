---------------------------- MODULE NicSelection ----------------------------
(***************************************************************************)
(* The choice of the NIC in hipObjInit(): initWith()'s choice of a GPU,    *)
(* SysfsTopology::enumerate(), GetClosestNicToGpu(), the fallback to the   *)
(* NIC the configuration names, and openRdmaDeviceByName() up to the       *)
(* device it opens.                                                        *)
(*                                                                         *)
(* libibverbs returns the list of devices anew each time it is asked, and  *)
(* devices can come and go in between.  What HIP, libibverbs and sysfs     *)
(* answer is chosen where it is read.                                      *)
(***************************************************************************)
EXTENDS Integers, Sequences, FiniteSetsExt, SequencesExt

CONSTANTS Names,        \* Device names
          Buses,        \* PCI buses: sequences of digits
          Slots,        \* The devices of a bus
          MaxPorts,     \* The most ports of a device (phys_port_cnt)
          PortModulus,  \* 2^8, for the loop over a device's ports
          MaxHotplugs   \* How often the devices present change, at most

\* The loop over the ports ends: at 2^8 - 1 ports its counter would wrap
ASSUME MaxPortsAssumption == MaxPorts \in Nat /\ MaxPorts + 1 < PortModulus

ASSUME MaxHotplugsAssumption == MaxHotplugs \in Nat

VARIABLES nicPc,      \* The next step
          nicHint,    \* config.nicHint: names after any spaces, and whether
                      \* it has spaces
          present,    \* The devices present, in libibverbs' order
          hotplugs,   \* How often they have changed
          gpuBus,     \* The GPU's bus id
          list,       \* enumerate()'s list of devices still to look at
          p, ports,   \* Its loop over the ports of the first of them
          result,     \* The NICs it found
          best, at,   \* min_element()'s loop: the closest so far and the next
          nic,        \* The NIC chosen: its index and name
          nicIndex,   \* Where openRdmaDeviceByName() found it
          opened,     \* The device opened
          error       \* What initWith() returned, if it failed

choice == <<gpuBus, list, p, ports, result, best, at>>
nicVars == <<nicPc, nicHint, present, hotplugs, choice, nic, nicIndex, opened, error>>

NoDevice == "no device"
NoName == "no device has this name"
NoBus == <<>>

BusIds == [bus : Buses, slot : Slots]
UnknownId == [bus |-> NoBus, slot |-> 0]

Lists == {s \in UNION {[1 .. n -> Names] : n \in 0 .. Cardinality(Names)} : IsInjective(s)}
Hints == [names : Lists, spaces : BOOLEAN]
haveNicHint == nicHint.names # <<>> \/ nicHint.spaces

(***************************************************************************)
(* Bus ids and their distance                                              *)
(***************************************************************************)
MaxDistance == 1000

\* A bus id up to its last colon: its domain and bus
ExtractBusNumber(id) == id.bus

\* The characters after the common prefix of a and b
After(a, b) ==
    LET common == Max({n \in 0 .. Min({Len(a), Len(b)}) : SubSeq(a, 1, n) = SubSeq(b, 1, n)})
    IN  (Len(a) - common) + (Len(b) - common)

GetBusIdDistance(a, b) ==
    IF a = UnknownId \/ b = UnknownId THEN MaxDistance
    ELSE After(ExtractBusNumber(a), ExtractBusNumber(b))

Distance(k) == GetBusIdDistance(result[k].id, gpuBus)

HcaListIncludes(hint, name) == name \in Range(hint.names)

\* The hint, taken whole as the name of a device
HintAsName == IF Len(nicHint.names) = 1 /\ ~nicHint.spaces THEN nicHint.names[1] ELSE NoName

(***************************************************************************)
(* initWith(), up to the NIC                                               *)
(***************************************************************************)
NicInit ==
    /\ nicPc = "gpu"
    /\ nicHint \in Hints
    /\ present \in Lists /\ hotplugs = 0
    /\ gpuBus = UnknownId /\ list = <<>> /\ p = 1 /\ ports = 0
    /\ result = <<>> /\ best = 1 /\ at = 1
    /\ nic = [index |-> 0, name |-> NoName] /\ nicIndex = 0 /\ opened = NoDevice
    /\ error = "none"

Fail(e) == nicPc' = "failed" /\ error' = e

\* The GPU is the current device or the one configured.  Without a GPU the
\* configuration has to name a NIC.
ChooseGpu ==
    /\ nicPc = "gpu"
    /\ \/ nicPc' = "busid" /\ UNCHANGED error
       \/ haveNicHint /\ nicPc' = "hint" /\ UNCHANGED error  \* hipErrorNoDevice
       \/ Fail("RdmaError")
       \/ Fail("InvalidValue")                            \* No such GPU
    /\ UNCHANGED <<nicHint, present, hotplugs, choice, nic, nicIndex, opened>>

\* GetClosestNicToGpu() asks for the GPU's bus id, and enumerate() for the
\* devices
deviceGetPCIBusId ==
    /\ nicPc = "busid"
    /\ \/ /\ gpuBus' \in BusIds
          /\ list' \in {present, <<>>}  \* get_device_list() can fail
          /\ nicPc' = "devices"
       \/ nicPc' = "hint" /\ UNCHANGED <<gpuBus, list>>
    /\ UNCHANGED <<nicHint, present, hotplugs, p, ports, result, best, at, nic, nicIndex, opened, error>>

\* Mutant of enumerate: does not look at the allow-list
enumerateAll ==
    /\ nicPc = "devices" /\ list # <<>>
    /\ nicPc' = "ports" /\ p' = 1 /\ ports' \in 0 .. MaxPorts
    /\ UNCHANGED <<nicHint, present, hotplugs, gpuBus, list, result, best, at, nic, nicIndex, opened, error>>

\* enumerate() takes up a device that the hint allows and that can be opened
\* and queried, and skips the others
enumerate ==
    /\ nicPc = "devices" /\ list # <<>>
    /\ \/ /\ ~haveNicHint \/ HcaListIncludes(nicHint, Head(list))
          /\ nicPc' = "ports" /\ p' = 1 /\ ports' \in 0 .. MaxPorts
          /\ UNCHANGED list
       \/ list' = Tail(list) /\ UNCHANGED <<nicPc, p, ports>>
    /\ UNCHANGED <<nicHint, present, hotplugs, gpuBus, result, best, at, nic, nicIndex, opened, error>>


\* A round of its loop over the ports: the first active port makes it a NIC,
\* whose bus id sysfs may not tell
query_ports ==
    /\ nicPc = "ports"
    /\ \/ /\ p <= ports
          /\ \E id \in BusIds \cup {UnknownId} :
                result' = Append(result, [name |-> Head(list), port |-> p, id |-> id])
          /\ nicPc' = "devices" /\ list' = Tail(list) /\ UNCHANGED p
       \/ p <= ports /\ p' = (p + 1) % PortModulus /\ UNCHANGED <<nicPc, list, result>>
       \/ p > ports /\ nicPc' = "devices" /\ list' = Tail(list) /\ UNCHANGED <<p, result>>
    /\ UNCHANGED <<nicHint, present, hotplugs, gpuBus, ports, best, at, nic, nicIndex, opened, error>>

\* The last device is done.  Without any NIC there is no closest one.
Enumerated ==
    /\ nicPc = "devices" /\ list = <<>>
    /\ nicPc' = IF result = <<>> THEN "hint" ELSE "closest"
    /\ UNCHANGED <<nicHint, present, hotplugs, choice, nic, nicIndex, opened, error>>


min_element ==
    /\ nicPc = "closest" /\ at <= Len(result)
    /\ at' = at + 1
    /\ best' = IF Distance(at) < Distance(best) THEN at ELSE best
    /\ UNCHANGED <<nicPc, nicHint, present, hotplugs, gpuBus, list, p, ports, result, nic, nicIndex, opened, error>>

GetClosestNicToGpu ==
    /\ nicPc = "closest" /\ at > Len(result)
    /\ IF Distance(best) = MaxDistance
       THEN nicPc' = "hint" /\ UNCHANGED nic
       ELSE /\ nicPc' = "find"
            /\ nic' = [index |-> best - 1, name |-> result[best].name]
    /\ UNCHANGED <<nicHint, present, hotplugs, choice, nicIndex, opened, error>>

\* Without a closest NIC, the one the configuration names
FallBackToHint ==
    /\ nicPc = "hint"
    /\ IF haveNicHint
       THEN nicPc' = "find" /\ nic' = [index |-> 0, name |-> HintAsName] /\ UNCHANGED error
       ELSE Fail("NicNotFound") /\ UNCHANGED nic
    /\ UNCHANGED <<nicHint, present, hotplugs, choice, nicIndex, opened>>

(***************************************************************************)
(* Opening it                                                              *)
(***************************************************************************)
\* openRdmaDeviceByName() looks the name up in a new list
openRdmaDeviceByName ==
    /\ nicPc = "find"
    /\ \/ \E k \in DOMAIN present :
            /\ present[k] = nic.name
            /\ nicPc' = "open" /\ nicIndex' = k - 1 /\ UNCHANGED error
       \/ nic.name \notin Range(present) /\ Fail("RdmaError") /\ UNCHANGED nicIndex
       \/ Fail("RdmaError") /\ UNCHANGED nicIndex  \* get_device_list()
    /\ UNCHANGED <<nicHint, present, hotplugs, choice, nic, opened>>

\* openRdmaDevice() opens the device at that index of yet another list, unless
\* that, its protection domain or its port fails.  What GetClosestNicToGpu()
\* worked with is gone.  The rest of openRdmaDevice() is in GidSelection.
openRdmaDevice ==
    /\ nicPc = "open"
    /\ \/ /\ nicIndex < Len(present)
          /\ nicPc' = "opened" /\ opened' = present[nicIndex + 1] /\ UNCHANGED error
       \/ Fail("RdmaError") /\ UNCHANGED opened
    /\ gpuBus' = UnknownId /\ list' = <<>> /\ p' = 1 /\ ports' = 0
    /\ result' = <<>> /\ best' = 1 /\ at' = 1
    /\ UNCHANGED <<nicHint, present, hotplugs, nic, nicIndex>>

\* A device comes or goes (external)
Hotplug ==
    /\ hotplugs < MaxHotplugs
    /\ hotplugs' = hotplugs + 1
    /\ present' \in Lists \ {present}
    /\ UNCHANGED <<nicPc, nicHint, choice, nic, nicIndex, opened, error>>

NicStep ==
    \/ ChooseGpu \/ deviceGetPCIBusId \/ enumerate \/ query_ports \/ Enumerated
    \/ min_element \/ GetClosestNicToGpu \/ FallBackToHint
    \/ openRdmaDeviceByName \/ openRdmaDevice

(***************************************************************************)
(* Properties                                                              *)
(***************************************************************************)
\* The enumerated NICs whose distance is known
Known == {m \in DOMAIN result : result[m].id # UnknownId}


\* Only a NIC that the configuration allows is opened, and only if it was
\* found by its name: a hint is an allow-list, or one name (initWith()).  A
\* device that leaves between two lists shifts the others, so that the name
\* and the index it was found at agree only while the devices stay.
OpenedIsAllowed ==
    nicPc = "opened" /\ hotplugs = 0 => (haveNicHint => opened \in Range(nicHint.names)) /\ opened = nic.name

=============================================================================
