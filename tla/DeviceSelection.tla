-------------------------- MODULE DeviceSelection ---------------------------
(***************************************************************************)
(* How initWith() gets its device, in one piece: it chooses the NIC and    *)
(* opens it (NicSelection), and openRdmaDevice() goes on to choose the GID *)
(* of its port (GidSelection).  Devices can come and go all the while.     *)
(***************************************************************************)
EXTENDS NicSelection, GidSelection

deviceVars == <<nicVars, vars>>

DeviceInit == NicInit /\ Init

\* openRdmaDevice() goes on once the device is open, and initWith() fails with it
SelectGid ==
    /\ nicPc = "opened"
    /\ Step
    /\ error' = IF pc' = "failed" THEN "RdmaError" ELSE error
    /\ UNCHANGED <<nicPc, nicHint, present, hotplugs, choice, nic, nicIndex, opened>>

Ended == nicPc = "failed" \/ pc \in {"opened", "failed"}

SelectStep == (NicStep /\ UNCHANGED vars) \/ SelectGid

DeviceNext ==
    \/ SelectStep
    \/ Hotplug /\ UNCHANGED vars
    \/ Ended /\ UNCHANGED deviceVars

\* The thread that initializes runs
DeviceSpec == DeviceInit /\ [][DeviceNext]_deviceVars /\ WF_deviceVars(SelectStep)

=============================================================================
