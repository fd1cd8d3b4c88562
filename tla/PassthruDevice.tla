---------------------------- MODULE PassthruDevice ----------------------------
(***************************************************************************)
(* The control device of passthru (passthru.c): made for the first         *)
(* miniport that is initialized and deleted with the last one that is      *)
(* halted, by threads that are in PtRegisterDevice and PtDeregisterDevice  *)
(* at the same time.  What is done under GlobalLock is one step.           *)
(***************************************************************************)
EXTENDS Naturals, FiniteSets

CONSTANT Miniports

DeviceAssumption == IsFiniteSet(Miniports)

VARIABLES
    MiniportCount,
    ControlDeviceState,     \* PS_DEVICE_STATE_...
    NdisDeviceHandle,       \* not NULL?
    refused,                \* has NdisMRegisterDevice failed for this device?
    at                      \* where the thread of each miniport is

vars == <<MiniportCount, ControlDeviceState, NdisDeviceHandle, refused, at>>

Move(m, from, to) == at[m] = from /\ at' = [at EXCEPT ![m] = to]

\* PtRegisterDevice.  The second miniport does not wait for the first.
Registers(m) ==
    /\ Move(m, "out", CASE MiniportCount > 0 -> "in"
                        [] MiniportCount = 0 /\ ControlDeviceState = "READY" -> "create"
                        [] OTHER -> "wait")
    /\ MiniportCount' = MiniportCount + 1
    /\ ControlDeviceState' = IF at'[m] = "create" THEN "CREATING" ELSE ControlDeviceState
    /\ UNCHANGED <<NdisDeviceHandle, refused>>

\* Mutant: it does not wait for a device that is being deleted.
RegisterWaits_Not(m) ==
    /\ Move(m, "wait", "create")
    /\ ControlDeviceState' = "CREATING"
    /\ UNCHANGED <<MiniportCount, NdisDeviceHandle, refused>>

RegisterWaits(m) ==
    /\ ControlDeviceState = "READY"
    /\ Move(m, "wait", "create")
    /\ ControlDeviceState' = "CREATING"
    /\ UNCHANGED <<MiniportCount, NdisDeviceHandle, refused>>

\* NdisMRegisterDevice may fail; nobody asks.
RegisterCreates(m) ==
    /\ Move(m, "create", "created")
    /\ NdisDeviceHandle' \in {TRUE, NdisDeviceHandle}
    /\ refused' = ~NdisDeviceHandle'
    /\ UNCHANGED <<MiniportCount, ControlDeviceState>>

RegisterEnds(m) ==
    /\ Move(m, "created", "in")
    /\ ControlDeviceState' = "READY"
    /\ UNCHANGED <<MiniportCount, NdisDeviceHandle, refused>>

\* PtDeregisterDevice.
Deregisters(m) ==
    /\ Move(m, "in", IF MiniportCount = 1 THEN "delete" ELSE "out")
    /\ MiniportCount' = MiniportCount - 1
    /\ ControlDeviceState' = IF MiniportCount = 1 THEN "DELETING" ELSE ControlDeviceState
    /\ UNCHANGED <<NdisDeviceHandle, refused>>

DeregisterDeletes(m) ==
    /\ Move(m, "delete", "deleted")
    /\ NdisDeviceHandle' = FALSE
    /\ refused' = FALSE
    /\ UNCHANGED <<MiniportCount, ControlDeviceState>>

DeregisterEnds(m) ==
    /\ Move(m, "deleted", "out")
    /\ ControlDeviceState' = "READY"
    /\ UNCHANGED <<MiniportCount, NdisDeviceHandle, refused>>

Init ==
    /\ MiniportCount = 0
    /\ ControlDeviceState = "READY"
    /\ NdisDeviceHandle = FALSE
    /\ refused = FALSE
    /\ at = [m \in Miniports |-> "out"]

Steps(m) ==
    \/ RegisterWaits(m) \/ RegisterCreates(m) \/ RegisterEnds(m)
    \/ DeregisterDeletes(m) \/ DeregisterEnds(m)

Next == \E m \in Miniports : Registers(m) \/ Deregisters(m) \/ Steps(m)

Fairness == \A m \in Miniports : WF_vars(Steps(m))

Spec == Init /\ [][Next]_vars /\ Fairness

-----------------------------------------------------------------------------
Where(w) == {m \in Miniports : at[m] \in w}

\* The types; the count is that of the miniports between the two routines.
TypeOK ==
    /\ MiniportCount = Cardinality(Where({"wait", "create", "created", "in"}))
    /\ ControlDeviceState \in {"READY", "CREATING", "DELETING"}
    /\ NdisDeviceHandle \in BOOLEAN /\ refused \in BOOLEAN
    /\ at \in [Miniports -> {"out", "wait", "create", "created", "in", "delete", "deleted"}]

\* What the two ASSERTs on the state say (passthru.c:288, 444), with the
\* threads that make them true: one at a time makes or deletes the device.
OneAtATime ==
    /\ Cardinality(Where({"create", "created", "delete", "deleted"})) <= 1
    /\ ControlDeviceState = "CREATING" <=> Where({"create", "created"}) # {}
    /\ ControlDeviceState = "DELETING" <=> Where({"delete", "deleted"}) # {}
    /\ MiniportCount = 0 => ControlDeviceState # "CREATING"
    /\ MiniportCount = 1 /\ Where({"in"}) # {} => ControlDeviceState = "READY"

\* There is a device as long as there is a miniport, and no longer, unless it
\* could not be made, or its maker still waits while the second is served
\* without; a device is made only when there is none.
DeviceForMiniports ==
    /\ ControlDeviceState = "READY" =>
           IF Where({"in"}) = {} \/ Where({"wait"}) # {}
           THEN ~NdisDeviceHandle ELSE NdisDeviceHandle # refused
    /\ Where({"create"}) # {} => ~NdisDeviceHandle

\* MPInitialize is not held up for good.
RegisterReturns == \A m \in Miniports : at[m] = "wait" ~> at[m] = "in"

\* One thread at a time makes or deletes the control device, and there is one
\* exactly while there are miniports.
DeviceSafe == TypeOK /\ OneAtATime /\ DeviceForMiniports

===============================================================================
