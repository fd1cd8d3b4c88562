------------------------------ MODULE DPPaging ------------------------------
(***************************************************************************)
(* IRP_MN_DEVICE_USAGE_NOTIFICATION for paging files in the volume filter  *)
(* (DP/DPMain.c, DPDispatchPnp): the count of paging files on the volume   *)
(* and the DO_POWER_PAGABLE bit of the device that follows from it.        *)
(* Each notification runs in a thread of its own; the handler waits for    *)
(* PagingPathCountEvent first and sets it last.                            *)
(***************************************************************************)
EXTENDS Integers, FiniteSets

CONSTANTS
    Threads,        \* the threads that send notifications
    MaxPaths,       \* bound on the paging files of the volume
    Inrush          \* DO_POWER_INRUSH in DeviceObject->Flags

ASSUME PagingAssumption ==
    /\ IsFiniteSet(Threads)
    /\ MaxPaths \in Nat
    /\ Inrush \in BOOLEAN

VARIABLES
    event,      \* is PagingPathCountEvent signalled?
    count,      \* DevExt->PagingPathCount
    pagable,    \* DO_POWER_PAGABLE in DeviceObject->Flags
    pc,         \* of each thread
    inPath,     \* Parameters.UsageNotification.InPath of its IRP
    setPagable, \* its local of that name
    paths,      \* history: the paging files the lower device has accepted
    overlapped  \* history: has a notification begun before another ended?

vars == <<event, count, pagable, pc, inPath, setPagable, paths, overlapped>>

Busy == {t \in Threads : pc[t] # "idle"}

-----------------------------------------------------------------------------
(* A file the manager asks about may be refused; one that is removed has   *)
(* been accepted, and its arrival is over.                                 *)
Arriving == {t \in Busy : inPath[t]}
Landing  == {t \in Arriving : pc[t] \in {"adjust", "clear", "set"}}
Removing == {t \in Busy : ~inPath[t] /\ pc[t] \in {"wait", "test", "lower"}}

Notify(t) ==
    /\ pc[t] = "idle"
    /\ \E b \in BOOLEAN :
          /\ inPath' = [inPath EXCEPT ![t] = b]
          /\ IF b THEN paths + Cardinality(Arriving) < MaxPaths
                  ELSE paths > Cardinality(Landing \cup Removing)
    /\ pc' = [pc EXCEPT ![t] = "wait"]
    /\ overlapped' = (overlapped \/ Busy # {})
    /\ UNCHANGED <<event, count, pagable, setPagable, paths>>

\* The event is a notification event: a wait it satisfies leaves it set.
Wait(t) ==
    /\ pc[t] = "wait"
    /\ event
    /\ setPagable' = [setPagable EXCEPT ![t] = FALSE]
    /\ pc' = [pc EXCEPT ![t] = "test"]
    /\ UNCHANGED <<event, count, pagable, inPath, paths, overlapped>>

\* The last file goes: DO_POWER_PAGABLE is set ahead of the lower device.
Test(t) ==
    /\ pc[t] = "test"
    /\ pc' = [pc EXCEPT ![t] = "lower"]
    /\ IF ~inPath[t] /\ count = 1 /\ ~Inrush
       THEN /\ pagable' = TRUE
            /\ setPagable' = [setPagable EXCEPT ![t] = TRUE]
       ELSE UNCHANGED <<pagable, setPagable, overlapped>>
    /\ UNCHANGED <<event, count, inPath, paths, overlapped>>

\* DPForwardIrpSync: the lower device accepts or refuses.
LowerAccepts(t) ==
    /\ pc[t] = "lower"
    /\ paths' = IF inPath[t] THEN paths + 1 ELSE paths - 1
    /\ pc' = [pc EXCEPT ![t] = "adjust"]
    /\ UNCHANGED <<event, count, pagable, inPath, setPagable, overlapped>>

LowerRefuses(t) ==
    /\ pc[t] = "lower"
    /\ pc' = [pc EXCEPT ![t] = "revert"]
    /\ UNCHANGED <<event, count, pagable, inPath, setPagable, paths, overlapped>>

\* IoAdjustPagingPathCount is interlocked.
Adjust(t) ==
    /\ pc[t] = "adjust"
    /\ count' = IF inPath[t] THEN count + 1 ELSE count - 1
    /\ pc' = [pc EXCEPT ![t] = IF inPath[t] THEN "clear" ELSE "set"]
    /\ UNCHANGED <<event, pagable, inPath, setPagable, paths, overlapped>>

\* Mutant: the first paging file is looked for before it is counted.
Clear_Uncounted(t) ==
    /\ pc[t] = "clear"
    /\ pagable' = IF count = 0 THEN FALSE ELSE pagable
    /\ pc' = [pc EXCEPT ![t] = "set"]
    /\ UNCHANGED <<event, count, inPath, setPagable, paths, overlapped>>

\* The first paging file: the device is no longer pagable.
Clear(t) ==
    /\ pc[t] = "clear"
    /\ pagable' = IF count = 1 THEN FALSE ELSE pagable
    /\ pc' = [pc EXCEPT ![t] = "set"]
    /\ UNCHANGED <<event, count, inPath, setPagable, paths, overlapped>>

Revert(t) ==
    /\ pc[t] = "revert"
    /\ pagable' = IF setPagable[t] THEN FALSE ELSE pagable
    /\ setPagable' = [setPagable EXCEPT ![t] = FALSE]
    /\ pc' = [pc EXCEPT ![t] = "set"]
    /\ UNCHANGED <<event, count, inPath, paths, overlapped>>

\* KeSetEvent, IoCompleteRequest.
Release(t) ==
    /\ pc[t] = "set"
    /\ event' = TRUE
    /\ pc' = [pc EXCEPT ![t] = "idle"]
    /\ UNCHANGED <<count, pagable, inPath, setPagable, paths, overlapped>>

-----------------------------------------------------------------------------
\* DPAddDevice
Init ==
    /\ event = TRUE
    /\ count = 0
    /\ pagable = TRUE
    /\ pc = [t \in Threads |-> "idle"]
    /\ inPath = [t \in Threads |-> FALSE]
    /\ setPagable = [t \in Threads |-> FALSE]
    /\ paths = 0
    /\ overlapped = FALSE

Next ==
    \E t \in Threads :
        \/ Notify(t) \/ Wait(t) \/ Test(t) \/ LowerAccepts(t) \/ LowerRefuses(t)
        \/ Adjust(t) \/ Clear(t) \/ Revert(t) \/ Release(t)

Spec == Init /\ [][Next]_vars

-----------------------------------------------------------------------------
\* Every variable keeps its type; the count never becomes negative.
TypeOK ==
    /\ event \in BOOLEAN
    /\ count \in Nat
    /\ pagable \in BOOLEAN
    /\ pc \in [Threads -> {"idle", "wait", "test", "lower", "adjust", "clear", "revert", "set"}]
    /\ inPath \in [Threads -> BOOLEAN]
    /\ setPagable \in [Threads -> BOOLEAN]
    /\ paths \in Nat
    /\ overlapped \in BOOLEAN

\* Between notifications the count is the number of paging files, however
\* they overlapped.  If none did, the device is pagable exactly while there
\* is no file (with DO_POWER_INRUSH, only then): through refusals, and the
\* bit set ahead of the lower device.  The event is there to order them, but
\* it stays set: of overlapping arrivals none may see a count of 1.
PagableSettled ==
    Busy = {} =>
        /\ count = paths
        /\ ~overlapped /\ paths > 0 => ~pagable
        /\ ~overlapped /\ paths = 0 /\ ~Inrush => pagable

\* The paging path settles with variables of their types.
PathsSettled == TypeOK /\ PagableSettled

===============================================================================
