------------------------------ MODULE Ctrl2cap ------------------------------
(***************************************************************************)
(* The keyboard class filter (ctrl2cap/ctrl2cap/ctrl2cap.c): a filter      *)
(* device on every keyboard, a completion routine on every read, a global  *)
(* count of the reads below, and an unload that detaches the filters and   *)
(* waits for the count.  The raw input thread keeps one read per keyboard  *)
(* with the keyboard stack; the class driver completes it on a keystroke.  *)
(***************************************************************************)
EXTENDS Naturals, FiniteSets

CONSTANTS
    Keyboards,      \* the keyboard class devices
    ULong           \* the number of values of a ULONG, 2^32

Ctrl2capAssumption ==
    /\ IsFiniteSet(Keyboards)
    /\ ULong \in Nat /\ Cardinality(Keyboards) < ULong

VARIABLES
    devices,        \* DriverObject->DeviceObject and its NextDevice chain, in any order
    gC2pKeyCount,
    pc, reg,        \* the read of each keyboard, and the count it has loaded
    unload, walk,   \* c2pUnload: its phase, and the devices it has yet to see
    raced,          \* history: have two updates of the count overlapped?
    reused          \* history: was a freed device object overwritten?

vars == <<devices, gC2pKeyCount, pc, reg, unload, walk, raced, reused>>

\* The reads whose completion routine is c2pReadComplete and has not run.
Below == {k \in Keyboards : pc[k] = "below"}

-----------------------------------------------------------------------------
(* c2pDispatchRead.  A keyboard whose filter is gone is read without it.   *)
Enter(k) ==
    /\ pc[k] = "idle"
    /\ k \in devices
    /\ pc' = [pc EXCEPT ![k] = "count"]
    /\ UNCHANGED <<devices, gC2pKeyCount, reg, unload, walk, raced, reused>>

\* gC2pKeyCount++ and gC2pKeyCount-- are a load and a store: on two
\* processors there may be others in between.
Load(k) ==
    /\ pc[k] \in {"count", "uncount"}
    /\ reg' = [reg EXCEPT ![k] = gC2pKeyCount]
    /\ pc' = [pc EXCEPT ![k] = IF pc[k] = "count" THEN "store" ELSE "unstore"]
    /\ raced' = (raced \/ \E j \in Keyboards \ {k} : pc[j] \in {"store", "unstore"})
    /\ UNCHANGED <<devices, gC2pKeyCount, unload, walk, reused>>

StoreIncrement(k) ==
    /\ pc[k] = "store"
    /\ gC2pKeyCount' = (reg[k] + 1) % ULong
    /\ reg' = [reg EXCEPT ![k] = 0]
    /\ pc' = [pc EXCEPT ![k] = "counted"]
    /\ UNCHANGED <<devices, unload, walk, raced, reused>>

PassDown(k) ==
    /\ pc[k] = "counted"
    /\ pc' = [pc EXCEPT ![k] = "below"]
    /\ UNCHANGED <<devices, gC2pKeyCount, reg, unload, walk, raced, reused>>

-----------------------------------------------------------------------------
(* A keystroke, or the removal of the keyboard, completes the read: the    *)
(* class driver calls c2pReadComplete.                                     *)
ClassCompletes(k) ==
    /\ pc[k] = "below"
    /\ pc' = [pc EXCEPT ![k] = "uncount"]
    /\ UNCHANGED <<devices, gC2pKeyCount, reg, unload, walk, raced, reused>>

\* Mutant: a read that failed is not counted off.
StoreDecrement_OnSuccess(k) ==
    /\ pc[k] = "unstore"
    /\ \/ gC2pKeyCount' = (reg[k] + ULong - 1) % ULong
       \/ UNCHANGED gC2pKeyCount
    /\ reg' = [reg EXCEPT ![k] = 0]
    /\ pc' = [pc EXCEPT ![k] = "return"]
    /\ UNCHANGED <<devices, unload, walk, raced, reused>>

StoreDecrement(k) ==
    /\ pc[k] = "unstore"
    /\ gC2pKeyCount' = (reg[k] + ULong - 1) % ULong
    /\ reg' = [reg EXCEPT ![k] = 0]
    /\ pc' = [pc EXCEPT ![k] = "return"]
    /\ UNCHANGED <<devices, unload, walk, raced, reused>>

Return(k) ==
    /\ pc[k] = "return"
    /\ pc' = [pc EXCEPT ![k] = "idle"]
    /\ UNCHANGED <<devices, gC2pKeyCount, reg, unload, walk, raced, reused>>

-----------------------------------------------------------------------------
(* c2pPnP, IRP_MN_REMOVE_DEVICE: the stack below has completed the read of *)
(* the keyboard that goes; its filter is detached and deleted.             *)
RemoveDevice(k) ==
    /\ k \in devices
    /\ unload = "no"
    /\ pc[k] = "idle"
    /\ devices' = devices \ {k}
    /\ UNCHANGED <<gC2pKeyCount, pc, reg, unload, walk, raced, reused>>

(* c2pUnload.  The loop takes NextDevice from the object it has deleted.   *)
UnloadBegin ==
    /\ unload = "no"
    /\ unload' = "detach"
    /\ walk' = devices
    /\ UNCHANGED <<devices, gC2pKeyCount, pc, reg, raced, reused>>

\* Mutant: the loop stops before the last device of the chain.
UnloadDetach_NotLast ==
    /\ unload = "detach"
    /\ Cardinality(walk) > 1
    /\ \E d \in walk :
          /\ devices' = devices \ {d}
          /\ walk' = IF Cardinality(walk) = 2 THEN {} ELSE walk \ {d}
    /\ UNCHANGED <<gC2pKeyCount, pc, reg, unload, raced, reused>>

UnloadDetach ==
    /\ unload = "detach"
    /\ \E d \in walk :
          /\ devices' = devices \ {d}
          /\ \/ walk' = walk \ {d} /\ UNCHANGED reused
             \/ walk' = {} /\ reused' = TRUE
    /\ UNCHANGED <<gC2pKeyCount, pc, reg, unload, raced>>

UnloadLoopEnds ==
    /\ unload = "detach"
    /\ walk = {}
    /\ unload' = "wait"
    /\ UNCHANGED <<devices, gC2pKeyCount, pc, reg, walk, raced, reused>>

\* Each turn of the delay loop tests the count.
UnloadDone ==
    /\ unload = "wait"
    /\ gC2pKeyCount = 0
    /\ unload' = "done"
    /\ UNCHANGED <<devices, gC2pKeyCount, pc, reg, walk, raced, reused>>

-----------------------------------------------------------------------------
\* DriverEntry and c2pAttachDevices, when every attachment succeeds.
Init ==
    /\ devices = Keyboards
    /\ gC2pKeyCount = 0
    /\ pc = [k \in Keyboards |-> "idle"]
    /\ reg = [k \in Keyboards |-> 0]
    /\ unload = "no"
    /\ walk = {}
    /\ raced = FALSE
    /\ reused = FALSE

Dispatch(k) == Load(k) \/ StoreIncrement(k) \/ PassDown(k)
Complete(k) == ClassCompletes(k) \/ StoreDecrement(k) \/ Return(k)
Unload      == UnloadBegin \/ UnloadDetach \/ UnloadLoopEnds \/ UnloadDone

Next ==
    \/ \E k \in Keyboards : Enter(k) \/ Dispatch(k) \/ Complete(k) \/ RemoveDevice(k)
    \/ Unload

(* Threads inside the driver run on, and every keyboard is used sooner or  *)
(* later, which the unload counts on.  The unload itself may never begin.  *)
Fairness ==
    /\ WF_vars(UnloadDetach \/ UnloadLoopEnds \/ UnloadDone)
    /\ \A k \in Keyboards : WF_vars(Dispatch(k) \/ Complete(k))

Spec == Init /\ [][Next]_vars
FairSpec == Spec /\ Fairness

-----------------------------------------------------------------------------
\* Every variable keeps its type.
TypeOK ==
    /\ devices \subseteq Keyboards
    /\ gC2pKeyCount \in 0 .. (ULong - 1)
    /\ pc \in [Keyboards -> {"idle", "count", "store", "counted", "below", "uncount",
                             "unstore", "return"}]
    /\ reg \in [Keyboards -> 0 .. (ULong - 1)]
    /\ unload \in {"no", "detach", "wait", "done"}
    /\ walk \subseteq Keyboards
    /\ raced \in BOOLEAN
    /\ reused \in BOOLEAN

\* "Add 1 to the global key counter" (the comment of line 412): the counter
\* is the number of reads between the ++ of c2pDispatchRead and the -- of
\* c2pReadComplete, as long as no two updates of it have overlapped.  (On
\* one processor none do; on two an update is lost.)
ExactUnlessRaced ==
    ~raced => gC2pKeyCount = Cardinality({k \in Keyboards :
                                 pc[k] \in {"counted", "below", "uncount", "unstore"}})

\* c2pUnload does not return while a read below will still be completed into
\* this driver, unless an update of the count was lost.
UnloadWaits ==
    [][unload' = "done" /\ unload # "done" => Below = {} \/ raced]_vars

\* ASSERT(NULL == DriverObject->DeviceObject), line 261: every filter is
\* detached and deleted when the loop of c2pUnload ends.
AllDetached == unload \in {"wait", "done"} => devices = {}

\* That is so as long as freed device objects keep their NextDevice, whatever
\* keyboards came off before.
DetachedUnlessReused == ~reused => AllDetached

\* An unload that has begun ends, if no update of the count is lost and no
\* filter is left attached: the counter returns to zero, although reads are
\* still counted while filters are detached.
UnloadEnds == [](~raced /\ ~reused) => (unload = "detach" ~> unload = "done")

\* The count is that of the reads, and the chain of devices is taken apart
\* completely, unless an update was lost or freed memory was overwritten.
CountAndChain == TypeOK /\ ExactUnlessRaced /\ DetachedUnlessReused

\* The unload outlasts the reads below, and ends.
UnloadOutlastsReads == UnloadWaits /\ UnloadEnds

===============================================================================
