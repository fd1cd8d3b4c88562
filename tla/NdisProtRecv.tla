---------------------------- MODULE NdisProtRecv ----------------------------
(***************************************************************************)
(* The receive path of the protocol driver ndisprot (recv.c): read IRPs    *)
(* pended on an open context, packets queued on it, the routine that pairs *)
(* them, cancellation, and the three threads that empty what is left:      *)
(* cleanup of the handle (ntdisp.c), unbind (ndisbind.c) and the device's  *)
(* loss of power.                                                          *)
(*                                                                         *)
(* One binding, active at the start, and one file object opened on it.     *)
(* What is done under pOpenContext->Lock is one step, and so is leaving a  *)
(* loop: the unlock and the dereference after it.  Every IRP has the       *)
(* thread that dispatches it, every packet the thread that indicates it,   *)
(* named like the IRP and the packet.  Sends and requests are in           *)
(* NdisProtBind.  RecvPktCount is the length of RecvPktQueue: both change  *)
(* together under the lock.                                                *)
(***************************************************************************)
EXTENDS Naturals, Sequences, FiniteSets, SequencesExt

CONSTANTS
    Irps,                   \* read IRPs
    Packets,                \* packet descriptors, the miniport's and the driver's
    NoIrp, NoPacket,
    MAX_RECV_QUEUE_SIZE,    \* 4 in the driver
    MaxPower                \* bound: how often the device loses power

System  == {"cleanup", "unbind", "power"}

ASSUME RecvAssumption ==
    /\ Irps \cap Packets = {}
    /\ (Irps \cup Packets) \cap System = {}
    /\ NoIrp \notin Irps /\ NoPacket \notin Packets
    /\ IsFiniteSet(Irps) /\ IsFiniteSet(Packets)
    /\ MAX_RECV_QUEUE_SIZE \in Nat
    /\ MaxPower \in Nat

Threads == Irps \cup Packets \cup System

VARIABLES
    bind,               \* NUIOO_BIND_FLAGS
    PowerState,
    file,               \* the file object: open, cleaned up, closed
    RefCount,           \* 0: the open context is freed
    RecvPacketPool,     \* is there one?
    PendedReads, PendedReadCount,
    RecvPktQueue,
    irp,                \* where each IRP is
    routine,            \* is the cancel routine set?
    cancel,             \* NdisProtCancelRead of each IRP
    packet,             \* whose buffer each packet is; "free": not in use
    pc, has,            \* of the threads: where, and the IRP and the packet taken
    powerings           \* how often power was lost

context == <<bind, PowerState, file, RecvPacketPool, powerings>>
reads   == <<PendedReads, PendedReadCount, irp, routine, cancel>>
rcvs    == <<RecvPktQueue, packet>>
vars    == <<context, RefCount, reads, rcvs, pc, has>>

Nothing == [irp |-> NoIrp, packet |-> NoPacket]

Goto(t, where) == pc' = [pc EXCEPT ![t] = where]

At(t, where) == pc[t] = where

-----------------------------------------------------------------------------
(* References and packets.                                                 *)
ndisprotRefOpen   == RefCount > 0 /\ RefCount' = RefCount + 1
ndisprotDerefOpen == RefCount > 0 /\ RefCount' = RefCount - 1

\* To the driver's own pool, or back to the miniport.  The routine tells the
\* two apart by the pool, so there must still be one: PoolOutlivesPackets.
ndisprotFreeReceivePacket(p) == packet' = [packet EXCEPT ![p] = "free"]

-----------------------------------------------------------------------------
(* NdisProtRead.                                                           *)
Read(i) ==
    /\ file = "open"
    /\ irp[i] = "idle" /\ cancel[i] = "no" /\ At(i, "out")
    /\ irp' = [irp EXCEPT ![i] = "dispatched"]
    /\ Goto(i, "read")
    /\ UNCHANGED <<context, RefCount, PendedReads, PendedReadCount, routine, cancel, rcvs, has>>

ReadRefused(i) ==
    /\ At(i, "read")
    /\ bind # "ACTIVE"
    /\ irp' = [irp EXCEPT ![i] = "idle"]
    /\ Goto(i, "out")
    /\ UNCHANGED <<context, RefCount, PendedReads, PendedReadCount, routine, cancel, rcvs, has>>

\* Mutant: the IRP takes no reference to the open context.
ReadPends_NoReference(i) ==
    /\ At(i, "read")
    /\ bind = "ACTIVE"
    /\ PendedReads' = Append(PendedReads, i)
    /\ PendedReadCount' = PendedReadCount + 1
    /\ irp' = [irp EXCEPT ![i] = "pended"]
    /\ routine' = [routine EXCEPT ![i] = TRUE]
    /\ Goto(i, "service")
    /\ UNCHANGED <<context, RefCount, cancel, rcvs, has>>

\* Mutant: the routine that pairs reads and packets is not called.
ReadPends_NoService(i) ==
    /\ At(i, "read")
    /\ bind = "ACTIVE"
    /\ PendedReads' = Append(PendedReads, i)
    /\ PendedReadCount' = PendedReadCount + 1
    /\ ndisprotRefOpen
    /\ irp' = [irp EXCEPT ![i] = "pended"]
    /\ routine' = [routine EXCEPT ![i] = TRUE]
    /\ Goto(i, "out")
    /\ UNCHANGED <<context, cancel, rcvs, has>>

ReadPends(i) ==
    /\ At(i, "read")
    /\ bind = "ACTIVE"
    /\ PendedReads' = Append(PendedReads, i)
    /\ PendedReadCount' = PendedReadCount + 1
    /\ ndisprotRefOpen
    /\ irp' = [irp EXCEPT ![i] = "pended"]
    /\ routine' = [routine EXCEPT ![i] = TRUE]
    /\ Goto(i, "service")
    /\ UNCHANGED <<context, cancel, rcvs, has>>

-----------------------------------------------------------------------------
(* NdisProtCancelRead: the I/O manager has taken the cancel routine out.   *)
CancelCalled(i) ==
    /\ routine[i]
    /\ routine' = [routine EXCEPT ![i] = FALSE]
    /\ cancel' = [cancel EXCEPT ![i] = "called"]
    /\ UNCHANGED <<context, RefCount, PendedReads, PendedReadCount, irp, rcvs, pc, has>>

\* RemoveEntryList: one entry, wherever it is.
UnlinkedAt(k) == PendedReads' = RemoveAt(PendedReads, k)
Unlinked(i) == \E k \in DOMAIN PendedReads : PendedReads[k] = i /\ UnlinkedAt(k)

\* Mutant: the cancelled read still counts.
CancelRemoves_Uncounted(i) ==
    /\ cancel[i] = "called"
    /\ IF i \in ToSet(PendedReads)
       THEN /\ Unlinked(i)
            /\ cancel' = [cancel EXCEPT ![i] = "found"]
       ELSE /\ cancel' = [cancel EXCEPT ![i] = "no"]
            /\ UNCHANGED PendedReads
    /\ UNCHANGED <<context, RefCount, PendedReadCount, irp, routine, rcvs, pc, has>>

CancelRemoves(i) ==
    /\ cancel[i] = "called"
    /\ IF i \in ToSet(PendedReads)
       THEN /\ Unlinked(i)
            /\ PendedReadCount' = PendedReadCount - 1
            /\ cancel' = [cancel EXCEPT ![i] = "found"]
       ELSE /\ cancel' = [cancel EXCEPT ![i] = "no"]
            /\ UNCHANGED <<PendedReads, PendedReadCount>>
    /\ UNCHANGED <<context, RefCount, irp, routine, rcvs, pc, has>>

CancelCompletes(i) ==
    /\ cancel[i] = "found"
    /\ irp' = [irp EXCEPT ![i] = "idle"]
    /\ cancel' = [cancel EXCEPT ![i] = "no"]
    /\ ndisprotDerefOpen
    /\ UNCHANGED <<context, PendedReads, PendedReadCount, routine, rcvs, pc, has>>

-----------------------------------------------------------------------------
(* ndisprotServiceReads.                                                   *)
Servicing == {"service", "loop", "copy", "again"}

\* The count of the IRP completed last is lowered under the lock of the next
\* turn of the loop.
Settle(t) ==
    PendedReadCount' = PendedReadCount - (IF At(t, "again") \/ At(t, "cancel_again") THEN 1 ELSE 0)

\* A read can be taken as long as its cancel routine can be taken out.
Cancelable(k) == routine[PendedReads[k]]
AnyCancelable == \E k \in DOMAIN PendedReads : Cancelable(k)
FirstCancelable(k) == Cancelable(k) /\ \A j \in 1 .. k - 1 : ~Cancelable(j)

ServiceEnters(t) ==
    /\ At(t, "service")
    /\ ndisprotRefOpen
    /\ Goto(t, "loop")
    /\ UNCHANGED <<context, reads, rcvs, has>>

ServiceTakes(t) ==
    /\ pc[t] \in {"loop", "again"}
    /\ RecvPktQueue # <<>>
    /\ \E k \in DOMAIN PendedReads : LET i == PendedReads[k] IN
       /\ FirstCancelable(k)
       /\ UnlinkedAt(k)
       /\ routine' = [routine EXCEPT ![i] = FALSE]
       /\ irp' = [irp EXCEPT ![i] = "taken"]
       /\ has' = [has EXCEPT ![t] = [irp |-> i, packet |-> Head(RecvPktQueue)]]
    /\ RecvPktQueue' = Tail(RecvPktQueue)
    /\ ndisprotDerefOpen
    /\ Settle(t)
    /\ Goto(t, "copy")
    /\ UNCHANGED <<context, cancel, packet>>

ServiceCompletes(t) ==
    /\ At(t, "copy")
    /\ irp' = [irp EXCEPT ![has[t].irp] = "idle"]
    /\ ndisprotFreeReceivePacket(has[t].packet)
    /\ ndisprotDerefOpen
    /\ has' = [has EXCEPT ![t] = Nothing]
    /\ Goto(t, "again")
    /\ UNCHANGED <<context, PendedReads, PendedReadCount, routine, cancel, RecvPktQueue>>

ServiceStops(t) ==
    /\ pc[t] \in {"loop", "again"}
    /\ RecvPktQueue = <<>> \/ ~AnyCancelable
    /\ Settle(t)
    /\ ndisprotDerefOpen
    /\ Goto(t, "out")
    /\ UNCHANGED <<context, PendedReads, irp, routine, cancel, rcvs, has>>

-----------------------------------------------------------------------------
(* The miniport indicates packets while the adapter is open.               *)
Indicating(p) ==
    /\ bind \in {"ACTIVE", "CLOSING"}
    /\ pc["unbind"] \notin {"close", "free", "deref"}
    /\ packet[p] = "free" /\ At(p, "out")

\* NdisProtReceive copies into a packet of the driver's own pool, at once, or
\* with NdisTransferData, which may pend.  (Without memory it does nothing.)
NdisProtReceive(p) ==
    /\ Indicating(p)
    /\ packet' = [packet EXCEPT ![p] = "own"]
    /\ pc' \in {[pc EXCEPT ![p] = "queue"], [pc EXCEPT ![p] = "transfer"]}
    /\ UNCHANGED <<context, RefCount, reads, RecvPktQueue, has>>

NdisProtTransferDataComplete(p) ==
    /\ At(p, "transfer")
    /\ \/ /\ Goto(p, "queue")
          /\ UNCHANGED <<packet>>
       \/ /\ ndisprotFreeReceivePacket(p)
          /\ Goto(p, "out")
    /\ UNCHANGED <<context, RefCount, reads, RecvPktQueue, has>>

\* NdisProtReceivePacket keeps the miniport's packet, or copies it if the
\* miniport is short of them.
NdisProtReceivePacket(p) ==
    /\ Indicating(p)
    /\ packet' \in {[packet EXCEPT ![p] = "own"], [packet EXCEPT ![p] = "miniport"]}
    /\ Goto(p, "queue")
    /\ UNCHANGED <<context, RefCount, reads, RecvPktQueue, has>>

\* ndisprotQueueReceivePacket: a packet that comes at a bad time is dropped
\* (its reference taken and let go); the oldest one, if there are too many.
QueueDrops(p) ==
    /\ At(p, "queue")
    /\ ~(bind = "ACTIVE" /\ PowerState = "D0")
    /\ ndisprotFreeReceivePacket(p)
    /\ Goto(p, "out")
    /\ UNCHANGED <<context, RefCount, reads, RecvPktQueue, has>>

QueueInserts(p) ==
    /\ At(p, "queue")
    /\ bind = "ACTIVE" /\ PowerState = "D0"
    /\ IF Len(RecvPktQueue) + 1 > MAX_RECV_QUEUE_SIZE
       THEN LET queue == Append(RecvPktQueue, p) IN
            /\ RecvPktQueue' = Tail(queue)
            /\ ndisprotFreeReceivePacket(Head(queue))
            /\ UNCHANGED RefCount
       ELSE /\ RecvPktQueue' = Append(RecvPktQueue, p)
            /\ ndisprotRefOpen
            /\ UNCHANGED <<packet>>
    /\ Goto(p, "service")
    /\ UNCHANGED <<context, reads, has>>

-----------------------------------------------------------------------------
(* ndisprotCancelPendingReads, called by cleanup and by unbind.            *)
CancelAllEnters(t) ==
    /\ At(t, "cancel")
    /\ ndisprotRefOpen
    /\ Goto(t, "cancel_loop")
    /\ UNCHANGED <<context, reads, rcvs, has>>

CancelAllTakes(t) ==
    /\ pc[t] \in {"cancel_loop", "cancel_again"}
    /\ PendedReads # <<>>
    /\ LET i == Head(PendedReads) IN
       /\ routine[i]
       /\ routine' = [routine EXCEPT ![i] = FALSE]
       /\ irp' = [irp EXCEPT ![i] = "taken"]
       /\ has' = [has EXCEPT ![t] = [irp |-> i, packet |-> NoPacket]]
    /\ PendedReads' = Tail(PendedReads)
    /\ Settle(t)
    /\ Goto(t, "cancel_took")
    /\ UNCHANGED <<context, RefCount, cancel, rcvs>>

CancelAllCompletes(t) ==
    /\ At(t, "cancel_took")
    /\ irp' = [irp EXCEPT ![has[t].irp] = "idle"]
    /\ ndisprotDerefOpen
    /\ has' = [has EXCEPT ![t] = Nothing]
    /\ Goto(t, "cancel_again")
    /\ UNCHANGED <<context, PendedReads, PendedReadCount, routine, cancel, rcvs>>

\* The head is being cancelled: sleep, and look again.
CancelAllSleeps(t) ==
    /\ At(t, "cancel_again")
    /\ PendedReads # <<>> /\ ~routine[Head(PendedReads)]
    /\ Settle(t)
    /\ Goto(t, "cancel_loop")
    /\ UNCHANGED <<context, RefCount, PendedReads, irp, routine, cancel, rcvs, has>>

\* Back to NdisProtCleanup, or to ndisprotWaitForPendingIO.
CancelAllStops(t) ==
    /\ pc[t] \in {"cancel_loop", "cancel_again"}
    /\ PendedReads = <<>>
    /\ Settle(t)
    /\ ndisprotDerefOpen
    /\ Goto(t, IF t = "cleanup" THEN "flush" ELSE "wait")
    /\ UNCHANGED <<context, PendedReads, irp, routine, cancel, rcvs, has>>

-----------------------------------------------------------------------------
(* ndisprotFlushReceiveQueue, called by cleanup, unbind and power.         *)
FlushEnters(t) ==
    /\ At(t, "flush")
    /\ ndisprotRefOpen
    /\ Goto(t, "flush_loop")
    /\ UNCHANGED <<context, reads, rcvs, has>>

FlushTakes(t) ==
    /\ At(t, "flush_loop")
    /\ RecvPktQueue # <<>>
    /\ has' = [has EXCEPT ![t] = [irp |-> NoIrp, packet |-> Head(RecvPktQueue)]]
    /\ RecvPktQueue' = Tail(RecvPktQueue)
    /\ Goto(t, "flush_took")
    /\ UNCHANGED <<context, RefCount, reads, packet>>

FlushFrees(t) ==
    /\ At(t, "flush_took")
    /\ ndisprotFreeReceivePacket(has[t].packet)
    /\ ndisprotDerefOpen
    /\ has' = [has EXCEPT ![t] = Nothing]
    /\ Goto(t, "flush_loop")
    /\ UNCHANGED <<context, reads, RecvPktQueue>>

FlushStops(t) ==
    /\ At(t, "flush_loop")
    /\ RecvPktQueue = <<>>
    /\ ndisprotDerefOpen
    /\ Goto(t, CASE t = "cleanup" -> "done" [] t = "unbind" -> "close" [] OTHER -> "out")
    /\ UNCHANGED <<context, reads, rcvs, has>>

-----------------------------------------------------------------------------
(* NdisProtCleanup and NdisProtClose.  Reads may still be on their way in. *)
CleanupBegins ==
    /\ file = "open"
    /\ file' = "cleanup"
    /\ Goto("cleanup", "cancel")
    /\ UNCHANGED <<bind, PowerState, RecvPacketPool, powerings, RefCount, reads, rcvs, has>>

\* The file object is closed when no IRP refers to it any more.
Close ==
    /\ file = "cleanup" /\ At("cleanup", "done")
    /\ \A i \in Irps : irp[i] = "idle"
    /\ file' = "closed"
    /\ ndisprotDerefOpen
    /\ UNCHANGED <<bind, PowerState, RecvPacketPool, powerings, reads, rcvs, pc, has>>

-----------------------------------------------------------------------------
(* NdisProtUnbindAdapter: ndisprotShutdownBinding.  NDIS does not call it  *)
(* while it is telling of a change of power.                               *)
UnbindBegins ==
    /\ bind = "ACTIVE"
    /\ At("power", "out")
    /\ bind' = "CLOSING"
    /\ Goto("unbind", "wait")
    /\ UNCHANGED <<PowerState, file, RecvPacketPool, powerings, RefCount, reads, rcvs, has>>

\* ndisprotWaitForPendingIO: as long as there are reads, cancel them.

UnbindWaits ==
    /\ At("unbind", "wait")
    /\ Goto("unbind", IF PendedReadCount # 0 THEN "cancel" ELSE "flush")
    /\ UNCHANGED <<context, RefCount, reads, rcvs, has>>

\* NdisCloseAdapter returns when no indication is in progress.
UnbindCloses ==
    /\ At("unbind", "close")
    /\ \A p \in Packets : At(p, "out")
    /\ bind' = "IDLE"
    /\ Goto("unbind", "free")
    /\ UNCHANGED <<PowerState, file, RecvPacketPool, powerings, RefCount, reads, rcvs, has>>

\* ndisprotFreeBindResources.
UnbindFrees ==
    /\ At("unbind", "free")
    /\ RecvPacketPool' = FALSE
    /\ Goto("unbind", "deref")
    /\ UNCHANGED <<bind, PowerState, file, powerings, RefCount, reads, rcvs, has>>

UnbindDerefs ==
    /\ At("unbind", "deref")
    /\ ndisprotDerefOpen
    /\ Goto("unbind", "done")
    /\ UNCHANGED <<context, reads, rcvs, has>>

-----------------------------------------------------------------------------
(* NdisProtPnPEventHandler, NetEventSetPower.                              *)
PowerDown ==
    /\ bind = "ACTIVE"
    /\ PowerState = "D0" /\ At("power", "out")
    /\ powerings < MaxPower
    /\ powerings' = powerings + 1
    /\ PowerState' = "D3"
    /\ Goto("power", "flush")
    /\ UNCHANGED <<bind, file, RecvPacketPool, RefCount, reads, rcvs, has>>

PowerUp ==
    /\ bind = "ACTIVE"
    /\ PowerState = "D3" /\ At("power", "out")
    /\ PowerState' = "D0"
    /\ UNCHANGED <<bind, file, RecvPacketPool, powerings, RefCount, reads, rcvs, pc, has>>

-----------------------------------------------------------------------------
Init ==
    /\ bind = "ACTIVE" /\ PowerState = "D0" /\ file = "open"
    /\ RefCount = 2                     \* the binding's and the file object's
    /\ RecvPacketPool = TRUE
    /\ PendedReads = <<>> /\ PendedReadCount = 0
    /\ RecvPktQueue = <<>>
    /\ irp = [i \in Irps |-> "idle"]
    /\ routine = [i \in Irps |-> FALSE]
    /\ cancel = [i \in Irps |-> "no"]
    /\ packet = [p \in Packets |-> "free"]
    /\ pc = [t \in Threads |-> "out"]
    /\ has = [t \in Threads |-> Nothing]
    /\ powerings = 0

Service(t)   == \/ ServiceEnters(t) \/ ServiceTakes(t) \/ ServiceCompletes(t)
                \/ ServiceStops(t)
CancelAll(t) == \/ CancelAllEnters(t) \/ CancelAllTakes(t) \/ CancelAllCompletes(t)
                \/ CancelAllSleeps(t) \/ CancelAllStops(t)
Flush(t)     == FlushEnters(t) \/ FlushTakes(t) \/ FlushFrees(t) \/ FlushStops(t)
Pending(i)   == ReadRefused(i) \/ ReadPends(i)
Cancelling(i) == CancelRemoves(i) \/ CancelCompletes(i)
Queueing(p)  == NdisProtTransferDataComplete(p) \/ QueueDrops(p) \/ QueueInserts(p)
Unbinding    == UnbindWaits \/ UnbindCloses \/ UnbindFrees \/ UnbindDerefs

Next ==
    \/ \E i \in Irps : Read(i) \/ Pending(i) \/ CancelCalled(i) \/ Cancelling(i)
    \/ \E p \in Packets : NdisProtReceive(p) \/ NdisProtReceivePacket(p) \/ Queueing(p)
    \/ \E t \in Irps \cup Packets : Service(t)
    \/ \E t \in {"cleanup", "unbind"} : CancelAll(t)
    \/ \E t \in System : Flush(t)
    \/ CleanupBegins \/ Close
    \/ UnbindBegins \/ Unbinding
    \/ PowerDown \/ PowerUp

Spec == Init /\ [][Next]_vars

\* A thread inside the driver runs on, and NDIS completes its transfers.
Fairness ==
    /\ \A i \in Irps : WF_vars(Pending(i)) /\ WF_vars(Cancelling(i))
    /\ \A p \in Packets : WF_vars(Queueing(p))
    /\ \A t \in Irps \cup Packets : WF_vars(Service(t))
    /\ \A t \in {"cleanup", "unbind"} : WF_vars(CancelAll(t))
    /\ \A t \in System : WF_vars(Flush(t))
    /\ WF_vars(Unbinding)

FairSpec == Spec /\ Fairness

-----------------------------------------------------------------------------
Pcs == {"out", "read", "service", "loop", "copy", "again", "transfer",
        "queue", "cancel", "cancel_loop", "cancel_took", "cancel_again",
        "flush", "flush_loop", "flush_took",
        "wait", "close", "free", "deref", "done"}

\* Every variable keeps its type; the queue stays within its water mark, by
\* which the code discards the packet at its head (recv.c:811).
TypeOK ==
    /\ bind \in {"ACTIVE", "CLOSING", "IDLE"}
    /\ PowerState \in {"D0", "D3"}
    /\ file \in {"open", "cleanup", "closed"}
    /\ RefCount \in Nat
    /\ RecvPacketPool \in BOOLEAN
    /\ PendedReads \in Seq(Irps) /\ PendedReadCount \in Nat
    /\ RecvPktQueue \in Seq(Packets) /\ Len(RecvPktQueue) <= MAX_RECV_QUEUE_SIZE
    /\ irp \in [Irps -> {"idle", "dispatched", "pended", "taken"}]
    /\ routine \in [Irps -> BOOLEAN]
    /\ cancel \in [Irps -> {"no", "called", "found"}]
    /\ packet \in [Packets -> {"free", "own", "miniport"}]
    /\ pc \in [Threads -> Pcs]
    /\ has \in [Threads -> [irp : Irps \cup {NoIrp}, packet : Packets \cup {NoPacket}]]
    /\ powerings \in 0 .. MaxPower

InState(S) == Cardinality({t \in Threads : pc[t] \in S})

\* The reference count is the number of those who count on the open context:
\* the binding, the file object, every pended read until it is completed, every
\* packet queued or being flushed, and every thread in one of the three loops.
\* One reference too few frees it under somebody, one too many leaks it.
ReferencesExact ==
    RefCount = (IF At("unbind", "done") THEN 0 ELSE 1)
             + (IF file = "closed" THEN 0 ELSE 1)
             + Len(PendedReads) + Cardinality({i \in Irps : cancel[i] = "found"})
             + InState({"copy", "cancel_took"})
             + Len(RecvPktQueue) + InState({"flush_took"})
             + InState({"loop", "copy", "again", "cancel_loop", "cancel_took",
                        "cancel_again", "flush_loop", "flush_took"})

\* PendedReadCount, which unbind waits for, counts every read that is in the
\* list, or out of it and not yet done with (recv.c:336, 1077).
PendedReadsCounted ==
    PendedReadCount = Len(PendedReads) + InState({"copy", "again", "cancel_took", "cancel_again"})

\* No packet lies in the queue beside a read that could have it, unless a
\* thread is about to pair them: the two insert on different processors, and
\* each looks at both lists afterwards (recv.c:99, 838).
NoStrandedRead ==
    RecvPktQueue # <<>> /\ AnyCancelable => \E t \in Threads : pc[t] \in Servicing

\* Each read is completed by one of the parties that race for it, its
\* dispatcher's and the miniport's service loop, its cancel routine, cleanup
\* and unbind: it is in the list, or taken by exactly one of them, or complete.
OneCompletes ==
    \A i \in Irps :
        LET takers == Cardinality({t \in Threads : has[t].irp = i})
                      + (IF cancel[i] = "found" THEN 1 ELSE 0)
                      + Cardinality({n \in DOMAIN PendedReads : PendedReads[n] = i})
        IN  takers = (IF irp[i] \in {"pended", "taken"} THEN 1 ELSE 0)

\* The open context is not used after it was freed.  One way is left: a read
\* is completed by another thread before its dispatcher has entered
\* ndisprotServiceReads (recv.c:94-99), and close and unbind come in between.
FreedUnlessLate ==
    RefCount = 0 =>
        \A t \in Threads : \/ pc[t] \in {"out", "done"}
                           \/ t \in Irps /\ At(t, "service") /\ irp[t] = "idle"

\* The packet pool is not freed while packets of it are in use, as long as
\* the flush of a cleanup does not overlap with the unbind: what it has taken
\* out is counted nowhere (recv.c:1140-1147 and ndisbind.c:866-870).
PoolOutlivesPackets ==
    ~RecvPacketPool =>
        \A p \in Packets : packet[p] = "own" => has["cleanup"].packet = p

\* NdisProtUnbindAdapter returns, though reads, cancellations, packets and a
\* cleanup go on around it (ndisbind.c:980-991).
UnbindReturns == bind = "CLOSING" ~> At("unbind", "done")

\* Both counts on which an unbind relies are those of the reads, packets and
\* threads that are there: the references, and PendedReadCount.
CountsExact == TypeOK /\ ReferencesExact /\ PendedReadsCounted

\* A read that is raced for is completed by one, and none is left beside a packet.
ReadsServed == OneCompletes /\ NoStrandedRead

\* Neither the open context nor its packet pool is freed under somebody, but in
\* the two windows the parts name.
NothingFreedInUse == FreedUnlessLate /\ PoolOutlivesPackets

===============================================================================
