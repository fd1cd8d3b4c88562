----------------------------- MODULE NdisEdgeSend -----------------------------
(***************************************************************************)
(* Packets that NDIS gives the ndisedge miniport to send (Send.c,          *)
(* NdisWdm.c: MPCancelSendPackets, MPHalt; Init.c: the send resources).    *)
(*                                                                         *)
(* A packet is copied into a free TCB and written to the target driver; if *)
(* no TCB is free it waits in SendWaitList.  A write that completes frees  *)
(* its TCB and sends one packet that waits.  MPSendPackets runs in the     *)
(* threads of NDIS and, for a packet that waited, in those of completion.  *)
(* Flags is a word that is read, changed and written without a lock.       *)
(***************************************************************************)
EXTENDS Naturals, Integers, Sequences, FiniteSets

CONSTANTS
    Packets,
    TCBs,               \* NIC_MAX_BUSY_SENDS of them
    Callers,            \* threads in MPSendPackets for NDIS
    Dpcs,               \* threads in NICWriteRequestCompletion
    MaxMedia,           \* bound on changes of the media's state
    MaxArray,           \* bound on the packets of one call
    none

Threads == Callers \cup Dpcs

NdisEdgeSendAssumption ==
    /\ IsFiniteSet(TCBs) /\ none \notin Packets \cup TCBs \cup Threads
    /\ Callers \cap Dpcs = {} /\ MaxArray \in Nat

VARIABLES
    Flags,              \* the bits this module tells apart
    halt,               \* where MPHalt is
    media,              \* indications so far, and the Flags one of them has read
    SendFreeList, SendWaitList, nBusySend,
    Ref, OrgSendPacket, \* of each TCB
    sent,               \* TCBs whose write request the target has
    canceling,          \* SendCancelList
    given, completed,   \* packets NDIS gave; how often each was completed
    dropped,            \* packets MPSendPackets did nothing about
    stale,              \* has a TCB lost a reference that was not the packet's?
    pc,                 \* where each thread is
    array, Status, pTCB, Packet     \* its local variables

lists   == <<SendFreeList, nBusySend, Ref, OrgSendPacket>>
packets == <<given, completed, dropped, stale>>
locals  == <<array, Status, pTCB, Packet>>
device  == <<Flags, halt, media>>
vars    == <<device, lists, SendWaitList, sent, canceling, packets, pc, locals>>

At(h, place)   == pc[h] = place
Goto(h, place) == pc' = [pc EXCEPT ![h] = place]

MP_IS_READY == Flags \cap {"disconnected", "halt", "removed"} = {}

Complete(p) == completed' = [completed EXCEPT ![p] = @ + 1]

-----------------------------------------------------------------------------
\* MPSendPackets: Status and pTCB are set once for the whole array.
Begins(h, packetArray) ==
    /\ array' = [array EXCEPT ![h] = packetArray]
    /\ Status' = [Status EXCEPT ![h] = "failure"]
    /\ pTCB' = [pTCB EXCEPT ![h] = none]
    /\ Goto(h, "test")

MPSendPackets(h) ==
    /\ h \in Callers /\ At(h, "idle") /\ halt = "up"
    /\ \E n \in 1 .. MaxArray :
           \E packetArray \in [1 .. n -> Packets \ given] :
               /\ \A i, j \in 1 .. n : packetArray[i] = packetArray[j] => i = j
               /\ Begins(h, packetArray)
               /\ given' = given \cup {packetArray[i] : i \in 1 .. n}
    /\ UNCHANGED <<Packet, device, lists, SendWaitList, sent, canceling, completed, dropped, stale>>

\* The end of the loop's body, and of the loop: forget the locals.
NextPacket(h) ==
    IF Len(array[h]) > 1
    THEN /\ array' = [array EXCEPT ![h] = Tail(@)]
         /\ Goto(h, "test") /\ UNCHANGED <<Status, pTCB, Packet>>
    ELSE /\ array' = [array EXCEPT ![h] = <<>>]
         /\ Status' = [Status EXCEPT ![h] = "failure"]
         /\ pTCB' = [pTCB EXCEPT ![h] = none]
         /\ Packet' = [Packet EXCEPT ![h] = none]
         /\ Goto(h, "idle")

SendTests(h) ==
    /\ At(h, "test")
    /\ Goto(h, IF MP_IS_READY /\ "post" \in Flags THEN "take" ELSE "skipped")
    /\ UNCHANGED <<locals, device, lists, SendWaitList, sent, canceling, packets>>

SendTakes(h) ==
    /\ At(h, "take")
    /\ IF SendFreeList = {}
       THEN /\ pTCB' = [pTCB EXCEPT ![h] = none] /\ Goto(h, "queue")
            /\ UNCHANGED SendFreeList
       ELSE \E t \in SendFreeList :
                /\ pTCB' = [pTCB EXCEPT ![h] = t] /\ Goto(h, "copy")
                /\ SendFreeList' = SendFreeList \ {t}
    /\ UNCHANGED <<array, Status, Packet, device, nBusySend, Ref, OrgSendPacket, SendWaitList,
                   sent, canceling, packets>>

\* Mutant: the packet is put back at the wrong list.
SendQueues_Lost(h) ==
    /\ At(h, "queue")
    /\ Status' = [Status EXCEPT ![h] = "pending"]
    /\ Goto(h, "check")
    /\ UNCHANGED <<array, pTCB, Packet, device, lists, SendWaitList, sent, canceling, packets>>

SendQueues(h) ==
    /\ At(h, "queue")
    /\ SendWaitList' = Append(SendWaitList, Head(array[h]))
    /\ Status' = [Status EXCEPT ![h] = "pending"]
    /\ Goto(h, "check")
    /\ UNCHANGED <<array, pTCB, Packet, device, lists, sent, canceling, packets>>

\* NICCopyPacket, which fails if a buffer cannot be mapped.
SendCopies(h) ==
    /\ At(h, "copy")
    /\ nBusySend' = nBusySend + 1
    /\ OrgSendPacket' = [OrgSendPacket EXCEPT ![pTCB[h]] = Head(array[h])]
    /\ Ref' = [Ref EXCEPT ![pTCB[h]] = 1]
    /\ \/ Goto(h, "post") /\ UNCHANGED Status
       \/ Goto(h, "check") /\ Status' = [Status EXCEPT ![h] = "failure"]
    /\ UNCHANGED <<array, pTCB, Packet, device, SendFreeList, SendWaitList, sent, canceling, packets>>

\* NICPostWriteRequest: a closed target refuses, another may.
SendPosts(h) ==
    /\ At(h, "post")
    /\ \/ /\ halt \notin {"flush", "wait", "freed"}
          /\ sent' = sent \cup {pTCB[h]}
          /\ Status' = [Status EXCEPT ![h] = "success"]
       \/ Status' = [Status EXCEPT ![h] = "failure"] /\ UNCHANGED sent
    /\ Goto(h, "check")
    /\ UNCHANGED <<array, pTCB, Packet, device, lists, SendWaitList, canceling, packets>>

\* A packet that was neither sent nor queued has the Status of the one before
\* it in the array: unless that failed, nothing is done about it.
SendGoesOn(h) ==
    /\ pc[h] \in {"check", "skipped"} /\ Status[h] # "failure"
    /\ dropped' = IF At(h, "skipped") THEN dropped \cup {Head(array[h])} ELSE dropped
    /\ NextPacket(h)
    /\ UNCHANGED <<device, lists, SendWaitList, sent, canceling, given, completed, stale>>

SendFails(h) ==
    /\ pc[h] \in {"check", "skipped"} /\ Status[h] = "failure"
    /\ Complete(Head(array[h]))
    /\ Goto(h, "deref")
    /\ UNCHANGED <<locals, device, lists, SendWaitList, sent, canceling, given, dropped, stale>>

\* Mutant: a TCB whose packet has failed is not given back.
SendDerefs_Not(h) ==
    /\ At(h, "deref")
    /\ NextPacket(h)
    /\ UNCHANGED <<device, lists, SendWaitList, sent, canceling, packets>>

\* pTCB may be that of a packet before.
SendDerefs(h) ==
    /\ At(h, "deref")
    /\ IF pTCB[h] = none THEN NextPacket(h) /\ UNCHANGED <<Ref, stale>>
       ELSE /\ Ref' = [Ref EXCEPT ![pTCB[h]] = @ - 1]
            /\ stale' = (stale \/ OrgSendPacket[pTCB[h]] # Head(array[h]))
            /\ IF Ref[pTCB[h]] = 1 THEN Goto(h, "reclaim") /\ UNCHANGED locals ELSE NextPacket(h)
    /\ UNCHANGED <<device, SendFreeList, nBusySend, OrgSendPacket, SendWaitList, sent, canceling,
                   given, completed, dropped>>

\* A request the target has cannot be reused: the TCB is left where it is.
NICFreeSendTCB(t) ==
    /\ OrgSendPacket' = [OrgSendPacket EXCEPT ![t] = none]
    /\ IF t \in sent THEN UNCHANGED <<SendFreeList, nBusySend>>
       ELSE SendFreeList' = SendFreeList \cup {t} /\ nBusySend' = nBusySend - 1

SendReclaims(h) ==
    /\ At(h, "reclaim")
    /\ NICFreeSendTCB(pTCB[h])
    /\ NextPacket(h)
    /\ UNCHANGED <<device, Ref, SendWaitList, sent, canceling, packets>>

-----------------------------------------------------------------------------
\* NICWriteRequestCompletion, whether the write was done, failed or cancelled.
WriteCompletes(d, t) ==
    /\ d \in Dpcs /\ At(d, "idle") /\ t \in sent
    /\ sent' = sent \ {t}
    /\ Ref' = [Ref EXCEPT ![t] = @ - 1]
    /\ IF Ref[t] = 1
       THEN /\ pTCB' = [pTCB EXCEPT ![d] = t]
            /\ Packet' = [Packet EXCEPT ![d] = OrgSendPacket[t]]
            /\ Goto(d, "free")
       ELSE UNCHANGED <<pTCB, Packet, pc>>
    /\ UNCHANGED <<array, Status, device, SendFreeList, nBusySend, OrgSendPacket, SendWaitList,
                   canceling, packets>>

WriteFrees(d) ==
    /\ At(d, "free")
    /\ NICFreeSendTCB(pTCB[d])
    /\ pTCB' = [pTCB EXCEPT ![d] = none]
    /\ Goto(d, "complete")
    /\ UNCHANGED <<array, Status, Packet, device, Ref, SendWaitList, sent, canceling, packets>>

WriteReports(d) ==
    /\ At(d, "complete")
    /\ Complete(Packet[d])
    /\ Packet' = [Packet EXCEPT ![d] = none]
    /\ Goto(d, "pop")
    /\ UNCHANGED <<array, Status, pTCB, device, lists, SendWaitList, sent, canceling,
                   given, dropped, stale>>

\* One packet that waits is sent in this thread.
WritePops(d) ==
    /\ At(d, "pop")
    /\ IF SendWaitList = <<>> THEN Goto(d, "idle") /\ UNCHANGED <<array, Status, pTCB, SendWaitList>>
       ELSE Begins(d, <<Head(SendWaitList)>>) /\ SendWaitList' = Tail(SendWaitList)
    /\ UNCHANGED <<Packet, device, lists, sent, canceling, packets>>

-----------------------------------------------------------------------------

\* What is left of the packets that wait without those of ps, in their order.
WaitListWithout(ps) ==
    LET left  == {i \in DOMAIN SendWaitList : SendWaitList[i] \notin ps}
        nth(k) == CHOOSE i \in left : Cardinality({j \in left : j <= i}) = k
    IN  [k \in 1 .. Cardinality(left) |-> SendWaitList[nth(k)]]

\* MPCancelSendPackets: those that wait and have the cancel id, under SendLock.
Cancels ==
    /\ halt = "up" /\ canceling = {}
    /\ \E ps \in SUBSET {SendWaitList[i] : i \in DOMAIN SendWaitList} \ {{}} :
           /\ canceling' = ps
           /\ SendWaitList' = WaitListWithout(ps)
    /\ UNCHANGED <<pc, locals, device, lists, sent, packets>>

CancelCompletes ==
    /\ canceling # {}
    /\ LET p == CHOOSE p \in canceling : TRUE IN
       Complete(p) /\ canceling' = canceling \ {p}
    /\ UNCHANGED <<pc, locals, device, lists, SendWaitList, sent, given, dropped, stale>>

-----------------------------------------------------------------------------
\* The media's state changes while the target still completes requests: the
\* thread has read Flags, and writes all of it back.
MediaReads ==
    /\ halt \in {"up", "stop"} /\ media.old = none /\ media.n < MaxMedia
    /\ media' = [n |-> media.n + 1, old |-> Flags]
    /\ UNCHANGED <<Flags, halt, pc, locals, lists, SendWaitList, sent, canceling, packets>>

MediaWrites ==
    /\ media.old # none
    /\ Flags' \in {media.old \cup {"disconnected"}, media.old \ {"disconnected"}}
    /\ media' = [media EXCEPT !.old = none]
    /\ UNCHANGED <<halt, pc, locals, lists, SendWaitList, sent, canceling, packets>>

\* MPPnPEventNotify.
SurpriseRemoved ==
    /\ halt = "up"
    /\ Flags' = Flags \cup {"removed"}
    /\ UNCHANGED <<halt, media, pc, locals, lists, SendWaitList, sent, canceling, packets>>

\* MPHalt.  NDIS has no call into the miniport then.
HaltBegins ==
    /\ halt = "up" /\ canceling = {} /\ \A h \in Callers : At(h, "idle")
    /\ Flags' = (Flags \cup {"halt"}) \ {"post"}
    /\ halt' = "stop"
    /\ UNCHANGED <<media, pc, locals, lists, SendWaitList, sent, canceling, packets>>

\* WdfIoTargetStop and Close return when every request has been completed.
HaltStops ==
    /\ halt = "stop" /\ sent = {} /\ media.old = none /\ \A d \in Dpcs : At(d, "idle")
    /\ halt' = "flush"
    /\ UNCHANGED <<Flags, media, pc, locals, lists, SendWaitList, sent, canceling, packets>>

\* NICFreeQueuedSendPackets.
HaltFlushes ==
    /\ halt = "flush"
    /\ IF SendWaitList = <<>> THEN halt' = "wait" /\ UNCHANGED <<SendWaitList, completed>>
       ELSE /\ Complete(Head(SendWaitList)) /\ SendWaitList' = Tail(SendWaitList)
            /\ UNCHANGED halt
    /\ UNCHANGED <<Flags, media, pc, locals, lists, sent, canceling, given, dropped, stale>>

\* The loop of MPHalt, then NICFreeSendResources.
HaltFrees ==
    /\ halt = "wait" /\ nBusySend = 0
    /\ halt' = "freed"
    /\ UNCHANGED <<Flags, media, pc, locals, lists, SendWaitList, sent, canceling, packets>>

-----------------------------------------------------------------------------
\* NICAllocSendResources has run and the adapter is ready.
Init ==
    /\ Flags = {"post"} /\ halt = "up" /\ media = [n |-> 0, old |-> none]
    /\ SendFreeList = TCBs /\ SendWaitList = <<>> /\ nBusySend = 0
    /\ Ref = [t \in TCBs |-> 0] /\ OrgSendPacket = [t \in TCBs |-> none]
    /\ sent = {} /\ canceling = {}
    /\ given = {} /\ completed = [p \in Packets |-> 0] /\ dropped = {} /\ stale = FALSE
    /\ pc = [h \in Threads |-> "idle"]
    /\ array = [h \in Threads |-> <<>>] /\ Status = [h \in Threads |-> "failure"]
    /\ pTCB = [h \in Threads |-> none] /\ Packet = [h \in Threads |-> none]

Send(h) ==
    \/ SendTests(h) \/ SendTakes(h) \/ SendQueues(h) \/ SendCopies(h) \/ SendPosts(h)
    \/ SendGoesOn(h) \/ SendFails(h) \/ SendDerefs(h) \/ SendReclaims(h)

WriteCompletion(d) == WriteFrees(d) \/ WriteReports(d) \/ WritePops(d)

Halts == HaltStops \/ HaltFlushes \/ HaltFrees

Next ==
    \/ \E h \in Threads : MPSendPackets(h) \/ Send(h)
    \/ \E d \in Dpcs : WriteCompletion(d) \/ \E t \in TCBs : WriteCompletes(d, t)
    \/ Cancels \/ CancelCompletes \/ MediaReads \/ MediaWrites \/ SurpriseRemoved
    \/ HaltBegins \/ Halts

Spec == Init /\ [][Next]_vars

\* Threads run on, and a target that is stopped completes what it has.
Fairness ==
    /\ \A h \in Threads : WF_vars(Send(h))
    /\ \A d \in Dpcs : WF_vars(WriteCompletion(d))
    /\ WF_vars(\E d \in Dpcs, t \in TCBs : halt = "stop" /\ WriteCompletes(d, t))
    /\ WF_vars(MediaWrites) /\ WF_vars(CancelCompletes) /\ WF_vars(Halts)

FairSpec == Spec /\ Fairness

-----------------------------------------------------------------------------
TypeOK ==
    /\ Flags \subseteq {"post", "disconnected", "halt", "removed"}
    /\ halt \in {"up", "stop", "flush", "wait", "freed"}
    /\ SendFreeList \subseteq TCBs /\ sent \subseteq TCBs /\ nBusySend \in Int
    /\ SendWaitList \in Seq(Packets)
    /\ Ref \in [TCBs -> Int] /\ OrgSendPacket \in [TCBs -> Packets \cup {none}]
    /\ canceling \subseteq Packets /\ given \subseteq Packets /\ dropped \subseteq Packets
    /\ \A h \in Threads : At(h, "idle") => array[h] = <<>> /\ Packet[h] = none

Waits(p) == \E i \in DOMAIN SendWaitList : SendWaitList[i] = p
Held(p) ==
    \/ Waits(p) \/ p \in canceling
    \/ \E t \in TCBs : OrgSendPacket[t] = p
    \/ \E h \in Threads : Packet[h] = p \/ \E i \in DOMAIN array[h] : array[h][i] = p

\* "complete each incoming send packet with NdisMSendComplete" (Send.c:46-47):
\* every packet is completed or still held, except one that met a change of
\* the media's state behind another in its array (Send.c:91, 144).
Kept == stale \/ \A p \in given : completed[p] = 0 => Held(p) \/ p \in dropped

\* A completed packet is the protocol's: it is completed once, and neither
\* waits nor is written.
ReturnedUntouched ==
    stale \/ \A p \in Packets : completed[p] > 0 =>
        completed[p] = 1 /\ ~Waits(p) /\ p \notin canceling
            /\ \A t \in sent : OrgSendPacket[t] # p

\* nBusySend, for which MPHalt waits, counts the TCBs that are off the free
\* list, without those a thread has just taken; a write belongs to one TCB
\* that is not free (Send.c:116, 376, 410).
BusyExact ==
    stale \/ /\ nBusySend + Cardinality(SendFreeList \cup {pTCB[h] : h \in {g \in Threads : At(g, "copy")}})
                    = Cardinality(TCBs)
             /\ \A t \in sent : t \notin SendFreeList /\ Ref[t] = 1

\* The resources are freed with every TCB back in its list, nothing waiting
\* (Init.c:394-395) and every packet back with its protocol.
FreedClean ==
    halt = "freed" /\ ~stale =>
        /\ SendFreeList = TCBs /\ SendWaitList = <<>> /\ sent = {}
        /\ \A h \in Threads : At(h, "idle")
        /\ \A p \in given \ dropped : completed[p] = 1

\* MPHalt returns (NdisWdm.c:484-520), if no TCB has lost a reference.
HaltReturns == halt = "stop" ~> halt = "freed" \/ stale

\* The send path accounts for its packets and its TCBs: every packet given to
\* MPSendPackets is kept and completed once, and the halt frees TCBs that
\* nobody uses.
SendsAccounted == TypeOK /\ Kept /\ ReturnedUntouched /\ BusyExact /\ FreedClean

===============================================================================
