----------------------------- MODULE NdisEdgeRecv -----------------------------
(***************************************************************************)
(* Reads that the ndisedge miniport posts to its target, and the packets   *)
(* it indicates from them (Receive.c; NdisWdm.c: MPHalt; Init.c: the       *)
(* receive resources).                                                     *)
(*                                                                         *)
(* A work item posts a read for every free RCB.  A read that completes may *)
(* be indicated, and its RCB is free when the read and the protocols have  *)
(* let go of it.  Whoever frees one and finds few reads outstanding queues *)
(* the work item.  Flags is read, changed and written without a lock.      *)
(***************************************************************************)
EXTENDS Naturals, Integers, FiniteSets

CONSTANTS
    RCBs,               \* NIC_MAX_BUSY_RECVS of them
    Watermark,          \* NIC_SEND_LOW_WATERMARK
    Workers,            \* threads that run the work item
    Completers,         \* threads that complete reads
    Returners,          \* threads of the protocols that return packets
    MaxErrors,          \* bound on reads the target fails
    MaxRefused,         \* bound on reads it refuses while it is open
    MaxMedia,           \* bound on changes of the media's state
    none

NdisEdgeRecvAssumption ==
    /\ IsFiniteSet(RCBs) /\ none \notin RCBs \cup Workers \cup Completers \cup Returners
    /\ Workers \cap Completers = {} /\ Workers \cap Returners = {}
    /\ Completers \cap Returners = {}

Enders  == Completers \cup Returners
Threads == Workers \cup Enders

VARIABLES
    Flags, halt,
    media,              \* indications so far, and whether one has read Flags, and what
    RecvFreeList, nBusyRecv, lock,      \* lock: the thread that has RecvLock, or none
    Ref,
    reading,            \* RCBs whose read request the target has
    up,                 \* RCBs whose packet the protocols have
    queued,             \* is the work item queued?
    IsReadWorkItemQueued,
    unposted,           \* RCBs whose request was refused: nobody frees them
    errors, refused,    \* so far
    pc, pRCB, old       \* each thread's place and local variables

lists  == <<RecvFreeList, nBusyRecv, lock, Ref, unposted>>
target == <<reading, up, errors, refused>>
item   == <<queued, IsReadWorkItemQueued>>
vars   == <<Flags, halt, media, lists, target, item, pc, pRCB, old>>

At(h, place)   == pc[h] = place
Goto(h, place) == pc' = [pc EXCEPT ![h] = place]

MP_IS_READY == Flags \cap {"disconnected", "halt"} = {}

-----------------------------------------------------------------------------
\* NICPostReadsWorkItemCallBack; the work item is deleted with the adapter.
WorkBegins(w) ==
    /\ w \in Workers /\ At(w, "idle") /\ queued /\ lock = none /\ halt # "freed"
    /\ queued' = FALSE
    /\ lock' = w
    /\ Goto(w, "loop")
    /\ UNCHANGED <<Flags, halt, media, RecvFreeList, nBusyRecv, Ref, unposted, target, IsReadWorkItemQueued, pRCB, old>>

\* Under RecvLock, which it has: take an RCB, or leave the loop.
WorkTakes(w) ==
    /\ w \in Workers /\ At(w, "loop")
    /\ lock' = none
    /\ IF MP_IS_READY /\ RecvFreeList # {}
       THEN \E r \in RecvFreeList :
                /\ RecvFreeList' = RecvFreeList \ {r}
                /\ nBusyRecv' = nBusyRecv + 1
                /\ pRCB' = [pRCB EXCEPT ![w] = r]
                /\ Goto(w, "post")
       ELSE Goto(w, "end") /\ UNCHANGED <<RecvFreeList, nBusyRecv, pRCB>>
    /\ UNCHANGED <<Flags, halt, media, Ref, unposted, target, item, old>>

\* NICPostReadRequest.  A request that is refused leaves the loop, and its RCB
\* stays in the busy list.
WorkPosts(w) ==
    /\ w \in Workers /\ At(w, "post") /\ lock = none
    /\ LET r == pRCB[w] IN
       /\ Ref' = [Ref EXCEPT ![r] = 1]
       /\ \/ /\ halt \in {"up", "stop"}
             /\ reading' = reading \cup {r} /\ lock' = w /\ Goto(w, "loop")
             /\ UNCHANGED <<unposted, refused>>
          \/ /\ halt \notin {"up", "stop"} \/ refused < MaxRefused
             /\ refused' = IF halt \in {"up", "stop"} THEN refused + 1 ELSE refused
             /\ unposted' = unposted \cup {r} /\ Goto(w, "end")
             /\ UNCHANGED <<reading, lock>>
       /\ pRCB' = [pRCB EXCEPT ![w] = none]
    /\ UNCHANGED <<Flags, halt, media, RecvFreeList, nBusyRecv, up, errors, item, old>>

\* Mutant: the flag is cleared only if the loop ended because of the flags.
WorkEnds_Unready(w) ==
    /\ w \in Workers /\ At(w, "end")
    /\ IsReadWorkItemQueued' = (IsReadWorkItemQueued /\ MP_IS_READY)
    /\ Goto(w, "idle")
    /\ UNCHANGED <<Flags, halt, media, lists, target, queued, pRCB, old>>

WorkEnds(w) ==
    /\ w \in Workers /\ At(w, "end")
    /\ IsReadWorkItemQueued' = FALSE
    /\ Goto(w, "idle")
    /\ UNCHANGED <<Flags, halt, media, lists, target, queued, pRCB, old>>

-----------------------------------------------------------------------------
\* NICReadRequestCompletion.  A failure clears a bit of Flags, which nothing
\* sets again, in what it has read of them.
ReadFails(e, r) ==
    /\ e \in Completers /\ At(e, "idle") /\ r \in reading
    /\ errors < MaxErrors \/ halt = "close"
    /\ errors' = IF halt = "close" THEN errors ELSE errors + 1
    /\ reading' = reading \ {r}
    /\ pRCB' = [pRCB EXCEPT ![e] = r]
    /\ old' = [old EXCEPT ![e] = Flags]
    /\ Goto(e, "clear")
    /\ UNCHANGED <<Flags, halt, media, lists, up, refused, item>>

ReadClears(e) ==
    /\ At(e, "clear")
    /\ Flags' = old[e] \ {"post"}
    /\ old' = [old EXCEPT ![e] = {}]
    /\ Goto(e, "deref")
    /\ UNCHANGED <<halt, media, lists, target, item, pRCB>>

\* NICIndicateReceivedPacket: the filter accepts it or not.
ReadDone(e, r) ==
    /\ e \in Completers /\ At(e, "idle") /\ r \in reading
    /\ reading' = reading \ {r}
    /\ pRCB' = [pRCB EXCEPT ![e] = r]
    /\ Goto(e, "deref")
    /\ \/ UNCHANGED <<up, Ref>>
       \/ up' = up \cup {r} /\ Ref' = [Ref EXCEPT ![r] = @ + 1]
    /\ UNCHANGED <<Flags, halt, media, RecvFreeList, nBusyRecv, lock, unposted, errors, refused, item, old>>

MPReturnPacket(e, r) ==
    /\ e \in Returners /\ At(e, "idle") /\ r \in up
    /\ up' = up \ {r}
    /\ pRCB' = [pRCB EXCEPT ![e] = r]
    /\ Goto(e, "deref")
    /\ UNCHANGED <<Flags, halt, media, lists, reading, errors, refused, item, old>>

Derefs(e) ==
    /\ At(e, "deref")
    /\ Ref' = [Ref EXCEPT ![pRCB[e]] = @ - 1]
    /\ IF Ref[pRCB[e]] = 1 THEN Goto(e, "free") /\ UNCHANGED pRCB
       ELSE Goto(e, "idle") /\ pRCB' = [pRCB EXCEPT ![e] = none]
    /\ UNCHANGED <<Flags, halt, media, RecvFreeList, nBusyRecv, lock, unposted, target, item, old>>

\* NICFreeRCB, under RecvLock.
Frees(e) ==
    /\ At(e, "free") /\ lock = none
    /\ RecvFreeList' = RecvFreeList \cup {pRCB[e]}
    /\ nBusyRecv' = nBusyRecv - 1
    /\ lock' = e
    /\ pRCB' = [pRCB EXCEPT ![e] = none]
    /\ Goto(e, "unlock")
    /\ UNCHANGED <<Flags, halt, media, Ref, unposted, target, item, old>>

\* After it has let go of the lock: it reads the adapter once more.
Schedules(e) ==
    /\ At(e, "unlock")
    /\ lock' = IF lock = e THEN none ELSE lock
    /\ Goto(e, "idle")
    /\ IF nBusyRecv <= Watermark /\ "post" \in Flags /\ ~IsReadWorkItemQueued
       THEN queued' = TRUE /\ IsReadWorkItemQueued' = TRUE
       ELSE UNCHANGED item
    /\ UNCHANGED <<Flags, halt, media, RecvFreeList, nBusyRecv, Ref, unposted, target, pRCB, old>>

-----------------------------------------------------------------------------
\* A change of the media's state while the target still completes requests:
\* the thread has read Flags, and writes all of it back.
MediaReads ==
    /\ halt \in {"up", "stop", "close"} /\ ~media.reads /\ media.n < MaxMedia
    /\ media' = [n |-> media.n + 1, reads |-> TRUE, old |-> Flags]
    /\ UNCHANGED <<Flags, halt, lists, target, item, pc, pRCB, old>>

MediaWrites ==
    /\ media.reads
    /\ Flags' \in {media.old \cup {"disconnected"}, media.old \ {"disconnected"}}
    /\ media' = [media EXCEPT !.reads = FALSE, !.old = {}]
    /\ UNCHANGED <<halt, lists, target, item, pc, pRCB, old>>

\* MPHalt.
HaltBegins ==
    /\ halt = "up"
    /\ Flags' = (Flags \cup {"halt"}) \ {"post"}
    /\ halt' = "stop"
    /\ UNCHANGED <<media, lists, target, item, pc, pRCB, old>>

\* WdfIoTargetStop and Close: the target takes no more requests.
HaltCloses ==
    /\ halt = "stop"
    /\ halt' = "close"
    /\ UNCHANGED <<Flags, media, lists, target, item, pc, pRCB, old>>

\* They cancel the requests, and wait for them and their completion; a packet
\* is returned whenever the protocols like.
HaltStops ==
    /\ halt = "close" /\ reading = {} /\ ~media.reads
    /\ \A e \in Completers : At(e, "idle")
    /\ halt' = "flush"
    /\ UNCHANGED <<Flags, media, lists, target, item, pc, pRCB, old>>

\* WdfWorkItemFlush.
HaltFlushes ==
    /\ halt = "flush" /\ ~queued /\ \A w \in Workers : At(w, "idle")
    /\ halt' = "wait"
    /\ UNCHANGED <<Flags, media, lists, target, item, pc, pRCB, old>>

\* The loop that polls nBusyRecv without the lock; then everything is freed.
HaltFrees ==
    /\ halt = "wait" /\ nBusyRecv = 0
    /\ halt' = "freed"
    /\ UNCHANGED <<Flags, media, lists, target, item, pc, pRCB, old>>

-----------------------------------------------------------------------------
\* NICInitAdapterWorker has queued the item, but not set IsReadWorkItemQueued.
Init ==
    /\ Flags = {"post"} /\ halt = "up" /\ media = [n |-> 0, reads |-> FALSE, old |-> {}]
    /\ RecvFreeList = RCBs /\ nBusyRecv = 0 /\ lock = none
    /\ Ref = [r \in RCBs |-> 0] /\ reading = {} /\ up = {}
    /\ queued = TRUE /\ IsReadWorkItemQueued = FALSE
    /\ unposted = {} /\ errors = 0 /\ refused = 0
    /\ pc = [h \in Threads |-> "idle"]
    /\ pRCB = [h \in Threads |-> none] /\ old = [h \in Threads |-> {}]

Work(w) == WorkBegins(w) \/ WorkTakes(w) \/ WorkPosts(w) \/ WorkEnds(w)

Ending(e) == ReadClears(e) \/ Derefs(e) \/ Frees(e) \/ Schedules(e)

Halts == HaltCloses \/ HaltStops \/ HaltFlushes \/ HaltFrees

Next ==
    \/ \E w \in Workers : Work(w)
    \/ \E e \in Enders :
           \/ Ending(e)
           \/ \E r \in RCBs : ReadFails(e, r) \/ ReadDone(e, r) \/ MPReturnPacket(e, r)
    \/ MediaReads \/ MediaWrites \/ HaltBegins \/ Halts

Spec == Init /\ [][Next]_vars

\* Threads run on; the work item is run; a target that is stopped fails what
\* it has; the protocols return what they have.
Fairness ==
    /\ \A w \in Workers : WF_vars(Work(w))
    /\ \A e \in Enders : WF_vars(Ending(e))
    /\ WF_vars(\E e \in Completers, r \in RCBs : halt = "close" /\ ReadFails(e, r))
    /\ WF_vars(\E e \in Returners, r \in RCBs : MPReturnPacket(e, r))
    /\ WF_vars(MediaWrites)
    /\ WF_vars(Halts)

FairSpec == Spec /\ Fairness

-----------------------------------------------------------------------------
TypeOK ==
    /\ Flags \subseteq {"post", "disconnected", "halt"}
    /\ halt \in {"up", "stop", "close", "flush", "wait", "freed"}
    /\ RecvFreeList \subseteq RCBs /\ nBusyRecv \in 0 .. Cardinality(RCBs)
    /\ Ref \in [RCBs -> 0 .. 2] /\ lock \in Threads \cup {none}
    /\ reading \subseteq RCBs /\ up \subseteq RCBs /\ unposted \subseteq RCBs
    /\ \A h \in Threads : At(h, "idle") => pRCB[h] = none

\* An RCB has a reference for its read and one for its packet, until the
\* thread that ends either has let go of it (Receive.c:196, 363, 282, 63).
ReferencesExact ==
    \A r \in RCBs :
        Ref[r] = (IF r \in reading \cup unposted THEN 1 ELSE 0) + (IF r \in up THEN 1 ELSE 0)
                 + Cardinality({e \in Enders : pRCB[e] = r /\ pc[e] \in {"clear", "deref"}})

\* nBusyRecv, for which MPHalt waits, counts the RCBs off the free list, and a
\* free one is neither read into nor with a protocol (Receive.c:116, 464-468).
BusyExact ==
    /\ nBusyRecv = Cardinality(RCBs \ RecvFreeList)
    /\ RecvFreeList \cap (reading \cup up \cup unposted) = {}

\* The adapter is freed with every RCB back in its list (Init.c:683-684) and no
\* thread in it, but for one that has put back the last RCB, still has the lock
\* and reads the adapter (Receive.c:468-487): if no write of the media's state
\* has undone the flags of MPHalt, in which case the item may run again.
FreedUnlessLate ==
    halt = "freed" /\ "post" \notin Flags =>
        /\ RecvFreeList = RCBs /\ reading = {} /\ up = {} /\ ~queued
        /\ \A h \in Threads : At(h, "idle") \/ (h \in Returners /\ At(h, "unlock"))

\* The flag that keeps others from queuing the work item is cleared by a run of
\* it that is still to come or to end (Receive.c:142, 482), though the first
\* run is queued without it (Init.c:1297).
ScheduleNeverStuck ==
    IsReadWorkItemQueued => queued \/ \E w \in Workers : ~At(w, "idle")

\* "it queues a workitem to post more read IRPs and keeps the read path going"
\* (ndiswdm.htm:311).  Not so when all RCBs are freed between the item's last look
\* at the list and its clearing of IsReadWorkItemQueued (Receive.c:136-142).
ReadPathGoes ==
    [](errors = 0 /\ refused = 0) /\ <>[](Flags = {"post"}) => []<>(reading \cup up # {})

\* "Clear the flag to prevent any more reads from being posted" (Receive.c:264-266).
\* Not so for a work item that has tested the flag.
NoReadAfterError ==
    [][\A r \in RCBs : r \in reading' \ reading => "post" \in Flags]_vars

\* MPHalt returns (NdisWdm.c:484-520), if no request was refused.
HaltReturns == halt = "stop" ~> halt = "freed" \/ unposted # {}

\* The receive path accounts for its RCBs: references and busy count are those
\* of the reads and packets that are out, the halt frees what nobody uses, and
\* the work item is not believed to be queued when it is not.
ReadsAccounted ==
    TypeOK /\ ReferencesExact /\ BusyExact /\ FreedUnlessLate /\ ScheduleNeverStuck

===============================================================================
