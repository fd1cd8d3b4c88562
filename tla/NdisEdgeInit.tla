----------------------------- MODULE NdisEdgeInit -----------------------------
(***************************************************************************)
(* Initialisation and halt of an adapter of the ndisedge miniport           *)
(* (Init.c, ExCallbk.c, Request.c, NdisWdm.c), built with EX_CALLBACK.     *)
(*                                                                         *)
(* MPInitialize opens ndisprot's device.  When that does not exist yet the *)
(* adapter registers a callback, and ndisprot's notification makes a work  *)
(* item that tries again.  MPHalt may come at any time.  Flags is read,    *)
(* changed and written without a lock.                                     *)
(***************************************************************************)
EXTENDS Integers, FiniteSets

CONSTANTS
    Items,              \* the work items of notifications: a bound on these
    MaxLoads,           \* bound on loads of ndisprot
    none

NdisEdgeInitAssumption ==
    /\ IsFiniteSet(Items) /\ none \notin Items /\ Items \cap {"init", "halt"} = {}
    /\ MaxLoads \in Nat

Openers == {"init"} \cup Items          \* who runs NICInitAdapterWorker

VARIABLES
    ndisprot, loads,    \* the protocol driver's stage, and its loads so far
    Flags,
    InitEvent,          \* signalled?
    IoTarget,
    res,                \* are the send and receive resources there?
    read, status, request,      \* the read item and reads; the status request; an NDIS request
    RefCount, HaltEvent,
    registered,         \* is NICExCallback registered?
    CallbackObject,     \* has the adapter got it?
    item,               \* ExecutiveCallbackWorkItem
    bugcheck,           \* NICInitAdapterWorker was called with no adapter
    pc, result, old     \* each thread's place, status and local copy of Flags

peer   == <<ndisprot, loads, bugcheck>>
target == <<IoTarget, res, read, status, request>>
refs   == <<RefCount, HaltEvent, registered, CallbackObject>>
vars   == <<peer, Flags, InitEvent, target, refs, item, pc, result, old>>

At(t, place)   == pc[t] = place
Goto(t, place) == pc' = [pc EXCEPT ![t] = place]

MP_IS_READY == Flags \cap {"init", "disconnected", "halt"} = {}
Opened      == IoTarget = "open"

-----------------------------------------------------------------------------
\* The protocol driver: its device, then its callback, then its notification,
\* which makes a work item if the adapter has registered.
ProtLoads ==
    /\ ndisprot = "absent" /\ loads < MaxLoads
    /\ ndisprot' = "loaded" /\ loads' = loads + 1
    /\ UNCHANGED <<bugcheck, Flags, InitEvent, target, refs, item, pc, result, old>>

ProtRegisters ==
    /\ ndisprot = "loaded"
    /\ ndisprot' = "registered"
    /\ UNCHANGED <<loads, bugcheck, Flags, InitEvent, target, refs, item, pc, result, old>>

NICExCallback ==
    /\ ndisprot = "registered"
    /\ ndisprot' = "notified"
    /\ IF registered
       THEN \E i \in Items : At(i, "absent") /\ item' = i /\ Goto(i, "wait")
       ELSE UNCHANGED <<item, pc>>
    /\ UNCHANGED <<loads, bugcheck, Flags, InitEvent, target, refs, result, old>>

ProtUnloads ==
    /\ ndisprot \in {"registered", "notified"} /\ ~Opened
    /\ ndisprot' = "absent"
    /\ UNCHANGED <<loads, bugcheck, Flags, InitEvent, target, refs, item, pc, result, old>>

-----------------------------------------------------------------------------
\* Any of its steps may fail; then MPInitialize calls MPHalt.
MPInitialize ==
    /\ At("init", "start")
    /\ RefCount' = 1
    /\ \/ Flags' = {"init"} /\ Goto("init", "adapter")
       \/ Flags' \in {{}, {"init"}} /\ Goto("init", "failed")
    /\ UNCHANGED <<peer, InitEvent, target, HaltEvent, registered, CallbackObject, item, result, old>>

\* It fails without its work item for requests.
NICInitializeAdapter ==
    /\ At("init", "adapter")
    /\ \/ Flags' = Flags \cup {"disconnected"} /\ Goto("init", "wait")
       \/ UNCHANGED Flags /\ Goto("init", "failed")
    /\ UNCHANGED <<peer, InitEvent, target, refs, item, result, old>>

\* NICInitAdapterWorker: one thread at a time.
WorkerWaits(t) ==
    /\ t \in Openers /\ At(t, "wait") /\ InitEvent
    /\ InitEvent' = FALSE
    /\ IF "init" \in Flags THEN Goto(t, "open") /\ UNCHANGED result
       ELSE Goto(t, "set") /\ result' = [result EXCEPT ![t] = "ok"]
    /\ UNCHANGED <<peer, Flags, target, refs, item, old>>

\* NICOpenNdisProtocolInterface: a new target, which replaces the one before.
WorkerOpens(t) ==
    /\ t \in Openers /\ At(t, "open")
    /\ \/ /\ ndisprot = "absent" /\ IoTarget' = "created"
          /\ result' = [result EXCEPT ![t] = "absent"] /\ Goto(t, "free")
       \/ /\ ndisprot # "absent" /\ IoTarget' = "open"
          /\ \/ Goto(t, "alloc") /\ UNCHANGED result
             \/ \E s \in {"no_more", "fail"} :
                    result' = [result EXCEPT ![t] = s] /\ Goto(t, "free")
    /\ UNCHANGED <<peer, Flags, InitEvent, res, read, status, request, refs, item, old>>

\* NICAllocSendResources and NICAllocRecvResources, all or some of it.
WorkerAllocates(t) ==
    /\ t \in Openers /\ At(t, "alloc")
    /\ res' = TRUE
    /\ old' = [old EXCEPT ![t] = Flags]
    /\ \/ Goto(t, "allocated") /\ UNCHANGED result
       \/ Goto(t, "allocated") /\ result' = [result EXCEPT ![t] = "fail"]
    /\ UNCHANGED <<peer, Flags, InitEvent, IoTarget, read, status, request, refs, item>>

WorkerAllocated(t) ==
    /\ t \in Openers /\ At(t, "allocated")
    /\ Flags' = old[t] \cup {"res"}
    /\ old' = [old EXCEPT ![t] = {}]
    /\ Goto(t, IF result[t] = "fail" THEN "free" ELSE "query")
    /\ UNCHANGED <<peer, InitEvent, target, refs, item, result>>

\* The target answers, if it is open.
NICSendRequest == Opened

\* The link's speed, and the address or the filter.
WorkerQueries(t) ==
    /\ t \in Openers /\ At(t, "query")
    /\ \/ NICSendRequest /\ Goto(t, "ready") /\ old' = [old EXCEPT ![t] = Flags] /\ UNCHANGED result
       \/ Goto(t, "free") /\ result' = [result EXCEPT ![t] = "fail"] /\ UNCHANGED old
    /\ UNCHANGED <<peer, Flags, InitEvent, target, refs, item>>

WorkerReady(t) ==
    /\ t \in Openers /\ At(t, "ready")
    /\ Flags' = (old[t] \ {"init", "disconnected"}) \cup {"post"}
    /\ old' = [old EXCEPT ![t] = {}]
    /\ read' = "queued"
    /\ Goto(t, "status")
    /\ UNCHANGED <<peer, InitEvent, IoTarget, res, status, request, refs, item, result>>

NICPostAsynchronousStatusIndicationRequest == Opened /\ status' = "posted"

WorkerPostsStatus(t) ==
    /\ t \in Openers /\ At(t, "status")
    /\ \/ /\ NICPostAsynchronousStatusIndicationRequest
          /\ result' = [result EXCEPT ![t] = "ok"] /\ Goto(t, "set")
       \/ result' = [result EXCEPT ![t] = "fail"] /\ Goto(t, "free") /\ UNCHANGED status
    /\ UNCHANGED <<peer, Flags, InitEvent, IoTarget, res, read, request, refs, item, old>>

\* NICFreeSendResources and NICFreeRecvResources, which look at Flags.
WorkerFrees(t) ==
    /\ t \in Openers /\ At(t, "free")
    /\ IF "res" \in Flags THEN res' = FALSE /\ old' = [old EXCEPT ![t] = Flags] /\ Goto(t, "freed")
       ELSE Goto(t, "set") /\ UNCHANGED <<res, old>>
    /\ UNCHANGED <<peer, Flags, InitEvent, IoTarget, read, status, request, refs, item, result>>

WorkerFreed(t) ==
    /\ t \in Openers /\ At(t, "freed")
    /\ Flags' = old[t] \ {"res"}
    /\ old' = [old EXCEPT ![t] = {}]
    /\ Goto(t, "set")
    /\ UNCHANGED <<peer, InitEvent, target, refs, item, result>>

WorkerSets(t) ==
    /\ t \in Openers /\ At(t, "set")
    /\ InitEvent' = TRUE
    /\ Goto(t, IF t \in Items THEN "delete" ELSE
               CASE result[t] = "absent" -> "register"
                 [] result[t] = "fail"   -> "failed"
                 [] OTHER                -> "done")
    /\ UNCHANGED <<peer, Flags, target, refs, item, result, old>>

-----------------------------------------------------------------------------
\* NICRegisterExCallback: registered, then everybody is told.
CallbackRegisters ==
    /\ At("init", "register")
    /\ registered' = TRUE
    /\ Goto("init", "notify")
    /\ UNCHANGED <<peer, Flags, InitEvent, target, RefCount, HaltEvent, CallbackObject, item, result, old>>

\* Mutant: the adapter registers without telling those that are there.
CallbackNotifies_Not ==
    /\ At("init", "notify")
    /\ Goto("init", "count")
    /\ UNCHANGED <<peer, Flags, InitEvent, target, refs, item, result, old>>

\* ndisprotCallback calls the routine that it is given, NICInitAdapterWorker,
\* with the number of its driver, which is 0.
CallbackNotifies ==
    /\ At("init", "notify")
    /\ bugcheck' = (ndisprot \in {"registered", "notified"})
    /\ Goto("init", "count")
    /\ UNCHANGED <<ndisprot, loads, Flags, InitEvent, target, refs, item, result, old>>

CallbackCounts ==
    /\ At("init", "count")
    /\ RefCount' = RefCount + 1
    /\ CallbackObject' = TRUE
    /\ Goto("init", "done")
    /\ UNCHANGED <<peer, Flags, InitEvent, target, HaltEvent, registered, item, result, old>>

\* The end of NICInitWorkItemCallback: it deletes itself, then clears the pointer.
ItemDeletes(i) ==
    /\ i \in Items /\ At(i, "delete")
    /\ Goto(i, "clear")
    /\ UNCHANGED <<peer, Flags, InitEvent, target, refs, item, result, old>>

ItemClears(i) ==
    /\ i \in Items /\ At(i, "clear")
    /\ item' = none
    /\ Goto(i, "gone")
    /\ UNCHANGED <<peer, Flags, InitEvent, target, refs, result, old>>

-----------------------------------------------------------------------------
\* NICPostReadsWorkItemCallBack, and a read that completes, in one step each.
ReadsPost ==
    /\ read = "queued"
    /\ read' \in IF MP_IS_READY /\ Opened /\ res THEN {"posted", "none"} ELSE {"none"}
    /\ UNCHANGED <<peer, Flags, InitEvent, IoTarget, res, status, request, refs, item, pc, result, old>>

ReadsEnd ==
    /\ read = "posted"
    /\ read' \in IF "post" \in Flags THEN {"queued", "none"} ELSE {"none"}
    /\ UNCHANGED <<peer, Flags, InitEvent, IoTarget, res, status, request, refs, item, pc, result, old>>

\* A request that is for the target waits for the work item, if the adapter is
\* ready; NDIS sends the next one when this is complete.
NICForwardRequest(type) ==
    /\ At("init", "done") /\ At("halt", "up") /\ request = "none" /\ MP_IS_READY
    /\ request' = type
    /\ UNCHANGED <<peer, Flags, InitEvent, IoTarget, res, read, status, refs, item, pc, result, old>>

\* All others are answered at once, and change nothing that is modelled here.
MPQueryInformation == NICForwardRequest("query")
MPSetInformation   == NICForwardRequest("set")

\* The target has answered or refused, and NDIS is told.
NICRequestWorkItemCallback ==
    /\ request # "none"
    /\ request' = "none"
    /\ UNCHANGED <<peer, Flags, InitEvent, IoTarget, res, read, status, refs, item, pc, result, old>>

-----------------------------------------------------------------------------
\* MPHalt, by NDIS once MPInitialize has succeeded, or by MPInitialize.
HaltBegins ==
    /\ At("halt", "up") /\ pc["init"] \in {"done", "failed"} /\ request = "none"
    /\ old' = [old EXCEPT !["halt"] = Flags]
    /\ Goto("halt", "flags")
    /\ UNCHANGED <<peer, Flags, InitEvent, target, refs, item, result>>

HaltFlags ==
    /\ At("halt", "flags")
    /\ Flags' = (old["halt"] \cup {"halt"}) \ {"post"}
    /\ old' = [old EXCEPT !["halt"] = {}]
    /\ Goto("halt", "unregister")
    /\ UNCHANGED <<peer, InitEvent, target, refs, item, result>>

\* NICUnregisterExCallback.
HaltUnregisters ==
    /\ At("halt", "unregister")
    /\ registered' = FALSE /\ CallbackObject' = FALSE
    /\ RefCount' = IF CallbackObject THEN RefCount - 1 ELSE RefCount
    /\ Goto("halt", "close")
    /\ UNCHANGED <<peer, Flags, InitEvent, target, HaltEvent, item, result, old>>

\* The target that there is now is stopped and closed.
HaltCloses ==
    /\ At("halt", "close")
    /\ IF IoTarget = "none" THEN UNCHANGED <<IoTarget, read, status>>
       ELSE /\ IoTarget' = "closed"
            /\ read' = IF read = "posted" THEN "none" ELSE read
            /\ status' = "none"
    /\ Goto("halt", "flush")
    /\ UNCHANGED <<peer, Flags, InitEvent, res, request, refs, item, result, old>>

HaltFlushes ==
    /\ At("halt", "flush") /\ read # "queued" /\ request = "none"
    /\ Goto("halt", "item")
    /\ UNCHANGED <<peer, Flags, InitEvent, target, refs, item, result, old>>

\* The pointer is read once; an item that has deleted itself is waited for no more.
HaltFlushesItem ==
    /\ At("halt", "item")
    /\ item # none => pc[item] \in {"clear", "gone"}
    /\ RefCount' = RefCount - 1
    /\ HaltEvent' = (RefCount = 1)
    /\ Goto("halt", "wait")
    /\ UNCHANGED <<peer, Flags, InitEvent, target, registered, CallbackObject, item, result, old>>

\* For the reference count and nBusyRecv; then the resources go.
HaltFrees ==
    /\ At("halt", "wait") /\ HaltEvent /\ read # "posted"
    /\ res' = (res /\ "res" \notin Flags)
    /\ Goto("halt", "device")
    /\ UNCHANGED <<peer, Flags, InitEvent, IoTarget, read, status, request, refs, item, result, old>>

\* NICFreeAdapter deletes the device, and its targets and work items with it.
HaltDeletes ==
    /\ At("halt", "device") /\ read # "queued" /\ request = "none"
    /\ \A i \in Items : pc[i] \in {"absent", "clear", "gone"}
    /\ IoTarget' = "none" /\ read' = "none" /\ status' = "none"
    /\ Goto("halt", "freed")
    /\ UNCHANGED <<peer, Flags, InitEvent, res, request, refs, item, result, old>>

-----------------------------------------------------------------------------
Init ==
    /\ ndisprot = "absent" /\ loads = 0 /\ bugcheck = FALSE
    /\ Flags = {} /\ InitEvent = TRUE
    /\ IoTarget = "none" /\ res = FALSE /\ read = "none" /\ status = "none" /\ request = "none"
    /\ RefCount = 0 /\ HaltEvent = FALSE /\ registered = FALSE /\ CallbackObject = FALSE
    /\ item = none
    /\ pc = [t \in Openers \cup {"halt"} |->
                IF t = "init" THEN "start" ELSE IF t = "halt" THEN "up" ELSE "absent"]
    /\ result = [t \in Openers |-> "none"]
    /\ old = [t \in Openers \cup {"halt"} |-> {}]

Worker(t) ==
    \/ WorkerWaits(t) \/ WorkerOpens(t) \/ WorkerAllocates(t) \/ WorkerAllocated(t)
    \/ WorkerQueries(t) \/ WorkerReady(t) \/ WorkerPostsStatus(t)
    \/ WorkerFrees(t) \/ WorkerFreed(t) \/ WorkerSets(t)

Halt == HaltFlags \/ HaltUnregisters \/ HaltCloses \/ HaltFlushes \/ HaltFlushesItem
        \/ HaltFrees \/ HaltDeletes

Next ==
    /\ ~bugcheck
    /\ \/ ProtLoads \/ ProtRegisters \/ NICExCallback \/ ProtUnloads
       \/ MPInitialize \/ NICInitializeAdapter \/ CallbackRegisters \/ CallbackNotifies \/ CallbackCounts
       \/ \E t \in Openers : Worker(t)
       \/ \E i \in Items : ItemDeletes(i) \/ ItemClears(i)
       \/ ReadsPost \/ ReadsEnd
       \/ MPQueryInformation \/ MPSetInformation \/ NICRequestWorkItemCallback
       \/ HaltBegins \/ Halt

Spec == Init /\ [][Next]_vars

-----------------------------------------------------------------------------
TypeOK ==
    /\ ndisprot \in {"absent", "loaded", "registered", "notified"} /\ loads \in 0 .. MaxLoads
    /\ Flags \subseteq {"init", "disconnected", "halt", "post", "res"}
    /\ IoTarget \in {"none", "created", "open", "closed"}
    /\ RefCount \in 0 .. 2 /\ item \in Items \cup {none}
    /\ read \in {"none", "queued", "posted"}

\* "only one thread is executing this routine" (Init.c:1159-1164): the adapter is
\* opened and given resources by MPInitialize or by one work item at a time.
OneWorker ==
    Cardinality({t \in Openers : pc[t] \in {"open", "alloc", "allocated", "query", "ready",
                                             "status", "free", "freed", "set"}}) =
        IF InitEvent THEN 0 ELSE 1

\* RefCount has one for the adapter and one for its callback, and MPHalt is let
\* through only at 0 (NdisWdm.c:237, 477; ExCallbk.c:103, 164).
RefExact ==
    /\ RefCount = (IF At("init", "start") \/ pc["halt"] \in {"wait", "device", "freed"} THEN 0 ELSE 1)
                  + (IF CallbackObject THEN 1 ELSE 0)
    /\ HaltEvent => RefCount = 0

\* Both sides register and then notify (ExCallbk.c:88-100), so an adapter that
\* waits for ndisprot has been told of it, or was by the call that stops the system.
NotMissed ==
    registered /\ At("init", "done") /\ ndisprot = "notified" =>
        \E i \in Items : ~At(i, "absent")

\* The resources and the adapter are freed (NdisWdm.c:531-534) under no worker,
\* if there was one notification only: a second one replaces the pointer that
\* MPHalt flushes, and the item that ends first clears it.
FreedUnused ==
    pc["halt"] \in {"device", "freed"} =>
        \/ \A t \in Openers : pc[t] \in {"start", "absent", "failed", "done", "clear", "gone"}
        \/ Cardinality({i \in Items : ~At(i, "absent")}) > 1

\* NDIS may send when the flags say so, and finds a target and the resources, if
\* the status request did not fail after the flags were set (Init.c:1288, 1344).
ReadyHasResources ==
    MP_IS_READY /\ At("halt", "up") /\ At("init", "done") =>
        \/ res /\ Opened
        \/ \E t \in Openers : result[t] = "fail"

\* The adapter is opened once for each arrival of ndisprot, by one thread at a
\* time, is not missed, and is freed under nobody, however the notifications,
\* the initialisation and the halt overlap.
StartSafe ==
    TypeOK /\ OneWorker /\ RefExact /\ NotMissed /\ FreedUnused /\ ReadyHasResources

===============================================================================
