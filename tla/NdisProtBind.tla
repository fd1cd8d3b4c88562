---------------------------- MODULE NdisProtBind ----------------------------
(***************************************************************************)
(* The life of a binding of the protocol driver ndisprot (ndisbind.c,      *)
(* ntdisp.c, send.c): binding to an adapter, file objects that open the    *)
(* binding, requests and writes through it, the IRP that waits for a       *)
(* status indication, unbinding, and the unload of the driver.  Reads and  *)
(* received packets are in NdisProtRecv.                                   *)
(*                                                                         *)
(* One adapter is bound once.  What is done under pOpenContext->Lock is    *)
(* one step, together with a dereference right after the unlock.  An IRP   *)
(* has the thread that dispatches it, a file the thread of its cleanup and *)
(* close.  The wait for PoweredUpEvent also ends by a timeout, at any      *)
(* time: the event, and with it the power state, makes no difference here. *)
(* The wait of ndisprotWaitForPendingIO ends when nothing is pended, which *)
(* assumes that a miniport completes within its 60 seconds.                *)
(***************************************************************************)
EXTENDS Naturals, FiniteSets

CONSTANTS
    Irps,           \* device control and write requests
    Files,          \* file objects of the control device
    NoIrp, NoFile,
    EarlyUnbind     \* may NDIS unbind before the bind has returned?

Binders == {"bind", "unbind"}
Threads == Irps \cup Files \cup Binders

ASSUME BindAssumption ==
    /\ Irps \cap Files = {} /\ (Irps \cup Files) \cap Binders = {}
    /\ NoIrp \notin Irps /\ NoFile \notin Files
    /\ IsFiniteSet(Irps) /\ IsFiniteSet(Files)
    /\ EarlyUnbind \in BOOLEAN

VARIABLES
    loaded,             \* "yes", NdisDeregisterProtocol called, "no"
    bind,               \* NUIOO_BIND_FLAGS
    unbinding,          \* NUIOO_UNBIND_RECEIVED
    RefCount,           \* 0: there is no open context
    BindingHandle,      \* not NULL?
    resources,          \* its name and its pools
    listed,             \* in Globals.OpenList
    filter,             \* does the adapter deliver packets?
    PendedSendCount,
    pFileObject,        \* NoFile is also NUIOO_OPEN_IDLE
    FsContext,          \* of each file: not NULL?
    StatusIndicationIrp,
    routine,            \* is the IRP's cancel routine set?
    pc,                 \* where each thread is
    on,                 \* the file object of each IRP
    raced               \* was a file cleaned up while it was being opened?

adapter == <<BindingHandle, filter>>
flags   == <<loaded, bind, unbinding, resources, listed>>
files   == <<pFileObject, FsContext, raced>>
status  == <<StatusIndicationIrp, routine>>
counts  == <<RefCount, PendedSendCount>>
vars    == <<adapter, flags, files, status, counts, pc, on>>

Goto(t, where) == pc' = [pc EXCEPT ![t] = where]
At(t, where)   == pc[t] = where

ndisprotRefOpen   == RefCount > 0 /\ RefCount' = RefCount + 1
ndisprotDerefOpen == RefCount > 0 /\ RefCount' = RefCount - 1

Alive == RefCount > 0       \* a thread that goes on without it is in FreedUnused

\* ndisprotWaitForPendingIO.
NothingPended == PendedSendCount = 0

-----------------------------------------------------------------------------
(* NdisProtBindAdapter and ndisprotCreateBinding.                          *)
BindAdapter ==
    /\ loaded = "yes" /\ At("bind", "out")
    /\ RefCount' = 1
    /\ listed' = TRUE
    /\ Goto("bind", "create")
    /\ UNCHANGED <<adapter, loaded, bind, unbinding, resources, files, status, PendedSendCount, on>>

\* The name, by which ndisprotLookupDevice finds it, and the pools.
BindOpening ==
    /\ At("bind", "create")
    /\ bind = "IDLE" /\ ~unbinding
    /\ bind' = "OPENING"
    /\ resources' = TRUE
    /\ pc' \in {[pc EXCEPT !["bind"] = w] : w \in {"open", "failed"}}
    /\ UNCHANGED <<adapter, loaded, unbinding, listed, files, status, counts, on>>

\* NdisOpenAdapter, and NdisProtOpenAdapterComplete if it pends.
BindOpens ==
    /\ At("bind", "open")
    /\ \/ BindingHandle' = TRUE /\ Goto("bind", "query")
       \/ UNCHANGED BindingHandle /\ Goto("bind", "failed")
    /\ UNCHANGED <<filter, flags, files, status, counts, on>>

\* Four requests that must succeed.
BindQueries ==
    /\ At("bind", "query") /\ BindingHandle
    /\ pc' \in {[pc EXCEPT !["bind"] = w] : w \in {"activate", "failed"}}
    /\ UNCHANGED <<adapter, flags, files, status, counts, on>>

BindActivates ==
    /\ At("bind", "activate") /\ Alive
    /\ bind' = "ACTIVE"
    /\ Goto("bind", IF unbinding THEN "failed" ELSE "done")
    /\ UNCHANGED <<adapter, loaded, unbinding, resources, listed, files, status, counts, on>>

\* fOpenComplete is whether there is a handle.
BindFails ==
    /\ At("bind", "failed") /\ Alive
    /\ bind' = IF BindingHandle THEN "ACTIVE" ELSE IF bind = "OPENING" THEN "FAILED" ELSE bind
    /\ Goto("bind", "shutdown")
    /\ UNCHANGED <<adapter, loaded, unbinding, resources, listed, files, status, counts, on>>

-----------------------------------------------------------------------------
(* NdisProtUnbindAdapter and ndisprotShutdownBinding.                      *)
UnbindAdapter ==
    /\ At("unbind", "out")
    /\ BindingHandle
    /\ IF EarlyUnbind THEN pc["bind"] \notin {"out", "create", "open"} ELSE At("bind", "done")
    /\ unbinding' = TRUE
    /\ Goto("unbind", "shutdown")
    /\ UNCHANGED <<adapter, loaded, bind, resources, listed, files, status, counts, on>>

ShutdownBegins(t) ==
    /\ At(t, "shutdown") /\ Alive
    /\ bind' = IF bind = "ACTIVE" THEN "CLOSING" ELSE bind
    /\ Goto(t, CASE bind = "OPENING" -> "done"
                 [] bind = "ACTIVE"  -> "filter"
                 [] OTHER            -> "remove")
    /\ UNCHANGED <<adapter, loaded, unbinding, resources, listed, files, status, counts, on>>

\* The packet filter and the multicast list; a failure is ignored.
ShutdownFilters(t) ==
    /\ At(t, "filter") /\ Alive
    /\ filter' \in {filter, FALSE}
    /\ Goto(t, "status")
    /\ UNCHANGED <<BindingHandle, flags, files, status, counts, on>>

\* Mutant: it closes the binding under those who use it.
ShutdownCloses_NoWait(t) ==
    /\ At(t, "wait") /\ Alive
    /\ BindingHandle' = FALSE
    /\ filter' = FALSE
    /\ Goto(t, "idle")
    /\ UNCHANGED <<flags, files, status, counts, on>>

\* ndisprotWaitForPendingIO, then NdisCloseAdapter, which waits for
\* NdisProtCloseAdapterComplete.
ShutdownCloses(t) ==
    /\ At(t, "wait") /\ Alive
    /\ NothingPended
    /\ BindingHandle' = FALSE
    /\ filter' = FALSE
    /\ Goto(t, "idle")
    /\ UNCHANGED <<flags, files, status, counts, on>>

ShutdownIdles(t) ==
    /\ At(t, "idle") /\ Alive
    /\ bind' = "IDLE"
    /\ unbinding' = FALSE
    /\ Goto(t, "remove")
    /\ UNCHANGED <<adapter, loaded, resources, listed, files, status, counts, on>>

ShutdownRemoves(t) ==
    /\ At(t, "remove") /\ Alive
    /\ listed' = FALSE
    /\ Goto(t, "free")
    /\ UNCHANGED <<adapter, loaded, bind, unbinding, resources, files, status, counts, on>>

\* ndisprotFreeBindResources, and the binding's reference.
ShutdownFrees(t) ==
    /\ At(t, "free") /\ Alive
    /\ resources' = FALSE
    /\ ndisprotDerefOpen
    /\ Goto(t, "done")
    /\ UNCHANGED <<adapter, loaded, bind, unbinding, listed, files, status, PendedSendCount, on>>

-----------------------------------------------------------------------------
(* NdisProtIoControl and ndisprotOpenDevice: an IRP i that opens f.        *)
FileOpen(f) == At(f, "out")     \* the application holds a handle to it

\* ndisprotLookupDevice.
OpenLooksUp(i, f) ==
    /\ loaded = "yes" /\ FileOpen(f) /\ At(i, "out")
    /\ ~FsContext[f]
    /\ listed /\ resources
    /\ ndisprotRefOpen
    /\ on' = [on EXCEPT ![i] = f]
    /\ Goto(i, "associate")
    /\ UNCHANGED <<adapter, flags, files, status, PendedSendCount>>

OpenRefused(i) ==
    /\ At(i, "associate")
    /\ pFileObject # NoFile \/ FsContext[on[i]]
    /\ ndisprotDerefOpen
    /\ Goto(i, "out")
    /\ UNCHANGED <<adapter, flags, files, status, PendedSendCount, on>>

\* Mutant: an open binding is opened again.
OpenAssociates_Busy(i) ==
    /\ At(i, "associate")
    /\ ~FsContext[on[i]]
    /\ FsContext' = [FsContext EXCEPT ![on[i]] = TRUE]
    /\ pFileObject' = on[i]
    /\ Goto(i, "validate")
    /\ UNCHANGED <<adapter, flags, raced, status, counts, on>>

OpenAssociates(i) ==
    /\ At(i, "associate")
    /\ pFileObject = NoFile /\ ~FsContext[on[i]]
    /\ FsContext' = [FsContext EXCEPT ![on[i]] = TRUE]
    /\ pFileObject' = on[i]
    /\ Goto(i, "validate")
    /\ UNCHANGED <<adapter, flags, raced, status, counts, on>>

\* ndisprotValidateOpenAndDoRequest, for an opening IRP and for a cleanup.
ValidateFails(t) ==
    /\ At(t, "validate") /\ Alive
    /\ bind # "ACTIVE"
    /\ Goto(t, IF t \in Irps THEN "undo" ELSE "service")
    /\ UNCHANGED <<adapter, flags, files, status, counts, on>>

Validates(t) ==
    /\ At(t, "validate") /\ Alive
    /\ bind = "ACTIVE"
    /\ PendedSendCount' = PendedSendCount + 1
    /\ Goto(t, "request")
    /\ UNCHANGED <<adapter, flags, files, status, RefCount, on>>

\* ndisprotDoRequest, with NdisProtRequestComplete if it pends.
Requests(t) ==
    /\ At(t, "request") /\ Alive
    /\ PendedSendCount' = PendedSendCount - 1
    /\ \/ /\ filter' = (t \in Irps)
          /\ Goto(t, IF t \in Irps THEN "out" ELSE "service")
       \/ /\ UNCHANGED filter
          /\ Goto(t, IF t \in Irps THEN "undo" ELSE "service")
    /\ UNCHANGED <<BindingHandle, flags, files, status, RefCount, on>>

OpenUndone(i) ==
    /\ At(i, "undo")
    /\ FsContext' = [FsContext EXCEPT ![on[i]] = FALSE]
    /\ pFileObject' = NoFile
    /\ ndisprotDerefOpen
    /\ Goto(i, "out")
    /\ UNCHANGED <<adapter, flags, raced, status, PendedSendCount, on>>

-----------------------------------------------------------------------------
(* IRPs that read FsContext and go on with it: ndisprotQueryOidValue and   *)
(* ndisprotSetOidValue, NdisProtWrite, ndisprotQueueStatusIndicationIrp.   *)
UseBegins(i, f) ==
    /\ FileOpen(f) /\ At(i, "out")
    /\ FsContext[f]
    /\ on' = [on EXCEPT ![i] = f]
    /\ pc' \in {[pc EXCEPT ![i] = w] : w \in {"oid", "write", "indicate"}}
    /\ UNCHANGED <<adapter, flags, files, status, counts>>

UseRefused(i) ==
    /\ pc[i] \in {"oid", "write"} /\ Alive
    /\ bind # "ACTIVE"
    /\ Goto(i, "out")
    /\ UNCHANGED <<adapter, flags, files, status, counts, on>>

OidValidates(i) ==
    /\ At(i, "oid") /\ Alive
    /\ bind = "ACTIVE"
    /\ PendedSendCount' = PendedSendCount + 1
    /\ Goto(i, "oid_request")
    /\ UNCHANGED <<adapter, flags, files, status, RefCount, on>>

OidRequests(i) ==
    /\ At(i, "oid_request") /\ Alive
    /\ PendedSendCount' = PendedSendCount - 1
    /\ Goto(i, "out")
    /\ UNCHANGED <<adapter, flags, files, status, RefCount, on>>

\* It may also find no packet in the pool, and fail.
WriteCounts(i) ==
    /\ At(i, "write")
    /\ bind = "ACTIVE"
    /\ PendedSendCount' = PendedSendCount + 1
    /\ ndisprotRefOpen
    /\ Goto(i, "send")
    /\ UNCHANGED <<adapter, flags, files, status, on>>

\* NdisSendPackets, and some time later NdisProtSendComplete, which completes
\* the IRP first: from then on its file may be closed.
SendCompletes(i) ==
    /\ At(i, "send")
    /\ Goto(i, "sent")
    /\ UNCHANGED <<adapter, flags, files, status, counts, on>>

SendUncounts(i) ==
    /\ At(i, "sent") /\ Alive
    /\ PendedSendCount' = PendedSendCount - 1
    /\ Goto(i, "uncounted")
    /\ UNCHANGED <<adapter, flags, files, status, RefCount, on>>

SendDerefs(i) ==
    /\ At(i, "uncounted")
    /\ ndisprotDerefOpen
    /\ Goto(i, "out")
    /\ UNCHANGED <<adapter, flags, files, status, PendedSendCount, on>>

\* An IRP cancelled before this goes back at once, like a busy one; one
\* cancelled meanwhile is left to the cancel routine.
StatusQueues(i) ==
    /\ At(i, "indicate") /\ Alive
    /\ \/ /\ Goto(i, "out")
          /\ UNCHANGED status
       \/ /\ StatusIndicationIrp = NoIrp
          /\ StatusIndicationIrp' = i
          /\ routine' = [routine EXCEPT ![i] = TRUE]
          /\ Goto(i, "pended")
    /\ UNCHANGED <<adapter, flags, files, counts, on>>

\* ndisCancelIndicateStatusIrp.
StatusCancelCalled(i) ==
    /\ At(i, "pended") /\ routine[i]
    /\ routine' = [routine EXCEPT ![i] = FALSE]
    /\ Goto(i, "cancel")
    /\ UNCHANGED <<adapter, flags, files, StatusIndicationIrp, counts, on>>

StatusCancelled(i) ==
    /\ At(i, "cancel") /\ Alive
    /\ StatusIndicationIrp' = NoIrp
    /\ Goto(i, "out")
    /\ UNCHANGED <<adapter, flags, files, routine, counts, on>>

\* ndisServiceIndicateStatusIrp: the IRP is completed unless it is being
\* cancelled, and the caller goes on.
ndisServiceIndicateStatusIrp(where) ==
    LET i == StatusIndicationIrp IN
    IF i # NoIrp /\ routine[i]
    THEN /\ StatusIndicationIrp' = NoIrp
         /\ routine' = [routine EXCEPT ![i] = FALSE]
         /\ pc' = [where EXCEPT ![i] = "out"]
    ELSE UNCHANGED status /\ pc' = where

\* NdisProtStatus, called while the adapter is open.
NdisProtStatus ==
    /\ BindingHandle /\ StatusIndicationIrp # NoIrp
    /\ ndisServiceIndicateStatusIrp(pc)
    /\ UNCHANGED <<adapter, flags, files, counts, on>>

ShutdownServices(t) ==
    /\ At(t, "status") /\ Alive
    /\ ndisServiceIndicateStatusIrp([pc EXCEPT ![t] = "wait"])
    /\ UNCHANGED <<adapter, flags, files, counts, on>>

-----------------------------------------------------------------------------
(* NdisProtCleanup and NdisProtClose.                                      *)
Opening(i, f) == on[i] = f /\ pc[i] \in {"associate", "validate", "request", "undo"}

\* The last handle to f is closed; IRPs may still be on their way.
CleanupMarks(f) ==
    /\ At(f, "out")
    /\ FsContext[f] => Alive
    /\ IF FsContext[f]
       THEN pFileObject' = NoFile /\ Goto(f, "validate")
       ELSE UNCHANGED pFileObject /\ Goto(f, "cleaned")
    /\ raced' = (raced \/ \E i \in Irps : Opening(i, f))
    /\ UNCHANGED <<adapter, flags, FsContext, status, counts, on>>

\* After the request, and reads cancelled: the IRP that waits for status.
CleanupServices(f) ==
    /\ At(f, "service") /\ Alive
    /\ ndisServiceIndicateStatusIrp([pc EXCEPT ![f] = "cleaned"])
    /\ UNCHANGED <<adapter, flags, files, counts, on>>

\* The IRP has been completed; NdisProtSendComplete may go on.
Completed == {"out", "sent", "uncounted"}

\* When no IRP is left on f.
Close(f) ==
    /\ At(f, "cleaned")
    /\ \A i \in Irps : on[i] = f => pc[i] \in Completed
    /\ IF FsContext[f] THEN ndisprotDerefOpen ELSE UNCHANGED RefCount
    /\ FsContext' = [FsContext EXCEPT ![f] = FALSE]
    /\ Goto(f, "done")
    /\ UNCHANGED <<adapter, flags, pFileObject, raced, status, PendedSendCount, on>>

-----------------------------------------------------------------------------
(* NdisProtUnload: when no file is open.  NdisDeregisterProtocol unbinds,  *)
(* and returns when there is no binding.                                   *)
Unload ==
    /\ loaded = "yes"
    /\ \A f \in Files : At(f, "done")
    /\ loaded' = "deregistering"
    /\ UNCHANGED <<adapter, bind, unbinding, resources, listed, files, status, counts, pc, on>>

Unloaded ==
    /\ loaded = "deregistering"
    /\ \A t \in Binders : pc[t] \in {"out", "done"}
    /\ ~BindingHandle
    /\ loaded' = "no"
    /\ UNCHANGED <<adapter, bind, unbinding, resources, listed, files, status, counts, pc, on>>

-----------------------------------------------------------------------------
\* DriverEntry has registered the protocol.
Init ==
    /\ loaded = "yes"
    /\ bind = "IDLE" /\ unbinding = FALSE
    /\ RefCount = 0 /\ PendedSendCount = 0
    /\ BindingHandle = FALSE /\ filter = FALSE
    /\ resources = FALSE /\ listed = FALSE
    /\ pFileObject = NoFile
    /\ FsContext = [f \in Files |-> FALSE]
    /\ StatusIndicationIrp = NoIrp
    /\ routine = [i \in Irps |-> FALSE]
    /\ pc = [t \in Threads |-> "out"]
    /\ on = [i \in Irps |-> NoFile]
    /\ raced = FALSE

Binding     == BindOpening \/ BindOpens \/ BindQueries \/ BindActivates \/ BindFails
Shutdown(t) == \/ ShutdownBegins(t) \/ ShutdownFilters(t) \/ ShutdownServices(t)
               \/ ShutdownCloses(t) \/ ShutdownIdles(t) \/ ShutdownRemoves(t)
               \/ ShutdownFrees(t)
Validating(t) == ValidateFails(t) \/ Validates(t) \/ Requests(t)
OpenGoesOn(i) == OpenRefused(i) \/ OpenAssociates(i) \/ OpenUndone(i)
UseGoesOn(i) == \/ UseRefused(i) \/ OidValidates(i) \/ OidRequests(i) \/ WriteCounts(i)
                \/ SendCompletes(i) \/ SendUncounts(i) \/ SendDerefs(i)
                \/ StatusQueues(i) \/ StatusCancelled(i)
CleanupGoesOn(f) == CleanupServices(f) \/ Close(f)

Next ==
    \/ BindAdapter \/ Binding \/ UnbindAdapter
    \/ \E t \in Binders : Shutdown(t)
    \/ \E i \in Irps, f \in Files : OpenLooksUp(i, f) \/ UseBegins(i, f)
    \/ \E t \in Irps \cup Files : Validating(t)
    \/ \E i \in Irps : OpenGoesOn(i) \/ UseGoesOn(i) \/ StatusCancelCalled(i)
    \/ NdisProtStatus
    \/ \E f \in Files : CleanupMarks(f) \/ CleanupGoesOn(f)
    \/ Unload \/ Unloaded

Spec == Init /\ [][Next]_vars

\* A thread inside the driver runs on, NDIS completes requests and sends, and
\* unbinds when the protocol is deregistered.
Fairness ==
    /\ WF_vars(Binding)
    /\ \A t \in Binders : WF_vars(Shutdown(t))
    /\ \A t \in Irps \cup Files : WF_vars(Validating(t))
    /\ \A i \in Irps : WF_vars(OpenGoesOn(i)) /\ WF_vars(UseGoesOn(i))
    /\ \A f \in Files : WF_vars(CleanupGoesOn(f))
    /\ WF_vars(loaded = "deregistering" /\ UnbindAdapter)
    /\ WF_vars(Unloaded)

FairSpec == Spec /\ Fairness

-----------------------------------------------------------------------------
Pcs == {"out", "create", "open", "query", "activate", "failed", "done",
        "shutdown", "filter", "status", "wait", "idle", "remove", "free",
        "associate", "validate", "request", "undo", "oid", "oid_request", "write",
        "send", "sent", "uncounted", "indicate", "pended", "cancel", "service", "cleaned"}

\* Every variable keeps its type.
TypeOK ==
    /\ loaded \in {"yes", "deregistering", "no"}
    /\ bind \in {"IDLE", "OPENING", "FAILED", "ACTIVE", "CLOSING"}
    /\ unbinding \in BOOLEAN /\ raced \in BOOLEAN
    /\ RefCount \in Nat /\ PendedSendCount \in Nat
    /\ BindingHandle \in BOOLEAN /\ filter \in BOOLEAN
    /\ resources \in BOOLEAN /\ listed \in BOOLEAN
    /\ pFileObject \in Files \cup {NoFile}
    /\ FsContext \in [Files -> BOOLEAN]
    /\ StatusIndicationIrp \in Irps \cup {NoIrp}
    /\ routine \in [Irps -> BOOLEAN]
    /\ pc \in [Threads -> Pcs]
    /\ on \in [Irps -> Files \cup {NoFile}]

Count(S) == Cardinality({t \in Threads : pc[t] \in S})

Bound == ~At("bind", "out") /\ \A t \in Binders : ~(At(t, "done") /\ ~resources)

\* The reference count is the number of those who count on the open context:
\* the binding, every IRP that has looked it up and not yet put it into its
\* file object, every file object that has it, every pended send.
ReferencesExact ==
    RefCount = (IF Bound THEN 1 ELSE 0)
             + Cardinality({f \in Files : FsContext[f]})
             + Count({"associate", "send", "sent", "uncounted"})

\* Who has passed the test of the binding's state finds its handle still
\* there: unbind waits for all of them (ndisbind.c:1174-1180).
HandleHeld ==
    \A t \in Threads : pc[t] \in {"request", "oid_request", "send", "sent", "query"} => BindingHandle

\* The open context is freed without a handle and without an opener, as its
\* destructor asserts (ntdisp.c:848-850), unless a file was cleaned up while it
\* was being opened: its cleanup then saw no open context.
FreedClean ==
    RefCount = 0 => ~BindingHandle /\ (pFileObject = NoFile \/ raced)

\* No thread goes on with an open context that was freed.  One way is left:
\* an IRP has read FsContext, or waits for a status indication, and the IRP
\* that set FsContext fails and takes it back (ntdisp.c:733-780).
FreedUnused ==
    RefCount = 0 =>
        /\ \A t \in Irps \cup Files :
              \/ pc[t] \in {"out", "cleaned", "done"}
              \/ /\ t \in Irps /\ ~FsContext[on[t]]
                 /\ pc[t] \in {"oid", "write", "indicate", "pended", "cancel"}
              \/ t \in Files /\ raced
        /\ \A t \in Binders : pc[t] \in {"out", "done"}

\* The file that has opened the binding, and not been cleaned up, is the one
\* the open context names: two files never both believe they have it
\* (ntdisp.c:716).
SoleOpener ==
    raced \/ \A f \in Files :
        FsContext[f] /\ FileOpen(f) => pFileObject = f

\* The IRP that waits for a status indication waits in one place, and is
\* completed once, by NDIS's indication, a cleanup, unbind or its cancel
\* routine.
StatusIrpOwned ==
    \A i \in Irps :
        /\ (StatusIndicationIrp = i) <=> pc[i] \in {"pended", "cancel"}
        /\ routine[i] <=> At(i, "pended")

\* The binding is taken down by one thread: the bind that failed, or unbind
\* (ndisbind.c:585-586), unless unbind does not wait for the bind (EarlyUnbind).
OneShutdown ==
    Count({"filter", "status", "wait", "idle", "remove", "free"}) <= 1

\* After an unload nothing of the binding is left, but for the writes that
\* NdisProtSendComplete has taken out of PendedSendCount and whose references
\* it has still to let go: nobody waits for that (send.c:424-425).
UnloadClean ==
    loaded = "no" => /\ RefCount = Count({"uncounted"}) /\ PendedSendCount = 0
                     /\ ~listed /\ ~resources /\ StatusIndicationIrp = NoIrp

\* An unbind returns, whatever the IRPs and the files do.
UnbindReturns == At("unbind", "shutdown") ~> At("unbind", "done")

\* When NDIS has unbound, no IRP waits for a status indication any more
\* (ndisbind.c:1807-1811).  Not so for one that comes late.
StatusIrpEndsWithBinding ==
    At("unbind", "done") => StatusIndicationIrp = NoIrp

\* An open context lives as long as somebody counts on it: its references add
\* up, the handle outlives requests and sends, and what is freed is unused,
\* whether a bind fails, a file is closed between the completion of a write and
\* the end of NdisProtSendComplete, or the driver is unloaded; unless NDIS unbinds
\* before the bind has returned (EarlyUnbind).
BindingHeld ==
    TypeOK /\ ReferencesExact /\ HandleHeld /\ FreedClean /\ FreedUnused /\ UnloadClean

\* What only one may have has one owner: the binding its file object and the
\* thread that takes it down, the IRP that waits for a status indication its place.
OneOwner == SoleOpener /\ StatusIrpOwned /\ OneShutdown

===============================================================================
