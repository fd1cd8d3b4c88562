---------------------------- MODULE PassthruAdapt ----------------------------
(***************************************************************************)
(* One ADAPT of the intermediate driver passthru (protocol.c, miniport.c): *)
(* the binding below, the virtual miniport above, who frees them, the      *)
(* power states of both edges, the one request that NDIS has outstanding   *)
(* at the miniport, the packets that are sent, and the media status.       *)
(*                                                                         *)
(* The build is the NDIS 5.1 one (sources).  What is done under            *)
(* pAdapt->Lock is one step.  NDIS is taken at its word: it has at most    *)
(* one request outstanding at a miniport, it delivers power events and     *)
(* UnbindAdapter of a binding one after the other, only after BindAdapter, *)
(* it halts a miniport that has completed its packets and requests, it     *)
(* does not unbind what is being halted, and NdisCloseAdapter returns when *)
(* nothing is pended below and no indication is under way.  The miniport   *)
(* below indicates one status at a time.  AnalysisPacket lets every packet *)
(* pass.                                                                   *)
(***************************************************************************)
EXTENDS Naturals, FiniteSets

CONSTANT Packets

Calls   == {"bind", "init", "unbind", "halt", "power", "request", "indication"}
Threads == Calls \cup Packets

ASSUME AdaptAssumption == IsFiniteSet(Packets) /\ Packets \cap Calls = {}

States   == {"D0", "low"}           \* "unset": the ADAPT is zeroed at first
Statuses == {"connect", "disconnect"}

VARIABLES
    memory,                 \* of the ADAPT: "none", "allocated", "freed"
    RefCount,
    BindingHandle,          \* not NULL?
    MiniportHandle,         \* not NULL?
    MiniportInitPending,
    MiniportInitEvent,
    im,                     \* the miniport, as NDIS has it
    UnbindingInProcess,
    MPDeviceState, PTDeviceState, StandingBy,
    QueuedRequest, OutstandingRequests,
    OutstandingSends,
    LastIndicatedStatus, LatestUnIndicateStatus,
    heard,                  \* the last media status from below
    lost,                 \* did it come, or was power set, when it need
                            \* not be told?  (StatusTold)
    kind,                   \* of the request: "caps" asks OID_PNP_CAPABILITIES
    pc                      \* where each thread, the request and each packet is

refs  == <<memory, RefCount>>
init  == <<MiniportInitPending, MiniportInitEvent>>
life  == <<refs, BindingHandle, MiniportHandle, init, im>>
power == <<MPDeviceState, PTDeviceState, StandingBy>>
work  == <<UnbindingInProcess, QueuedRequest, OutstandingRequests, OutstandingSends, kind>>
told  == <<LastIndicatedStatus, LatestUnIndicateStatus>>
media == <<told, heard, lost>>
vars  == <<life, power, work, media, pc>>

At(t, where)   == pc[t] = where
Goto(t, where) == pc' = [pc EXCEPT ![t] = where]

PtReferenceAdapt == RefCount' = RefCount + 1 /\ UNCHANGED memory
PtDereferenceAdapt ==
    /\ RefCount > 0
    /\ RefCount' = RefCount - 1
    /\ memory' = IF RefCount = 1 THEN "freed" ELSE memory

\* What NDIS waits for before it closes the binding.
NothingBelow ==
    /\ ~At("request", "send") /\ ~At("request", "below")
    /\ At("indication", "out")
    /\ \A p \in Packets : ~At(p, "send") /\ ~At(p, "below") /\ ~At(p, "completed")

\* NDIS has been told to close the binding, and indicates nothing more; there
\* is no miniport now that a status could be for.
Closing == At("bind", "close") \/ At("halt", "close") \/ (At("unbind", "end") /\ ~MiniportHandle)

-----------------------------------------------------------------------------
(* PtBindAdapter.                                                          *)
BindOpens ==
    /\ At("bind", "out")
    /\ memory' = "allocated"
    /\ BindingHandle' = TRUE
    /\ RefCount' = 2
    /\ MiniportInitPending' = TRUE
    /\ im' = "pending"
    /\ Goto("bind", "init")
    /\ UNCHANGED <<MiniportHandle, MiniportInitEvent, power, work, media>>

\* A failure before NdisOpenAdapter succeeds; what was allocated stays.
BindFailsEarly ==
    /\ At("bind", "out")
    /\ memory' \in {"none", "allocated"}
    /\ Goto("bind", "failed")
    /\ UNCHANGED <<RefCount, BindingHandle, MiniportHandle, init, im, power, work, media>>

\* NdisIMInitializeDeviceInstanceEx: MPInitialize has run, or will later.
BindSucceeds ==
    /\ At("bind", "init")
    /\ im \in {"pending", "initializing", "running", "halting", "halted"}
    /\ PtDereferenceAdapt
    /\ Goto("bind", "done")
    /\ UNCHANGED <<BindingHandle, MiniportHandle, init, im, power, work, media>>

\* It fails, or MPInitialize did, or the miniport has been halted by now.
BindFails ==
    /\ At("bind", "init")
    /\ im \in {"pending", "failed", "halted"}
    /\ im' = IF im = "pending" THEN "none" ELSE im
    /\ PtDereferenceAdapt
    /\ Goto("bind", IF im = "halted" \/ RefCount = 1 THEN "failed" ELSE "close")
    /\ UNCHANGED <<BindingHandle, MiniportHandle, init, power, work, media>>

BindCloses ==
    /\ At("bind", "close") /\ NothingBelow
    /\ BindingHandle' = FALSE
    /\ PtDereferenceAdapt
    /\ Goto("bind", "failed")
    /\ UNCHANGED <<MiniportHandle, init, im, power, work, media>>

-----------------------------------------------------------------------------
(* MPInitialize, on a thread of NDIS.                                      *)
InitBegins ==
    /\ im = "pending"
    /\ im' = "initializing"
    /\ \/ /\ MiniportHandle' = TRUE
          /\ LastIndicatedStatus' = "connect"
          /\ Goto("init", "mp")
       \/ /\ Goto("init", "wake_failed")      \* an unsupported medium
          /\ UNCHANGED <<MiniportHandle, LastIndicatedStatus>>
    /\ UNCHANGED <<refs, BindingHandle, init, power, work, LatestUnIndicateStatus, heard, lost>>

InitPowersMP ==
    /\ At("init", "mp")
    /\ MPDeviceState' = "D0"
    /\ Goto("init", "pt")
    /\ UNCHANGED <<life, PTDeviceState, StandingBy, work, media>>

InitPowersPT ==
    /\ At("init", "pt")
    /\ PTDeviceState' = "D0"
    /\ Goto("init", "wake")
    /\ UNCHANGED <<life, MPDeviceState, StandingBy, work, media>>

InitClears ==
    /\ pc["init"] \in {"wake", "wake_failed"}
    /\ MiniportInitPending' = FALSE
    /\ Goto("init", IF At("init", "wake") THEN "set" ELSE "set_failed")
    /\ UNCHANGED <<refs, BindingHandle, MiniportHandle, MiniportInitEvent, im, power,
                   work, media>>

\* Mutant: the miniport has no reference of its own.
InitSets_NoReference ==
    /\ At("init", "set")
    /\ MiniportInitEvent' = TRUE
    /\ im' = "running"
    /\ Goto("init", "done")
    /\ UNCHANGED <<refs, BindingHandle, MiniportHandle, MiniportInitPending, power, work,
                   media>>

InitSets ==
    /\ At("init", "set")
    /\ MiniportInitEvent' = TRUE
    /\ PtReferenceAdapt
    /\ im' = "running"
    /\ Goto("init", "done")
    /\ UNCHANGED <<BindingHandle, MiniportHandle, MiniportInitPending, power, work, media>>

InitSetsFailed ==
    /\ At("init", "set_failed")
    /\ MiniportInitEvent' = TRUE
    /\ im' = "failed"
    /\ Goto("init", "done")
    /\ UNCHANGED <<refs, BindingHandle, MiniportHandle, MiniportInitPending, power, work,
                   media>>

-----------------------------------------------------------------------------
(* MPHalt: for PtUnbindAdapter, or because the miniport is disabled.       *)
AllUp == At("request", "out") /\ \A p \in Packets : pc[p] \in {"out", "count"}
Serving == im = "running" /\ ~At("unbind", "deinit")      \* NDIS gives it work

HaltBegins ==
    /\ im = "running" /\ AllUp
    /\ \/ At("unbind", "deinit")
       \/ At("unbind", "out") /\ At("power", "out")
    /\ im' = "halting"
    /\ MiniportHandle' = FALSE
    /\ Goto("halt", "close")
    /\ UNCHANGED <<refs, BindingHandle, init, power, work, media>>

HaltCloses ==
    /\ At("halt", "close") /\ NothingBelow
    /\ BindingHandle' = FALSE
    /\ PtDereferenceAdapt
    /\ Goto("halt", "deref")
    /\ UNCHANGED <<MiniportHandle, init, im, power, work, media>>

HaltDerefs ==
    /\ At("halt", "deref")
    /\ PtDereferenceAdapt
    /\ im' = "halted"
    /\ Goto("halt", "done")
    /\ UNCHANGED <<BindingHandle, MiniportHandle, init, power, work, media>>

-----------------------------------------------------------------------------
(* PtUnbindAdapter.                                                        *)
\* Mutant: the request that is queued stays.
UnbindBegins_Keeps ==
    /\ At("unbind", "out") /\ At("power", "out")
    /\ At("bind", "done") /\ im \notin {"halting", "halted"}
    /\ UnbindingInProcess' = TRUE
    /\ Goto("unbind", "check")
    /\ UNCHANGED <<life, power, QueuedRequest, OutstandingRequests, OutstandingSends, kind, media>>

UnbindBegins ==
    /\ At("unbind", "out") /\ At("power", "out")
    /\ At("bind", "done") /\ im \notin {"halting", "halted"}
    /\ UnbindingInProcess' = TRUE
    /\ QueuedRequest' = FALSE
    /\ Goto("unbind", IF QueuedRequest THEN "complete" ELSE "check")
    /\ UNCHANGED <<life, power, OutstandingRequests, OutstandingSends, kind, media>>

UnbindCancels ==
    /\ At("unbind", "check") /\ MiniportInitPending
    /\ IF im = "pending"
       THEN /\ im' = "none"
            /\ MiniportInitPending' = FALSE
            /\ Goto("unbind", "end")
       ELSE Goto("unbind", "wait") /\ UNCHANGED <<im, MiniportInitPending>>
    /\ UNCHANGED <<refs, BindingHandle, MiniportHandle, MiniportInitEvent, power, work, media>>

UnbindGoesOn ==
    /\ \/ At("unbind", "check") /\ ~MiniportInitPending
       \/ At("unbind", "wait") /\ MiniportInitEvent
    /\ Goto("unbind", "end")
    /\ UNCHANGED <<life, power, work, media>>

\* NdisIMDeInitializeDeviceInstance, which has the miniport halted.
UnbindDeinitializes ==
    /\ At("unbind", "end") /\ MiniportHandle
    /\ Goto("unbind", "deinit")
    /\ UNCHANGED <<life, power, work, media>>

UnbindDeinitialized ==
    /\ At("unbind", "deinit") /\ im = "halted"
    /\ Goto("unbind", "done")
    /\ UNCHANGED <<life, power, work, media>>

\* Whatever RefCount is.
UnbindFrees ==
    /\ At("unbind", "end") /\ ~MiniportHandle /\ NothingBelow
    /\ BindingHandle' = FALSE
    /\ memory' = "freed"
    /\ Goto("unbind", "done")
    /\ UNCHANGED <<RefCount, MiniportHandle, init, im, power, work, media>>

-----------------------------------------------------------------------------
(* MPQueryInformation and MPSetInformation.                                *)
RequestBegins ==
    /\ Serving /\ At("request", "out")
    /\ ~UnbindingInProcess /\ MPDeviceState # "low"     \* or it fails at once
    /\ kind' \in {"caps", "other"}
    /\ Goto("request", "lock")
    /\ UNCHANGED <<life, power, UnbindingInProcess, QueuedRequest, OutstandingRequests,
                   OutstandingSends, media>>

\* Mutant: whether the binding goes is not asked again.
RequestQueues_Unbinding ==
    /\ At("request", "lock")
    /\ PTDeviceState = "low" /\ ~StandingBy
    /\ QueuedRequest' = TRUE
    /\ Goto("request", "queued")
    /\ UNCHANGED <<life, power, UnbindingInProcess, OutstandingRequests, OutstandingSends,
                   kind, media>>

RequestQueues ==
    /\ At("request", "lock")
    /\ ~UnbindingInProcess
    /\ PTDeviceState = "low" /\ ~StandingBy
    /\ QueuedRequest' = TRUE
    /\ Goto("request", "queued")
    /\ UNCHANGED <<life, power, UnbindingInProcess, OutstandingRequests, OutstandingSends,
                   kind, media>>

RequestFails ==
    /\ At("request", "lock")
    /\ UnbindingInProcess \/ StandingBy
    /\ Goto("request", "out")
    /\ UNCHANGED <<life, power, work, media>>

RequestGoes ==
    /\ At("request", "lock")
    /\ ~UnbindingInProcess /\ ~StandingBy /\ PTDeviceState # "low"
    /\ OutstandingRequests' = TRUE
    /\ Goto("request", "send")
    /\ UNCHANGED <<life, power, UnbindingInProcess, QueuedRequest, OutstandingSends, kind, media>>

\* NdisRequest pends.
RequestPends ==
    /\ At("request", "send") /\ BindingHandle
    /\ pc' = [pc EXCEPT !["request"] = "below",
                        !["power"] = IF @ = "send" THEN "out" ELSE @]
    /\ UNCHANGED <<life, power, work, media>>

\* NdisRequest does not, or it was pended: PtRequestComplete up to the
\* completion above, and the end of MPSetInformation.
RequestCompletes ==
    /\ pc["request"] \in {"send", "below"} /\ BindingHandle
    /\ OutstandingRequests' = FALSE
    /\ pc' = [pc EXCEPT !["request"] = "complete",
                        !["power"] = IF @ = "send" THEN "out" ELSE @]
    /\ UNCHANGED <<life, power, UnbindingInProcess, QueuedRequest, OutstandingSends, kind, media>>

\* MPQueryPNPCapabilities, if it succeeded and the buffer is large enough.
RequestReturns ==
    /\ At("request", "complete")
    /\ \/ /\ kind = "caps"
          /\ MPDeviceState' = "D0" /\ PTDeviceState' = "D0"
       \/ UNCHANGED <<MPDeviceState, PTDeviceState>>
    /\ Goto("request", "out")
    /\ UNCHANGED <<life, StandingBy, work, media>>

\* PtRequestComplete of a queued request, by those who took it off.
QueuedCompletes(t) ==
    /\ At(t, "complete")
    /\ OutstandingRequests' = FALSE
    /\ pc' = [pc EXCEPT !["request"] = "out", ![t] = IF t = "unbind" THEN "check" ELSE "out"]
    /\ UNCHANGED <<life, power, UnbindingInProcess, QueuedRequest, OutstandingSends, kind, media>>

-----------------------------------------------------------------------------
(* MPProcessSetPowerOid: a request of NDIS like the others, but it asks    *)
(* neither whether the binding goes nor for the lock.                      *)
\* D0 to D0 is not refused, and may tell an old status again.
SetPower(new) ==
    /\ Serving /\ At("request", "out")
    /\ MPDeviceState = "low" => new = "D0"
    /\ StandingBy' = IF new = MPDeviceState THEN StandingBy ELSE new = "low"
    /\ MPDeviceState' = new
    /\ lost' = \/ lost \/ ~At("indication", "out")
               \/ new = MPDeviceState /\ ~StandingBy
    /\ Goto("request", "status")
    /\ UNCHANGED <<life, PTDeviceState, work, told, heard>>

\* Mutant: it does not tell the status that came meanwhile.
SetPowerTells_Not ==
    /\ At("request", "status")
    /\ LatestUnIndicateStatus' = IF StandingBy THEN LastIndicatedStatus ELSE LatestUnIndicateStatus
    /\ Goto("request", "out")
    /\ UNCHANGED <<life, power, work, LastIndicatedStatus, heard, lost>>

SetPowerTells ==
    /\ At("request", "status")
    /\ IF StandingBy
       THEN /\ LatestUnIndicateStatus' = LastIndicatedStatus
            /\ UNCHANGED LastIndicatedStatus
       ELSE /\ LastIndicatedStatus' = LatestUnIndicateStatus
            /\ UNCHANGED LatestUnIndicateStatus
    /\ Goto("request", "out")
    /\ UNCHANGED <<life, power, work, heard, lost>>

-----------------------------------------------------------------------------
(* PtPnPNetEventSetPower.                                                  *)
PowerEvent ==
    /\ At("power", "out") /\ At("bind", "done") /\ At("unbind", "out")
    /\ im \notin {"halting", "halted"}

PowersDown ==
    /\ PowerEvent
    /\ PTDeviceState' = "low"
    /\ StandingBy' = (StandingBy \/ PTDeviceState = "D0")
    /\ lost' = (lost \/ At("request", "status"))
    /\ Goto("power", "sends")
    /\ UNCHANGED <<life, MPDeviceState, work, told, heard>>

SendsDrained ==
    /\ At("power", "sends") /\ OutstandingSends = 0
    /\ Goto("power", "requests")
    /\ UNCHANGED <<life, power, work, media>>

RequestsDrained ==
    /\ At("power", "requests") /\ ~OutstandingRequests
    /\ QueuedRequest' = FALSE
    /\ Goto("power", IF QueuedRequest THEN "complete" ELSE "out")
    /\ UNCHANGED <<life, power, UnbindingInProcess, OutstandingRequests, OutstandingSends, kind,
                   media>>

PowersUp ==
    /\ PowerEvent
    /\ PTDeviceState' = "D0"
    /\ StandingBy' = (StandingBy /\ PTDeviceState # "low")
    /\ QueuedRequest' = FALSE
    /\ OutstandingRequests' = (OutstandingRequests \/ QueuedRequest)
    /\ pc' = IF QueuedRequest THEN [pc EXCEPT !["power"] = "send", !["request"] = "send"] ELSE pc
    /\ lost' = (lost \/ At("request", "status"))
    /\ UNCHANGED <<life, MPDeviceState, UnbindingInProcess, OutstandingSends, kind, told, heard>>

-----------------------------------------------------------------------------
(* MPSendPackets and PtSendComplete, for a packet p.                       *)
SendBegins(p) ==
    /\ Serving /\ At(p, "out")
    /\ MPDeviceState # "low"            \* or it is completed at once
    /\ Goto(p, "lock")
    /\ UNCHANGED <<life, power, work, media>>

SendFails(p) ==
    /\ At(p, "lock") /\ PTDeviceState = "low"
    /\ Goto(p, "out")
    /\ UNCHANGED <<life, power, work, media>>

SendCounts(p) ==
    /\ At(p, "lock") /\ PTDeviceState # "low"
    /\ OutstandingSends' = OutstandingSends + 1
    /\ Goto(p, "send")
    /\ UNCHANGED <<life, power, UnbindingInProcess, QueuedRequest, OutstandingRequests, kind, media>>

\* NdisSend; a packet that is sent as it is and not pended is completed
\* above first and counted last, by the thread that sends.
Sends(p) ==
    /\ At(p, "send") /\ BindingHandle
    /\ pc' \in {[pc EXCEPT ![p] = w] : w \in {"below", "count"}}
    /\ UNCHANGED <<life, power, work, media>>

SendCompletes(p) ==
    /\ At(p, "below")
    /\ Goto(p, "completed")
    /\ UNCHANGED <<life, power, work, media>>

\* ADAPT_DECR_PENDING_SENDS, also when there is no packet left in the pool
\* or the copy was not pended.
SendUncounts(p) ==
    /\ pc[p] \in {"completed", "count", "send"}
    /\ At(p, "send") => BindingHandle
    /\ OutstandingSends' = OutstandingSends - 1
    /\ Goto(p, "out")
    /\ UNCHANGED <<life, power, UnbindingInProcess, QueuedRequest, OutstandingRequests, kind, media>>

-----------------------------------------------------------------------------
(* PtStatus, for a media status s.  It takes no lock: each look at the      *)
(* ADAPT, and the store that it leads to, is a step.                       *)
PtStatus(s) ==
    /\ BindingHandle /\ ~Closing
    /\ At("indication", "out")
    /\ heard' = s
    /\ lost' = (~MiniportHandle \/ At("request", "status"))
    /\ Goto("indication", IF MiniportHandle THEN "mp" ELSE "else")
    /\ UNCHANGED <<life, power, work, told>>

StatusTestsMP ==
    /\ At("indication", "mp")
    /\ Goto("indication", IF MPDeviceState = "D0" THEN "pt" ELSE "else")
    /\ lost' = (lost \/ MPDeviceState = "unset")
    /\ UNCHANGED <<life, power, work, told, heard>>

StatusTestsPT ==
    /\ At("indication", "pt")
    /\ Goto("indication", IF PTDeviceState = "D0" THEN "tell" ELSE "else")
    /\ lost' = (lost \/ PTDeviceState # "D0")
    /\ UNCHANGED <<life, power, work, told, heard>>

\* With NdisMIndicateStatus.
StatusTells ==
    /\ At("indication", "tell")
    /\ LastIndicatedStatus' = heard
    /\ Goto("indication", "out")
    /\ UNCHANGED <<life, power, work, LatestUnIndicateStatus, heard, lost>>

StatusSaves ==
    /\ At("indication", "else")
    /\ LatestUnIndicateStatus' = IF MiniportHandle THEN heard ELSE LatestUnIndicateStatus
    /\ Goto("indication", "out")
    /\ UNCHANGED <<life, power, work, LastIndicatedStatus, heard, lost>>

-----------------------------------------------------------------------------
Init ==
    /\ memory = "none" /\ RefCount = 0 /\ im = "none"
    /\ BindingHandle = FALSE /\ MiniportHandle = FALSE
    /\ MiniportInitPending = FALSE /\ MiniportInitEvent = FALSE
    /\ UnbindingInProcess = FALSE
    /\ MPDeviceState = "unset" /\ PTDeviceState = "unset"
    /\ StandingBy = FALSE
    /\ QueuedRequest = FALSE /\ OutstandingRequests = FALSE /\ OutstandingSends = 0
    /\ LastIndicatedStatus = "none" /\ LatestUnIndicateStatus = "none"
    /\ heard = "connect" /\ lost = FALSE
    /\ kind = "other"
    /\ pc = [t \in Threads |-> "out"]

Bind == BindOpens \/ BindFailsEarly \/ BindSucceeds \/ BindFails \/ BindCloses
MPInitialize == InitBegins \/ InitPowersMP \/ InitPowersPT \/ InitClears \/ InitSets \/ InitSetsFailed
MPHalt == HaltCloses \/ HaltDerefs
UnbindSteps == UnbindCancels \/ UnbindGoesOn \/ UnbindDeinitializes \/ UnbindDeinitialized
               \/ UnbindFrees \/ QueuedCompletes("unbind")
RequestSteps == RequestQueues \/ RequestFails \/ RequestGoes \/ RequestPends
                \/ RequestCompletes \/ RequestReturns \/ SetPowerTells
PowerSteps == SendsDrained \/ RequestsDrained \/ QueuedCompletes("power")
StatusSteps == StatusTestsMP \/ StatusTestsPT \/ StatusTells \/ StatusSaves
SendSteps(p) == SendFails(p) \/ SendCounts(p) \/ Sends(p) \/ SendCompletes(p) \/ SendUncounts(p)

Next ==
    \/ Bind \/ MPInitialize
    \/ HaltBegins \/ MPHalt
    \/ UnbindBegins \/ UnbindSteps
    \/ RequestBegins \/ RequestSteps \/ \E new \in States : SetPower(new)
    \/ PowersDown \/ PowersUp \/ PowerSteps
    \/ \E p \in Packets : SendBegins(p) \/ SendSteps(p)
    \/ (\E s \in Statuses : PtStatus(s)) \/ StatusSteps

\* Threads run, NDIS initializes and halts what it must, and the miniport
\* below completes what it is given; NDIS need not give anything.
Fairness ==
    /\ WF_vars(MPInitialize) /\ WF_vars(MPHalt)
    /\ WF_vars(HaltBegins /\ At("unbind", "deinit"))
    /\ WF_vars(UnbindSteps) /\ WF_vars(RequestSteps) /\ WF_vars(PowerSteps)
    /\ WF_vars(StatusSteps)
    /\ \A p \in Packets : WF_vars(SendSteps(p))

Spec     == Init /\ [][Next]_vars
FairSpec == Spec /\ Fairness

-----------------------------------------------------------------------------
\* The types; no more sends are counted than there are packets.
TypeOK ==
    /\ memory \in {"none", "allocated", "freed"} /\ RefCount \in 0..3
    /\ BindingHandle \in BOOLEAN /\ MiniportHandle \in BOOLEAN
    /\ MiniportInitPending \in BOOLEAN /\ MiniportInitEvent \in BOOLEAN
    /\ im \in {"none", "pending", "initializing", "failed", "running", "halting", "halted"}
    /\ UnbindingInProcess \in BOOLEAN
    /\ {MPDeviceState, PTDeviceState} \subseteq States \cup {"unset"}
    /\ StandingBy \in BOOLEAN
    /\ QueuedRequest \in BOOLEAN /\ OutstandingRequests \in BOOLEAN
    /\ OutstandingSends \in 0..Cardinality(Packets)
    /\ LastIndicatedStatus \in Statuses \cup {"none"}
    /\ LatestUnIndicateStatus \in Statuses \cup {"none"}
    /\ heard \in Statuses /\ lost \in BOOLEAN
    /\ kind \in {"caps", "other"}
    /\ DOMAIN pc = Threads
    /\ pc["bind"] \in {"out", "init", "close", "done", "failed"}
    /\ pc["init"] \in {"out", "mp", "pt", "wake", "wake_failed", "set", "set_failed", "done"}
    /\ pc["unbind"] \in {"out", "complete", "check", "wait", "end", "deinit", "done"}
    /\ pc["halt"] \in {"out", "close", "deref", "done"}
    /\ pc["power"] \in {"out", "sends", "requests", "complete", "send"}
    /\ pc["request"] \in {"out", "lock", "queued", "send", "below", "complete", "status"}
    /\ pc["indication"] \in {"out", "mp", "pt", "tell", "else"}
    /\ \A p \in Packets : pc[p] \in {"out", "lock", "send", "below", "completed", "count"}

\* The references are the binding's, that of PtBindAdapter on its way and the
\* miniport's, and the ADAPT is freed without a binding (protocol.c:366-369:
\* the adapter is closed and the memory freed once between halt and unbind).
ReferencesExact ==
    memory = "allocated" =>
        RefCount = Cardinality(
            (IF BindingHandle THEN {"binding"} ELSE {})
            \cup (IF At("bind", "init") THEN {"bind"} ELSE {})
            \cup (IF At("init", "done") /\ im \in {"running", "halting"} THEN {"miniport"} ELSE {}))

\* Nobody goes on with a freed ADAPT: but for MPInitialize, which wakes a
\* PtUnbindAdapter that need not have waited for it (miniport.c:166-167), and
\* for the count of a packet that was completed above before (498-502).
FreedUnused ==
    memory = "freed" =>
        /\ ~BindingHandle /\ ~MiniportHandle
        /\ At("bind", "failed") \/ At("bind", "done")
        /\ pc["init"] \in {"out", "set_failed", "done"}
        /\ pc["unbind"] \in {"out", "deinit", "done"} /\ pc["halt"] \in {"out", "done"}
        /\ At("power", "out") /\ At("request", "out") /\ At("indication", "out")
        /\ \A p \in Packets : pc[p] \in {"out", "count"}

\* When the binding is gone for good so is the ADAPT; what a bind that failed
\* before it had a binding leaves is not freed (protocol.c:284-314).
NothingLeft ==
    \/ At("unbind", "done")
    \/ At("halt", "done") /\ pc["bind"] \in {"done", "failed"}
    \/ At("bind", "failed") /\ im # "none"
    => memory = "freed"

\* What goes below has a binding to go to.
BelowBound ==
    /\ OutstandingRequests \/ OutstandingSends > Cardinality({p \in Packets : At(p, "count")})
       => BindingHandle
    /\ OutstandingSends = Cardinality({p \in Packets : pc[p] \notin {"out", "lock"}})

\* A request that NDIS waits for is in one place: queued, below, or in the
\* hands of the one who took it off the queue to complete it.
RequestInOnePlace ==
    /\ At("request", "queued") <=>
           QueuedRequest \/ At("unbind", "complete") \/ At("power", "complete")
    /\ QueuedRequest => ~At("unbind", "complete") /\ ~At("power", "complete")
    /\ OutstandingRequests <=> pc["request"] \in {"send", "below"}

\* A request waits only for an edge that sleeps, and never for one that is
\* being taken away (miniport.c:727-737).
QueuedForPower == QueuedRequest => PTDeviceState = "low" /\ ~UnbindingInProcess

\* The miniport below may sleep when PtPnPNetEventSetPower has returned:
\* nothing is below (protocol.c:1457-1459), unless someone has set the state
\* of the lower edge back to D0 (miniport.c:139, 830).
SleepsQuietly ==
    At("power", "out") /\ PTDeviceState = "low" => OutstandingSends = 0 /\ ~OutstandingRequests

\* The protocols above know the last media status from below, across the
\* powers of both edges, unless it came before there was a miniport that was
\* powered (miniport.c:128-139); while only the lower edge slept, which does not
\* tell when it wakes (protocol.c:744-755); or while the power of the miniport
\* was being set, which no lock keeps apart: either may overtake the other, and
\* the status is told too early, late or never (protocol.c:729-753,
\* miniport.c:1084-1119), also by a power event.  Power set from D0 to D0 tells an
\* older status.
StatusTold ==
    /\ MiniportHandle /\ MPDeviceState = "D0" /\ PTDeviceState = "D0"
    /\ ~At("request", "status") /\ At("indication", "out")
    => LastIndicatedStatus = heard \/ lost

\* PtRequestComplete is for a request that is outstanding (protocol.c:628): not
\* so for one that is completed off the queue.
CompletesOutstanding ==
    At("unbind", "complete") \/ At("power", "complete") => OutstandingRequests

\* PtUnbindAdapter returns.
UnbindReturns == pc["unbind"] # "out" ~> At("unbind", "done")

\* So does a power event, or the lower edge is awake (again: if the state was
\* set back, the event may wait for sends without end).
PowerReturns == At("power", "sends") ~> At("power", "out") \/ PTDeviceState = "D0"

\* The ADAPT is freed once, with its last reference, under nobody, and always.
AdaptCounted == TypeOK /\ ReferencesExact /\ FreedUnused /\ NothingLeft

\* What goes below has a binding that is awake to go to, and a request that
\* cannot go waits in one place, for power only.
RequestsSettled == BelowBound /\ RequestInOnePlace /\ QueuedForPower /\ SleepsQuietly

\* The calls that wait for others return: an unbind, and a loss of power.
CallsReturn == UnbindReturns /\ PowerReturns

===============================================================================
