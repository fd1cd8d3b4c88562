-------------------------- MODULE NdisProtBind_proof --------------------------
(***************************************************************************)
(* Proofs about NdisProtBind, for any number of file objects and of device *)
(* control and write requests, when NDIS does not unbind before the bind   *)
(* has returned.  With EarlyUnbind both invariants are false.              *)
(***************************************************************************)
EXTENDS NdisProtBind, CountingTheorems, FiniteSetTheorems, TLAPS

-----------------------------------------------------------------------------
(* The inductive invariant.                                                *)

\* The binding is being taken down, with its handle and without.
Closing == {"filter", "status", "wait"}
Taking  == Closing \cup {"idle", "remove", "free"}

\* Where the threads of each kind can be.
OpeningPlaces == {"validate", "request", "undo"}

Places ==
    /\ pc["bind"] \in {"out", "create", "open", "query", "activate", "failed", "shutdown", "done"} \cup Taking
    /\ pc["unbind"] \in {"out", "shutdown", "done"} \cup Taking
    /\ \A i \in Irps : pc[i] \in {"out", "associate", "oid", "oid_request", "write", "send", "sent",
                                  "uncounted", "indicate", "pended", "cancel"} \cup OpeningPlaces
    /\ \A f \in Files : pc[f] \in {"out", "validate", "request", "service", "cleaned", "done"}

\* How far bind and unbind have come, and the state of the binding then.
Stages ==
    /\ At("unbind", "out") \/ At("bind", "done")
    /\ unbinding <=> pc["unbind"] \in {"shutdown", "idle"} \cup Closing
    /\ pc["bind"] \in {"out", "create"} => bind = "IDLE"
    /\ pc["bind"] \in {"open", "query", "activate", "failed"} => bind = "OPENING"
    /\ At("bind", "shutdown") => bind \in {"ACTIVE", "FAILED"}
    /\ At("unbind", "shutdown") => bind = "ACTIVE"
    /\ \A t \in Binders : pc[t] \in {"idle"} \cup Closing => bind = "CLOSING"
    /\ \A t \in Binders : pc[t] \in {"remove", "free"} => bind \in {"IDLE", "FAILED"}
    /\ pc["unbind"] \in {"remove", "free", "done"} => bind = "IDLE"
    /\ At("bind", "done") /\ At("unbind", "out") => bind \in {"ACTIVE", "IDLE", "FAILED"}

\* When there is a handle, a name and pools, a place in the list.
Handles ==
    /\ bind = "ACTIVE" => BindingHandle
    /\ pc["bind"] \in {"query", "activate"} => BindingHandle
    /\ \A t \in Binders : pc[t] \in Closing => BindingHandle
    /\ BindingHandle => \/ bind = "ACTIVE" \/ pc["bind"] \in {"query", "activate", "failed"}
                        \/ \E t \in Binders : pc[t] \in Closing

Lists ==
    /\ resources <=> \/ pc["bind"] \notin {"out", "create", "done"}
                     \/ pc["unbind"] \notin {"out", "done"}
                     \/ bind = "ACTIVE"
    /\ listed <=> (At("bind", "create") \/ resources) /\ \A t \in Binders : ~At(t, "free")

\* An IRP that opens a file has set its FsContext, alone, and a file that is closed is left by all.
Opens ==
    /\ \A i \in Irps : ~At(i, "out") => on[i] \in Files
    /\ \A i \in Irps : pc[i] \in OpeningPlaces => FsContext[on[i]]
    /\ \A i, j \in Irps : pc[i] \in OpeningPlaces /\ pc[j] \in OpeningPlaces /\ on[i] = on[j] => i = j
    /\ \A f \in Files : At(f, "done") => ~FsContext[f] /\ \A i \in Irps : on[i] = f => pc[i] \in Completed

\* No file was cleaned up while it was being opened: who has the binding is its opener.
Openers ==
    raced \/ /\ \A i \in Irps, f \in Files : Opening(i, f) => At(f, "out")
             /\ \A f \in Files : pFileObject = f <=> FsContext[f] /\ At(f, "out")
             /\ \A f \in Files : pc[f] \in {"validate", "request", "service"} => FsContext[f]

Unloading ==
    /\ loaded # "yes" => \A f \in Files : At(f, "done")
    /\ loaded = "no" => ~BindingHandle /\ \A t \in Binders : pc[t] \in {"out", "done"}

PendPlaces == {"request", "oid_request", "send", "sent"}

PendsExact ==
    /\ PendedSendCount = Count(PendPlaces)
    /\ PendedSendCount > 0 => BindingHandle

\* The references of ReferencesExact, one term for each kind of holder.
BindRef   == IF At("bind", "create") \/ resources THEN 1 ELSE 0
Opened    == Cardinality({f \in Files : FsContext[f]})
RefPlaces == {"associate", "send", "sent", "uncounted"}

References == RefCount = BindRef + Opened + Count(RefPlaces)

Unbound == At("bind", "out") => RefCount = 0

IInv == /\ TypeOK /\ Places /\ Stages /\ Handles /\ Lists
        /\ Opens /\ Openers /\ StatusIrpOwned /\ Unloading
        /\ PendsExact /\ References /\ Unbound

-----------------------------------------------------------------------------
(* Type correctness.                                                       *)

LEMMA ThreadKinds ==
  /\ Irps \subseteq Threads /\ Files \subseteq Threads
  /\ "bind" \in Threads /\ "unbind" \in Threads
  /\ Irps \cap Files = {} /\ (Irps \cup Files) \cap {"bind", "unbind"} = {}
  BY BindAssumption DEF Threads, Binders

LEMMA ThreadsFinite == IsFiniteSet(Threads)
  <1>1. IsFiniteSet(Binders)
    <2>1. Binders = ({} \cup {"bind"}) \cup {"unbind"}
      BY DEF Binders
    <2> QED
      BY <2>1, FS_EmptySet, FS_AddElement
  <1> QED
    BY <1>1, BindAssumption, FS_Union DEF Threads

LEMMA InitType == Init => TypeOK
  <1>1. "out" \in Pcs
    BY DEF Pcs
  <1> SUFFICES ASSUME Init PROVE TypeOK
    OBVIOUS
  <1>2. pc \in [Threads -> Pcs] /\ on \in [Irps -> Files \cup {NoFile}]
    BY <1>1 DEF Init
  <1>3. FsContext \in [Files -> BOOLEAN] /\ routine \in [Irps -> BOOLEAN]
    BY DEF Init
  <1>4. RefCount \in Nat /\ PendedSendCount \in Nat
    BY DEF Init
  <1> QED
    BY <1>2, <1>3, <1>4 DEF Init, TypeOK

LEMMA MoveType ==
  ASSUME TypeOK, NEW t, NEW w \in Pcs, Goto(t, w)
  PROVE  pc' \in [Threads -> Pcs]
  BY DEF TypeOK, Goto

\* The IRP i that waits for a status indication is completed, and the caller goes on.
Serves(i, where) ==
    /\ At(i, "pended") /\ StatusIndicationIrp = i
    /\ StatusIndicationIrp' = NoIrp
    /\ routine' = [routine EXCEPT ![i] = FALSE]
    /\ pc' = [where EXCEPT ![i] = "out"]

LEMMA Served ==
  ASSUME TypeOK, StatusIrpOwned, NEW where, ndisServiceIndicateStatusIrp(where)
  PROVE  (\E i \in Irps : Serves(i, where)) \/ (pc' = where /\ UNCHANGED status)
  BY DEF TypeOK, StatusIrpOwned, ndisServiceIndicateStatusIrp, Serves, At

LEMMA ServedType ==
  ASSUME TypeOK, StatusIrpOwned, NEW where \in [Threads -> Pcs], ndisServiceIndicateStatusIrp(where)
  PROVE  /\ pc' \in [Threads -> Pcs]
         /\ StatusIndicationIrp' \in Irps \cup {NoIrp} /\ routine' \in [Irps -> BOOLEAN]
  <1>1. "out" \in Pcs
    BY DEF Pcs
  <1>2. CASE pc' = where /\ UNCHANGED status
    BY <1>2 DEF TypeOK, status
  <1>3. ASSUME NEW i \in Irps, Serves(i, where) PROVE pc' \in [Threads -> Pcs]
    BY <1>1, <1>3 DEF Serves
  <1>4. ASSUME NEW i \in Irps, Serves(i, where)
        PROVE StatusIndicationIrp' \in Irps \cup {NoIrp} /\ routine' \in [Irps -> BOOLEAN]
    BY <1>4 DEF Serves, TypeOK
  <1> QED
    BY <1>2, <1>3, <1>4, Served

\* The counts are natural, and a thread that is counted makes one positive.
LEMMA CountType ==
  ASSUME NEW S
  PROVE  /\ Count(S) \in Nat
         /\ \A t \in Threads : pc[t] \in S => Count(S) > 0
         /\ Count(S) = 0 => \A t \in Threads : pc[t] \notin S
  <1>1. IsFiniteSet({t \in Threads : pc[t] \in S})
    BY ThreadsFinite, FS_Subset
  <1> DEFINE C == {t \in Threads : pc[t] \in S}
  <1>2. Cardinality(C) \in Nat /\ (Cardinality(C) = 0 <=> C = {})
    BY <1>1, FS_CardinalityType, FS_EmptySet
  <1>3. \A t \in Threads : pc[t] \in S => C # {}
    OBVIOUS
  <1> HIDE DEF C
  <1>4. /\ Cardinality(C) \in Nat
        /\ \A t \in Threads : pc[t] \in S => Cardinality(C) > 0
        /\ Cardinality(C) = 0 => \A t \in Threads : pc[t] \notin S
    BY <1>2, <1>3
  <1> QED
    BY <1>4, Zenon DEF C, Count

LEMMA PendsType ==
  ASSUME PendsExact, TypeOK, NEW t \in Threads, pc[t] \in PendPlaces
  PROVE  PendedSendCount - 1 \in Nat
  <1>1. PendedSendCount > 0
    BY CountType DEF PendsExact
  <1> QED
    BY <1>1 DEF TypeOK

LEMMA StepType ==
  ASSUME TypeOK, StatusIrpOwned, PendsExact, [Next]_vars
  PROVE  TypeOK'
  <1> USE DEF adapter, flags, files, status, counts, At
  <1>1. CASE BindAdapter \/ Binding \/ UnbindAdapter
    <2>1. CASE BindAdapter
      <3>1. "create" \in Pcs
        BY DEF Pcs
      <3>2. pc' \in [Threads -> Pcs]
        BY <2>1, <3>1, MoveType DEF BindAdapter
      <3> QED
        BY <2>1, <3>2 DEF BindAdapter, TypeOK
    <2>2. CASE BindOpening
      <3>1. {"open", "failed"} \subseteq Pcs
        BY DEF Pcs
      <3>2. pc' \in [Threads -> Pcs]
        <4>1. PICK w \in {"open", "failed"} : Goto("bind", w)
          BY <2>2 DEF BindOpening, Goto
        <4> QED
          BY <3>1, <4>1, MoveType
      <3> QED
        BY <2>2, <3>2 DEF BindOpening, TypeOK
    <2>3. CASE BindOpens
      <3>1. {"query", "failed"} \subseteq Pcs
        BY DEF Pcs
      <3>2. pc' \in [Threads -> Pcs]
        <4>1. PICK w \in {"query", "failed"} : Goto("bind", w)
          BY <2>3 DEF BindOpens, Goto
        <4> QED
          BY <3>1, <4>1, MoveType
      <3>4. BindingHandle' \in BOOLEAN
        BY <2>3 DEF BindOpens, TypeOK
      <3> QED
        BY <2>3, <3>2, <3>4 DEF BindOpens, TypeOK
    <2>4. CASE BindQueries
      <3>1. {"activate", "failed"} \subseteq Pcs
        BY DEF Pcs
      <3>2. pc' \in [Threads -> Pcs]
        <4>1. PICK w \in {"activate", "failed"} : Goto("bind", w)
          BY <2>4 DEF BindQueries, Goto
        <4> QED
          BY <3>1, <4>1, MoveType
      <3> QED
        BY <2>4, <3>2 DEF BindQueries, TypeOK
    <2>5. CASE BindActivates
      <3>1. {"failed", "done"} \subseteq Pcs
        BY DEF Pcs
      <3>2. pc' \in [Threads -> Pcs]
        <4>1. PICK w \in {"failed", "done"} : Goto("bind", w)
          BY <2>5 DEF BindActivates, Goto
        <4> QED
          BY <3>1, <4>1, MoveType
      <3> QED
        BY <2>5, <3>2 DEF BindActivates, TypeOK
    <2>6. CASE BindFails
      <3>1. "shutdown" \in Pcs
        BY DEF Pcs
      <3>2. pc' \in [Threads -> Pcs]
        BY <2>6, <3>1, MoveType DEF BindFails
      <3> QED
        BY <2>6, <3>2 DEF BindFails, TypeOK
    <2>7. CASE UnbindAdapter
      <3>1. "shutdown" \in Pcs
        BY DEF Pcs
      <3>2. pc' \in [Threads -> Pcs]
        BY <2>7, <3>1, MoveType DEF UnbindAdapter
      <3> QED
        BY <2>7, <3>2 DEF UnbindAdapter, TypeOK
    <2> QED
      BY <1>1, <2>1, <2>2, <2>3, <2>4, <2>5, <2>6, <2>7 DEF Binding
  <1>2. ASSUME NEW t \in Binders, Shutdown(t) PROVE TypeOK'
    <2> t \in Threads
      BY DEF Threads
    <2>1. CASE ShutdownBegins(t)
      <3>1. {"done", "filter", "remove"} \subseteq Pcs
        BY DEF Pcs
      <3>2. pc' \in [Threads -> Pcs]
        <4>1. PICK w \in {"done", "filter", "remove"} : Goto(t, w)
          BY <2>1 DEF ShutdownBegins, Goto
        <4> QED
          BY <3>1, <4>1, MoveType
      <3> QED
        BY <2>1, <3>2 DEF ShutdownBegins, TypeOK
    <2>2. CASE ShutdownFilters(t)
      <3>1. "status" \in Pcs
        BY DEF Pcs
      <3>2. pc' \in [Threads -> Pcs]
        BY <2>2, <3>1, MoveType DEF ShutdownFilters
      <3>4. filter' \in BOOLEAN
        BY <2>2 DEF ShutdownFilters, TypeOK
      <3> QED
        BY <2>2, <3>2, <3>4 DEF ShutdownFilters, TypeOK
    <2>3. CASE ShutdownServices(t)
      <3>1. "wait" \in Pcs
        BY DEF Pcs
      <3>2. [pc EXCEPT ![t] = "wait"] \in [Threads -> Pcs]
        BY <3>1 DEF TypeOK
      <3>3. /\ pc' \in [Threads -> Pcs]
            /\ StatusIndicationIrp' \in Irps \cup {NoIrp} /\ routine' \in [Irps -> BOOLEAN]
        BY <2>3, <3>2, ServedType DEF ShutdownServices
      <3> QED
        BY <2>3, <3>3 DEF ShutdownServices, TypeOK
    <2>4. CASE ShutdownCloses(t)
      <3>1. "idle" \in Pcs
        BY DEF Pcs
      <3>2. pc' \in [Threads -> Pcs]
        BY <2>4, <3>1, MoveType DEF ShutdownCloses
      <3> QED
        BY <2>4, <3>2 DEF ShutdownCloses, TypeOK
    <2>5. CASE ShutdownIdles(t)
      <3>1. "remove" \in Pcs
        BY DEF Pcs
      <3>2. pc' \in [Threads -> Pcs]
        BY <2>5, <3>1, MoveType DEF ShutdownIdles
      <3> QED
        BY <2>5, <3>2 DEF ShutdownIdles, TypeOK
    <2>6. CASE ShutdownRemoves(t)
      <3>1. "free" \in Pcs
        BY DEF Pcs
      <3>2. pc' \in [Threads -> Pcs]
        BY <2>6, <3>1, MoveType DEF ShutdownRemoves
      <3> QED
        BY <2>6, <3>2 DEF ShutdownRemoves, TypeOK
    <2>7. CASE ShutdownFrees(t)
      <3>1. "done" \in Pcs
        BY DEF Pcs
      <3>2. pc' \in [Threads -> Pcs]
        BY <2>7, <3>1, MoveType DEF ShutdownFrees
      <3>4. RefCount' \in Nat /\ PendedSendCount' \in Nat
        BY <2>7 DEF ShutdownFrees, ndisprotDerefOpen, TypeOK
      <3> QED
        BY <2>7, <3>2, <3>4 DEF ShutdownFrees, TypeOK
    <2> QED
      BY <1>2, <2>1, <2>2, <2>3, <2>4, <2>5, <2>6, <2>7 DEF Shutdown
  <1>3. ASSUME NEW i \in Irps, NEW f \in Files, OpenLooksUp(i, f) \/ UseBegins(i, f) PROVE TypeOK'
    <2> i \in Threads
      BY ThreadKinds
    <2>1. CASE OpenLooksUp(i, f)
      <3>1. "associate" \in Pcs
        BY DEF Pcs
      <3>2. pc' \in [Threads -> Pcs]
        BY <2>1, <3>1, MoveType DEF OpenLooksUp
      <3> QED
        BY <2>1, <3>2 DEF OpenLooksUp, ndisprotRefOpen, TypeOK
    <2>2. CASE UseBegins(i, f)
      <3>1. {"oid", "write", "indicate"} \subseteq Pcs
        BY DEF Pcs
      <3>2. pc' \in [Threads -> Pcs]
        <4>1. PICK w \in {"oid", "write", "indicate"} : Goto(i, w)
          BY <2>2 DEF UseBegins, Goto
        <4> QED
          BY <3>1, <4>1, MoveType
      <3> QED
        BY <2>2, <3>2 DEF UseBegins, TypeOK
    <2> QED
      BY <1>3, <2>1, <2>2
  <1>4. ASSUME NEW t \in Irps \cup Files, Validating(t) PROVE TypeOK'
    <2> t \in Threads
      BY DEF Threads
    <2>1. CASE ValidateFails(t)
      <3>1. {"undo", "service"} \subseteq Pcs
        BY DEF Pcs
      <3>2. pc' \in [Threads -> Pcs]
        <4>1. PICK w \in {"undo", "service"} : Goto(t, w)
          BY <2>1 DEF ValidateFails, Goto
        <4> QED
          BY <3>1, <4>1, MoveType
      <3> QED
        BY <2>1, <3>2 DEF ValidateFails, TypeOK
    <2>2. CASE Validates(t)
      <3>1. "request" \in Pcs
        BY DEF Pcs
      <3>2. pc' \in [Threads -> Pcs]
        BY <2>2, <3>1, MoveType DEF Validates
      <3> QED
        BY <2>2, <3>2 DEF Validates, TypeOK
    <2>3. CASE Requests(t)
      <3>1. {"out", "undo", "service"} \subseteq Pcs
        BY DEF Pcs
      <3>2. pc' \in [Threads -> Pcs]
        <4>1. PICK w \in {"out", "undo", "service"} : Goto(t, w)
          BY <2>3 DEF Requests, Goto
        <4> QED
          BY <3>1, <4>1, MoveType
      <3>3. PendedSendCount - 1 \in Nat
        BY <2>3, PendsType DEF Requests, PendPlaces
      <3>4. RefCount' \in Nat /\ PendedSendCount' \in Nat
        BY <2>3, <3>3 DEF Requests, TypeOK
      <3>5. filter' \in BOOLEAN
        <4>1. filter' = (t \in Irps) \/ filter' = filter
          BY <2>3, Zenon DEF Requests, adapter
        <4>2. (t \in Irps) \in BOOLEAN
          OBVIOUS
        <4> QED
          BY <4>1, <4>2, Zenon DEF TypeOK
      <3> QED
        BY <2>3, <3>2, <3>4, <3>5 DEF Requests, TypeOK
    <2> QED
      BY <1>4, <2>1, <2>2, <2>3 DEF Validating
  <1>5. ASSUME NEW i \in Irps, OpenGoesOn(i) PROVE TypeOK'
    <2> i \in Threads
      BY ThreadKinds
    <2>1. CASE OpenRefused(i)
      <3>1. "out" \in Pcs
        BY DEF Pcs
      <3>2. pc' \in [Threads -> Pcs]
        BY <2>1, <3>1, MoveType DEF OpenRefused
      <3> QED
        BY <2>1, <3>2 DEF OpenRefused, ndisprotDerefOpen, TypeOK
    <2>2. CASE OpenAssociates(i)
      <3>1. "validate" \in Pcs
        BY DEF Pcs
      <3>2. pc' \in [Threads -> Pcs]
        BY <2>2, <3>1, MoveType DEF OpenAssociates
      <3> QED
        BY <2>2, <3>2 DEF OpenAssociates, TypeOK
    <2>3. CASE OpenUndone(i)
      <3>1. "out" \in Pcs
        BY DEF Pcs
      <3>2. pc' \in [Threads -> Pcs]
        BY <2>3, <3>1, MoveType DEF OpenUndone
      <3>4. RefCount' \in Nat /\ PendedSendCount' \in Nat
        BY <2>3 DEF OpenUndone, ndisprotDerefOpen, TypeOK
      <3> QED
        BY <2>3, <3>2, <3>4 DEF OpenUndone, TypeOK
    <2> QED
      BY <1>5, <2>1, <2>2, <2>3 DEF OpenGoesOn
  <1>6. ASSUME NEW i \in Irps, UseGoesOn(i) \/ StatusCancelCalled(i) PROVE TypeOK'
    <2> i \in Threads
      BY ThreadKinds
    <2>1. CASE UseRefused(i)
      <3>1. "out" \in Pcs
        BY DEF Pcs
      <3>2. pc' \in [Threads -> Pcs]
        BY <2>1, <3>1, MoveType DEF UseRefused
      <3> QED
        BY <2>1, <3>2 DEF UseRefused, TypeOK
    <2>2. CASE OidValidates(i)
      <3>1. "oid_request" \in Pcs
        BY DEF Pcs
      <3>2. pc' \in [Threads -> Pcs]
        BY <2>2, <3>1, MoveType DEF OidValidates
      <3> QED
        BY <2>2, <3>2 DEF OidValidates, TypeOK
    <2>3. CASE OidRequests(i)
      <3>1. "out" \in Pcs
        BY DEF Pcs
      <3>2. pc' \in [Threads -> Pcs]
        BY <2>3, <3>1, MoveType DEF OidRequests
      <3>3. PendedSendCount - 1 \in Nat
        BY <2>3, PendsType DEF OidRequests, PendPlaces
      <3> QED
        BY <2>3, <3>2, <3>3 DEF OidRequests, TypeOK
    <2>4. CASE WriteCounts(i)
      <3>1. "send" \in Pcs
        BY DEF Pcs
      <3>2. pc' \in [Threads -> Pcs]
        BY <2>4, <3>1, MoveType DEF WriteCounts
      <3> QED
        BY <2>4, <3>2 DEF WriteCounts, ndisprotRefOpen, TypeOK
    <2>5. CASE SendCompletes(i)
      <3>1. "sent" \in Pcs
        BY DEF Pcs
      <3>2. pc' \in [Threads -> Pcs]
        BY <2>5, <3>1, MoveType DEF SendCompletes
      <3> QED
        BY <2>5, <3>2 DEF SendCompletes, TypeOK
    <2>6. CASE SendUncounts(i)
      <3>1. "uncounted" \in Pcs
        BY DEF Pcs
      <3>2. pc' \in [Threads -> Pcs]
        BY <2>6, <3>1, MoveType DEF SendUncounts
      <3>3. PendedSendCount - 1 \in Nat
        BY <2>6, PendsType DEF SendUncounts, PendPlaces
      <3> QED
        BY <2>6, <3>2, <3>3 DEF SendUncounts, TypeOK
    <2>7. CASE SendDerefs(i)
      <3>1. "out" \in Pcs
        BY DEF Pcs
      <3>2. pc' \in [Threads -> Pcs]
        BY <2>7, <3>1, MoveType DEF SendDerefs
      <3> QED
        BY <2>7, <3>2 DEF SendDerefs, ndisprotDerefOpen, TypeOK
    <2>8. CASE StatusQueues(i)
      <3>1. {"out", "pended"} \subseteq Pcs
        BY DEF Pcs
      <3>2. pc' \in [Threads -> Pcs]
        <4>1. PICK w \in {"out", "pended"} : Goto(i, w)
          BY <2>8 DEF StatusQueues, Goto
        <4> QED
          BY <3>1, <4>1, MoveType
      <3>4. StatusIndicationIrp' \in Irps \cup {NoIrp} /\ routine' \in [Irps -> BOOLEAN]
        BY <2>8 DEF StatusQueues, TypeOK
      <3> QED
        BY <2>8, <3>2, <3>4 DEF StatusQueues, TypeOK
    <2>9. CASE StatusCancelled(i)
      <3>1. "out" \in Pcs
        BY DEF Pcs
      <3>2. pc' \in [Threads -> Pcs]
        BY <2>9, <3>1, MoveType DEF StatusCancelled
      <3> QED
        BY <2>9, <3>2 DEF StatusCancelled, TypeOK
    <2>10. CASE StatusCancelCalled(i)
      <3>1. "cancel" \in Pcs
        BY DEF Pcs
      <3>2. pc' \in [Threads -> Pcs]
        BY <2>10, <3>1, MoveType DEF StatusCancelCalled
      <3> QED
        BY <2>10, <3>2 DEF StatusCancelCalled, TypeOK
    <2> QED
      BY <1>6, <2>1, <2>2, <2>3, <2>4, <2>5, <2>6, <2>7, <2>8, <2>9, <2>10 DEF UseGoesOn
  <1>7. ASSUME NEW f \in Files, CleanupMarks(f) \/ CleanupGoesOn(f) PROVE TypeOK'
    <2> f \in Threads
      BY ThreadKinds
    <2>1. CASE CleanupMarks(f)
      <3>1. {"validate", "cleaned"} \subseteq Pcs
        BY DEF Pcs
      <3>2. pc' \in [Threads -> Pcs]
        <4>1. PICK w \in {"validate", "cleaned"} : Goto(f, w)
          BY <2>1 DEF CleanupMarks, Goto
        <4> QED
          BY <3>1, <4>1, MoveType
      <3> QED
        BY <2>1, <3>2 DEF CleanupMarks, TypeOK
    <2>2. CASE CleanupServices(f)
      <3>1. "cleaned" \in Pcs
        BY DEF Pcs
      <3>2. [pc EXCEPT ![f] = "cleaned"] \in [Threads -> Pcs]
        BY <3>1 DEF TypeOK
      <3>3. /\ pc' \in [Threads -> Pcs]
            /\ StatusIndicationIrp' \in Irps \cup {NoIrp} /\ routine' \in [Irps -> BOOLEAN]
        BY <2>2, <3>2, ServedType DEF CleanupServices
      <3> QED
        BY <2>2, <3>3 DEF CleanupServices, TypeOK
    <2>3. CASE Close(f)
      <3>1. "done" \in Pcs
        BY DEF Pcs
      <3>2. pc' \in [Threads -> Pcs]
        BY <2>3, <3>1, MoveType DEF Close
      <3> QED
        BY <2>3, <3>2 DEF Close, ndisprotDerefOpen, TypeOK
    <2> QED
      BY <1>7, <2>1, <2>2, <2>3 DEF CleanupGoesOn
  <1>8. CASE NdisProtStatus \/ Unload \/ Unloaded
    <2>1. CASE NdisProtStatus
      <3>1. /\ pc' \in [Threads -> Pcs]
            /\ StatusIndicationIrp' \in Irps \cup {NoIrp} /\ routine' \in [Irps -> BOOLEAN]
        BY <2>1, ServedType DEF NdisProtStatus, TypeOK
      <3> QED
        BY <2>1, <3>1 DEF NdisProtStatus, TypeOK
    <2>2. CASE Unload
      BY TypeOK, <2>2
         DEF Unload, TypeOK
    <2>3. CASE Unloaded
      BY TypeOK, <2>3
         DEF Unloaded, TypeOK
    <2> QED
      BY <1>8, <2>1, <2>2, <2>3
  <1>9. CASE UNCHANGED vars
    BY TypeOK, <1>9 DEF vars, TypeOK
  <1> QED
    BY <1>1, <1>2, <1>3, <1>4, <1>5, <1>6, <1>7, <1>8, <1>9 DEF Next

-----------------------------------------------------------------------------
(* The places of the threads.                                              *)

LEMMA StepPlaces ==
  ASSUME TypeOK, Places, StatusIrpOwned, [Next]_vars
  PROVE  Places'
  <1> USE DEF adapter, flags, files, status, counts, At
  <1>1. CASE BindAdapter \/ Binding \/ UnbindAdapter
    <2>1. CASE BindAdapter
      BY <2>1, TypeOK, Places, ThreadKinds
         DEF BindAdapter, TypeOK, Goto, Places, OpeningPlaces, Taking, Closing
    <2>2. CASE BindOpening
      <3>1. PICK w \in {"open", "failed"} : Goto("bind", w)
        BY <2>2 DEF BindOpening, Goto
      <3> QED
        BY <2>2, <3>1, TypeOK, Places, ThreadKinds
           DEF BindOpening, TypeOK, Goto, Places, OpeningPlaces, Taking, Closing
    <2>3. CASE BindOpens
      <3>1. PICK w \in {"query", "failed"} : Goto("bind", w)
        BY <2>3 DEF BindOpens, Goto
      <3> QED
        BY <2>3, <3>1, TypeOK, Places, ThreadKinds
           DEF BindOpens, TypeOK, Goto, Places, OpeningPlaces, Taking, Closing
    <2>4. CASE BindQueries
      <3>1. PICK w \in {"activate", "failed"} : Goto("bind", w)
        BY <2>4 DEF BindQueries, Goto
      <3> QED
        BY <2>4, <3>1, TypeOK, Places, ThreadKinds
           DEF BindQueries, TypeOK, Goto, Places, OpeningPlaces, Taking, Closing
    <2>5. CASE BindActivates
      <3>1. PICK w \in {"failed", "done"} : Goto("bind", w)
        BY <2>5 DEF BindActivates, Goto
      <3> QED
        BY <2>5, <3>1, TypeOK, Places, ThreadKinds
           DEF BindActivates, TypeOK, Goto, Places, OpeningPlaces, Taking, Closing
    <2>6. CASE BindFails
      BY <2>6, TypeOK, Places, ThreadKinds
         DEF BindFails, TypeOK, Goto, Places, OpeningPlaces, Taking, Closing
    <2>7. CASE UnbindAdapter
      BY <2>7, TypeOK, Places, ThreadKinds
         DEF UnbindAdapter, TypeOK, Goto, Places, OpeningPlaces, Taking, Closing
    <2> QED
      BY <1>1, <2>1, <2>2, <2>3, <2>4, <2>5, <2>6, <2>7 DEF Binding
  <1>2. ASSUME NEW t \in Binders, Shutdown(t) PROVE Places'
    <2> t \in Threads
      BY DEF Threads
    <2>1. CASE ShutdownBegins(t)
      <3>1. PICK w \in {"done", "filter", "remove"} : Goto(t, w)
        BY <2>1 DEF ShutdownBegins, Goto
      <3> QED
        BY <2>1, <3>1, TypeOK, Places, ThreadKinds
           DEF ShutdownBegins, TypeOK, Goto, Places, OpeningPlaces, Taking, Closing
    <2>2. CASE ShutdownFilters(t)
      BY <2>2, TypeOK, Places, ThreadKinds
         DEF ShutdownFilters, TypeOK, Goto, Places, OpeningPlaces, Taking, Closing
    <2>3. CASE ShutdownServices(t)
      <3>1. ASSUME NEW i \in Irps, Serves(i, [pc EXCEPT ![t] = "wait"]) PROVE Places'
        BY <2>3, <3>1, TypeOK, Places, ThreadKinds
           DEF ShutdownServices, Serves, TypeOK, Places, OpeningPlaces, Taking, Closing
      <3>2. CASE pc' = [pc EXCEPT ![t] = "wait"] /\ UNCHANGED status
        BY <2>3, <3>2, TypeOK, Places, ThreadKinds
           DEF ShutdownServices, TypeOK, Places, OpeningPlaces, Taking, Closing
      <3> QED
        BY <2>3, <3>1, <3>2, Served DEF ShutdownServices
    <2>4. CASE ShutdownCloses(t)
      BY <2>4, TypeOK, Places, ThreadKinds
         DEF ShutdownCloses, TypeOK, Goto, Places, OpeningPlaces, Taking, Closing
    <2>5. CASE ShutdownIdles(t)
      BY <2>5, TypeOK, Places, ThreadKinds
         DEF ShutdownIdles, TypeOK, Goto, Places, OpeningPlaces, Taking, Closing
    <2>6. CASE ShutdownRemoves(t)
      BY <2>6, TypeOK, Places, ThreadKinds
         DEF ShutdownRemoves, TypeOK, Goto, Places, OpeningPlaces, Taking, Closing
    <2>7. CASE ShutdownFrees(t)
      BY <2>7, TypeOK, Places, ThreadKinds
         DEF ShutdownFrees, TypeOK, Goto, Places, OpeningPlaces, Taking, Closing
    <2> QED
      BY <1>2, <2>1, <2>2, <2>3, <2>4, <2>5, <2>6, <2>7 DEF Shutdown
  <1>3. ASSUME NEW i \in Irps, NEW f \in Files, OpenLooksUp(i, f) \/ UseBegins(i, f) PROVE Places'
    <2> i \in Threads
      BY ThreadKinds
    <2>1. CASE OpenLooksUp(i, f)
      BY <2>1, TypeOK, Places, ThreadKinds
         DEF OpenLooksUp, TypeOK, Goto, Places, OpeningPlaces, Taking, Closing
    <2>2. CASE UseBegins(i, f)
      <3>1. PICK w \in {"oid", "write", "indicate"} : Goto(i, w)
        BY <2>2 DEF UseBegins, Goto
      <3> QED
        BY <2>2, <3>1, TypeOK, Places, ThreadKinds
           DEF UseBegins, TypeOK, Goto, Places, OpeningPlaces, Taking, Closing
    <2> QED
      BY <1>3, <2>1, <2>2
  <1>4. ASSUME NEW t \in Irps \cup Files, Validating(t) PROVE Places'
    <2> t \in Threads
      BY DEF Threads
    <2>1. CASE ValidateFails(t)
      <3>1. PICK w \in {"undo", "service"} : Goto(t, w)
        BY <2>1 DEF ValidateFails, Goto
      <3> QED
        BY <2>1, <3>1, TypeOK, Places, ThreadKinds
           DEF ValidateFails, TypeOK, Goto, Places, OpeningPlaces, Taking, Closing
    <2>2. CASE Validates(t)
      BY <2>2, TypeOK, Places, ThreadKinds
         DEF Validates, TypeOK, Goto, Places, OpeningPlaces, Taking, Closing
    <2>3. CASE Requests(t)
      <3>1. PICK w \in {"out", "undo", "service"} : Goto(t, w)
        BY <2>3 DEF Requests, Goto
      <3> QED
        BY <2>3, <3>1, TypeOK, Places, ThreadKinds
           DEF Requests, TypeOK, Goto, Places, OpeningPlaces, Taking, Closing
    <2> QED
      BY <1>4, <2>1, <2>2, <2>3 DEF Validating
  <1>5. ASSUME NEW i \in Irps, OpenGoesOn(i) PROVE Places'
    <2> i \in Threads
      BY ThreadKinds
    <2>1. CASE OpenRefused(i)
      BY <2>1, TypeOK, Places, ThreadKinds
         DEF OpenRefused, TypeOK, Goto, Places, OpeningPlaces, Taking, Closing
    <2>2. CASE OpenAssociates(i)
      BY <2>2, TypeOK, Places, ThreadKinds
         DEF OpenAssociates, TypeOK, Goto, Places, OpeningPlaces, Taking, Closing
    <2>3. CASE OpenUndone(i)
      BY <2>3, TypeOK, Places, ThreadKinds
         DEF OpenUndone, TypeOK, Goto, Places, OpeningPlaces, Taking, Closing
    <2> QED
      BY <1>5, <2>1, <2>2, <2>3 DEF OpenGoesOn
  <1>6. ASSUME NEW i \in Irps, UseGoesOn(i) \/ StatusCancelCalled(i) PROVE Places'
    <2> i \in Threads
      BY ThreadKinds
    <2>1. CASE UseRefused(i)
      BY <2>1, TypeOK, Places, ThreadKinds
         DEF UseRefused, TypeOK, Goto, Places, OpeningPlaces, Taking, Closing
    <2>2. CASE OidValidates(i)
      BY <2>2, TypeOK, Places, ThreadKinds
         DEF OidValidates, TypeOK, Goto, Places, OpeningPlaces, Taking, Closing
    <2>3. CASE OidRequests(i)
      BY <2>3, TypeOK, Places, ThreadKinds
         DEF OidRequests, TypeOK, Goto, Places, OpeningPlaces, Taking, Closing
    <2>4. CASE WriteCounts(i)
      BY <2>4, TypeOK, Places, ThreadKinds
         DEF WriteCounts, TypeOK, Goto, Places, OpeningPlaces, Taking, Closing
    <2>5. CASE SendCompletes(i)
      BY <2>5, TypeOK, Places, ThreadKinds
         DEF SendCompletes, TypeOK, Goto, Places, OpeningPlaces, Taking, Closing
    <2>6. CASE SendUncounts(i)
      BY <2>6, TypeOK, Places, ThreadKinds
         DEF SendUncounts, TypeOK, Goto, Places, OpeningPlaces, Taking, Closing
    <2>7. CASE SendDerefs(i)
      BY <2>7, TypeOK, Places, ThreadKinds
         DEF SendDerefs, TypeOK, Goto, Places, OpeningPlaces, Taking, Closing
    <2>8. CASE StatusQueues(i)
      <3>1. PICK w \in {"out", "pended"} : Goto(i, w)
        BY <2>8 DEF StatusQueues, Goto
      <3> QED
        BY <2>8, <3>1, TypeOK, Places, ThreadKinds
           DEF StatusQueues, TypeOK, Goto, Places, OpeningPlaces, Taking, Closing
    <2>9. CASE StatusCancelled(i)
      BY <2>9, TypeOK, Places, ThreadKinds
         DEF StatusCancelled, TypeOK, Goto, Places, OpeningPlaces, Taking, Closing
    <2>10. CASE StatusCancelCalled(i)
      BY <2>10, TypeOK, Places, ThreadKinds
         DEF StatusCancelCalled, TypeOK, Goto, Places, OpeningPlaces, Taking, Closing
    <2> QED
      BY <1>6, <2>1, <2>2, <2>3, <2>4, <2>5, <2>6, <2>7, <2>8, <2>9, <2>10 DEF UseGoesOn
  <1>7. ASSUME NEW f \in Files, CleanupMarks(f) \/ CleanupGoesOn(f) PROVE Places'
    <2> f \in Threads
      BY ThreadKinds
    <2>1. CASE CleanupMarks(f)
      <3>1. PICK w \in {"validate", "cleaned"} : Goto(f, w)
        BY <2>1 DEF CleanupMarks, Goto
      <3> QED
        BY <2>1, <3>1, TypeOK, Places, ThreadKinds
           DEF CleanupMarks, TypeOK, Goto, Places, OpeningPlaces, Taking, Closing
    <2>2. CASE CleanupServices(f)
      <3>1. ASSUME NEW i \in Irps, Serves(i, [pc EXCEPT ![f] = "cleaned"]) PROVE Places'
        BY <2>2, <3>1, TypeOK, Places, ThreadKinds
           DEF CleanupServices, Serves, TypeOK, Places, OpeningPlaces, Taking, Closing
      <3>2. CASE pc' = [pc EXCEPT ![f] = "cleaned"] /\ UNCHANGED status
        BY <2>2, <3>2, TypeOK, Places, ThreadKinds
           DEF CleanupServices, TypeOK, Places, OpeningPlaces, Taking, Closing
      <3> QED
        BY <2>2, <3>1, <3>2, Served DEF CleanupServices
    <2>3. CASE Close(f)
      BY <2>3, TypeOK, Places, ThreadKinds
         DEF Close, TypeOK, Goto, Places, OpeningPlaces, Taking, Closing
    <2> QED
      BY <1>7, <2>1, <2>2, <2>3 DEF CleanupGoesOn
  <1>8. CASE NdisProtStatus \/ Unload \/ Unloaded
    <2>1. CASE NdisProtStatus
      <3>1. ASSUME NEW i \in Irps, Serves(i, pc) PROVE Places'
        BY <2>1, <3>1, TypeOK, Places, ThreadKinds
           DEF NdisProtStatus, Serves, TypeOK, Places, OpeningPlaces, Taking, Closing
      <3>2. CASE pc' = pc /\ UNCHANGED status
        BY <2>1, <3>2, TypeOK, Places, ThreadKinds
           DEF NdisProtStatus, TypeOK, Places, OpeningPlaces, Taking, Closing
      <3> QED
        BY <2>1, <3>1, <3>2, Served DEF NdisProtStatus
    <2>2. CASE Unload
      BY Places, <2>2
         DEF Unload, Places
    <2>3. CASE Unloaded
      BY Places, <2>3
         DEF Unloaded, Places
    <2> QED
      BY <1>8, <2>1, <2>2, <2>3
  <1>9. CASE UNCHANGED vars
    BY Places, <1>9 DEF vars, Places
  <1> QED
    BY <1>1, <1>2, <1>3, <1>4, <1>5, <1>6, <1>7, <1>8, <1>9 DEF Next

-----------------------------------------------------------------------------
(* The stages of the binding.                                              *)

LEMMA StepStages ==
  ASSUME ~EarlyUnbind, TypeOK, Places, Stages, Handles, StatusIrpOwned, [Next]_vars
  PROVE  Stages'
  <1> USE DEF adapter, flags, files, status, counts, At
  <1>1. CASE BindAdapter \/ Binding \/ UnbindAdapter
    <2>1. CASE BindAdapter
      BY <2>1, TypeOK, Places, Stages, Handles, ThreadKinds
         DEF BindAdapter, TypeOK, Goto, Stages, Closing, Binders, Places, OpeningPlaces,
             Taking, Handles
    <2>2. CASE BindOpening
      <3>1. PICK w \in {"open", "failed"} : Goto("bind", w)
        BY <2>2 DEF BindOpening, Goto
      <3> QED
        BY <2>2, <3>1, TypeOK, Places, Stages, Handles, ThreadKinds
           DEF BindOpening, TypeOK, Goto, Stages, Closing, Binders, Places, OpeningPlaces,
               Taking, Handles
    <2>3. CASE BindOpens
      <3>1. PICK w \in {"query", "failed"} : Goto("bind", w)
        BY <2>3 DEF BindOpens, Goto
      <3> QED
        BY <2>3, <3>1, TypeOK, Places, Stages, Handles, ThreadKinds
           DEF BindOpens, TypeOK, Goto, Stages, Closing, Binders, Places, OpeningPlaces,
               Taking, Handles
    <2>4. CASE BindQueries
      <3>1. PICK w \in {"activate", "failed"} : Goto("bind", w)
        BY <2>4 DEF BindQueries, Goto
      <3> QED
        BY <2>4, <3>1, TypeOK, Places, Stages, Handles, ThreadKinds
           DEF BindQueries, TypeOK, Goto, Stages, Closing, Binders, Places, OpeningPlaces,
               Taking, Handles
    <2>5. CASE BindActivates
      <3>1. PICK w \in {"failed", "done"} : Goto("bind", w)
        BY <2>5 DEF BindActivates, Goto
      <3> QED
        BY <2>5, <3>1, TypeOK, Places, Stages, Handles, ThreadKinds
           DEF BindActivates, TypeOK, Goto, Stages, Closing, Binders, Places, OpeningPlaces,
               Taking, Handles
    <2>6. CASE BindFails
      BY <2>6, TypeOK, Places, Stages, Handles, ThreadKinds
         DEF BindFails, TypeOK, Goto, Stages, Closing, Binders, Places, OpeningPlaces,
             Taking, Handles
    <2>7. CASE UnbindAdapter
      BY <2>7, TypeOK, Places, Stages, Handles, ThreadKinds
         DEF UnbindAdapter, TypeOK, Goto, Stages, Closing, Binders, Places, OpeningPlaces,
             Taking, Handles
    <2> QED
      BY <1>1, <2>1, <2>2, <2>3, <2>4, <2>5, <2>6, <2>7 DEF Binding
  <1>2. ASSUME NEW t \in Binders, Shutdown(t) PROVE Stages'
    <2> t \in Threads
      BY DEF Threads
    <2>1. CASE ShutdownBegins(t)
      <3>1. PICK w \in {"done", "filter", "remove"} : Goto(t, w)
        BY <2>1 DEF ShutdownBegins, Goto
      <3> QED
        BY <2>1, <3>1, TypeOK, Places, Stages, Handles, ThreadKinds
           DEF ShutdownBegins, TypeOK, Goto, Stages, Closing, Binders, Places, OpeningPlaces,
               Taking, Handles
    <2>2. CASE ShutdownFilters(t)
      BY <2>2, TypeOK, Places, Stages, Handles, ThreadKinds
         DEF ShutdownFilters, TypeOK, Goto, Stages, Closing, Binders, Places, OpeningPlaces,
             Taking, Handles
    <2>3. CASE ShutdownServices(t)
      <3>1. ASSUME NEW i \in Irps, Serves(i, [pc EXCEPT ![t] = "wait"]) PROVE Stages'
        BY <2>3, <3>1, TypeOK, Places, Stages, Handles, ThreadKinds
           DEF ShutdownServices, Serves, TypeOK, Goto, Stages, Closing, Binders, Places,
               OpeningPlaces, Taking, Handles
      <3>2. CASE pc' = [pc EXCEPT ![t] = "wait"] /\ UNCHANGED status
        BY <2>3, <3>2, TypeOK, Places, Stages, Handles, ThreadKinds
           DEF ShutdownServices, TypeOK, Goto, Stages, Closing, Binders, Places,
               OpeningPlaces, Taking, Handles
      <3> QED
        BY <2>3, <3>1, <3>2, Served DEF ShutdownServices
    <2>4. CASE ShutdownCloses(t)
      BY <2>4, TypeOK, Places, Stages, Handles, ThreadKinds
         DEF ShutdownCloses, TypeOK, Goto, Stages, Closing, Binders, Places, OpeningPlaces,
             Taking, Handles
    <2>5. CASE ShutdownIdles(t)
      BY <2>5, TypeOK, Places, Stages, Handles, ThreadKinds
         DEF ShutdownIdles, TypeOK, Goto, Stages, Closing, Binders, Places, OpeningPlaces,
             Taking, Handles
    <2>6. CASE ShutdownRemoves(t)
      BY <2>6, TypeOK, Places, Stages, Handles, ThreadKinds
         DEF ShutdownRemoves, TypeOK, Goto, Stages, Closing, Binders, Places, OpeningPlaces,
             Taking, Handles
    <2>7. CASE ShutdownFrees(t)
      BY <2>7, TypeOK, Places, Stages, Handles, ThreadKinds
         DEF ShutdownFrees, TypeOK, Goto, Stages, Closing, Binders, Places, OpeningPlaces,
             Taking, Handles
    <2> QED
      BY <1>2, <2>1, <2>2, <2>3, <2>4, <2>5, <2>6, <2>7 DEF Shutdown
  <1>3. ASSUME NEW i \in Irps, NEW f \in Files, OpenLooksUp(i, f) \/ UseBegins(i, f) PROVE Stages'
    <2> i \in Threads
      BY ThreadKinds
    <2>1. CASE OpenLooksUp(i, f)
      BY <2>1, TypeOK, Places, Stages, Handles, ThreadKinds
         DEF OpenLooksUp, TypeOK, Goto, Stages, Closing, Binders
    <2>2. CASE UseBegins(i, f)
      <3>1. PICK w \in {"oid", "write", "indicate"} : Goto(i, w)
        BY <2>2 DEF UseBegins, Goto
      <3> QED
        BY <2>2, <3>1, TypeOK, Places, Stages, Handles, ThreadKinds
           DEF UseBegins, TypeOK, Goto, Stages, Closing, Binders
    <2> QED
      BY <1>3, <2>1, <2>2
  <1>4. ASSUME NEW t \in Irps \cup Files, Validating(t) PROVE Stages'
    <2> t \in Threads
      BY DEF Threads
    <2>1. CASE ValidateFails(t)
      <3>1. PICK w \in {"undo", "service"} : Goto(t, w)
        BY <2>1 DEF ValidateFails, Goto
      <3> QED
        BY <2>1, <3>1, TypeOK, Places, Stages, Handles, ThreadKinds
           DEF ValidateFails, TypeOK, Goto, Stages, Closing, Binders
    <2>2. CASE Validates(t)
      BY <2>2, TypeOK, Places, Stages, Handles, ThreadKinds
         DEF Validates, TypeOK, Goto, Stages, Closing, Binders
    <2>3. CASE Requests(t)
      <3>1. PICK w \in {"out", "undo", "service"} : Goto(t, w)
        BY <2>3 DEF Requests, Goto
      <3> QED
        BY <2>3, <3>1, TypeOK, Places, Stages, Handles, ThreadKinds
           DEF Requests, TypeOK, Goto, Stages, Closing, Binders
    <2> QED
      BY <1>4, <2>1, <2>2, <2>3 DEF Validating
  <1>5. ASSUME NEW i \in Irps, OpenGoesOn(i) PROVE Stages'
    <2> i \in Threads
      BY ThreadKinds
    <2>1. CASE OpenRefused(i)
      BY <2>1, TypeOK, Places, Stages, Handles, ThreadKinds
         DEF OpenRefused, TypeOK, Goto, Stages, Closing, Binders
    <2>2. CASE OpenAssociates(i)
      BY <2>2, TypeOK, Places, Stages, Handles, ThreadKinds
         DEF OpenAssociates, TypeOK, Goto, Stages, Closing, Binders
    <2>3. CASE OpenUndone(i)
      BY <2>3, TypeOK, Places, Stages, Handles, ThreadKinds
         DEF OpenUndone, TypeOK, Goto, Stages, Closing, Binders
    <2> QED
      BY <1>5, <2>1, <2>2, <2>3 DEF OpenGoesOn
  <1>6. ASSUME NEW i \in Irps, UseGoesOn(i) \/ StatusCancelCalled(i) PROVE Stages'
    <2> i \in Threads
      BY ThreadKinds
    <2>1. CASE UseRefused(i)
      BY <2>1, TypeOK, Places, Stages, Handles, ThreadKinds
         DEF UseRefused, TypeOK, Goto, Stages, Closing, Binders
    <2>2. CASE OidValidates(i)
      BY <2>2, TypeOK, Places, Stages, Handles, ThreadKinds
         DEF OidValidates, TypeOK, Goto, Stages, Closing, Binders
    <2>3. CASE OidRequests(i)
      BY <2>3, TypeOK, Places, Stages, Handles, ThreadKinds
         DEF OidRequests, TypeOK, Goto, Stages, Closing, Binders
    <2>4. CASE WriteCounts(i)
      BY <2>4, TypeOK, Places, Stages, Handles, ThreadKinds
         DEF WriteCounts, TypeOK, Goto, Stages, Closing, Binders
    <2>5. CASE SendCompletes(i)
      BY <2>5, TypeOK, Places, Stages, Handles, ThreadKinds
         DEF SendCompletes, TypeOK, Goto, Stages, Closing, Binders
    <2>6. CASE SendUncounts(i)
      BY <2>6, TypeOK, Places, Stages, Handles, ThreadKinds
         DEF SendUncounts, TypeOK, Goto, Stages, Closing, Binders
    <2>7. CASE SendDerefs(i)
      BY <2>7, TypeOK, Places, Stages, Handles, ThreadKinds
         DEF SendDerefs, TypeOK, Goto, Stages, Closing, Binders
    <2>8. CASE StatusQueues(i)
      <3>1. PICK w \in {"out", "pended"} : Goto(i, w)
        BY <2>8 DEF StatusQueues, Goto
      <3> QED
        BY <2>8, <3>1, TypeOK, Places, Stages, Handles, ThreadKinds
           DEF StatusQueues, TypeOK, Goto, Stages, Closing, Binders
    <2>9. CASE StatusCancelled(i)
      BY <2>9, TypeOK, Places, Stages, Handles, ThreadKinds
         DEF StatusCancelled, TypeOK, Goto, Stages, Closing, Binders
    <2>10. CASE StatusCancelCalled(i)
      BY <2>10, TypeOK, Places, Stages, Handles, ThreadKinds
         DEF StatusCancelCalled, TypeOK, Goto, Stages, Closing, Binders
    <2> QED
      BY <1>6, <2>1, <2>2, <2>3, <2>4, <2>5, <2>6, <2>7, <2>8, <2>9, <2>10 DEF UseGoesOn
  <1>7. ASSUME NEW f \in Files, CleanupMarks(f) \/ CleanupGoesOn(f) PROVE Stages'
    <2> f \in Threads
      BY ThreadKinds
    <2>1. CASE CleanupMarks(f)
      <3>1. PICK w \in {"validate", "cleaned"} : Goto(f, w)
        BY <2>1 DEF CleanupMarks, Goto
      <3> QED
        BY <2>1, <3>1, TypeOK, Places, Stages, Handles, ThreadKinds
           DEF CleanupMarks, TypeOK, Goto, Stages, Closing, Binders
    <2>2. CASE CleanupServices(f)
      <3>1. ASSUME NEW i \in Irps, Serves(i, [pc EXCEPT ![f] = "cleaned"]) PROVE Stages'
        BY <2>2, <3>1, TypeOK, Places, Stages, Handles, ThreadKinds
           DEF CleanupServices, Serves, TypeOK, Goto, Stages, Closing, Binders
      <3>2. CASE pc' = [pc EXCEPT ![f] = "cleaned"] /\ UNCHANGED status
        BY <2>2, <3>2, TypeOK, Places, Stages, Handles, ThreadKinds
           DEF CleanupServices, TypeOK, Goto, Stages, Closing, Binders
      <3> QED
        BY <2>2, <3>1, <3>2, Served DEF CleanupServices
    <2>3. CASE Close(f)
      BY <2>3, TypeOK, Places, Stages, Handles, ThreadKinds
         DEF Close, TypeOK, Goto, Stages, Closing, Binders
    <2> QED
      BY <1>7, <2>1, <2>2, <2>3 DEF CleanupGoesOn
  <1>8. CASE NdisProtStatus \/ Unload \/ Unloaded
    <2>1. CASE NdisProtStatus
      <3>1. ASSUME NEW i \in Irps, Serves(i, pc) PROVE Stages'
        BY <2>1, <3>1, TypeOK, Places, Stages, Handles, ThreadKinds
           DEF NdisProtStatus, Serves, TypeOK, Goto, Stages, Closing, Binders
      <3>2. CASE pc' = pc /\ UNCHANGED status
        BY <2>1, <3>2, TypeOK, Places, Stages, Handles, ThreadKinds
           DEF NdisProtStatus, TypeOK, Goto, Stages, Closing, Binders
      <3> QED
        BY <2>1, <3>1, <3>2, Served DEF NdisProtStatus
    <2>2. CASE Unload
      BY Stages, <2>2
         DEF Unload, Stages
    <2>3. CASE Unloaded
      BY Stages, <2>3
         DEF Unloaded, Stages
    <2> QED
      BY <1>8, <2>1, <2>2, <2>3
  <1>9. CASE UNCHANGED vars
    BY Stages, <1>9 DEF vars, Stages
  <1> QED
    BY <1>1, <1>2, <1>3, <1>4, <1>5, <1>6, <1>7, <1>8, <1>9 DEF Next

-----------------------------------------------------------------------------
(* The handle of the adapter, the name and the pools, the list.            *)

LEMMA StepHandles ==
  ASSUME ~EarlyUnbind, TypeOK, Places, Stages, Handles, StatusIrpOwned, [Next]_vars
  PROVE  Handles'
  <1> USE DEF adapter, flags, files, status, counts, At
  <1>1. CASE BindAdapter \/ Binding \/ UnbindAdapter
    <2>1. CASE BindAdapter
      BY <2>1, TypeOK, Places, Stages, Handles, ThreadKinds
         DEF BindAdapter, TypeOK, Goto, Handles, Closing, Binders, Places, OpeningPlaces,
             Taking, Stages
    <2>2. CASE BindOpening
      <3>1. PICK w \in {"open", "failed"} : Goto("bind", w)
        BY <2>2 DEF BindOpening, Goto
      <3> QED
        BY <2>2, <3>1, TypeOK, Places, Stages, Handles, ThreadKinds
           DEF BindOpening, TypeOK, Goto, Handles, Closing, Binders, Places, OpeningPlaces,
               Taking, Stages
    <2>3. CASE BindOpens
      <3>1. PICK w \in {"query", "failed"} : Goto("bind", w)
        BY <2>3 DEF BindOpens, Goto
      <3> QED
        BY <2>3, <3>1, TypeOK, Places, Stages, Handles, ThreadKinds
           DEF BindOpens, TypeOK, Goto, Handles, Closing, Binders, Places, OpeningPlaces,
               Taking, Stages
    <2>4. CASE BindQueries
      <3>1. PICK w \in {"activate", "failed"} : Goto("bind", w)
        BY <2>4 DEF BindQueries, Goto
      <3> QED
        BY <2>4, <3>1, TypeOK, Places, Stages, Handles, ThreadKinds
           DEF BindQueries, TypeOK, Goto, Handles, Closing, Binders, Places, OpeningPlaces,
               Taking, Stages
    <2>5. CASE BindActivates
      <3>1. PICK w \in {"failed", "done"} : Goto("bind", w)
        BY <2>5 DEF BindActivates, Goto
      <3> QED
        BY <2>5, <3>1, TypeOK, Places, Stages, Handles, ThreadKinds
           DEF BindActivates, TypeOK, Goto, Handles, Closing, Binders, Places, OpeningPlaces,
               Taking, Stages
    <2>6. CASE BindFails
      BY <2>6, TypeOK, Places, Stages, Handles, ThreadKinds
         DEF BindFails, TypeOK, Goto, Handles, Closing, Binders, Places, OpeningPlaces,
             Taking, Stages
    <2>7. CASE UnbindAdapter
      BY <2>7, TypeOK, Places, Stages, Handles, ThreadKinds
         DEF UnbindAdapter, TypeOK, Goto, Handles, Closing, Binders, Places, OpeningPlaces,
             Taking, Stages
    <2> QED
      BY <1>1, <2>1, <2>2, <2>3, <2>4, <2>5, <2>6, <2>7 DEF Binding
  <1>2. ASSUME NEW t \in Binders, Shutdown(t) PROVE Handles'
    <2> t \in Threads
      BY DEF Threads
    <2>1. CASE ShutdownBegins(t)
      <3>1. PICK w \in {"done", "filter", "remove"} : Goto(t, w)
        BY <2>1 DEF ShutdownBegins, Goto
      <3> QED
        BY <2>1, <3>1, TypeOK, Places, Stages, Handles, ThreadKinds
           DEF ShutdownBegins, TypeOK, Goto, Handles, Closing, Binders, Places,
               OpeningPlaces, Taking, Stages
    <2>2. CASE ShutdownFilters(t)
      BY <2>2, TypeOK, Places, Stages, Handles, ThreadKinds
         DEF ShutdownFilters, TypeOK, Goto, Handles, Closing, Binders, Places, OpeningPlaces,
             Taking, Stages
    <2>3. CASE ShutdownServices(t)
      <3>1. ASSUME NEW i \in Irps, Serves(i, [pc EXCEPT ![t] = "wait"]) PROVE Handles'
        BY <2>3, <3>1, TypeOK, Places, Stages, Handles, ThreadKinds
           DEF ShutdownServices, Serves, TypeOK, Goto, Handles, Closing, Binders, Places,
               OpeningPlaces, Taking, Stages
      <3>2. CASE pc' = [pc EXCEPT ![t] = "wait"] /\ UNCHANGED status
        BY <2>3, <3>2, TypeOK, Places, Stages, Handles, ThreadKinds
           DEF ShutdownServices, TypeOK, Goto, Handles, Closing, Binders, Places,
               OpeningPlaces, Taking, Stages
      <3> QED
        BY <2>3, <3>1, <3>2, Served DEF ShutdownServices
    <2>4. CASE ShutdownCloses(t)
      BY <2>4, TypeOK, Places, Stages, Handles, ThreadKinds
         DEF ShutdownCloses, TypeOK, Goto, Handles, Closing, Binders, Places, OpeningPlaces,
             Taking, Stages
    <2>5. CASE ShutdownIdles(t)
      BY <2>5, TypeOK, Places, Stages, Handles, ThreadKinds
         DEF ShutdownIdles, TypeOK, Goto, Handles, Closing, Binders, Places, OpeningPlaces,
             Taking, Stages
    <2>6. CASE ShutdownRemoves(t)
      BY <2>6, TypeOK, Places, Stages, Handles, ThreadKinds
         DEF ShutdownRemoves, TypeOK, Goto, Handles, Closing, Binders, Places, OpeningPlaces,
             Taking, Stages
    <2>7. CASE ShutdownFrees(t)
      BY <2>7, TypeOK, Places, Stages, Handles, ThreadKinds
         DEF ShutdownFrees, TypeOK, Goto, Handles, Closing, Binders, Places, OpeningPlaces,
             Taking, Stages
    <2> QED
      BY <1>2, <2>1, <2>2, <2>3, <2>4, <2>5, <2>6, <2>7 DEF Shutdown
  <1>3. ASSUME NEW i \in Irps, NEW f \in Files, OpenLooksUp(i, f) \/ UseBegins(i, f) PROVE Handles'
    <2> i \in Threads
      BY ThreadKinds
    <2>1. CASE OpenLooksUp(i, f)
      BY <2>1, TypeOK, Places, Stages, Handles, ThreadKinds
         DEF OpenLooksUp, TypeOK, Goto, Handles, Closing, Binders
    <2>2. CASE UseBegins(i, f)
      <3>1. PICK w \in {"oid", "write", "indicate"} : Goto(i, w)
        BY <2>2 DEF UseBegins, Goto
      <3> QED
        BY <2>2, <3>1, TypeOK, Places, Stages, Handles, ThreadKinds
           DEF UseBegins, TypeOK, Goto, Handles, Closing, Binders
    <2> QED
      BY <1>3, <2>1, <2>2
  <1>4. ASSUME NEW t \in Irps \cup Files, Validating(t) PROVE Handles'
    <2> t \in Threads
      BY DEF Threads
    <2>1. CASE ValidateFails(t)
      <3>1. PICK w \in {"undo", "service"} : Goto(t, w)
        BY <2>1 DEF ValidateFails, Goto
      <3> QED
        BY <2>1, <3>1, TypeOK, Places, Stages, Handles, ThreadKinds
           DEF ValidateFails, TypeOK, Goto, Handles, Closing, Binders
    <2>2. CASE Validates(t)
      BY <2>2, TypeOK, Places, Stages, Handles, ThreadKinds
         DEF Validates, TypeOK, Goto, Handles, Closing, Binders
    <2>3. CASE Requests(t)
      <3>1. PICK w \in {"out", "undo", "service"} : Goto(t, w)
        BY <2>3 DEF Requests, Goto
      <3> QED
        BY <2>3, <3>1, TypeOK, Places, Stages, Handles, ThreadKinds
           DEF Requests, TypeOK, Goto, Handles, Closing, Binders
    <2> QED
      BY <1>4, <2>1, <2>2, <2>3 DEF Validating
  <1>5. ASSUME NEW i \in Irps, OpenGoesOn(i) PROVE Handles'
    <2> i \in Threads
      BY ThreadKinds
    <2>1. CASE OpenRefused(i)
      BY <2>1, TypeOK, Places, Stages, Handles, ThreadKinds
         DEF OpenRefused, TypeOK, Goto, Handles, Closing, Binders
    <2>2. CASE OpenAssociates(i)
      BY <2>2, TypeOK, Places, Stages, Handles, ThreadKinds
         DEF OpenAssociates, TypeOK, Goto, Handles, Closing, Binders
    <2>3. CASE OpenUndone(i)
      BY <2>3, TypeOK, Places, Stages, Handles, ThreadKinds
         DEF OpenUndone, TypeOK, Goto, Handles, Closing, Binders
    <2> QED
      BY <1>5, <2>1, <2>2, <2>3 DEF OpenGoesOn
  <1>6. ASSUME NEW i \in Irps, UseGoesOn(i) \/ StatusCancelCalled(i) PROVE Handles'
    <2> i \in Threads
      BY ThreadKinds
    <2>1. CASE UseRefused(i)
      BY <2>1, TypeOK, Places, Stages, Handles, ThreadKinds
         DEF UseRefused, TypeOK, Goto, Handles, Closing, Binders
    <2>2. CASE OidValidates(i)
      BY <2>2, TypeOK, Places, Stages, Handles, ThreadKinds
         DEF OidValidates, TypeOK, Goto, Handles, Closing, Binders
    <2>3. CASE OidRequests(i)
      BY <2>3, TypeOK, Places, Stages, Handles, ThreadKinds
         DEF OidRequests, TypeOK, Goto, Handles, Closing, Binders
    <2>4. CASE WriteCounts(i)
      BY <2>4, TypeOK, Places, Stages, Handles, ThreadKinds
         DEF WriteCounts, TypeOK, Goto, Handles, Closing, Binders
    <2>5. CASE SendCompletes(i)
      BY <2>5, TypeOK, Places, Stages, Handles, ThreadKinds
         DEF SendCompletes, TypeOK, Goto, Handles, Closing, Binders
    <2>6. CASE SendUncounts(i)
      BY <2>6, TypeOK, Places, Stages, Handles, ThreadKinds
         DEF SendUncounts, TypeOK, Goto, Handles, Closing, Binders
    <2>7. CASE SendDerefs(i)
      BY <2>7, TypeOK, Places, Stages, Handles, ThreadKinds
         DEF SendDerefs, TypeOK, Goto, Handles, Closing, Binders
    <2>8. CASE StatusQueues(i)
      <3>1. PICK w \in {"out", "pended"} : Goto(i, w)
        BY <2>8 DEF StatusQueues, Goto
      <3> QED
        BY <2>8, <3>1, TypeOK, Places, Stages, Handles, ThreadKinds
           DEF StatusQueues, TypeOK, Goto, Handles, Closing, Binders
    <2>9. CASE StatusCancelled(i)
      BY <2>9, TypeOK, Places, Stages, Handles, ThreadKinds
         DEF StatusCancelled, TypeOK, Goto, Handles, Closing, Binders
    <2>10. CASE StatusCancelCalled(i)
      BY <2>10, TypeOK, Places, Stages, Handles, ThreadKinds
         DEF StatusCancelCalled, TypeOK, Goto, Handles, Closing, Binders
    <2> QED
      BY <1>6, <2>1, <2>2, <2>3, <2>4, <2>5, <2>6, <2>7, <2>8, <2>9, <2>10 DEF UseGoesOn
  <1>7. ASSUME NEW f \in Files, CleanupMarks(f) \/ CleanupGoesOn(f) PROVE Handles'
    <2> f \in Threads
      BY ThreadKinds
    <2>1. CASE CleanupMarks(f)
      <3>1. PICK w \in {"validate", "cleaned"} : Goto(f, w)
        BY <2>1 DEF CleanupMarks, Goto
      <3> QED
        BY <2>1, <3>1, TypeOK, Places, Stages, Handles, ThreadKinds
           DEF CleanupMarks, TypeOK, Goto, Handles, Closing, Binders
    <2>2. CASE CleanupServices(f)
      <3>1. ASSUME NEW i \in Irps, Serves(i, [pc EXCEPT ![f] = "cleaned"]) PROVE Handles'
        BY <2>2, <3>1, TypeOK, Places, Stages, Handles, ThreadKinds
           DEF CleanupServices, Serves, TypeOK, Goto, Handles, Closing, Binders
      <3>2. CASE pc' = [pc EXCEPT ![f] = "cleaned"] /\ UNCHANGED status
        BY <2>2, <3>2, TypeOK, Places, Stages, Handles, ThreadKinds
           DEF CleanupServices, TypeOK, Goto, Handles, Closing, Binders
      <3> QED
        BY <2>2, <3>1, <3>2, Served DEF CleanupServices
    <2>3. CASE Close(f)
      BY <2>3, TypeOK, Places, Stages, Handles, ThreadKinds
         DEF Close, TypeOK, Goto, Handles, Closing, Binders
    <2> QED
      BY <1>7, <2>1, <2>2, <2>3 DEF CleanupGoesOn
  <1>8. CASE NdisProtStatus \/ Unload \/ Unloaded
    <2>1. CASE NdisProtStatus
      <3>1. ASSUME NEW i \in Irps, Serves(i, pc) PROVE Handles'
        BY <2>1, <3>1, TypeOK, Places, Stages, Handles, ThreadKinds
           DEF NdisProtStatus, Serves, TypeOK, Goto, Handles, Closing, Binders
      <3>2. CASE pc' = pc /\ UNCHANGED status
        BY <2>1, <3>2, TypeOK, Places, Stages, Handles, ThreadKinds
           DEF NdisProtStatus, TypeOK, Goto, Handles, Closing, Binders
      <3> QED
        BY <2>1, <3>1, <3>2, Served DEF NdisProtStatus
    <2>2. CASE Unload
      BY Handles, <2>2
         DEF Unload, Handles
    <2>3. CASE Unloaded
      BY Handles, <2>3
         DEF Unloaded, Handles
    <2> QED
      BY <1>8, <2>1, <2>2, <2>3
  <1>9. CASE UNCHANGED vars
    BY Handles, <1>9 DEF vars, Handles
  <1> QED
    BY <1>1, <1>2, <1>3, <1>4, <1>5, <1>6, <1>7, <1>8, <1>9 DEF Next

LEMMA StepLists ==
  ASSUME ~EarlyUnbind, TypeOK, Places, Stages, Handles, Lists, StatusIrpOwned, [Next]_vars
  PROVE  Lists'
  <1> USE DEF adapter, flags, files, status, counts, At
  <1>1. CASE BindAdapter \/ Binding \/ UnbindAdapter
    <2>1. CASE BindAdapter
      BY <2>1, TypeOK, Places, Stages, Handles, Lists, ThreadKinds
         DEF BindAdapter, TypeOK, Goto, Lists, Binders, Places, Closing, OpeningPlaces,
             Taking, Stages
    <2>2. CASE BindOpening
      <3>1. PICK w \in {"open", "failed"} : Goto("bind", w)
        BY <2>2 DEF BindOpening, Goto
      <3> QED
        BY <2>2, <3>1, TypeOK, Places, Stages, Handles, Lists, ThreadKinds
           DEF BindOpening, TypeOK, Goto, Lists, Binders, Places, Closing, OpeningPlaces,
               Taking, Stages
    <2>3. CASE BindOpens
      <3>1. PICK w \in {"query", "failed"} : Goto("bind", w)
        BY <2>3 DEF BindOpens, Goto
      <3> QED
        BY <2>3, <3>1, TypeOK, Places, Stages, Handles, Lists, ThreadKinds
           DEF BindOpens, TypeOK, Goto, Lists, Binders, Places, Closing, OpeningPlaces,
               Taking, Stages
    <2>4. CASE BindQueries
      <3>1. PICK w \in {"activate", "failed"} : Goto("bind", w)
        BY <2>4 DEF BindQueries, Goto
      <3> QED
        BY <2>4, <3>1, TypeOK, Places, Stages, Handles, Lists, ThreadKinds
           DEF BindQueries, TypeOK, Goto, Lists, Binders, Places, Closing, OpeningPlaces,
               Taking, Stages
    <2>5. CASE BindActivates
      <3>1. PICK w \in {"failed", "done"} : Goto("bind", w)
        BY <2>5 DEF BindActivates, Goto
      <3> QED
        BY <2>5, <3>1, TypeOK, Places, Stages, Handles, Lists, ThreadKinds
           DEF BindActivates, TypeOK, Goto, Lists, Binders, Places, Closing, OpeningPlaces,
               Taking, Stages
    <2>6. CASE BindFails
      BY <2>6, TypeOK, Places, Stages, Handles, Lists, ThreadKinds
         DEF BindFails, TypeOK, Goto, Lists, Binders, Places, Closing, OpeningPlaces, Taking,
             Stages
    <2>7. CASE UnbindAdapter
      <3>1. pc["bind"] = "done" /\ pc["unbind"] = "out"
        BY <2>7 DEF UnbindAdapter
      <3>2. bind = "ACTIVE"
        BY <2>7, <3>1 DEF UnbindAdapter, Handles, Closing, Binders
      <3>3. resources /\ listed
        BY <3>1, <3>2 DEF Lists, Binders
      <3>4. /\ resources' /\ listed' /\ bind' = "ACTIVE"
            /\ pc'["bind"] = "done" /\ pc'["unbind"] = "shutdown"
        BY <2>7, <3>1, <3>2, <3>3, ThreadKinds DEF UnbindAdapter, Goto, TypeOK
      <3> QED
        BY <3>4 DEF Lists, Binders
    <2> QED
      BY <1>1, <2>1, <2>2, <2>3, <2>4, <2>5, <2>6, <2>7 DEF Binding
  <1>2. ASSUME NEW t \in Binders, Shutdown(t) PROVE Lists'
    <2> t \in Threads
      BY DEF Threads
    <2>1. CASE ShutdownBegins(t)
      <3>1. PICK w \in {"done", "filter", "remove"} : Goto(t, w)
        BY <2>1 DEF ShutdownBegins, Goto
      <3> QED
        BY <2>1, <3>1, TypeOK, Places, Stages, Handles, Lists, ThreadKinds
           DEF ShutdownBegins, TypeOK, Goto, Lists, Binders, Places, Closing, OpeningPlaces,
               Taking, Stages
    <2>2. CASE ShutdownFilters(t)
      BY <2>2, TypeOK, Places, Stages, Handles, Lists, ThreadKinds
         DEF ShutdownFilters, TypeOK, Goto, Lists, Binders, Places, Closing, OpeningPlaces,
             Taking, Stages
    <2>3. CASE ShutdownServices(t)
      <3>1. ASSUME NEW i \in Irps, Serves(i, [pc EXCEPT ![t] = "wait"]) PROVE Lists'
        BY <2>3, <3>1, TypeOK, Places, Stages, Handles, Lists, ThreadKinds
           DEF ShutdownServices, Serves, TypeOK, Goto, Lists, Binders, Places, Closing,
               OpeningPlaces, Taking, Stages
      <3>2. CASE pc' = [pc EXCEPT ![t] = "wait"] /\ UNCHANGED status
        BY <2>3, <3>2, TypeOK, Places, Stages, Handles, Lists, ThreadKinds
           DEF ShutdownServices, TypeOK, Goto, Lists, Binders, Places, Closing,
               OpeningPlaces, Taking, Stages
      <3> QED
        BY <2>3, <3>1, <3>2, Served DEF ShutdownServices
    <2>4. CASE ShutdownCloses(t)
      BY <2>4, TypeOK, Places, Stages, Handles, Lists, ThreadKinds
         DEF ShutdownCloses, TypeOK, Goto, Lists, Binders, Places, Closing, OpeningPlaces,
             Taking, Stages
    <2>5. CASE ShutdownIdles(t)
      BY <2>5, TypeOK, Places, Stages, Handles, Lists, ThreadKinds
         DEF ShutdownIdles, TypeOK, Goto, Lists, Binders, Places, Closing, OpeningPlaces,
             Taking, Stages
    <2>6. CASE ShutdownRemoves(t)
      BY <2>6, TypeOK, Places, Stages, Handles, Lists, ThreadKinds
         DEF ShutdownRemoves, TypeOK, Goto, Lists, Binders, Places, Closing, OpeningPlaces,
             Taking, Stages
    <2>7. CASE ShutdownFrees(t)
      BY <2>7, TypeOK, Places, Stages, Handles, Lists, ThreadKinds
         DEF ShutdownFrees, TypeOK, Goto, Lists, Binders, Places, Closing, OpeningPlaces,
             Taking, Stages
    <2> QED
      BY <1>2, <2>1, <2>2, <2>3, <2>4, <2>5, <2>6, <2>7 DEF Shutdown
  <1>3. ASSUME NEW i \in Irps, NEW f \in Files, OpenLooksUp(i, f) \/ UseBegins(i, f) PROVE Lists'
    <2> i \in Threads
      BY ThreadKinds
    <2>1. CASE OpenLooksUp(i, f)
      BY <2>1, TypeOK, Places, Stages, Handles, Lists, ThreadKinds
         DEF OpenLooksUp, TypeOK, Goto, Lists, Binders
    <2>2. CASE UseBegins(i, f)
      <3>1. PICK w \in {"oid", "write", "indicate"} : Goto(i, w)
        BY <2>2 DEF UseBegins, Goto
      <3> QED
        BY <2>2, <3>1, TypeOK, Places, Stages, Handles, Lists, ThreadKinds
           DEF UseBegins, TypeOK, Goto, Lists, Binders
    <2> QED
      BY <1>3, <2>1, <2>2
  <1>4. ASSUME NEW t \in Irps \cup Files, Validating(t) PROVE Lists'
    <2> t \in Threads
      BY DEF Threads
    <2>1. CASE ValidateFails(t)
      <3>1. PICK w \in {"undo", "service"} : Goto(t, w)
        BY <2>1 DEF ValidateFails, Goto
      <3> QED
        BY <2>1, <3>1, TypeOK, Places, Stages, Handles, Lists, ThreadKinds
           DEF ValidateFails, TypeOK, Goto, Lists, Binders
    <2>2. CASE Validates(t)
      BY <2>2, TypeOK, Places, Stages, Handles, Lists, ThreadKinds
         DEF Validates, TypeOK, Goto, Lists, Binders
    <2>3. CASE Requests(t)
      <3>1. PICK w \in {"out", "undo", "service"} : Goto(t, w)
        BY <2>3 DEF Requests, Goto
      <3> QED
        BY <2>3, <3>1, TypeOK, Places, Stages, Handles, Lists, ThreadKinds
           DEF Requests, TypeOK, Goto, Lists, Binders
    <2> QED
      BY <1>4, <2>1, <2>2, <2>3 DEF Validating
  <1>5. ASSUME NEW i \in Irps, OpenGoesOn(i) PROVE Lists'
    <2> i \in Threads
      BY ThreadKinds
    <2>1. CASE OpenRefused(i)
      BY <2>1, TypeOK, Places, Stages, Handles, Lists, ThreadKinds
         DEF OpenRefused, TypeOK, Goto, Lists, Binders
    <2>2. CASE OpenAssociates(i)
      BY <2>2, TypeOK, Places, Stages, Handles, Lists, ThreadKinds
         DEF OpenAssociates, TypeOK, Goto, Lists, Binders
    <2>3. CASE OpenUndone(i)
      BY <2>3, TypeOK, Places, Stages, Handles, Lists, ThreadKinds
         DEF OpenUndone, TypeOK, Goto, Lists, Binders
    <2> QED
      BY <1>5, <2>1, <2>2, <2>3 DEF OpenGoesOn
  <1>6. ASSUME NEW i \in Irps, UseGoesOn(i) \/ StatusCancelCalled(i) PROVE Lists'
    <2> i \in Threads
      BY ThreadKinds
    <2>1. CASE UseRefused(i)
      BY <2>1, TypeOK, Places, Stages, Handles, Lists, ThreadKinds
         DEF UseRefused, TypeOK, Goto, Lists, Binders
    <2>2. CASE OidValidates(i)
      BY <2>2, TypeOK, Places, Stages, Handles, Lists, ThreadKinds
         DEF OidValidates, TypeOK, Goto, Lists, Binders
    <2>3. CASE OidRequests(i)
      BY <2>3, TypeOK, Places, Stages, Handles, Lists, ThreadKinds
         DEF OidRequests, TypeOK, Goto, Lists, Binders
    <2>4. CASE WriteCounts(i)
      BY <2>4, TypeOK, Places, Stages, Handles, Lists, ThreadKinds
         DEF WriteCounts, TypeOK, Goto, Lists, Binders
    <2>5. CASE SendCompletes(i)
      BY <2>5, TypeOK, Places, Stages, Handles, Lists, ThreadKinds
         DEF SendCompletes, TypeOK, Goto, Lists, Binders
    <2>6. CASE SendUncounts(i)
      BY <2>6, TypeOK, Places, Stages, Handles, Lists, ThreadKinds
         DEF SendUncounts, TypeOK, Goto, Lists, Binders
    <2>7. CASE SendDerefs(i)
      BY <2>7, TypeOK, Places, Stages, Handles, Lists, ThreadKinds
         DEF SendDerefs, TypeOK, Goto, Lists, Binders
    <2>8. CASE StatusQueues(i)
      <3>1. PICK w \in {"out", "pended"} : Goto(i, w)
        BY <2>8 DEF StatusQueues, Goto
      <3> QED
        BY <2>8, <3>1, TypeOK, Places, Stages, Handles, Lists, ThreadKinds
           DEF StatusQueues, TypeOK, Goto, Lists, Binders
    <2>9. CASE StatusCancelled(i)
      BY <2>9, TypeOK, Places, Stages, Handles, Lists, ThreadKinds
         DEF StatusCancelled, TypeOK, Goto, Lists, Binders
    <2>10. CASE StatusCancelCalled(i)
      BY <2>10, TypeOK, Places, Stages, Handles, Lists, ThreadKinds
         DEF StatusCancelCalled, TypeOK, Goto, Lists, Binders
    <2> QED
      BY <1>6, <2>1, <2>2, <2>3, <2>4, <2>5, <2>6, <2>7, <2>8, <2>9, <2>10 DEF UseGoesOn
  <1>7. ASSUME NEW f \in Files, CleanupMarks(f) \/ CleanupGoesOn(f) PROVE Lists'
    <2> f \in Threads
      BY ThreadKinds
    <2>1. CASE CleanupMarks(f)
      <3>1. PICK w \in {"validate", "cleaned"} : Goto(f, w)
        BY <2>1 DEF CleanupMarks, Goto
      <3> QED
        BY <2>1, <3>1, TypeOK, Places, Stages, Handles, Lists, ThreadKinds
           DEF CleanupMarks, TypeOK, Goto, Lists, Binders
    <2>2. CASE CleanupServices(f)
      <3>1. ASSUME NEW i \in Irps, Serves(i, [pc EXCEPT ![f] = "cleaned"]) PROVE Lists'
        BY <2>2, <3>1, TypeOK, Places, Stages, Handles, Lists, ThreadKinds
           DEF CleanupServices, Serves, TypeOK, Goto, Lists, Binders
      <3>2. CASE pc' = [pc EXCEPT ![f] = "cleaned"] /\ UNCHANGED status
        BY <2>2, <3>2, TypeOK, Places, Stages, Handles, Lists, ThreadKinds
           DEF CleanupServices, TypeOK, Goto, Lists, Binders
      <3> QED
        BY <2>2, <3>1, <3>2, Served DEF CleanupServices
    <2>3. CASE Close(f)
      BY <2>3, TypeOK, Places, Stages, Handles, Lists, ThreadKinds
         DEF Close, TypeOK, Goto, Lists, Binders
    <2> QED
      BY <1>7, <2>1, <2>2, <2>3 DEF CleanupGoesOn
  <1>8. CASE NdisProtStatus \/ Unload \/ Unloaded
    <2>1. CASE NdisProtStatus
      <3>1. ASSUME NEW i \in Irps, Serves(i, pc) PROVE Lists'
        BY <2>1, <3>1, TypeOK, Places, Stages, Handles, Lists, ThreadKinds
           DEF NdisProtStatus, Serves, TypeOK, Goto, Lists, Binders
      <3>2. CASE pc' = pc /\ UNCHANGED status
        BY <2>1, <3>2, TypeOK, Places, Stages, Handles, Lists, ThreadKinds
           DEF NdisProtStatus, TypeOK, Goto, Lists, Binders
      <3> QED
        BY <2>1, <3>1, <3>2, Served DEF NdisProtStatus
    <2>2. CASE Unload
      BY Lists, <2>2
         DEF Unload, Lists
    <2>3. CASE Unloaded
      BY Lists, <2>3
         DEF Unloaded, Lists
    <2> QED
      BY <1>8, <2>1, <2>2, <2>3
  <1>9. CASE UNCHANGED vars
    BY Lists, <1>9 DEF vars, Lists
  <1> QED
    BY <1>1, <1>2, <1>3, <1>4, <1>5, <1>6, <1>7, <1>8, <1>9 DEF Next

-----------------------------------------------------------------------------
(* The IRP that waits for a status indication.                             *)

LEMMA StepStatus ==
  ASSUME TypeOK, StatusIrpOwned, [Next]_vars
  PROVE  StatusIrpOwned'
  <1> USE DEF adapter, flags, files, status, counts, At
  <1>1. CASE BindAdapter \/ Binding \/ UnbindAdapter
    <2>1. CASE BindAdapter
      BY <2>1, TypeOK, StatusIrpOwned, ThreadKinds, BindAssumption
         DEF BindAdapter, TypeOK, Goto, StatusIrpOwned, Binders
    <2>2. CASE BindOpening
      <3>1. PICK w \in {"open", "failed"} : Goto("bind", w)
        BY <2>2 DEF BindOpening, Goto
      <3> QED
        BY <2>2, <3>1, TypeOK, StatusIrpOwned, ThreadKinds, BindAssumption
           DEF BindOpening, TypeOK, Goto, StatusIrpOwned, Binders
    <2>3. CASE BindOpens
      <3>1. PICK w \in {"query", "failed"} : Goto("bind", w)
        BY <2>3 DEF BindOpens, Goto
      <3> QED
        BY <2>3, <3>1, TypeOK, StatusIrpOwned, ThreadKinds, BindAssumption
           DEF BindOpens, TypeOK, Goto, StatusIrpOwned, Binders
    <2>4. CASE BindQueries
      <3>1. PICK w \in {"activate", "failed"} : Goto("bind", w)
        BY <2>4 DEF BindQueries, Goto
      <3> QED
        BY <2>4, <3>1, TypeOK, StatusIrpOwned, ThreadKinds, BindAssumption
           DEF BindQueries, TypeOK, Goto, StatusIrpOwned, Binders
    <2>5. CASE BindActivates
      <3>1. PICK w \in {"failed", "done"} : Goto("bind", w)
        BY <2>5 DEF BindActivates, Goto
      <3> QED
        BY <2>5, <3>1, TypeOK, StatusIrpOwned, ThreadKinds, BindAssumption
           DEF BindActivates, TypeOK, Goto, StatusIrpOwned, Binders
    <2>6. CASE BindFails
      BY <2>6, TypeOK, StatusIrpOwned, ThreadKinds, BindAssumption
         DEF BindFails, TypeOK, Goto, StatusIrpOwned, Binders
    <2>7. CASE UnbindAdapter
      BY <2>7, TypeOK, StatusIrpOwned, ThreadKinds, BindAssumption
         DEF UnbindAdapter, TypeOK, Goto, StatusIrpOwned, Binders
    <2> QED
      BY <1>1, <2>1, <2>2, <2>3, <2>4, <2>5, <2>6, <2>7 DEF Binding
  <1>2. ASSUME NEW t \in Binders, Shutdown(t) PROVE StatusIrpOwned'
    <2> t \in Threads
      BY DEF Threads
    <2>1. CASE ShutdownBegins(t)
      <3>1. PICK w \in {"done", "filter", "remove"} : Goto(t, w)
        BY <2>1 DEF ShutdownBegins, Goto
      <3> QED
        BY <2>1, <3>1, TypeOK, StatusIrpOwned, ThreadKinds, BindAssumption
           DEF ShutdownBegins, TypeOK, Goto, StatusIrpOwned, Binders
    <2>2. CASE ShutdownFilters(t)
      BY <2>2, TypeOK, StatusIrpOwned, ThreadKinds, BindAssumption
         DEF ShutdownFilters, TypeOK, Goto, StatusIrpOwned, Binders
    <2>3. CASE ShutdownServices(t)
      <3>1. ASSUME NEW i \in Irps, Serves(i, [pc EXCEPT ![t] = "wait"]) PROVE StatusIrpOwned'
        BY <2>3, <3>1, TypeOK, StatusIrpOwned, ThreadKinds, BindAssumption
           DEF ShutdownServices, Serves, TypeOK, Goto, StatusIrpOwned, Binders
      <3>2. CASE pc' = [pc EXCEPT ![t] = "wait"] /\ UNCHANGED status
        BY <2>3, <3>2, TypeOK, StatusIrpOwned, ThreadKinds, BindAssumption
           DEF ShutdownServices, TypeOK, Goto, StatusIrpOwned, Binders
      <3> QED
        BY <2>3, <3>1, <3>2, Served DEF ShutdownServices
    <2>4. CASE ShutdownCloses(t)
      BY <2>4, TypeOK, StatusIrpOwned, ThreadKinds, BindAssumption
         DEF ShutdownCloses, TypeOK, Goto, StatusIrpOwned, Binders
    <2>5. CASE ShutdownIdles(t)
      BY <2>5, TypeOK, StatusIrpOwned, ThreadKinds, BindAssumption
         DEF ShutdownIdles, TypeOK, Goto, StatusIrpOwned, Binders
    <2>6. CASE ShutdownRemoves(t)
      BY <2>6, TypeOK, StatusIrpOwned, ThreadKinds, BindAssumption
         DEF ShutdownRemoves, TypeOK, Goto, StatusIrpOwned, Binders
    <2>7. CASE ShutdownFrees(t)
      BY <2>7, TypeOK, StatusIrpOwned, ThreadKinds, BindAssumption
         DEF ShutdownFrees, TypeOK, Goto, StatusIrpOwned, Binders
    <2> QED
      BY <1>2, <2>1, <2>2, <2>3, <2>4, <2>5, <2>6, <2>7 DEF Shutdown
  <1>3. ASSUME NEW i \in Irps, NEW f \in Files, OpenLooksUp(i, f) \/ UseBegins(i, f) PROVE StatusIrpOwned'
    <2> i \in Threads
      BY ThreadKinds
    <2>1. CASE OpenLooksUp(i, f)
      BY <2>1, TypeOK, StatusIrpOwned, ThreadKinds, BindAssumption
         DEF OpenLooksUp, TypeOK, Goto, StatusIrpOwned, Binders
    <2>2. CASE UseBegins(i, f)
      <3>1. PICK w \in {"oid", "write", "indicate"} : Goto(i, w)
        BY <2>2 DEF UseBegins, Goto
      <3> QED
        BY <2>2, <3>1, TypeOK, StatusIrpOwned, ThreadKinds, BindAssumption
           DEF UseBegins, TypeOK, Goto, StatusIrpOwned, Binders
    <2> QED
      BY <1>3, <2>1, <2>2
  <1>4. ASSUME NEW t \in Irps \cup Files, Validating(t) PROVE StatusIrpOwned'
    <2> t \in Threads
      BY DEF Threads
    <2>1. CASE ValidateFails(t)
      <3>1. PICK w \in {"undo", "service"} : Goto(t, w)
        BY <2>1 DEF ValidateFails, Goto
      <3> QED
        BY <2>1, <3>1, TypeOK, StatusIrpOwned, ThreadKinds, BindAssumption
           DEF ValidateFails, TypeOK, Goto, StatusIrpOwned, Binders
    <2>2. CASE Validates(t)
      BY <2>2, TypeOK, StatusIrpOwned, ThreadKinds, BindAssumption
         DEF Validates, TypeOK, Goto, StatusIrpOwned, Binders
    <2>3. CASE Requests(t)
      <3>1. PICK w \in {"out", "undo", "service"} : Goto(t, w)
        BY <2>3 DEF Requests, Goto
      <3> QED
        BY <2>3, <3>1, TypeOK, StatusIrpOwned, ThreadKinds, BindAssumption
           DEF Requests, TypeOK, Goto, StatusIrpOwned, Binders
    <2> QED
      BY <1>4, <2>1, <2>2, <2>3 DEF Validating
  <1>5. ASSUME NEW i \in Irps, OpenGoesOn(i) PROVE StatusIrpOwned'
    <2> i \in Threads
      BY ThreadKinds
    <2>1. CASE OpenRefused(i)
      BY <2>1, TypeOK, StatusIrpOwned, ThreadKinds, BindAssumption
         DEF OpenRefused, TypeOK, Goto, StatusIrpOwned, Binders
    <2>2. CASE OpenAssociates(i)
      BY <2>2, TypeOK, StatusIrpOwned, ThreadKinds, BindAssumption
         DEF OpenAssociates, TypeOK, Goto, StatusIrpOwned, Binders
    <2>3. CASE OpenUndone(i)
      BY <2>3, TypeOK, StatusIrpOwned, ThreadKinds, BindAssumption
         DEF OpenUndone, TypeOK, Goto, StatusIrpOwned, Binders
    <2> QED
      BY <1>5, <2>1, <2>2, <2>3 DEF OpenGoesOn
  <1>6. ASSUME NEW i \in Irps, UseGoesOn(i) \/ StatusCancelCalled(i) PROVE StatusIrpOwned'
    <2> i \in Threads
      BY ThreadKinds
    <2>1. CASE UseRefused(i)
      BY <2>1, TypeOK, StatusIrpOwned, ThreadKinds, BindAssumption
         DEF UseRefused, TypeOK, Goto, StatusIrpOwned, Binders
    <2>2. CASE OidValidates(i)
      BY <2>2, TypeOK, StatusIrpOwned, ThreadKinds, BindAssumption
         DEF OidValidates, TypeOK, Goto, StatusIrpOwned, Binders
    <2>3. CASE OidRequests(i)
      BY <2>3, TypeOK, StatusIrpOwned, ThreadKinds, BindAssumption
         DEF OidRequests, TypeOK, Goto, StatusIrpOwned, Binders
    <2>4. CASE WriteCounts(i)
      BY <2>4, TypeOK, StatusIrpOwned, ThreadKinds, BindAssumption
         DEF WriteCounts, TypeOK, Goto, StatusIrpOwned, Binders
    <2>5. CASE SendCompletes(i)
      BY <2>5, TypeOK, StatusIrpOwned, ThreadKinds, BindAssumption
         DEF SendCompletes, TypeOK, Goto, StatusIrpOwned, Binders
    <2>6. CASE SendUncounts(i)
      BY <2>6, TypeOK, StatusIrpOwned, ThreadKinds, BindAssumption
         DEF SendUncounts, TypeOK, Goto, StatusIrpOwned, Binders
    <2>7. CASE SendDerefs(i)
      BY <2>7, TypeOK, StatusIrpOwned, ThreadKinds, BindAssumption
         DEF SendDerefs, TypeOK, Goto, StatusIrpOwned, Binders
    <2>8. CASE StatusQueues(i)
      <3>1. PICK w \in {"out", "pended"} : Goto(i, w)
        BY <2>8 DEF StatusQueues, Goto
      <3> QED
        BY <2>8, <3>1, TypeOK, StatusIrpOwned, ThreadKinds, BindAssumption
           DEF StatusQueues, TypeOK, Goto, StatusIrpOwned, Binders
    <2>9. CASE StatusCancelled(i)
      BY <2>9, TypeOK, StatusIrpOwned, ThreadKinds, BindAssumption
         DEF StatusCancelled, TypeOK, Goto, StatusIrpOwned, Binders
    <2>10. CASE StatusCancelCalled(i)
      BY <2>10, TypeOK, StatusIrpOwned, ThreadKinds, BindAssumption
         DEF StatusCancelCalled, TypeOK, Goto, StatusIrpOwned, Binders
    <2> QED
      BY <1>6, <2>1, <2>2, <2>3, <2>4, <2>5, <2>6, <2>7, <2>8, <2>9, <2>10 DEF UseGoesOn
  <1>7. ASSUME NEW f \in Files, CleanupMarks(f) \/ CleanupGoesOn(f) PROVE StatusIrpOwned'
    <2> f \in Threads
      BY ThreadKinds
    <2>1. CASE CleanupMarks(f)
      <3>1. PICK w \in {"validate", "cleaned"} : Goto(f, w)
        BY <2>1 DEF CleanupMarks, Goto
      <3> QED
        BY <2>1, <3>1, TypeOK, StatusIrpOwned, ThreadKinds, BindAssumption
           DEF CleanupMarks, TypeOK, Goto, StatusIrpOwned, Binders
    <2>2. CASE CleanupServices(f)
      <3>1. ASSUME NEW i \in Irps, Serves(i, [pc EXCEPT ![f] = "cleaned"]) PROVE StatusIrpOwned'
        BY <2>2, <3>1, TypeOK, StatusIrpOwned, ThreadKinds, BindAssumption
           DEF CleanupServices, Serves, TypeOK, Goto, StatusIrpOwned, Binders
      <3>2. CASE pc' = [pc EXCEPT ![f] = "cleaned"] /\ UNCHANGED status
        BY <2>2, <3>2, TypeOK, StatusIrpOwned, ThreadKinds, BindAssumption
           DEF CleanupServices, TypeOK, Goto, StatusIrpOwned, Binders
      <3> QED
        BY <2>2, <3>1, <3>2, Served DEF CleanupServices
    <2>3. CASE Close(f)
      BY <2>3, TypeOK, StatusIrpOwned, ThreadKinds, BindAssumption
         DEF Close, TypeOK, Goto, StatusIrpOwned, Binders
    <2> QED
      BY <1>7, <2>1, <2>2, <2>3 DEF CleanupGoesOn
  <1>8. CASE NdisProtStatus \/ Unload \/ Unloaded
    <2>1. CASE NdisProtStatus
      <3>1. ASSUME NEW i \in Irps, Serves(i, pc) PROVE StatusIrpOwned'
        BY <2>1, <3>1, TypeOK, StatusIrpOwned, ThreadKinds, BindAssumption
           DEF NdisProtStatus, Serves, TypeOK, Goto, StatusIrpOwned, Binders
      <3>2. CASE pc' = pc /\ UNCHANGED status
        BY <2>1, <3>2, TypeOK, StatusIrpOwned, ThreadKinds, BindAssumption
           DEF NdisProtStatus, TypeOK, Goto, StatusIrpOwned, Binders
      <3> QED
        BY <2>1, <3>1, <3>2, Served DEF NdisProtStatus
    <2>2. CASE Unload
      BY StatusIrpOwned, <2>2
         DEF Unload, StatusIrpOwned
    <2>3. CASE Unloaded
      BY StatusIrpOwned, <2>3
         DEF Unloaded, StatusIrpOwned
    <2> QED
      BY <1>8, <2>1, <2>2, <2>3
  <1>9. CASE UNCHANGED vars
    BY StatusIrpOwned, <1>9 DEF vars, StatusIrpOwned
  <1> QED
    BY <1>1, <1>2, <1>3, <1>4, <1>5, <1>6, <1>7, <1>8, <1>9 DEF Next

-----------------------------------------------------------------------------
(* The files and who opens them.                                           *)

LEMMA StepOpens ==
  ASSUME TypeOK, Opens, StatusIrpOwned, [Next]_vars
  PROVE  Opens'
  <1> USE DEF adapter, flags, files, status, counts, At
  <1>1. CASE BindAdapter \/ Binding \/ UnbindAdapter
    <2>1. CASE BindAdapter
      BY <2>1, TypeOK, Opens, StatusIrpOwned, ThreadKinds, BindAssumption
         DEF BindAdapter, TypeOK, Goto, Opens, OpeningPlaces, Completed, FileOpen, Binders
    <2>2. CASE BindOpening
      <3>1. PICK w \in {"open", "failed"} : Goto("bind", w)
        BY <2>2 DEF BindOpening, Goto
      <3> QED
        BY <2>2, <3>1, TypeOK, Opens, StatusIrpOwned, ThreadKinds, BindAssumption
           DEF BindOpening, TypeOK, Goto, Opens, OpeningPlaces, Completed, FileOpen, Binders
    <2>3. CASE BindOpens
      <3>1. PICK w \in {"query", "failed"} : Goto("bind", w)
        BY <2>3 DEF BindOpens, Goto
      <3> QED
        BY <2>3, <3>1, TypeOK, Opens, StatusIrpOwned, ThreadKinds, BindAssumption
           DEF BindOpens, TypeOK, Goto, Opens, OpeningPlaces, Completed, FileOpen, Binders
    <2>4. CASE BindQueries
      <3>1. PICK w \in {"activate", "failed"} : Goto("bind", w)
        BY <2>4 DEF BindQueries, Goto
      <3> QED
        BY <2>4, <3>1, TypeOK, Opens, StatusIrpOwned, ThreadKinds, BindAssumption
           DEF BindQueries, TypeOK, Goto, Opens, OpeningPlaces, Completed, FileOpen, Binders
    <2>5. CASE BindActivates
      <3>1. PICK w \in {"failed", "done"} : Goto("bind", w)
        BY <2>5 DEF BindActivates, Goto
      <3> QED
        BY <2>5, <3>1, TypeOK, Opens, StatusIrpOwned, ThreadKinds, BindAssumption
           DEF BindActivates, TypeOK, Goto, Opens, OpeningPlaces, Completed, FileOpen, Binders
    <2>6. CASE BindFails
      BY <2>6, TypeOK, Opens, StatusIrpOwned, ThreadKinds, BindAssumption
         DEF BindFails, TypeOK, Goto, Opens, OpeningPlaces, Completed, FileOpen, Binders
    <2>7. CASE UnbindAdapter
      BY <2>7, TypeOK, Opens, StatusIrpOwned, ThreadKinds, BindAssumption
         DEF UnbindAdapter, TypeOK, Goto, Opens, OpeningPlaces, Completed, FileOpen, Binders
    <2> QED
      BY <1>1, <2>1, <2>2, <2>3, <2>4, <2>5, <2>6, <2>7 DEF Binding
  <1>2. ASSUME NEW t \in Binders, Shutdown(t) PROVE Opens'
    <2> t \in Threads
      BY DEF Threads
    <2>1. CASE ShutdownBegins(t)
      <3>1. PICK w \in {"done", "filter", "remove"} : Goto(t, w)
        BY <2>1 DEF ShutdownBegins, Goto
      <3> QED
        BY <2>1, <3>1, TypeOK, Opens, StatusIrpOwned, ThreadKinds, BindAssumption
           DEF ShutdownBegins, TypeOK, Goto, Opens, OpeningPlaces, Completed, FileOpen, Binders
    <2>2. CASE ShutdownFilters(t)
      BY <2>2, TypeOK, Opens, StatusIrpOwned, ThreadKinds, BindAssumption
         DEF ShutdownFilters, TypeOK, Goto, Opens, OpeningPlaces, Completed, FileOpen, Binders
    <2>3. CASE ShutdownServices(t)
      <3>1. ASSUME NEW i \in Irps, Serves(i, [pc EXCEPT ![t] = "wait"]) PROVE Opens'
        BY <2>3, <3>1, TypeOK, Opens, StatusIrpOwned, ThreadKinds, BindAssumption
           DEF ShutdownServices, Serves, TypeOK, Goto, Opens, OpeningPlaces, Completed, FileOpen, Binders
      <3>2. CASE pc' = [pc EXCEPT ![t] = "wait"] /\ UNCHANGED status
        BY <2>3, <3>2, TypeOK, Opens, StatusIrpOwned, ThreadKinds, BindAssumption
           DEF ShutdownServices, TypeOK, Goto, Opens, OpeningPlaces, Completed, FileOpen, Binders
      <3> QED
        BY <2>3, <3>1, <3>2, Served DEF ShutdownServices
    <2>4. CASE ShutdownCloses(t)
      BY <2>4, TypeOK, Opens, StatusIrpOwned, ThreadKinds, BindAssumption
         DEF ShutdownCloses, TypeOK, Goto, Opens, OpeningPlaces, Completed, FileOpen, Binders
    <2>5. CASE ShutdownIdles(t)
      BY <2>5, TypeOK, Opens, StatusIrpOwned, ThreadKinds, BindAssumption
         DEF ShutdownIdles, TypeOK, Goto, Opens, OpeningPlaces, Completed, FileOpen, Binders
    <2>6. CASE ShutdownRemoves(t)
      BY <2>6, TypeOK, Opens, StatusIrpOwned, ThreadKinds, BindAssumption
         DEF ShutdownRemoves, TypeOK, Goto, Opens, OpeningPlaces, Completed, FileOpen, Binders
    <2>7. CASE ShutdownFrees(t)
      BY <2>7, TypeOK, Opens, StatusIrpOwned, ThreadKinds, BindAssumption
         DEF ShutdownFrees, TypeOK, Goto, Opens, OpeningPlaces, Completed, FileOpen, Binders
    <2> QED
      BY <1>2, <2>1, <2>2, <2>3, <2>4, <2>5, <2>6, <2>7 DEF Shutdown
  <1>3. ASSUME NEW i \in Irps, NEW f \in Files, OpenLooksUp(i, f) \/ UseBegins(i, f) PROVE Opens'
    <2> i \in Threads
      BY ThreadKinds
    <2>1. CASE OpenLooksUp(i, f)
      BY <2>1, TypeOK, Opens, StatusIrpOwned, ThreadKinds, BindAssumption
         DEF OpenLooksUp, TypeOK, Goto, Opens, OpeningPlaces, Completed, FileOpen, Binders
    <2>2. CASE UseBegins(i, f)
      <3>1. PICK w \in {"oid", "write", "indicate"} : Goto(i, w)
        BY <2>2 DEF UseBegins, Goto
      <3> QED
        BY <2>2, <3>1, TypeOK, Opens, StatusIrpOwned, ThreadKinds, BindAssumption
           DEF UseBegins, TypeOK, Goto, Opens, OpeningPlaces, Completed, FileOpen, Binders
    <2> QED
      BY <1>3, <2>1, <2>2
  <1>4. ASSUME NEW t \in Irps \cup Files, Validating(t) PROVE Opens'
    <2> t \in Threads
      BY DEF Threads
    <2>1. CASE ValidateFails(t)
      <3>1. PICK w \in {"undo", "service"} : Goto(t, w)
        BY <2>1 DEF ValidateFails, Goto
      <3> QED
        BY <2>1, <3>1, TypeOK, Opens, StatusIrpOwned, ThreadKinds, BindAssumption
           DEF ValidateFails, TypeOK, Goto, Opens, OpeningPlaces, Completed, FileOpen, Binders
    <2>2. CASE Validates(t)
      BY <2>2, TypeOK, Opens, StatusIrpOwned, ThreadKinds, BindAssumption
         DEF Validates, TypeOK, Goto, Opens, OpeningPlaces, Completed, FileOpen, Binders
    <2>3. CASE Requests(t)
      <3>1. PICK w \in {"out", "undo", "service"} : Goto(t, w)
        BY <2>3 DEF Requests, Goto
      <3> QED
        BY <2>3, <3>1, TypeOK, Opens, StatusIrpOwned, ThreadKinds, BindAssumption
           DEF Requests, TypeOK, Goto, Opens, OpeningPlaces, Completed, FileOpen, Binders
    <2> QED
      BY <1>4, <2>1, <2>2, <2>3 DEF Validating
  <1>5. ASSUME NEW i \in Irps, OpenGoesOn(i) PROVE Opens'
    <2> i \in Threads
      BY ThreadKinds
    <2>1. CASE OpenRefused(i)
      BY <2>1, TypeOK, Opens, StatusIrpOwned, ThreadKinds, BindAssumption
         DEF OpenRefused, TypeOK, Goto, Opens, OpeningPlaces, Completed, FileOpen, Binders
    <2>2. CASE OpenAssociates(i)
      BY <2>2, TypeOK, Opens, StatusIrpOwned, ThreadKinds, BindAssumption
         DEF OpenAssociates, TypeOK, Goto, Opens, OpeningPlaces, Completed, FileOpen, Binders
    <2>3. CASE OpenUndone(i)
      BY <2>3, TypeOK, Opens, StatusIrpOwned, ThreadKinds, BindAssumption
         DEF OpenUndone, TypeOK, Goto, Opens, OpeningPlaces, Completed, FileOpen, Binders
    <2> QED
      BY <1>5, <2>1, <2>2, <2>3 DEF OpenGoesOn
  <1>6. ASSUME NEW i \in Irps, UseGoesOn(i) \/ StatusCancelCalled(i) PROVE Opens'
    <2> i \in Threads
      BY ThreadKinds
    <2>1. CASE UseRefused(i)
      BY <2>1, TypeOK, Opens, StatusIrpOwned, ThreadKinds, BindAssumption
         DEF UseRefused, TypeOK, Goto, Opens, OpeningPlaces, Completed, FileOpen, Binders
    <2>2. CASE OidValidates(i)
      BY <2>2, TypeOK, Opens, StatusIrpOwned, ThreadKinds, BindAssumption
         DEF OidValidates, TypeOK, Goto, Opens, OpeningPlaces, Completed, FileOpen, Binders
    <2>3. CASE OidRequests(i)
      BY <2>3, TypeOK, Opens, StatusIrpOwned, ThreadKinds, BindAssumption
         DEF OidRequests, TypeOK, Goto, Opens, OpeningPlaces, Completed, FileOpen, Binders
    <2>4. CASE WriteCounts(i)
      BY <2>4, TypeOK, Opens, StatusIrpOwned, ThreadKinds, BindAssumption
         DEF WriteCounts, TypeOK, Goto, Opens, OpeningPlaces, Completed, FileOpen, Binders
    <2>5. CASE SendCompletes(i)
      BY <2>5, TypeOK, Opens, StatusIrpOwned, ThreadKinds, BindAssumption
         DEF SendCompletes, TypeOK, Goto, Opens, OpeningPlaces, Completed, FileOpen, Binders
    <2>6. CASE SendUncounts(i)
      BY <2>6, TypeOK, Opens, StatusIrpOwned, ThreadKinds, BindAssumption
         DEF SendUncounts, TypeOK, Goto, Opens, OpeningPlaces, Completed, FileOpen, Binders
    <2>7. CASE SendDerefs(i)
      BY <2>7, TypeOK, Opens, StatusIrpOwned, ThreadKinds, BindAssumption
         DEF SendDerefs, TypeOK, Goto, Opens, OpeningPlaces, Completed, FileOpen, Binders
    <2>8. CASE StatusQueues(i)
      <3>1. PICK w \in {"out", "pended"} : Goto(i, w)
        BY <2>8 DEF StatusQueues, Goto
      <3> QED
        BY <2>8, <3>1, TypeOK, Opens, StatusIrpOwned, ThreadKinds, BindAssumption
           DEF StatusQueues, TypeOK, Goto, Opens, OpeningPlaces, Completed, FileOpen, Binders
    <2>9. CASE StatusCancelled(i)
      BY <2>9, TypeOK, Opens, StatusIrpOwned, ThreadKinds, BindAssumption
         DEF StatusCancelled, TypeOK, Goto, Opens, OpeningPlaces, Completed, FileOpen, Binders
    <2>10. CASE StatusCancelCalled(i)
      BY <2>10, TypeOK, Opens, StatusIrpOwned, ThreadKinds, BindAssumption
         DEF StatusCancelCalled, TypeOK, Goto, Opens, OpeningPlaces, Completed, FileOpen, Binders
    <2> QED
      BY <1>6, <2>1, <2>2, <2>3, <2>4, <2>5, <2>6, <2>7, <2>8, <2>9, <2>10 DEF UseGoesOn
  <1>7. ASSUME NEW f \in Files, CleanupMarks(f) \/ CleanupGoesOn(f) PROVE Opens'
    <2> f \in Threads
      BY ThreadKinds
    <2>1. CASE CleanupMarks(f)
      <3>1. PICK w \in {"validate", "cleaned"} : Goto(f, w)
        BY <2>1 DEF CleanupMarks, Goto
      <3> QED
        BY <2>1, <3>1, TypeOK, Opens, StatusIrpOwned, ThreadKinds, BindAssumption
           DEF CleanupMarks, TypeOK, Goto, Opens, OpeningPlaces, Completed, FileOpen, Binders
    <2>2. CASE CleanupServices(f)
      <3>1. ASSUME NEW i \in Irps, Serves(i, [pc EXCEPT ![f] = "cleaned"]) PROVE Opens'
        BY <2>2, <3>1, TypeOK, Opens, StatusIrpOwned, ThreadKinds, BindAssumption
           DEF CleanupServices, Serves, TypeOK, Goto, Opens, OpeningPlaces, Completed, FileOpen, Binders
      <3>2. CASE pc' = [pc EXCEPT ![f] = "cleaned"] /\ UNCHANGED status
        BY <2>2, <3>2, TypeOK, Opens, StatusIrpOwned, ThreadKinds, BindAssumption
           DEF CleanupServices, TypeOK, Goto, Opens, OpeningPlaces, Completed, FileOpen, Binders
      <3> QED
        BY <2>2, <3>1, <3>2, Served DEF CleanupServices
    <2>3. CASE Close(f)
      BY <2>3, TypeOK, Opens, StatusIrpOwned, ThreadKinds, BindAssumption
         DEF Close, TypeOK, Goto, Opens, OpeningPlaces, Completed, FileOpen, Binders
    <2> QED
      BY <1>7, <2>1, <2>2, <2>3 DEF CleanupGoesOn
  <1>8. CASE NdisProtStatus \/ Unload \/ Unloaded
    <2>1. CASE NdisProtStatus
      <3>1. ASSUME NEW i \in Irps, Serves(i, pc) PROVE Opens'
        BY <2>1, <3>1, TypeOK, Opens, StatusIrpOwned, ThreadKinds, BindAssumption
           DEF NdisProtStatus, Serves, TypeOK, Goto, Opens, OpeningPlaces, Completed, FileOpen, Binders
      <3>2. CASE pc' = pc /\ UNCHANGED status
        BY <2>1, <3>2, TypeOK, Opens, StatusIrpOwned, ThreadKinds, BindAssumption
           DEF NdisProtStatus, TypeOK, Goto, Opens, OpeningPlaces, Completed, FileOpen, Binders
      <3> QED
        BY <2>1, <3>1, <3>2, Served DEF NdisProtStatus
    <2>2. CASE Unload
      BY Opens, <2>2
         DEF Unload, Opens
    <2>3. CASE Unloaded
      BY Opens, <2>3
         DEF Unloaded, Opens
    <2> QED
      BY <1>8, <2>1, <2>2, <2>3
  <1>9. CASE UNCHANGED vars
    BY Opens, <1>9 DEF vars, Opens
  <1> QED
    BY <1>1, <1>2, <1>3, <1>4, <1>5, <1>6, <1>7, <1>8, <1>9 DEF Next

LEMMA StepOpeners ==
  ASSUME TypeOK, Openers, Opens, StatusIrpOwned, [Next]_vars
  PROVE  Openers'
  <1> USE DEF adapter, flags, files, status, counts, At
  <1>1. CASE BindAdapter \/ Binding \/ UnbindAdapter
    <2>1. CASE BindAdapter
      BY <2>1, TypeOK, Openers, Opens, StatusIrpOwned, ThreadKinds, BindAssumption
         DEF BindAdapter, TypeOK, Goto, Openers, Opens, OpeningPlaces, Opening, FileOpen,
             Binders
    <2>2. CASE BindOpening
      <3>1. PICK w \in {"open", "failed"} : Goto("bind", w)
        BY <2>2 DEF BindOpening, Goto
      <3> QED
        BY <2>2, <3>1, TypeOK, Openers, Opens, StatusIrpOwned, ThreadKinds, BindAssumption
           DEF BindOpening, TypeOK, Goto, Openers, Opens, OpeningPlaces, Opening, FileOpen,
               Binders
    <2>3. CASE BindOpens
      <3>1. PICK w \in {"query", "failed"} : Goto("bind", w)
        BY <2>3 DEF BindOpens, Goto
      <3> QED
        BY <2>3, <3>1, TypeOK, Openers, Opens, StatusIrpOwned, ThreadKinds, BindAssumption
           DEF BindOpens, TypeOK, Goto, Openers, Opens, OpeningPlaces, Opening, FileOpen,
               Binders
    <2>4. CASE BindQueries
      <3>1. PICK w \in {"activate", "failed"} : Goto("bind", w)
        BY <2>4 DEF BindQueries, Goto
      <3> QED
        BY <2>4, <3>1, TypeOK, Openers, Opens, StatusIrpOwned, ThreadKinds, BindAssumption
           DEF BindQueries, TypeOK, Goto, Openers, Opens, OpeningPlaces, Opening, FileOpen,
               Binders
    <2>5. CASE BindActivates
      <3>1. PICK w \in {"failed", "done"} : Goto("bind", w)
        BY <2>5 DEF BindActivates, Goto
      <3> QED
        BY <2>5, <3>1, TypeOK, Openers, Opens, StatusIrpOwned, ThreadKinds, BindAssumption
           DEF BindActivates, TypeOK, Goto, Openers, Opens, OpeningPlaces, Opening, FileOpen,
               Binders
    <2>6. CASE BindFails
      BY <2>6, TypeOK, Openers, Opens, StatusIrpOwned, ThreadKinds, BindAssumption
         DEF BindFails, TypeOK, Goto, Openers, Opens, OpeningPlaces, Opening, FileOpen, Binders
    <2>7. CASE UnbindAdapter
      BY <2>7, TypeOK, Openers, Opens, StatusIrpOwned, ThreadKinds, BindAssumption
         DEF UnbindAdapter, TypeOK, Goto, Openers, Opens, OpeningPlaces, Opening, FileOpen,
             Binders
    <2> QED
      BY <1>1, <2>1, <2>2, <2>3, <2>4, <2>5, <2>6, <2>7 DEF Binding
  <1>2. ASSUME NEW t \in Binders, Shutdown(t) PROVE Openers'
    <2> t \in Threads
      BY DEF Threads
    <2>1. CASE ShutdownBegins(t)
      <3>1. PICK w \in {"done", "filter", "remove"} : Goto(t, w)
        BY <2>1 DEF ShutdownBegins, Goto
      <3> QED
        BY <2>1, <3>1, TypeOK, Openers, Opens, StatusIrpOwned, ThreadKinds, BindAssumption
           DEF ShutdownBegins, TypeOK, Goto, Openers, Opens, OpeningPlaces, Opening,
               FileOpen, Binders
    <2>2. CASE ShutdownFilters(t)
      BY <2>2, TypeOK, Openers, Opens, StatusIrpOwned, ThreadKinds, BindAssumption
         DEF ShutdownFilters, TypeOK, Goto, Openers, Opens, OpeningPlaces, Opening, FileOpen,
             Binders
    <2>3. CASE ShutdownServices(t)
      <3>1. ASSUME NEW i \in Irps, Serves(i, [pc EXCEPT ![t] = "wait"]) PROVE Openers'
        BY <2>3, <3>1, TypeOK, Openers, Opens, StatusIrpOwned, ThreadKinds, BindAssumption
           DEF ShutdownServices, Serves, TypeOK, Goto, Openers, Opens, OpeningPlaces,
               Opening, FileOpen, Binders
      <3>2. CASE pc' = [pc EXCEPT ![t] = "wait"] /\ UNCHANGED status
        BY <2>3, <3>2, TypeOK, Openers, Opens, StatusIrpOwned, ThreadKinds, BindAssumption
           DEF ShutdownServices, TypeOK, Goto, Openers, Opens, OpeningPlaces, Opening,
               FileOpen, Binders
      <3> QED
        BY <2>3, <3>1, <3>2, Served DEF ShutdownServices
    <2>4. CASE ShutdownCloses(t)
      BY <2>4, TypeOK, Openers, Opens, StatusIrpOwned, ThreadKinds, BindAssumption
         DEF ShutdownCloses, TypeOK, Goto, Openers, Opens, OpeningPlaces, Opening, FileOpen,
             Binders
    <2>5. CASE ShutdownIdles(t)
      BY <2>5, TypeOK, Openers, Opens, StatusIrpOwned, ThreadKinds, BindAssumption
         DEF ShutdownIdles, TypeOK, Goto, Openers, Opens, OpeningPlaces, Opening, FileOpen,
             Binders
    <2>6. CASE ShutdownRemoves(t)
      BY <2>6, TypeOK, Openers, Opens, StatusIrpOwned, ThreadKinds, BindAssumption
         DEF ShutdownRemoves, TypeOK, Goto, Openers, Opens, OpeningPlaces, Opening, FileOpen,
             Binders
    <2>7. CASE ShutdownFrees(t)
      BY <2>7, TypeOK, Openers, Opens, StatusIrpOwned, ThreadKinds, BindAssumption
         DEF ShutdownFrees, TypeOK, Goto, Openers, Opens, OpeningPlaces, Opening, FileOpen,
             Binders
    <2> QED
      BY <1>2, <2>1, <2>2, <2>3, <2>4, <2>5, <2>6, <2>7 DEF Shutdown
  <1>3. ASSUME NEW i \in Irps, NEW f \in Files, OpenLooksUp(i, f) \/ UseBegins(i, f) PROVE Openers'
    <2> i \in Threads
      BY ThreadKinds
    <2>1. CASE OpenLooksUp(i, f)
      BY <2>1, TypeOK, Openers, Opens, StatusIrpOwned, ThreadKinds, BindAssumption
         DEF OpenLooksUp, TypeOK, Goto, Openers, Opens, OpeningPlaces, Opening, FileOpen,
             Binders
    <2>2. CASE UseBegins(i, f)
      <3>1. PICK w \in {"oid", "write", "indicate"} : Goto(i, w)
        BY <2>2 DEF UseBegins, Goto
      <3> QED
        BY <2>2, <3>1, TypeOK, Openers, Opens, StatusIrpOwned, ThreadKinds, BindAssumption
           DEF UseBegins, TypeOK, Goto, Openers, Opens, OpeningPlaces, Opening, FileOpen,
               Binders
    <2> QED
      BY <1>3, <2>1, <2>2
  <1>4. ASSUME NEW t \in Irps \cup Files, Validating(t) PROVE Openers'
    <2> t \in Threads
      BY DEF Threads
    <2>1. CASE ValidateFails(t)
      <3>1. PICK w \in {"undo", "service"} : Goto(t, w)
        BY <2>1 DEF ValidateFails, Goto
      <3> QED
        BY <2>1, <3>1, TypeOK, Openers, Opens, StatusIrpOwned, ThreadKinds, BindAssumption
           DEF ValidateFails, TypeOK, Goto, Openers, Opens, OpeningPlaces, Opening, FileOpen,
               Binders
    <2>2. CASE Validates(t)
      BY <2>2, TypeOK, Openers, Opens, StatusIrpOwned, ThreadKinds, BindAssumption
         DEF Validates, TypeOK, Goto, Openers, Opens, OpeningPlaces, Opening, FileOpen, Binders
    <2>3. CASE Requests(t)
      <3>1. PICK w \in {"out", "undo", "service"} : Goto(t, w)
        BY <2>3 DEF Requests, Goto
      <3> QED
        BY <2>3, <3>1, TypeOK, Openers, Opens, StatusIrpOwned, ThreadKinds, BindAssumption
           DEF Requests, TypeOK, Goto, Openers, Opens, OpeningPlaces, Opening, FileOpen, Binders
    <2> QED
      BY <1>4, <2>1, <2>2, <2>3 DEF Validating
  <1>5. ASSUME NEW i \in Irps, OpenGoesOn(i) PROVE Openers'
    <2> i \in Threads
      BY ThreadKinds
    <2>1. CASE OpenRefused(i)
      BY <2>1, TypeOK, Openers, Opens, StatusIrpOwned, ThreadKinds, BindAssumption
         DEF OpenRefused, TypeOK, Goto, Openers, Opens, OpeningPlaces, Opening, FileOpen,
             Binders
    <2>2. CASE OpenAssociates(i)
      BY <2>2, TypeOK, Openers, Opens, StatusIrpOwned, ThreadKinds, BindAssumption
         DEF OpenAssociates, TypeOK, Goto, Openers, Opens, OpeningPlaces, Opening, FileOpen,
             Binders
    <2>3. CASE OpenUndone(i)
      BY <2>3, TypeOK, Openers, Opens, StatusIrpOwned, ThreadKinds, BindAssumption
         DEF OpenUndone, TypeOK, Goto, Openers, Opens, OpeningPlaces, Opening, FileOpen, Binders
    <2> QED
      BY <1>5, <2>1, <2>2, <2>3 DEF OpenGoesOn
  <1>6. ASSUME NEW i \in Irps, UseGoesOn(i) \/ StatusCancelCalled(i) PROVE Openers'
    <2> i \in Threads
      BY ThreadKinds
    <2>1. CASE UseRefused(i)
      BY <2>1, TypeOK, Openers, Opens, StatusIrpOwned, ThreadKinds, BindAssumption
         DEF UseRefused, TypeOK, Goto, Openers, Opens, OpeningPlaces, Opening, FileOpen, Binders
    <2>2. CASE OidValidates(i)
      BY <2>2, TypeOK, Openers, Opens, StatusIrpOwned, ThreadKinds, BindAssumption
         DEF OidValidates, TypeOK, Goto, Openers, Opens, OpeningPlaces, Opening, FileOpen,
             Binders
    <2>3. CASE OidRequests(i)
      BY <2>3, TypeOK, Openers, Opens, StatusIrpOwned, ThreadKinds, BindAssumption
         DEF OidRequests, TypeOK, Goto, Openers, Opens, OpeningPlaces, Opening, FileOpen,
             Binders
    <2>4. CASE WriteCounts(i)
      BY <2>4, TypeOK, Openers, Opens, StatusIrpOwned, ThreadKinds, BindAssumption
         DEF WriteCounts, TypeOK, Goto, Openers, Opens, OpeningPlaces, Opening, FileOpen,
             Binders
    <2>5. CASE SendCompletes(i)
      BY <2>5, TypeOK, Openers, Opens, StatusIrpOwned, ThreadKinds, BindAssumption
         DEF SendCompletes, TypeOK, Goto, Openers, Opens, OpeningPlaces, Opening, FileOpen,
             Binders
    <2>6. CASE SendUncounts(i)
      BY <2>6, TypeOK, Openers, Opens, StatusIrpOwned, ThreadKinds, BindAssumption
         DEF SendUncounts, TypeOK, Goto, Openers, Opens, OpeningPlaces, Opening, FileOpen,
             Binders
    <2>7. CASE SendDerefs(i)
      BY <2>7, TypeOK, Openers, Opens, StatusIrpOwned, ThreadKinds, BindAssumption
         DEF SendDerefs, TypeOK, Goto, Openers, Opens, OpeningPlaces, Opening, FileOpen, Binders
    <2>8. CASE StatusQueues(i)
      <3>1. PICK w \in {"out", "pended"} : Goto(i, w)
        BY <2>8 DEF StatusQueues, Goto
      <3> QED
        BY <2>8, <3>1, TypeOK, Openers, Opens, StatusIrpOwned, ThreadKinds, BindAssumption
           DEF StatusQueues, TypeOK, Goto, Openers, Opens, OpeningPlaces, Opening, FileOpen,
               Binders
    <2>9. CASE StatusCancelled(i)
      BY <2>9, TypeOK, Openers, Opens, StatusIrpOwned, ThreadKinds, BindAssumption
         DEF StatusCancelled, TypeOK, Goto, Openers, Opens, OpeningPlaces, Opening, FileOpen,
             Binders
    <2>10. CASE StatusCancelCalled(i)
      BY <2>10, TypeOK, Openers, Opens, StatusIrpOwned, ThreadKinds, BindAssumption
         DEF StatusCancelCalled, TypeOK, Goto, Openers, Opens, OpeningPlaces, Opening,
             FileOpen, Binders
    <2> QED
      BY <1>6, <2>1, <2>2, <2>3, <2>4, <2>5, <2>6, <2>7, <2>8, <2>9, <2>10 DEF UseGoesOn
  <1>7. ASSUME NEW f \in Files, CleanupMarks(f) \/ CleanupGoesOn(f) PROVE Openers'
    <2> f \in Threads
      BY ThreadKinds
    <2>1. CASE CleanupMarks(f)
      <3>1. CASE raced'
        BY <3>1 DEF Openers
      <3>2. CASE ~raced'
        <4>1. ~raced /\ \A i \in Irps : ~Opening(i, f)
          BY <2>1, <3>2 DEF CleanupMarks, Opening
        <4>2. PICK w \in {"validate", "cleaned"} : Goto(f, w)
          BY <2>1 DEF CleanupMarks, Goto
        <4>3. /\ \A i \in Irps : pc'[i] = pc[i]
              /\ \A g \in Files : g # f => pc'[g] = pc[g]
              /\ pc'[f] = w /\ w # "out"
          BY <4>2, ThreadKinds DEF TypeOK, Goto
        <4>4. ASSUME NEW i \in Irps, NEW g \in Files, Opening(i, g)' PROVE At(g, "out")'
          <5>1. Opening(i, g)
            BY <2>1, <4>3, <4>4 DEF CleanupMarks, Opening
          <5> QED
            BY <4>1, <4>3, <5>1 DEF Openers
        <4>5. ASSUME NEW g \in Files PROVE (pFileObject = g <=> FsContext[g] /\ At(g, "out"))'
          <5>1. (pFileObject = g <=> FsContext[g] /\ At(g, "out")) /\ (pFileObject = f <=> FsContext[f] /\ At(f, "out"))
            BY <4>1 DEF Openers
          <5>2. At(f, "out") /\ FsContext' = FsContext /\ NoFile \notin Files
            BY <2>1, BindAssumption DEF CleanupMarks
          <5>3. CASE FsContext[f]
            BY <2>1, <4>3, <5>1, <5>2, <5>3 DEF CleanupMarks
          <5>4. CASE ~FsContext[f]
            BY <2>1, <4>3, <5>1, <5>2, <5>4 DEF CleanupMarks
          <5> QED
            BY <5>3, <5>4
        <4>6. ASSUME NEW g \in Files, pc'[g] \in {"validate", "request", "service"} PROVE FsContext'[g]
          <5>1. CASE g = f
            <6>1. CASE ~FsContext[f]
              <7>1. pc'[f] = "cleaned"
                BY <2>1, <6>1, ThreadKinds DEF CleanupMarks, Goto, TypeOK
              <7> QED
                BY <4>6, <5>1, <7>1
            <6> QED
              BY <2>1, <5>1, <6>1 DEF CleanupMarks
          <5>2. CASE g # f
            BY <2>1, <4>1, <4>3, <4>6, <5>2 DEF CleanupMarks, Openers
          <5> QED
            BY <5>1, <5>2
        <4> QED
          BY <4>4, <4>5, <4>6 DEF Openers
      <3> QED
        BY <3>1, <3>2
    <2>2. CASE CleanupServices(f)
      <3>1. ASSUME NEW i \in Irps, Serves(i, [pc EXCEPT ![f] = "cleaned"]) PROVE Openers'
        BY <2>2, <3>1, TypeOK, Openers, Opens, StatusIrpOwned, ThreadKinds, BindAssumption
           DEF CleanupServices, Serves, TypeOK, Goto, Openers, Opens, OpeningPlaces, Opening,
               FileOpen, Binders
      <3>2. CASE pc' = [pc EXCEPT ![f] = "cleaned"] /\ UNCHANGED status
        BY <2>2, <3>2, TypeOK, Openers, Opens, StatusIrpOwned, ThreadKinds, BindAssumption
           DEF CleanupServices, TypeOK, Goto, Openers, Opens, OpeningPlaces, Opening,
               FileOpen, Binders
      <3> QED
        BY <2>2, <3>1, <3>2, Served DEF CleanupServices
    <2>3. CASE Close(f)
      BY <2>3, TypeOK, Openers, Opens, StatusIrpOwned, ThreadKinds, BindAssumption
         DEF Close, TypeOK, Goto, Openers, Opens, OpeningPlaces, Opening, FileOpen, Binders
    <2> QED
      BY <1>7, <2>1, <2>2, <2>3 DEF CleanupGoesOn
  <1>8. CASE NdisProtStatus \/ Unload \/ Unloaded
    <2>1. CASE NdisProtStatus
      <3>1. ASSUME NEW i \in Irps, Serves(i, pc) PROVE Openers'
        BY <2>1, <3>1, TypeOK, Openers, Opens, StatusIrpOwned, ThreadKinds, BindAssumption
           DEF NdisProtStatus, Serves, TypeOK, Goto, Openers, Opens, OpeningPlaces, Opening,
               FileOpen, Binders
      <3>2. CASE pc' = pc /\ UNCHANGED status
        BY <2>1, <3>2, TypeOK, Openers, Opens, StatusIrpOwned, ThreadKinds, BindAssumption
           DEF NdisProtStatus, TypeOK, Goto, Openers, Opens, OpeningPlaces, Opening,
               FileOpen, Binders
      <3> QED
        BY <2>1, <3>1, <3>2, Served DEF NdisProtStatus
    <2>2. CASE Unload
      BY Openers, <2>2
         DEF Unload, Openers, Opening
    <2>3. CASE Unloaded
      BY Openers, <2>3
         DEF Unloaded, Openers, Opening
    <2> QED
      BY <1>8, <2>1, <2>2, <2>3
  <1>9. CASE UNCHANGED vars
    BY Openers, <1>9 DEF vars, Openers, Opening
  <1> QED
    BY <1>1, <1>2, <1>3, <1>4, <1>5, <1>6, <1>7, <1>8, <1>9 DEF Next

LEMMA StepUnloading ==
  ASSUME TypeOK, Unloading, StatusIrpOwned, [Next]_vars
  PROVE  Unloading'
  <1> USE DEF adapter, flags, files, status, counts, At
  <1>1. CASE BindAdapter \/ Binding \/ UnbindAdapter
    <2>1. CASE BindAdapter
      BY <2>1, TypeOK, Unloading, StatusIrpOwned, ThreadKinds, BindAssumption
         DEF BindAdapter, TypeOK, Goto, Unloading, Binders
    <2>2. CASE BindOpening
      <3>1. PICK w \in {"open", "failed"} : Goto("bind", w)
        BY <2>2 DEF BindOpening, Goto
      <3> QED
        BY <2>2, <3>1, TypeOK, Unloading, StatusIrpOwned, ThreadKinds, BindAssumption
           DEF BindOpening, TypeOK, Goto, Unloading, Binders
    <2>3. CASE BindOpens
      <3>1. PICK w \in {"query", "failed"} : Goto("bind", w)
        BY <2>3 DEF BindOpens, Goto
      <3> QED
        BY <2>3, <3>1, TypeOK, Unloading, StatusIrpOwned, ThreadKinds, BindAssumption
           DEF BindOpens, TypeOK, Goto, Unloading, Binders
    <2>4. CASE BindQueries
      <3>1. PICK w \in {"activate", "failed"} : Goto("bind", w)
        BY <2>4 DEF BindQueries, Goto
      <3> QED
        BY <2>4, <3>1, TypeOK, Unloading, StatusIrpOwned, ThreadKinds, BindAssumption
           DEF BindQueries, TypeOK, Goto, Unloading, Binders
    <2>5. CASE BindActivates
      <3>1. PICK w \in {"failed", "done"} : Goto("bind", w)
        BY <2>5 DEF BindActivates, Goto
      <3> QED
        BY <2>5, <3>1, TypeOK, Unloading, StatusIrpOwned, ThreadKinds, BindAssumption
           DEF BindActivates, TypeOK, Goto, Unloading, Binders
    <2>6. CASE BindFails
      BY <2>6, TypeOK, Unloading, StatusIrpOwned, ThreadKinds, BindAssumption
         DEF BindFails, TypeOK, Goto, Unloading, Binders
    <2>7. CASE UnbindAdapter
      BY <2>7, TypeOK, Unloading, StatusIrpOwned, ThreadKinds, BindAssumption
         DEF UnbindAdapter, TypeOK, Goto, Unloading, Binders
    <2> QED
      BY <1>1, <2>1, <2>2, <2>3, <2>4, <2>5, <2>6, <2>7 DEF Binding
  <1>2. ASSUME NEW t \in Binders, Shutdown(t) PROVE Unloading'
    <2> t \in Threads
      BY DEF Threads
    <2>1. CASE ShutdownBegins(t)
      <3>1. PICK w \in {"done", "filter", "remove"} : Goto(t, w)
        BY <2>1 DEF ShutdownBegins, Goto
      <3> QED
        BY <2>1, <3>1, TypeOK, Unloading, StatusIrpOwned, ThreadKinds, BindAssumption
           DEF ShutdownBegins, TypeOK, Goto, Unloading, Binders
    <2>2. CASE ShutdownFilters(t)
      BY <2>2, TypeOK, Unloading, StatusIrpOwned, ThreadKinds, BindAssumption
         DEF ShutdownFilters, TypeOK, Goto, Unloading, Binders
    <2>3. CASE ShutdownServices(t)
      <3>1. ASSUME NEW i \in Irps, Serves(i, [pc EXCEPT ![t] = "wait"]) PROVE Unloading'
        BY <2>3, <3>1, TypeOK, Unloading, StatusIrpOwned, ThreadKinds, BindAssumption
           DEF ShutdownServices, Serves, TypeOK, Goto, Unloading, Binders
      <3>2. CASE pc' = [pc EXCEPT ![t] = "wait"] /\ UNCHANGED status
        BY <2>3, <3>2, TypeOK, Unloading, StatusIrpOwned, ThreadKinds, BindAssumption
           DEF ShutdownServices, TypeOK, Goto, Unloading, Binders
      <3> QED
        BY <2>3, <3>1, <3>2, Served DEF ShutdownServices
    <2>4. CASE ShutdownCloses(t)
      BY <2>4, TypeOK, Unloading, StatusIrpOwned, ThreadKinds, BindAssumption
         DEF ShutdownCloses, TypeOK, Goto, Unloading, Binders
    <2>5. CASE ShutdownIdles(t)
      BY <2>5, TypeOK, Unloading, StatusIrpOwned, ThreadKinds, BindAssumption
         DEF ShutdownIdles, TypeOK, Goto, Unloading, Binders
    <2>6. CASE ShutdownRemoves(t)
      BY <2>6, TypeOK, Unloading, StatusIrpOwned, ThreadKinds, BindAssumption
         DEF ShutdownRemoves, TypeOK, Goto, Unloading, Binders
    <2>7. CASE ShutdownFrees(t)
      BY <2>7, TypeOK, Unloading, StatusIrpOwned, ThreadKinds, BindAssumption
         DEF ShutdownFrees, TypeOK, Goto, Unloading, Binders
    <2> QED
      BY <1>2, <2>1, <2>2, <2>3, <2>4, <2>5, <2>6, <2>7 DEF Shutdown
  <1>3. ASSUME NEW i \in Irps, NEW f \in Files, OpenLooksUp(i, f) \/ UseBegins(i, f) PROVE Unloading'
    <2> i \in Threads
      BY ThreadKinds
    <2>1. CASE OpenLooksUp(i, f)
      BY <2>1, TypeOK, Unloading, StatusIrpOwned, ThreadKinds, BindAssumption
         DEF OpenLooksUp, TypeOK, Goto, Unloading, Binders
    <2>2. CASE UseBegins(i, f)
      <3>1. PICK w \in {"oid", "write", "indicate"} : Goto(i, w)
        BY <2>2 DEF UseBegins, Goto
      <3> QED
        BY <2>2, <3>1, TypeOK, Unloading, StatusIrpOwned, ThreadKinds, BindAssumption
           DEF UseBegins, TypeOK, Goto, Unloading, Binders
    <2> QED
      BY <1>3, <2>1, <2>2
  <1>4. ASSUME NEW t \in Irps \cup Files, Validating(t) PROVE Unloading'
    <2> t \in Threads
      BY DEF Threads
    <2>1. CASE ValidateFails(t)
      <3>1. PICK w \in {"undo", "service"} : Goto(t, w)
        BY <2>1 DEF ValidateFails, Goto
      <3> QED
        BY <2>1, <3>1, TypeOK, Unloading, StatusIrpOwned, ThreadKinds, BindAssumption
           DEF ValidateFails, TypeOK, Goto, Unloading, Binders
    <2>2. CASE Validates(t)
      BY <2>2, TypeOK, Unloading, StatusIrpOwned, ThreadKinds, BindAssumption
         DEF Validates, TypeOK, Goto, Unloading, Binders
    <2>3. CASE Requests(t)
      <3>1. PICK w \in {"out", "undo", "service"} : Goto(t, w)
        BY <2>3 DEF Requests, Goto
      <3> QED
        BY <2>3, <3>1, TypeOK, Unloading, StatusIrpOwned, ThreadKinds, BindAssumption
           DEF Requests, TypeOK, Goto, Unloading, Binders
    <2> QED
      BY <1>4, <2>1, <2>2, <2>3 DEF Validating
  <1>5. ASSUME NEW i \in Irps, OpenGoesOn(i) PROVE Unloading'
    <2> i \in Threads
      BY ThreadKinds
    <2>1. CASE OpenRefused(i)
      BY <2>1, TypeOK, Unloading, StatusIrpOwned, ThreadKinds, BindAssumption
         DEF OpenRefused, TypeOK, Goto, Unloading, Binders
    <2>2. CASE OpenAssociates(i)
      BY <2>2, TypeOK, Unloading, StatusIrpOwned, ThreadKinds, BindAssumption
         DEF OpenAssociates, TypeOK, Goto, Unloading, Binders
    <2>3. CASE OpenUndone(i)
      BY <2>3, TypeOK, Unloading, StatusIrpOwned, ThreadKinds, BindAssumption
         DEF OpenUndone, TypeOK, Goto, Unloading, Binders
    <2> QED
      BY <1>5, <2>1, <2>2, <2>3 DEF OpenGoesOn
  <1>6. ASSUME NEW i \in Irps, UseGoesOn(i) \/ StatusCancelCalled(i) PROVE Unloading'
    <2> i \in Threads
      BY ThreadKinds
    <2>1. CASE UseRefused(i)
      BY <2>1, TypeOK, Unloading, StatusIrpOwned, ThreadKinds, BindAssumption
         DEF UseRefused, TypeOK, Goto, Unloading, Binders
    <2>2. CASE OidValidates(i)
      BY <2>2, TypeOK, Unloading, StatusIrpOwned, ThreadKinds, BindAssumption
         DEF OidValidates, TypeOK, Goto, Unloading, Binders
    <2>3. CASE OidRequests(i)
      BY <2>3, TypeOK, Unloading, StatusIrpOwned, ThreadKinds, BindAssumption
         DEF OidRequests, TypeOK, Goto, Unloading, Binders
    <2>4. CASE WriteCounts(i)
      BY <2>4, TypeOK, Unloading, StatusIrpOwned, ThreadKinds, BindAssumption
         DEF WriteCounts, TypeOK, Goto, Unloading, Binders
    <2>5. CASE SendCompletes(i)
      BY <2>5, TypeOK, Unloading, StatusIrpOwned, ThreadKinds, BindAssumption
         DEF SendCompletes, TypeOK, Goto, Unloading, Binders
    <2>6. CASE SendUncounts(i)
      BY <2>6, TypeOK, Unloading, StatusIrpOwned, ThreadKinds, BindAssumption
         DEF SendUncounts, TypeOK, Goto, Unloading, Binders
    <2>7. CASE SendDerefs(i)
      BY <2>7, TypeOK, Unloading, StatusIrpOwned, ThreadKinds, BindAssumption
         DEF SendDerefs, TypeOK, Goto, Unloading, Binders
    <2>8. CASE StatusQueues(i)
      <3>1. PICK w \in {"out", "pended"} : Goto(i, w)
        BY <2>8 DEF StatusQueues, Goto
      <3> QED
        BY <2>8, <3>1, TypeOK, Unloading, StatusIrpOwned, ThreadKinds, BindAssumption
           DEF StatusQueues, TypeOK, Goto, Unloading, Binders
    <2>9. CASE StatusCancelled(i)
      BY <2>9, TypeOK, Unloading, StatusIrpOwned, ThreadKinds, BindAssumption
         DEF StatusCancelled, TypeOK, Goto, Unloading, Binders
    <2>10. CASE StatusCancelCalled(i)
      BY <2>10, TypeOK, Unloading, StatusIrpOwned, ThreadKinds, BindAssumption
         DEF StatusCancelCalled, TypeOK, Goto, Unloading, Binders
    <2> QED
      BY <1>6, <2>1, <2>2, <2>3, <2>4, <2>5, <2>6, <2>7, <2>8, <2>9, <2>10 DEF UseGoesOn
  <1>7. ASSUME NEW f \in Files, CleanupMarks(f) \/ CleanupGoesOn(f) PROVE Unloading'
    <2> f \in Threads
      BY ThreadKinds
    <2>1. CASE CleanupMarks(f)
      <3>1. PICK w \in {"validate", "cleaned"} : Goto(f, w)
        BY <2>1 DEF CleanupMarks, Goto
      <3> QED
        BY <2>1, <3>1, TypeOK, Unloading, StatusIrpOwned, ThreadKinds, BindAssumption
           DEF CleanupMarks, TypeOK, Goto, Unloading, Binders
    <2>2. CASE CleanupServices(f)
      <3>1. ASSUME NEW i \in Irps, Serves(i, [pc EXCEPT ![f] = "cleaned"]) PROVE Unloading'
        BY <2>2, <3>1, TypeOK, Unloading, StatusIrpOwned, ThreadKinds, BindAssumption
           DEF CleanupServices, Serves, TypeOK, Goto, Unloading, Binders
      <3>2. CASE pc' = [pc EXCEPT ![f] = "cleaned"] /\ UNCHANGED status
        BY <2>2, <3>2, TypeOK, Unloading, StatusIrpOwned, ThreadKinds, BindAssumption
           DEF CleanupServices, TypeOK, Goto, Unloading, Binders
      <3> QED
        BY <2>2, <3>1, <3>2, Served DEF CleanupServices
    <2>3. CASE Close(f)
      BY <2>3, TypeOK, Unloading, StatusIrpOwned, ThreadKinds, BindAssumption
         DEF Close, TypeOK, Goto, Unloading, Binders
    <2> QED
      BY <1>7, <2>1, <2>2, <2>3 DEF CleanupGoesOn
  <1>8. CASE NdisProtStatus \/ Unload \/ Unloaded
    <2>1. CASE NdisProtStatus
      <3>1. ASSUME NEW i \in Irps, Serves(i, pc) PROVE Unloading'
        BY <2>1, <3>1, TypeOK, Unloading, StatusIrpOwned, ThreadKinds, BindAssumption
           DEF NdisProtStatus, Serves, TypeOK, Goto, Unloading, Binders
      <3>2. CASE pc' = pc /\ UNCHANGED status
        BY <2>1, <3>2, TypeOK, Unloading, StatusIrpOwned, ThreadKinds, BindAssumption
           DEF NdisProtStatus, TypeOK, Goto, Unloading, Binders
      <3> QED
        BY <2>1, <3>1, <3>2, Served DEF NdisProtStatus
    <2>2. CASE Unload
      BY Unloading, <2>2
         DEF Unload, Unloading
    <2>3. CASE Unloaded
      BY Unloading, <2>3
         DEF Unloaded, Unloading
    <2> QED
      BY <1>8, <2>1, <2>2, <2>3
  <1>9. CASE UNCHANGED vars
    BY Unloading, <1>9 DEF vars, Unloading
  <1> QED
    BY <1>1, <1>2, <1>3, <1>4, <1>5, <1>6, <1>7, <1>8, <1>9 DEF Next

-----------------------------------------------------------------------------
(* Pended sends and requests.                                              *)

LEMMA Move ==
  ASSUME TypeOK, NEW t \in Threads, NEW w, Goto(t, w), NEW S
  PROVE  Moved(Count(S), Count(S)', S, pc[t], w)
  <1>1. \A u \in Threads : pc'[u] = IF u = t THEN w ELSE pc[u]
    BY DEF TypeOK, Goto
  <1>2. Moved(Cardinality(Where(pc, Threads, S)), Cardinality(Where(pc', Threads, S)), S, pc[t], w)
    BY <1>1, ThreadsFinite, CountMove
  <1> QED
    BY <1>2, Zenon DEF Count, Where

LEMMA Stay ==
  ASSUME NEW S, \A t \in Threads : pc'[t] \in S <=> pc[t] \in S
  PROVE  Count(S)' = Count(S)
  <1>1. {t \in Threads : pc'[t] \in S} = {t \in Threads : pc[t] \in S}
    OBVIOUS
  <1> QED
    BY <1>1, Zenon DEF Count

LEMMA ServedStay ==
  ASSUME TypeOK, StatusIrpOwned, NEW S, {"out", "pended", "status", "wait", "service", "cleaned"} \cap S = {},
         \/ NdisProtStatus
         \/ \E t \in Binders : ShutdownServices(t)
         \/ \E f \in Files : CleanupServices(f)
  PROVE  Count(S)' = Count(S)
  <1> USE DEF At
  <1>1. ASSUME NEW where, ndisServiceIndicateStatusIrp(where), NEW t \in Threads, where[t] = pc[t] \/ (where[t] \notin S /\ pc[t] \notin S),
               where \in [Threads -> Pcs]
        PROVE  pc'[t] \in S <=> pc[t] \in S
    <2>1. ASSUME NEW i \in Irps, Serves(i, where) PROVE pc'[t] \in S <=> pc[t] \in S
      BY <1>1, <2>1 DEF Serves
    <2>2. CASE pc' = where
      BY <1>1, <2>2
    <2> QED
      BY <1>1, <2>1, <2>2, Served
  <1>2. pc \in [Threads -> Pcs] /\ "wait" \in Pcs /\ "cleaned" \in Pcs
    BY DEF TypeOK, Pcs
  <1>3. CASE NdisProtStatus
    <2>1. ASSUME NEW t \in Threads PROVE pc'[t] \in S <=> pc[t] \in S
      BY <1>1, <1>2, <1>3 DEF NdisProtStatus
    <2> QED
      BY <2>1, Stay
  <1>4. ASSUME NEW b \in Binders, ShutdownServices(b) PROVE Count(S)' = Count(S)
    <2> DEFINE where == [pc EXCEPT ![b] = "wait"]
    <2>1. where \in [Threads -> Pcs] /\ \A t \in Threads : where[t] = pc[t] \/ (where[t] \notin S /\ pc[t] \notin S)
      BY <1>2, <1>4 DEF ShutdownServices
    <2>2. ndisServiceIndicateStatusIrp(where)
      BY <1>4 DEF ShutdownServices
    <2> HIDE DEF where
    <2>3. ASSUME NEW t \in Threads PROVE pc'[t] \in S <=> pc[t] \in S
      BY <1>1, <2>1, <2>2
    <2> QED
      BY <2>3, Stay
  <1>5. ASSUME NEW f \in Files, CleanupServices(f) PROVE Count(S)' = Count(S)
    <2> DEFINE where == [pc EXCEPT ![f] = "cleaned"]
    <2>1. where \in [Threads -> Pcs] /\ \A t \in Threads : where[t] = pc[t] \/ (where[t] \notin S /\ pc[t] \notin S)
      BY <1>2, <1>5 DEF CleanupServices
    <2>2. ndisServiceIndicateStatusIrp(where)
      BY <1>5 DEF CleanupServices
    <2> HIDE DEF where
    <2>3. ASSUME NEW t \in Threads PROVE pc'[t] \in S <=> pc[t] \in S
      BY <1>1, <2>1, <2>2
    <2> QED
      BY <2>3, Stay
  <1> QED
    BY <1>3, <1>4, <1>5

LEMMA StepPends ==
  ASSUME TypeOK, Handles, PendsExact, StatusIrpOwned, [Next]_vars
  PROVE  PendsExact'
  <1> USE DEF adapter, flags, files, status, counts, At
  <1>0. PendedSendCount \in Nat
    BY DEF TypeOK
  <1>1. CASE BindAdapter \/ Binding \/ UnbindAdapter
    <2>1. CASE BindAdapter
      <3>1. Count(PendPlaces)' = Count(PendPlaces)
        <4>1. Goto("bind", "create")
          BY <2>1 DEF BindAdapter
        <4>2. Moved(Count(PendPlaces), Count(PendPlaces)', PendPlaces, pc["bind"], "create")
          BY <4>1, Move, ThreadKinds
        <4>3. pc["bind"] \notin PendPlaces
          BY <2>1 DEF BindAdapter, PendPlaces
        <4>4. "create" \notin PendPlaces
          BY DEF PendPlaces
        <4> QED
          BY <4>2, <4>3, <4>4 DEF Moved
      <3>2. PendedSendCount' = PendedSendCount
        BY <2>1 DEF BindAdapter
      <3>3. PendedSendCount' > 0 => BindingHandle'
        BY <2>1, <1>0, <3>2 DEF BindAdapter, PendsExact, Handles
      <3> QED
        BY <3>1, <3>2, <3>3 DEF PendsExact
    <2>2. CASE BindOpening
      <3>1. Count(PendPlaces)' = Count(PendPlaces)
        <4>1. PICK w \in {"open", "failed"} : Goto("bind", w)
          BY <2>2 DEF BindOpening, Goto
        <4>2. Moved(Count(PendPlaces), Count(PendPlaces)', PendPlaces, pc["bind"], w)
          BY <4>1, Move, ThreadKinds
        <4>3. pc["bind"] \notin PendPlaces
          BY <2>2 DEF BindOpening, PendPlaces
        <4>4. w \notin PendPlaces
          BY <4>1 DEF PendPlaces
        <4> QED
          BY <4>2, <4>3, <4>4 DEF Moved
      <3>2. PendedSendCount' = PendedSendCount
        BY <2>2 DEF BindOpening
      <3>3. PendedSendCount' > 0 => BindingHandle'
        BY <2>2, <1>0, <3>2 DEF BindOpening, PendsExact, Handles
      <3> QED
        BY <3>1, <3>2, <3>3 DEF PendsExact
    <2>3. CASE BindOpens
      <3>1. Count(PendPlaces)' = Count(PendPlaces)
        <4>1. PICK w \in {"query", "failed"} : Goto("bind", w)
          BY <2>3 DEF BindOpens, Goto
        <4>2. Moved(Count(PendPlaces), Count(PendPlaces)', PendPlaces, pc["bind"], w)
          BY <4>1, Move, ThreadKinds
        <4>3. pc["bind"] \notin PendPlaces
          BY <2>3 DEF BindOpens, PendPlaces
        <4>4. w \notin PendPlaces
          BY <4>1 DEF PendPlaces
        <4> QED
          BY <4>2, <4>3, <4>4 DEF Moved
      <3>2. PendedSendCount' = PendedSendCount
        BY <2>3 DEF BindOpens
      <3>3. PendedSendCount' > 0 => BindingHandle'
        BY <2>3, <1>0, <3>2 DEF BindOpens, PendsExact, Handles
      <3> QED
        BY <3>1, <3>2, <3>3 DEF PendsExact
    <2>4. CASE BindQueries
      <3>1. Count(PendPlaces)' = Count(PendPlaces)
        <4>1. PICK w \in {"activate", "failed"} : Goto("bind", w)
          BY <2>4 DEF BindQueries, Goto
        <4>2. Moved(Count(PendPlaces), Count(PendPlaces)', PendPlaces, pc["bind"], w)
          BY <4>1, Move, ThreadKinds
        <4>3. pc["bind"] \notin PendPlaces
          BY <2>4 DEF BindQueries, PendPlaces
        <4>4. w \notin PendPlaces
          BY <4>1 DEF PendPlaces
        <4> QED
          BY <4>2, <4>3, <4>4 DEF Moved
      <3>2. PendedSendCount' = PendedSendCount
        BY <2>4 DEF BindQueries
      <3>3. PendedSendCount' > 0 => BindingHandle'
        BY <2>4, <1>0, <3>2 DEF BindQueries, PendsExact, Handles
      <3> QED
        BY <3>1, <3>2, <3>3 DEF PendsExact
    <2>5. CASE BindActivates
      <3>1. Count(PendPlaces)' = Count(PendPlaces)
        <4>1. PICK w \in {"failed", "done"} : Goto("bind", w)
          BY <2>5 DEF BindActivates, Goto
        <4>2. Moved(Count(PendPlaces), Count(PendPlaces)', PendPlaces, pc["bind"], w)
          BY <4>1, Move, ThreadKinds
        <4>3. pc["bind"] \notin PendPlaces
          BY <2>5 DEF BindActivates, PendPlaces
        <4>4. w \notin PendPlaces
          BY <4>1 DEF PendPlaces
        <4> QED
          BY <4>2, <4>3, <4>4 DEF Moved
      <3>2. PendedSendCount' = PendedSendCount
        BY <2>5 DEF BindActivates
      <3>3. PendedSendCount' > 0 => BindingHandle'
        BY <2>5, <1>0, <3>2 DEF BindActivates, PendsExact, Handles
      <3> QED
        BY <3>1, <3>2, <3>3 DEF PendsExact
    <2>6. CASE BindFails
      <3>1. Count(PendPlaces)' = Count(PendPlaces)
        <4>1. Goto("bind", "shutdown")
          BY <2>6 DEF BindFails
        <4>2. Moved(Count(PendPlaces), Count(PendPlaces)', PendPlaces, pc["bind"], "shutdown")
          BY <4>1, Move, ThreadKinds
        <4>3. pc["bind"] \notin PendPlaces
          BY <2>6 DEF BindFails, PendPlaces
        <4>4. "shutdown" \notin PendPlaces
          BY DEF PendPlaces
        <4> QED
          BY <4>2, <4>3, <4>4 DEF Moved
      <3>2. PendedSendCount' = PendedSendCount
        BY <2>6 DEF BindFails
      <3>3. PendedSendCount' > 0 => BindingHandle'
        BY <2>6, <1>0, <3>2 DEF BindFails, PendsExact, Handles
      <3> QED
        BY <3>1, <3>2, <3>3 DEF PendsExact
    <2>7. CASE UnbindAdapter
      <3>1. Count(PendPlaces)' = Count(PendPlaces)
        <4>1. Goto("unbind", "shutdown")
          BY <2>7 DEF UnbindAdapter
        <4>2. Moved(Count(PendPlaces), Count(PendPlaces)', PendPlaces, pc["unbind"], "shutdown")
          BY <4>1, Move, ThreadKinds
        <4>3. pc["unbind"] \notin PendPlaces
          BY <2>7 DEF UnbindAdapter, PendPlaces
        <4>4. "shutdown" \notin PendPlaces
          BY DEF PendPlaces
        <4> QED
          BY <4>2, <4>3, <4>4 DEF Moved
      <3>2. PendedSendCount' = PendedSendCount
        BY <2>7 DEF UnbindAdapter
      <3>3. PendedSendCount' > 0 => BindingHandle'
        BY <2>7, <1>0, <3>2 DEF UnbindAdapter, PendsExact, Handles
      <3> QED
        BY <3>1, <3>2, <3>3 DEF PendsExact
    <2> QED
      BY <1>1, <2>1, <2>2, <2>3, <2>4, <2>5, <2>6, <2>7 DEF Binding
  <1>2. ASSUME NEW t \in Binders, Shutdown(t) PROVE PendsExact'
    <2> t \in Threads
      BY DEF Threads
    <2>1. CASE ShutdownBegins(t)
      <3>1. Count(PendPlaces)' = Count(PendPlaces)
        <4>1. PICK w \in {"done", "filter", "remove"} : Goto(t, w)
          BY <2>1 DEF ShutdownBegins, Goto
        <4>2. Moved(Count(PendPlaces), Count(PendPlaces)', PendPlaces, pc[t], w)
          BY <4>1, Move, ThreadKinds
        <4>3. pc[t] \notin PendPlaces
          BY <2>1 DEF ShutdownBegins, PendPlaces
        <4>4. w \notin PendPlaces
          BY <4>1 DEF PendPlaces
        <4> QED
          BY <4>2, <4>3, <4>4 DEF Moved
      <3>2. PendedSendCount' = PendedSendCount
        BY <2>1 DEF ShutdownBegins
      <3>3. PendedSendCount' > 0 => BindingHandle'
        BY <2>1, <1>0, <3>2 DEF ShutdownBegins, PendsExact, Handles
      <3> QED
        BY <3>1, <3>2, <3>3 DEF PendsExact
    <2>2. CASE ShutdownFilters(t)
      <3>1. Count(PendPlaces)' = Count(PendPlaces)
        <4>1. Goto(t, "status")
          BY <2>2 DEF ShutdownFilters
        <4>2. Moved(Count(PendPlaces), Count(PendPlaces)', PendPlaces, pc[t], "status")
          BY <4>1, Move, ThreadKinds
        <4>3. pc[t] \notin PendPlaces
          BY <2>2 DEF ShutdownFilters, PendPlaces
        <4>4. "status" \notin PendPlaces
          BY DEF PendPlaces
        <4> QED
          BY <4>2, <4>3, <4>4 DEF Moved
      <3>2. PendedSendCount' = PendedSendCount
        BY <2>2 DEF ShutdownFilters
      <3>3. PendedSendCount' > 0 => BindingHandle'
        BY <2>2, <1>0, <3>2 DEF ShutdownFilters, PendsExact, Handles
      <3> QED
        BY <3>1, <3>2, <3>3 DEF PendsExact
    <2>3. CASE ShutdownServices(t)
      <3>1. Count(PendPlaces)' = Count(PendPlaces)
        <4>1. {"out", "pended", "status", "wait", "service", "cleaned"} \cap PendPlaces = {}
          BY DEF PendPlaces
        <4> QED
          BY <4>1, <2>3, ServedStay
      <3> QED
        BY <2>3, <3>1 DEF ShutdownServices, PendsExact
    <2>4. CASE ShutdownCloses(t)
      <3>1. Count(PendPlaces)' = Count(PendPlaces)
        <4>1. Goto(t, "idle")
          BY <2>4 DEF ShutdownCloses
        <4>2. Moved(Count(PendPlaces), Count(PendPlaces)', PendPlaces, pc[t], "idle")
          BY <4>1, Move, ThreadKinds
        <4>3. pc[t] \notin PendPlaces
          BY <2>4 DEF ShutdownCloses, PendPlaces
        <4>4. "idle" \notin PendPlaces
          BY DEF PendPlaces
        <4> QED
          BY <4>2, <4>3, <4>4 DEF Moved
      <3>2. PendedSendCount' = PendedSendCount
        BY <2>4 DEF ShutdownCloses
      <3>3. PendedSendCount' > 0 => BindingHandle'
        BY <2>4, <1>0, <3>2 DEF ShutdownCloses, PendsExact, Handles, NothingPended
      <3> QED
        BY <3>1, <3>2, <3>3 DEF PendsExact
    <2>5. CASE ShutdownIdles(t)
      <3>1. Count(PendPlaces)' = Count(PendPlaces)
        <4>1. Goto(t, "remove")
          BY <2>5 DEF ShutdownIdles
        <4>2. Moved(Count(PendPlaces), Count(PendPlaces)', PendPlaces, pc[t], "remove")
          BY <4>1, Move, ThreadKinds
        <4>3. pc[t] \notin PendPlaces
          BY <2>5 DEF ShutdownIdles, PendPlaces
        <4>4. "remove" \notin PendPlaces
          BY DEF PendPlaces
        <4> QED
          BY <4>2, <4>3, <4>4 DEF Moved
      <3>2. PendedSendCount' = PendedSendCount
        BY <2>5 DEF ShutdownIdles
      <3>3. PendedSendCount' > 0 => BindingHandle'
        BY <2>5, <1>0, <3>2 DEF ShutdownIdles, PendsExact, Handles
      <3> QED
        BY <3>1, <3>2, <3>3 DEF PendsExact
    <2>6. CASE ShutdownRemoves(t)
      <3>1. Count(PendPlaces)' = Count(PendPlaces)
        <4>1. Goto(t, "free")
          BY <2>6 DEF ShutdownRemoves
        <4>2. Moved(Count(PendPlaces), Count(PendPlaces)', PendPlaces, pc[t], "free")
          BY <4>1, Move, ThreadKinds
        <4>3. pc[t] \notin PendPlaces
          BY <2>6 DEF ShutdownRemoves, PendPlaces
        <4>4. "free" \notin PendPlaces
          BY DEF PendPlaces
        <4> QED
          BY <4>2, <4>3, <4>4 DEF Moved
      <3>2. PendedSendCount' = PendedSendCount
        BY <2>6 DEF ShutdownRemoves
      <3>3. PendedSendCount' > 0 => BindingHandle'
        BY <2>6, <1>0, <3>2 DEF ShutdownRemoves, PendsExact, Handles
      <3> QED
        BY <3>1, <3>2, <3>3 DEF PendsExact
    <2>7. CASE ShutdownFrees(t)
      <3>1. Count(PendPlaces)' = Count(PendPlaces)
        <4>1. Goto(t, "done")
          BY <2>7 DEF ShutdownFrees
        <4>2. Moved(Count(PendPlaces), Count(PendPlaces)', PendPlaces, pc[t], "done")
          BY <4>1, Move, ThreadKinds
        <4>3. pc[t] \notin PendPlaces
          BY <2>7 DEF ShutdownFrees, PendPlaces
        <4>4. "done" \notin PendPlaces
          BY DEF PendPlaces
        <4> QED
          BY <4>2, <4>3, <4>4 DEF Moved
      <3>2. PendedSendCount' = PendedSendCount
        BY <2>7 DEF ShutdownFrees
      <3>3. PendedSendCount' > 0 => BindingHandle'
        BY <2>7, <1>0, <3>2 DEF ShutdownFrees, PendsExact, Handles
      <3> QED
        BY <3>1, <3>2, <3>3 DEF PendsExact
    <2> QED
      BY <1>2, <2>1, <2>2, <2>3, <2>4, <2>5, <2>6, <2>7 DEF Shutdown
  <1>3. ASSUME NEW i \in Irps, NEW f \in Files, OpenLooksUp(i, f) \/ UseBegins(i, f) PROVE PendsExact'
    <2> i \in Threads
      BY ThreadKinds
    <2>1. CASE OpenLooksUp(i, f)
      <3>1. Count(PendPlaces)' = Count(PendPlaces)
        <4>1. Goto(i, "associate")
          BY <2>1 DEF OpenLooksUp
        <4>2. Moved(Count(PendPlaces), Count(PendPlaces)', PendPlaces, pc[i], "associate")
          BY <4>1, Move, ThreadKinds
        <4>3. pc[i] \notin PendPlaces
          BY <2>1 DEF OpenLooksUp, PendPlaces
        <4>4. "associate" \notin PendPlaces
          BY DEF PendPlaces
        <4> QED
          BY <4>2, <4>3, <4>4 DEF Moved
      <3>2. PendedSendCount' = PendedSendCount
        BY <2>1 DEF OpenLooksUp
      <3>3. PendedSendCount' > 0 => BindingHandle'
        BY <2>1, <1>0, <3>2 DEF OpenLooksUp, PendsExact, Handles
      <3> QED
        BY <3>1, <3>2, <3>3 DEF PendsExact
    <2>2. CASE UseBegins(i, f)
      <3>1. Count(PendPlaces)' = Count(PendPlaces)
        <4>1. PICK w \in {"oid", "write", "indicate"} : Goto(i, w)
          BY <2>2 DEF UseBegins, Goto
        <4>2. Moved(Count(PendPlaces), Count(PendPlaces)', PendPlaces, pc[i], w)
          BY <4>1, Move, ThreadKinds
        <4>3. pc[i] \notin PendPlaces
          BY <2>2 DEF UseBegins, PendPlaces
        <4>4. w \notin PendPlaces
          BY <4>1 DEF PendPlaces
        <4> QED
          BY <4>2, <4>3, <4>4 DEF Moved
      <3>2. PendedSendCount' = PendedSendCount
        BY <2>2 DEF UseBegins
      <3>3. PendedSendCount' > 0 => BindingHandle'
        BY <2>2, <1>0, <3>2 DEF UseBegins, PendsExact, Handles
      <3> QED
        BY <3>1, <3>2, <3>3 DEF PendsExact
    <2> QED
      BY <1>3, <2>1, <2>2
  <1>4. ASSUME NEW t \in Irps \cup Files, Validating(t) PROVE PendsExact'
    <2> t \in Threads
      BY DEF Threads
    <2>1. CASE ValidateFails(t)
      <3>1. Count(PendPlaces)' = Count(PendPlaces)
        <4>1. PICK w \in {"undo", "service"} : Goto(t, w)
          BY <2>1 DEF ValidateFails, Goto
        <4>2. Moved(Count(PendPlaces), Count(PendPlaces)', PendPlaces, pc[t], w)
          BY <4>1, Move, ThreadKinds
        <4>3. pc[t] \notin PendPlaces
          BY <2>1 DEF ValidateFails, PendPlaces
        <4>4. w \notin PendPlaces
          BY <4>1 DEF PendPlaces
        <4> QED
          BY <4>2, <4>3, <4>4 DEF Moved
      <3>2. PendedSendCount' = PendedSendCount
        BY <2>1 DEF ValidateFails
      <3>3. PendedSendCount' > 0 => BindingHandle'
        BY <2>1, <1>0, <3>2 DEF ValidateFails, PendsExact, Handles
      <3> QED
        BY <3>1, <3>2, <3>3 DEF PendsExact
    <2>2. CASE Validates(t)
      <3>1. Count(PendPlaces)' = Count(PendPlaces) + 1
        <4>1. Goto(t, "request")
          BY <2>2 DEF Validates
        <4>2. Moved(Count(PendPlaces), Count(PendPlaces)', PendPlaces, pc[t], "request")
          BY <4>1, Move, ThreadKinds
        <4>3. pc[t] \notin PendPlaces
          BY <2>2 DEF Validates, PendPlaces
        <4>4. "request" \in PendPlaces
          BY DEF PendPlaces
        <4> QED
          BY <4>2, <4>3, <4>4 DEF Moved
      <3>2. PendedSendCount' = PendedSendCount + 1
        BY <2>2 DEF Validates
      <3>3. PendedSendCount' > 0 => BindingHandle'
        BY <2>2, <1>0, <3>2 DEF Validates, PendsExact, Handles
      <3> QED
        BY <3>1, <3>2, <3>3 DEF PendsExact
    <2>3. CASE Requests(t)
      <3>1. Count(PendPlaces)' = Count(PendPlaces) - 1
        <4>1. PICK w \in {"out", "undo", "service"} : Goto(t, w)
          BY <2>3 DEF Requests, Goto
        <4>2. Moved(Count(PendPlaces), Count(PendPlaces)', PendPlaces, pc[t], w)
          BY <4>1, Move, ThreadKinds
        <4>3. pc[t] \in PendPlaces
          BY <2>3 DEF Requests, PendPlaces
        <4>4. w \notin PendPlaces
          BY <4>1 DEF PendPlaces
        <4> QED
          BY <4>2, <4>3, <4>4 DEF Moved
      <3>2. PendedSendCount' = PendedSendCount - 1
        BY <2>3 DEF Requests
      <3>3. PendedSendCount' > 0 => BindingHandle'
        BY <2>3, <1>0, <3>2 DEF Requests, PendsExact, Handles
      <3> QED
        BY <3>1, <3>2, <3>3 DEF PendsExact
    <2> QED
      BY <1>4, <2>1, <2>2, <2>3 DEF Validating
  <1>5. ASSUME NEW i \in Irps, OpenGoesOn(i) PROVE PendsExact'
    <2> i \in Threads
      BY ThreadKinds
    <2>1. CASE OpenRefused(i)
      <3>1. Count(PendPlaces)' = Count(PendPlaces)
        <4>1. Goto(i, "out")
          BY <2>1 DEF OpenRefused
        <4>2. Moved(Count(PendPlaces), Count(PendPlaces)', PendPlaces, pc[i], "out")
          BY <4>1, Move, ThreadKinds
        <4>3. pc[i] \notin PendPlaces
          BY <2>1 DEF OpenRefused, PendPlaces
        <4>4. "out" \notin PendPlaces
          BY DEF PendPlaces
        <4> QED
          BY <4>2, <4>3, <4>4 DEF Moved
      <3>2. PendedSendCount' = PendedSendCount
        BY <2>1 DEF OpenRefused
      <3>3. PendedSendCount' > 0 => BindingHandle'
        BY <2>1, <1>0, <3>2 DEF OpenRefused, PendsExact, Handles
      <3> QED
        BY <3>1, <3>2, <3>3 DEF PendsExact
    <2>2. CASE OpenAssociates(i)
      <3>1. Count(PendPlaces)' = Count(PendPlaces)
        <4>1. Goto(i, "validate")
          BY <2>2 DEF OpenAssociates
        <4>2. Moved(Count(PendPlaces), Count(PendPlaces)', PendPlaces, pc[i], "validate")
          BY <4>1, Move, ThreadKinds
        <4>3. pc[i] \notin PendPlaces
          BY <2>2 DEF OpenAssociates, PendPlaces
        <4>4. "validate" \notin PendPlaces
          BY DEF PendPlaces
        <4> QED
          BY <4>2, <4>3, <4>4 DEF Moved
      <3>2. PendedSendCount' = PendedSendCount
        BY <2>2 DEF OpenAssociates
      <3>3. PendedSendCount' > 0 => BindingHandle'
        BY <2>2, <1>0, <3>2 DEF OpenAssociates, PendsExact, Handles
      <3> QED
        BY <3>1, <3>2, <3>3 DEF PendsExact
    <2>3. CASE OpenUndone(i)
      <3>1. Count(PendPlaces)' = Count(PendPlaces)
        <4>1. Goto(i, "out")
          BY <2>3 DEF OpenUndone
        <4>2. Moved(Count(PendPlaces), Count(PendPlaces)', PendPlaces, pc[i], "out")
          BY <4>1, Move, ThreadKinds
        <4>3. pc[i] \notin PendPlaces
          BY <2>3 DEF OpenUndone, PendPlaces
        <4>4. "out" \notin PendPlaces
          BY DEF PendPlaces
        <4> QED
          BY <4>2, <4>3, <4>4 DEF Moved
      <3>2. PendedSendCount' = PendedSendCount
        BY <2>3 DEF OpenUndone
      <3>3. PendedSendCount' > 0 => BindingHandle'
        BY <2>3, <1>0, <3>2 DEF OpenUndone, PendsExact, Handles
      <3> QED
        BY <3>1, <3>2, <3>3 DEF PendsExact
    <2> QED
      BY <1>5, <2>1, <2>2, <2>3 DEF OpenGoesOn
  <1>6. ASSUME NEW i \in Irps, UseGoesOn(i) \/ StatusCancelCalled(i) PROVE PendsExact'
    <2> i \in Threads
      BY ThreadKinds
    <2>1. CASE UseRefused(i)
      <3>1. Count(PendPlaces)' = Count(PendPlaces)
        <4>1. Goto(i, "out")
          BY <2>1 DEF UseRefused
        <4>2. Moved(Count(PendPlaces), Count(PendPlaces)', PendPlaces, pc[i], "out")
          BY <4>1, Move, ThreadKinds
        <4>3. pc[i] \notin PendPlaces
          BY <2>1 DEF UseRefused, PendPlaces
        <4>4. "out" \notin PendPlaces
          BY DEF PendPlaces
        <4> QED
          BY <4>2, <4>3, <4>4 DEF Moved
      <3>2. PendedSendCount' = PendedSendCount
        BY <2>1 DEF UseRefused
      <3>3. PendedSendCount' > 0 => BindingHandle'
        BY <2>1, <1>0, <3>2 DEF UseRefused, PendsExact, Handles
      <3> QED
        BY <3>1, <3>2, <3>3 DEF PendsExact
    <2>2. CASE OidValidates(i)
      <3>1. Count(PendPlaces)' = Count(PendPlaces) + 1
        <4>1. Goto(i, "oid_request")
          BY <2>2 DEF OidValidates
        <4>2. Moved(Count(PendPlaces), Count(PendPlaces)', PendPlaces, pc[i], "oid_request")
          BY <4>1, Move, ThreadKinds
        <4>3. pc[i] \notin PendPlaces
          BY <2>2 DEF OidValidates, PendPlaces
        <4>4. "oid_request" \in PendPlaces
          BY DEF PendPlaces
        <4> QED
          BY <4>2, <4>3, <4>4 DEF Moved
      <3>2. PendedSendCount' = PendedSendCount + 1
        BY <2>2 DEF OidValidates
      <3>3. PendedSendCount' > 0 => BindingHandle'
        BY <2>2, <1>0, <3>2 DEF OidValidates, PendsExact, Handles
      <3> QED
        BY <3>1, <3>2, <3>3 DEF PendsExact
    <2>3. CASE OidRequests(i)
      <3>1. Count(PendPlaces)' = Count(PendPlaces) - 1
        <4>1. Goto(i, "out")
          BY <2>3 DEF OidRequests
        <4>2. Moved(Count(PendPlaces), Count(PendPlaces)', PendPlaces, pc[i], "out")
          BY <4>1, Move, ThreadKinds
        <4>3. pc[i] \in PendPlaces
          BY <2>3 DEF OidRequests, PendPlaces
        <4>4. "out" \notin PendPlaces
          BY DEF PendPlaces
        <4> QED
          BY <4>2, <4>3, <4>4 DEF Moved
      <3>2. PendedSendCount' = PendedSendCount - 1
        BY <2>3 DEF OidRequests
      <3>3. PendedSendCount' > 0 => BindingHandle'
        BY <2>3, <1>0, <3>2 DEF OidRequests, PendsExact, Handles
      <3> QED
        BY <3>1, <3>2, <3>3 DEF PendsExact
    <2>4. CASE WriteCounts(i)
      <3>1. Count(PendPlaces)' = Count(PendPlaces) + 1
        <4>1. Goto(i, "send")
          BY <2>4 DEF WriteCounts
        <4>2. Moved(Count(PendPlaces), Count(PendPlaces)', PendPlaces, pc[i], "send")
          BY <4>1, Move, ThreadKinds
        <4>3. pc[i] \notin PendPlaces
          BY <2>4 DEF WriteCounts, PendPlaces
        <4>4. "send" \in PendPlaces
          BY DEF PendPlaces
        <4> QED
          BY <4>2, <4>3, <4>4 DEF Moved
      <3>2. PendedSendCount' = PendedSendCount + 1
        BY <2>4 DEF WriteCounts
      <3>3. PendedSendCount' > 0 => BindingHandle'
        BY <2>4, <1>0, <3>2 DEF WriteCounts, PendsExact, Handles
      <3> QED
        BY <3>1, <3>2, <3>3 DEF PendsExact
    <2>5. CASE SendCompletes(i)
      <3>1. Count(PendPlaces)' = Count(PendPlaces)
        <4>1. Goto(i, "sent")
          BY <2>5 DEF SendCompletes
        <4>2. Moved(Count(PendPlaces), Count(PendPlaces)', PendPlaces, pc[i], "sent")
          BY <4>1, Move, ThreadKinds
        <4>3. pc[i] \in PendPlaces
          BY <2>5 DEF SendCompletes, PendPlaces
        <4>4. "sent" \in PendPlaces
          BY DEF PendPlaces
        <4> QED
          BY <4>2, <4>3, <4>4 DEF Moved
      <3>2. PendedSendCount' = PendedSendCount
        BY <2>5 DEF SendCompletes
      <3>3. PendedSendCount' > 0 => BindingHandle'
        BY <2>5, <1>0, <3>2 DEF SendCompletes, PendsExact, Handles
      <3> QED
        BY <3>1, <3>2, <3>3 DEF PendsExact
    <2>6. CASE SendUncounts(i)
      <3>1. Count(PendPlaces)' = Count(PendPlaces) - 1
        <4>1. Goto(i, "uncounted")
          BY <2>6 DEF SendUncounts
        <4>2. Moved(Count(PendPlaces), Count(PendPlaces)', PendPlaces, pc[i], "uncounted")
          BY <4>1, Move, ThreadKinds
        <4>3. pc[i] \in PendPlaces
          BY <2>6 DEF SendUncounts, PendPlaces
        <4>4. "uncounted" \notin PendPlaces
          BY DEF PendPlaces
        <4> QED
          BY <4>2, <4>3, <4>4 DEF Moved
      <3>2. PendedSendCount' = PendedSendCount - 1
        BY <2>6 DEF SendUncounts
      <3>3. PendedSendCount' > 0 => BindingHandle'
        BY <2>6, <1>0, <3>2 DEF SendUncounts, PendsExact, Handles
      <3> QED
        BY <3>1, <3>2, <3>3 DEF PendsExact
    <2>7. CASE SendDerefs(i)
      <3>1. Count(PendPlaces)' = Count(PendPlaces)
        <4>1. Goto(i, "out")
          BY <2>7 DEF SendDerefs
        <4>2. Moved(Count(PendPlaces), Count(PendPlaces)', PendPlaces, pc[i], "out")
          BY <4>1, Move, ThreadKinds
        <4>3. pc[i] \notin PendPlaces
          BY <2>7 DEF SendDerefs, PendPlaces
        <4>4. "out" \notin PendPlaces
          BY DEF PendPlaces
        <4> QED
          BY <4>2, <4>3, <4>4 DEF Moved
      <3>2. PendedSendCount' = PendedSendCount
        BY <2>7 DEF SendDerefs
      <3>3. PendedSendCount' > 0 => BindingHandle'
        BY <2>7, <1>0, <3>2 DEF SendDerefs, PendsExact, Handles
      <3> QED
        BY <3>1, <3>2, <3>3 DEF PendsExact
    <2>8. CASE StatusQueues(i)
      <3>1. Count(PendPlaces)' = Count(PendPlaces)
        <4>1. PICK w \in {"out", "pended"} : Goto(i, w)
          BY <2>8 DEF StatusQueues, Goto
        <4>2. Moved(Count(PendPlaces), Count(PendPlaces)', PendPlaces, pc[i], w)
          BY <4>1, Move, ThreadKinds
        <4>3. pc[i] \notin PendPlaces
          BY <2>8 DEF StatusQueues, PendPlaces
        <4>4. w \notin PendPlaces
          BY <4>1 DEF PendPlaces
        <4> QED
          BY <4>2, <4>3, <4>4 DEF Moved
      <3>2. PendedSendCount' = PendedSendCount
        BY <2>8 DEF StatusQueues
      <3>3. PendedSendCount' > 0 => BindingHandle'
        BY <2>8, <1>0, <3>2 DEF StatusQueues, PendsExact, Handles
      <3> QED
        BY <3>1, <3>2, <3>3 DEF PendsExact
    <2>9. CASE StatusCancelled(i)
      <3>1. Count(PendPlaces)' = Count(PendPlaces)
        <4>1. Goto(i, "out")
          BY <2>9 DEF StatusCancelled
        <4>2. Moved(Count(PendPlaces), Count(PendPlaces)', PendPlaces, pc[i], "out")
          BY <4>1, Move, ThreadKinds
        <4>3. pc[i] \notin PendPlaces
          BY <2>9 DEF StatusCancelled, PendPlaces
        <4>4. "out" \notin PendPlaces
          BY DEF PendPlaces
        <4> QED
          BY <4>2, <4>3, <4>4 DEF Moved
      <3>2. PendedSendCount' = PendedSendCount
        BY <2>9 DEF StatusCancelled
      <3>3. PendedSendCount' > 0 => BindingHandle'
        BY <2>9, <1>0, <3>2 DEF StatusCancelled, PendsExact, Handles
      <3> QED
        BY <3>1, <3>2, <3>3 DEF PendsExact
    <2>10. CASE StatusCancelCalled(i)
      <3>1. Count(PendPlaces)' = Count(PendPlaces)
        <4>1. Goto(i, "cancel")
          BY <2>10 DEF StatusCancelCalled
        <4>2. Moved(Count(PendPlaces), Count(PendPlaces)', PendPlaces, pc[i], "cancel")
          BY <4>1, Move, ThreadKinds
        <4>3. pc[i] \notin PendPlaces
          BY <2>10 DEF StatusCancelCalled, PendPlaces
        <4>4. "cancel" \notin PendPlaces
          BY DEF PendPlaces
        <4> QED
          BY <4>2, <4>3, <4>4 DEF Moved
      <3>2. PendedSendCount' = PendedSendCount
        BY <2>10 DEF StatusCancelCalled
      <3>3. PendedSendCount' > 0 => BindingHandle'
        BY <2>10, <1>0, <3>2 DEF StatusCancelCalled, PendsExact, Handles
      <3> QED
        BY <3>1, <3>2, <3>3 DEF PendsExact
    <2> QED
      BY <1>6, <2>1, <2>2, <2>3, <2>4, <2>5, <2>6, <2>7, <2>8, <2>9, <2>10 DEF UseGoesOn
  <1>7. ASSUME NEW f \in Files, CleanupMarks(f) \/ CleanupGoesOn(f) PROVE PendsExact'
    <2> f \in Threads
      BY ThreadKinds
    <2>1. CASE CleanupMarks(f)
      <3>1. Count(PendPlaces)' = Count(PendPlaces)
        <4>1. PICK w \in {"validate", "cleaned"} : Goto(f, w)
          BY <2>1 DEF CleanupMarks, Goto
        <4>2. Moved(Count(PendPlaces), Count(PendPlaces)', PendPlaces, pc[f], w)
          BY <4>1, Move, ThreadKinds
        <4>3. pc[f] \notin PendPlaces
          BY <2>1 DEF CleanupMarks, PendPlaces
        <4>4. w \notin PendPlaces
          BY <4>1 DEF PendPlaces
        <4> QED
          BY <4>2, <4>3, <4>4 DEF Moved
      <3>2. PendedSendCount' = PendedSendCount
        BY <2>1 DEF CleanupMarks
      <3>3. PendedSendCount' > 0 => BindingHandle'
        BY <2>1, <1>0, <3>2 DEF CleanupMarks, PendsExact, Handles
      <3> QED
        BY <3>1, <3>2, <3>3 DEF PendsExact
    <2>2. CASE CleanupServices(f)
      <3>1. Count(PendPlaces)' = Count(PendPlaces)
        <4>1. {"out", "pended", "status", "wait", "service", "cleaned"} \cap PendPlaces = {}
          BY DEF PendPlaces
        <4> QED
          BY <4>1, <2>2, ServedStay
      <3> QED
        BY <2>2, <3>1 DEF CleanupServices, PendsExact
    <2>3. CASE Close(f)
      <3>1. Count(PendPlaces)' = Count(PendPlaces)
        <4>1. Goto(f, "done")
          BY <2>3 DEF Close
        <4>2. Moved(Count(PendPlaces), Count(PendPlaces)', PendPlaces, pc[f], "done")
          BY <4>1, Move, ThreadKinds
        <4>3. pc[f] \notin PendPlaces
          BY <2>3 DEF Close, PendPlaces
        <4>4. "done" \notin PendPlaces
          BY DEF PendPlaces
        <4> QED
          BY <4>2, <4>3, <4>4 DEF Moved
      <3>2. PendedSendCount' = PendedSendCount
        BY <2>3 DEF Close
      <3>3. PendedSendCount' > 0 => BindingHandle'
        BY <2>3, <1>0, <3>2 DEF Close, PendsExact, Handles
      <3> QED
        BY <3>1, <3>2, <3>3 DEF PendsExact
    <2> QED
      BY <1>7, <2>1, <2>2, <2>3 DEF CleanupGoesOn
  <1>8. CASE NdisProtStatus \/ Unload \/ Unloaded
    <2>1. CASE NdisProtStatus
      <3>1. Count(PendPlaces)' = Count(PendPlaces)
        <4>1. {"out", "pended", "status", "wait", "service", "cleaned"} \cap PendPlaces = {}
          BY DEF PendPlaces
        <4> QED
          BY <4>1, <2>1, ServedStay
      <3> QED
        BY <2>1, <3>1 DEF NdisProtStatus, PendsExact
    <2>2. CASE Unload
      BY <2>2 DEF Unload, PendsExact, Count
    <2>3. CASE Unloaded
      BY <2>3 DEF Unloaded, PendsExact, Count
    <2> QED
      BY <1>8, <2>1, <2>2, <2>3
  <1>9. CASE UNCHANGED vars
    BY <1>9 DEF vars, PendsExact, Count
  <1> QED
    BY <1>1, <1>2, <1>3, <1>4, <1>5, <1>6, <1>7, <1>8, <1>9 DEF Next

-----------------------------------------------------------------------------
(* The references.                                                         *)

\* A file object is opened or closed.
LEMMA OpenedMoves ==
  ASSUME TypeOK, NEW f \in Files, NEW b \in BOOLEAN, FsContext' = [FsContext EXCEPT ![f] = b]
  PROVE  Moved(Opened, Opened', {TRUE}, FsContext[f], b)
  <1>1. \A g \in Files : FsContext'[g] = IF g = f THEN b ELSE FsContext[g]
    BY DEF TypeOK
  <1>2. FsContext' \in [Files -> BOOLEAN] /\ FsContext \in [Files -> BOOLEAN]
    BY Zenon DEF TypeOK
  <1>3. IsFiniteSet(Files)
    BY BindAssumption
  <1>4. Moved(Cardinality(Where(FsContext, Files, {TRUE})), Cardinality(Where(FsContext', Files, {TRUE})),
              {TRUE}, FsContext[f], b)
    BY <1>1, <1>3, CountMove
  <1>5. \A F \in [Files -> BOOLEAN] : Where(F, Files, {TRUE}) = {g \in Files : F[g]}
    BY Zenon DEF Where
  <1>6. Where(FsContext, Files, {TRUE}) = {g \in Files : FsContext[g]} /\ Where(FsContext', Files, {TRUE}) = {g \in Files : FsContext'[g]}
    BY <1>2, <1>5, Zenon
  <1> QED
    BY <1>4, <1>6, Zenon DEF Opened

LEMMA FileOpened ==
  ASSUME TypeOK, NEW f \in Files, FsContext' = [FsContext EXCEPT ![f] = TRUE], ~FsContext[f]
  PROVE  Opened \in Nat /\ Opened' = Opened + 1
  <1>1. Moved(Opened, Opened', {TRUE}, FsContext[f], TRUE)
    BY OpenedMoves
  <1>2. FsContext[f] \notin {TRUE} /\ TRUE \in {TRUE}
    OBVIOUS
  <1> QED
    BY <1>1, <1>2 DEF Moved

LEMMA FileClosed ==
  ASSUME TypeOK, NEW f \in Files, FsContext' = [FsContext EXCEPT ![f] = FALSE]
  PROVE  /\ FsContext[f] => Opened' = Opened - 1
         /\ ~FsContext[f] => Opened' = Opened
  <1>1. Moved(Opened, Opened', {TRUE}, FsContext[f], FALSE)
    BY OpenedMoves
  <1>2. FALSE \notin {TRUE} /\ (~FsContext[f] => FsContext[f] \notin {TRUE})
    OBVIOUS
  <1>3. FsContext[f] => FsContext[f] \in {TRUE}
    BY Zenon DEF TypeOK
  <1> QED
    BY <1>1, <1>2, <1>3 DEF Moved

LEMMA OpenedType ==
  /\ Opened \in Nat
  /\ Opened = 0 => \A f \in Files : ~FsContext[f]
  <1> DEFINE O == {f \in Files : FsContext[f]}
  <1>1. IsFiniteSet(O)
    BY BindAssumption, FS_Subset
  <1>2. Cardinality(O) \in Nat /\ (Cardinality(O) = 0 <=> O = {})
    BY <1>1, FS_CardinalityType, FS_EmptySet
  <1>3. O = {} => \A f \in Files : ~FsContext[f]
    OBVIOUS
  <1> HIDE DEF O
  <1>4. Cardinality(O) \in Nat /\ (Cardinality(O) = 0 => \A f \in Files : ~FsContext[f])
    BY <1>2, <1>3
  <1> QED
    BY <1>4, Zenon DEF O, Opened

\* The binding's reference goes with its name and its pools.
LEMMA BoundIs ==
  ASSUME Places, Stages, Lists
  PROVE  Bound <=> At("bind", "create") \/ resources
  <1> USE DEF At
  <1>1. CASE resources
    <2>1. pc["bind"] # "out"
      BY <1>1 DEF Lists, Stages, Places, Taking, Closing
    <2> QED
      BY <1>1, <2>1 DEF Bound, Binders
  <1>2. CASE ~resources
    <2>1. pc["bind"] \in {"out", "create", "done"} /\ pc["unbind"] \in {"out", "done"}
      BY <1>2 DEF Lists
    <2> QED
      BY <1>2, <2>1 DEF Bound, Binders, Stages
  <1> QED
    BY <1>1, <1>2

LEMMA ReferencesAre ==
  ASSUME Places, Stages, Lists
  PROVE  ReferencesExact <=> References
  <1>1. BindRef = IF Bound THEN 1 ELSE 0
    BY BoundIs DEF BindRef
  <1> QED
    BY <1>1, Zenon DEF ReferencesExact, References, Opened, RefPlaces

LEMMA StepReferences ==
  ASSUME TypeOK, Places, Stages, Lists, Opens, References, Unbound, StatusIrpOwned, [Next]_vars
  PROVE  References'
  <1> USE DEF adapter, flags, files, status, counts, At
  <1>0. RefCount \in Nat /\ BindRef \in Nat /\ Opened \in Nat /\ Count(RefPlaces) \in Nat
    BY OpenedType, CountType DEF TypeOK, BindRef
  <1>1. CASE BindAdapter \/ Binding \/ UnbindAdapter
    <2>1. CASE BindAdapter
      <3>1. Count(RefPlaces)' = Count(RefPlaces)
        <4>1. Goto("bind", "create")
          BY <2>1 DEF BindAdapter
        <4>2. Moved(Count(RefPlaces), Count(RefPlaces)', RefPlaces, pc["bind"], "create")
          BY <4>1, Move, ThreadKinds
        <4>3. pc["bind"] \notin RefPlaces
          BY <2>1 DEF BindAdapter, RefPlaces
        <4>4. "create" \notin RefPlaces
          BY DEF RefPlaces
        <4> QED
          BY <4>2, <4>3, <4>4 DEF Moved
      <3>2. Opened' = Opened
        BY <2>1, Zenon DEF BindAdapter, Opened
      <3>3. BindRef = 0 /\ BindRef' = 1
        <4>1. ~(At("bind", "create") \/ resources) /\ (At("bind", "create") \/ resources)'
          BY <2>1, <1>0, ThreadKinds
             DEF BindAdapter, Goto, TypeOK, Stages, Places, Lists, Taking, Closing, Binders
        <4> QED
          BY <4>1, Zenon DEF BindRef
      <3>4. RefCount' = RefCount + 1
        BY <2>1 DEF BindAdapter, Unbound
      <3> QED
        BY <1>0, <3>1, <3>2, <3>3, <3>4 DEF References
    <2>2. CASE BindOpening
      <3>1. Count(RefPlaces)' = Count(RefPlaces)
        <4>1. PICK w \in {"open", "failed"} : Goto("bind", w)
          BY <2>2 DEF BindOpening, Goto
        <4>2. Moved(Count(RefPlaces), Count(RefPlaces)', RefPlaces, pc["bind"], w)
          BY <4>1, Move, ThreadKinds
        <4>3. pc["bind"] \notin RefPlaces
          BY <2>2 DEF BindOpening, RefPlaces
        <4>4. w \notin RefPlaces
          BY <4>1 DEF RefPlaces
        <4> QED
          BY <4>2, <4>3, <4>4 DEF Moved
      <3>2. Opened' = Opened
        BY <2>2, Zenon DEF BindOpening, Opened
      <3>3. BindRef' = BindRef
        <4>1. (At("bind", "create") \/ resources) /\ (At("bind", "create") \/ resources)'
          BY <2>2, <1>0, ThreadKinds
             DEF BindOpening, Goto, TypeOK, Stages, Places, Lists, Taking, Closing, Binders
        <4> QED
          BY <4>1, Zenon DEF BindRef
      <3>4. RefCount' = RefCount
        BY <2>2 DEF BindOpening
      <3> QED
        BY <1>0, <3>1, <3>2, <3>3, <3>4 DEF References
    <2>3. CASE BindOpens
      <3>1. Count(RefPlaces)' = Count(RefPlaces)
        <4>1. PICK w \in {"query", "failed"} : Goto("bind", w)
          BY <2>3 DEF BindOpens, Goto
        <4>2. Moved(Count(RefPlaces), Count(RefPlaces)', RefPlaces, pc["bind"], w)
          BY <4>1, Move, ThreadKinds
        <4>3. pc["bind"] \notin RefPlaces
          BY <2>3 DEF BindOpens, RefPlaces
        <4>4. w \notin RefPlaces
          BY <4>1 DEF RefPlaces
        <4> QED
          BY <4>2, <4>3, <4>4 DEF Moved
      <3>2. Opened' = Opened
        BY <2>3, Zenon DEF BindOpens, Opened
      <3>3. BindRef' = BindRef
        <4>1. (pc'["bind"] = "create" <=> pc["bind"] = "create") /\ resources' = resources
          BY <2>3, ThreadKinds DEF BindOpens, Goto, TypeOK
        <4> QED
          BY <4>1, Zenon DEF BindRef
      <3>4. RefCount' = RefCount
        BY <2>3 DEF BindOpens
      <3> QED
        BY <1>0, <3>1, <3>2, <3>3, <3>4 DEF References
    <2>4. CASE BindQueries
      <3>1. Count(RefPlaces)' = Count(RefPlaces)
        <4>1. PICK w \in {"activate", "failed"} : Goto("bind", w)
          BY <2>4 DEF BindQueries, Goto
        <4>2. Moved(Count(RefPlaces), Count(RefPlaces)', RefPlaces, pc["bind"], w)
          BY <4>1, Move, ThreadKinds
        <4>3. pc["bind"] \notin RefPlaces
          BY <2>4 DEF BindQueries, RefPlaces
        <4>4. w \notin RefPlaces
          BY <4>1 DEF RefPlaces
        <4> QED
          BY <4>2, <4>3, <4>4 DEF Moved
      <3>2. Opened' = Opened
        BY <2>4, Zenon DEF BindQueries, Opened
      <3>3. BindRef' = BindRef
        <4>1. (pc'["bind"] = "create" <=> pc["bind"] = "create") /\ resources' = resources
          BY <2>4, ThreadKinds DEF BindQueries, Goto, TypeOK
        <4> QED
          BY <4>1, Zenon DEF BindRef
      <3>4. RefCount' = RefCount
        BY <2>4 DEF BindQueries
      <3> QED
        BY <1>0, <3>1, <3>2, <3>3, <3>4 DEF References
    <2>5. CASE BindActivates
      <3>1. Count(RefPlaces)' = Count(RefPlaces)
        <4>1. PICK w \in {"failed", "done"} : Goto("bind", w)
          BY <2>5 DEF BindActivates, Goto
        <4>2. Moved(Count(RefPlaces), Count(RefPlaces)', RefPlaces, pc["bind"], w)
          BY <4>1, Move, ThreadKinds
        <4>3. pc["bind"] \notin RefPlaces
          BY <2>5 DEF BindActivates, RefPlaces
        <4>4. w \notin RefPlaces
          BY <4>1 DEF RefPlaces
        <4> QED
          BY <4>2, <4>3, <4>4 DEF Moved
      <3>2. Opened' = Opened
        BY <2>5, Zenon DEF BindActivates, Opened
      <3>3. BindRef' = BindRef
        <4>1. (pc'["bind"] = "create" <=> pc["bind"] = "create") /\ resources' = resources
          BY <2>5, ThreadKinds DEF BindActivates, Goto, TypeOK
        <4> QED
          BY <4>1, Zenon DEF BindRef
      <3>4. RefCount' = RefCount
        BY <2>5 DEF BindActivates
      <3> QED
        BY <1>0, <3>1, <3>2, <3>3, <3>4 DEF References
    <2>6. CASE BindFails
      <3>1. Count(RefPlaces)' = Count(RefPlaces)
        <4>1. Goto("bind", "shutdown")
          BY <2>6 DEF BindFails
        <4>2. Moved(Count(RefPlaces), Count(RefPlaces)', RefPlaces, pc["bind"], "shutdown")
          BY <4>1, Move, ThreadKinds
        <4>3. pc["bind"] \notin RefPlaces
          BY <2>6 DEF BindFails, RefPlaces
        <4>4. "shutdown" \notin RefPlaces
          BY DEF RefPlaces
        <4> QED
          BY <4>2, <4>3, <4>4 DEF Moved
      <3>2. Opened' = Opened
        BY <2>6, Zenon DEF BindFails, Opened
      <3>3. BindRef' = BindRef
        <4>1. (pc'["bind"] = "create" <=> pc["bind"] = "create") /\ resources' = resources
          BY <2>6, ThreadKinds DEF BindFails, Goto, TypeOK
        <4> QED
          BY <4>1, Zenon DEF BindRef
      <3>4. RefCount' = RefCount
        BY <2>6 DEF BindFails
      <3> QED
        BY <1>0, <3>1, <3>2, <3>3, <3>4 DEF References
    <2>7. CASE UnbindAdapter
      <3>1. Count(RefPlaces)' = Count(RefPlaces)
        <4>1. Goto("unbind", "shutdown")
          BY <2>7 DEF UnbindAdapter
        <4>2. Moved(Count(RefPlaces), Count(RefPlaces)', RefPlaces, pc["unbind"], "shutdown")
          BY <4>1, Move, ThreadKinds
        <4>3. pc["unbind"] \notin RefPlaces
          BY <2>7 DEF UnbindAdapter, RefPlaces
        <4>4. "shutdown" \notin RefPlaces
          BY DEF RefPlaces
        <4> QED
          BY <4>2, <4>3, <4>4 DEF Moved
      <3>2. Opened' = Opened
        BY <2>7, Zenon DEF UnbindAdapter, Opened
      <3>3. BindRef' = BindRef
        <4>1. pc'["bind"] = pc["bind"] /\ resources' = resources
          BY <2>7, ThreadKinds DEF UnbindAdapter, Goto, TypeOK
        <4> QED
          BY <4>1, Zenon DEF BindRef
      <3>4. RefCount' = RefCount
        BY <2>7 DEF UnbindAdapter
      <3> QED
        BY <1>0, <3>1, <3>2, <3>3, <3>4 DEF References
    <2> QED
      BY <1>1, <2>1, <2>2, <2>3, <2>4, <2>5, <2>6, <2>7 DEF Binding
  <1>2. ASSUME NEW t \in Binders, Shutdown(t) PROVE References'
    <2> t \in Threads
      BY DEF Threads
    <2>1. CASE ShutdownBegins(t)
      <3>1. Count(RefPlaces)' = Count(RefPlaces)
        <4>1. PICK w \in {"done", "filter", "remove"} : Goto(t, w)
          BY <2>1 DEF ShutdownBegins, Goto
        <4>2. Moved(Count(RefPlaces), Count(RefPlaces)', RefPlaces, pc[t], w)
          BY <4>1, Move, ThreadKinds
        <4>3. pc[t] \notin RefPlaces
          BY <2>1 DEF ShutdownBegins, RefPlaces
        <4>4. w \notin RefPlaces
          BY <4>1 DEF RefPlaces
        <4> QED
          BY <4>2, <4>3, <4>4 DEF Moved
      <3>2. Opened' = Opened
        BY <2>1, Zenon DEF ShutdownBegins, Opened
      <3>3. BindRef' = BindRef
        <4>1. (pc'["bind"] = "create" <=> pc["bind"] = "create") /\ resources' = resources
          BY <2>1, ThreadKinds DEF ShutdownBegins, Goto, TypeOK
        <4> QED
          BY <4>1, Zenon DEF BindRef
      <3>4. RefCount' = RefCount
        BY <2>1 DEF ShutdownBegins
      <3> QED
        BY <1>0, <3>1, <3>2, <3>3, <3>4 DEF References
    <2>2. CASE ShutdownFilters(t)
      <3>1. Count(RefPlaces)' = Count(RefPlaces)
        <4>1. Goto(t, "status")
          BY <2>2 DEF ShutdownFilters
        <4>2. Moved(Count(RefPlaces), Count(RefPlaces)', RefPlaces, pc[t], "status")
          BY <4>1, Move, ThreadKinds
        <4>3. pc[t] \notin RefPlaces
          BY <2>2 DEF ShutdownFilters, RefPlaces
        <4>4. "status" \notin RefPlaces
          BY DEF RefPlaces
        <4> QED
          BY <4>2, <4>3, <4>4 DEF Moved
      <3>2. Opened' = Opened
        BY <2>2, Zenon DEF ShutdownFilters, Opened
      <3>3. BindRef' = BindRef
        <4>1. (pc'["bind"] = "create" <=> pc["bind"] = "create") /\ resources' = resources
          BY <2>2, ThreadKinds DEF ShutdownFilters, Goto, TypeOK
        <4> QED
          BY <4>1, Zenon DEF BindRef
      <3>4. RefCount' = RefCount
        BY <2>2 DEF ShutdownFilters
      <3> QED
        BY <1>0, <3>1, <3>2, <3>3, <3>4 DEF References
    <2>3. CASE ShutdownServices(t)
      <3>1. Count(RefPlaces)' = Count(RefPlaces)
        <4>1. {"out", "pended", "status", "wait", "service", "cleaned"} \cap RefPlaces = {}
          BY DEF RefPlaces
        <4> QED
          BY <4>1, <2>3, ServedStay
      <3>2. Opened' = Opened
        BY <2>3, Zenon DEF ShutdownServices, Opened
      <3>3. BindRef' = BindRef
        <4>1. pc'["bind"] = "create" <=> pc["bind"] = "create"
          <5>1. ASSUME NEW i \in Irps, Serves(i, [pc EXCEPT ![t] = "wait"]) PROVE pc'["bind"] = "create" <=> pc["bind"] = "create"
            BY <2>3, <5>1, TypeOK, ThreadKinds DEF ShutdownServices, Serves, TypeOK
          <5>2. CASE pc' = [pc EXCEPT ![t] = "wait"] /\ UNCHANGED status
            BY <2>3, <5>2, TypeOK, ThreadKinds DEF ShutdownServices, TypeOK
          <5> QED
            BY <2>3, <5>1, <5>2, Served DEF ShutdownServices
        <4> QED
          BY <2>3, <4>1, Zenon DEF ShutdownServices, BindRef
      <3> QED
        BY <2>3, <3>1, <3>2, <3>3 DEF ShutdownServices, References
    <2>4. CASE ShutdownCloses(t)
      <3>1. Count(RefPlaces)' = Count(RefPlaces)
        <4>1. Goto(t, "idle")
          BY <2>4 DEF ShutdownCloses
        <4>2. Moved(Count(RefPlaces), Count(RefPlaces)', RefPlaces, pc[t], "idle")
          BY <4>1, Move, ThreadKinds
        <4>3. pc[t] \notin RefPlaces
          BY <2>4 DEF ShutdownCloses, RefPlaces
        <4>4. "idle" \notin RefPlaces
          BY DEF RefPlaces
        <4> QED
          BY <4>2, <4>3, <4>4 DEF Moved
      <3>2. Opened' = Opened
        BY <2>4, Zenon DEF ShutdownCloses, Opened
      <3>3. BindRef' = BindRef
        <4>1. (pc'["bind"] = "create" <=> pc["bind"] = "create") /\ resources' = resources
          BY <2>4, ThreadKinds DEF ShutdownCloses, Goto, TypeOK
        <4> QED
          BY <4>1, Zenon DEF BindRef
      <3>4. RefCount' = RefCount
        BY <2>4 DEF ShutdownCloses
      <3> QED
        BY <1>0, <3>1, <3>2, <3>3, <3>4 DEF References
    <2>5. CASE ShutdownIdles(t)
      <3>1. Count(RefPlaces)' = Count(RefPlaces)
        <4>1. Goto(t, "remove")
          BY <2>5 DEF ShutdownIdles
        <4>2. Moved(Count(RefPlaces), Count(RefPlaces)', RefPlaces, pc[t], "remove")
          BY <4>1, Move, ThreadKinds
        <4>3. pc[t] \notin RefPlaces
          BY <2>5 DEF ShutdownIdles, RefPlaces
        <4>4. "remove" \notin RefPlaces
          BY DEF RefPlaces
        <4> QED
          BY <4>2, <4>3, <4>4 DEF Moved
      <3>2. Opened' = Opened
        BY <2>5, Zenon DEF ShutdownIdles, Opened
      <3>3. BindRef' = BindRef
        <4>1. (pc'["bind"] = "create" <=> pc["bind"] = "create") /\ resources' = resources
          BY <2>5, ThreadKinds DEF ShutdownIdles, Goto, TypeOK
        <4> QED
          BY <4>1, Zenon DEF BindRef
      <3>4. RefCount' = RefCount
        BY <2>5 DEF ShutdownIdles
      <3> QED
        BY <1>0, <3>1, <3>2, <3>3, <3>4 DEF References
    <2>6. CASE ShutdownRemoves(t)
      <3>1. Count(RefPlaces)' = Count(RefPlaces)
        <4>1. Goto(t, "free")
          BY <2>6 DEF ShutdownRemoves
        <4>2. Moved(Count(RefPlaces), Count(RefPlaces)', RefPlaces, pc[t], "free")
          BY <4>1, Move, ThreadKinds
        <4>3. pc[t] \notin RefPlaces
          BY <2>6 DEF ShutdownRemoves, RefPlaces
        <4>4. "free" \notin RefPlaces
          BY DEF RefPlaces
        <4> QED
          BY <4>2, <4>3, <4>4 DEF Moved
      <3>2. Opened' = Opened
        BY <2>6, Zenon DEF ShutdownRemoves, Opened
      <3>3. BindRef' = BindRef
        <4>1. (pc'["bind"] = "create" <=> pc["bind"] = "create") /\ resources' = resources
          BY <2>6, ThreadKinds DEF ShutdownRemoves, Goto, TypeOK
        <4> QED
          BY <4>1, Zenon DEF BindRef
      <3>4. RefCount' = RefCount
        BY <2>6 DEF ShutdownRemoves
      <3> QED
        BY <1>0, <3>1, <3>2, <3>3, <3>4 DEF References
    <2>7. CASE ShutdownFrees(t)
      <3>1. Count(RefPlaces)' = Count(RefPlaces)
        <4>1. Goto(t, "done")
          BY <2>7 DEF ShutdownFrees
        <4>2. Moved(Count(RefPlaces), Count(RefPlaces)', RefPlaces, pc[t], "done")
          BY <4>1, Move, ThreadKinds
        <4>3. pc[t] \notin RefPlaces
          BY <2>7 DEF ShutdownFrees, RefPlaces
        <4>4. "done" \notin RefPlaces
          BY DEF RefPlaces
        <4> QED
          BY <4>2, <4>3, <4>4 DEF Moved
      <3>2. Opened' = Opened
        BY <2>7, Zenon DEF ShutdownFrees, Opened
      <3>3. BindRef = 1 /\ BindRef' = 0
        <4>1. (At("bind", "create") \/ resources) /\ ~(At("bind", "create") \/ resources)'
          BY <2>7, <1>0, ThreadKinds
             DEF ShutdownFrees, Goto, TypeOK, Stages, Places, Lists, Taking, Closing, Binders
        <4> QED
          BY <4>1, Zenon DEF BindRef
      <3>4. RefCount' = RefCount - 1
        BY <2>7 DEF ShutdownFrees, ndisprotDerefOpen
      <3> QED
        BY <1>0, <3>1, <3>2, <3>3, <3>4 DEF References
    <2> QED
      BY <1>2, <2>1, <2>2, <2>3, <2>4, <2>5, <2>6, <2>7 DEF Shutdown
  <1>3. ASSUME NEW i \in Irps, NEW f \in Files, OpenLooksUp(i, f) \/ UseBegins(i, f) PROVE References'
    <2> i \in Threads
      BY ThreadKinds
    <2>1. CASE OpenLooksUp(i, f)
      <3>1. Count(RefPlaces)' = Count(RefPlaces) + 1
        <4>1. Goto(i, "associate")
          BY <2>1 DEF OpenLooksUp
        <4>2. Moved(Count(RefPlaces), Count(RefPlaces)', RefPlaces, pc[i], "associate")
          BY <4>1, Move, ThreadKinds
        <4>3. pc[i] \notin RefPlaces
          BY <2>1 DEF OpenLooksUp, RefPlaces
        <4>4. "associate" \in RefPlaces
          BY DEF RefPlaces
        <4> QED
          BY <4>2, <4>3, <4>4 DEF Moved
      <3>2. Opened' = Opened
        BY <2>1, Zenon DEF OpenLooksUp, Opened
      <3>3. BindRef' = BindRef
        <4>1. pc'["bind"] = pc["bind"] /\ resources' = resources
          BY <2>1, ThreadKinds DEF OpenLooksUp, Goto, TypeOK
        <4> QED
          BY <4>1, Zenon DEF BindRef
      <3>4. RefCount' = RefCount + 1
        BY <2>1 DEF OpenLooksUp, ndisprotRefOpen
      <3> QED
        BY <1>0, <3>1, <3>2, <3>3, <3>4 DEF References
    <2>2. CASE UseBegins(i, f)
      <3>1. Count(RefPlaces)' = Count(RefPlaces)
        <4>1. PICK w \in {"oid", "write", "indicate"} : Goto(i, w)
          BY <2>2 DEF UseBegins, Goto
        <4>2. Moved(Count(RefPlaces), Count(RefPlaces)', RefPlaces, pc[i], w)
          BY <4>1, Move, ThreadKinds
        <4>3. pc[i] \notin RefPlaces
          BY <2>2 DEF UseBegins, RefPlaces
        <4>4. w \notin RefPlaces
          BY <4>1 DEF RefPlaces
        <4> QED
          BY <4>2, <4>3, <4>4 DEF Moved
      <3>2. Opened' = Opened
        BY <2>2, Zenon DEF UseBegins, Opened
      <3>3. BindRef' = BindRef
        <4>1. pc'["bind"] = pc["bind"] /\ resources' = resources
          BY <2>2, ThreadKinds DEF UseBegins, Goto, TypeOK
        <4> QED
          BY <4>1, Zenon DEF BindRef
      <3>4. RefCount' = RefCount
        BY <2>2 DEF UseBegins
      <3> QED
        BY <1>0, <3>1, <3>2, <3>3, <3>4 DEF References
    <2> QED
      BY <1>3, <2>1, <2>2
  <1>4. ASSUME NEW t \in Irps \cup Files, Validating(t) PROVE References'
    <2> t \in Threads
      BY DEF Threads
    <2>1. CASE ValidateFails(t)
      <3>1. Count(RefPlaces)' = Count(RefPlaces)
        <4>1. PICK w \in {"undo", "service"} : Goto(t, w)
          BY <2>1 DEF ValidateFails, Goto
        <4>2. Moved(Count(RefPlaces), Count(RefPlaces)', RefPlaces, pc[t], w)
          BY <4>1, Move, ThreadKinds
        <4>3. pc[t] \notin RefPlaces
          BY <2>1 DEF ValidateFails, RefPlaces
        <4>4. w \notin RefPlaces
          BY <4>1 DEF RefPlaces
        <4> QED
          BY <4>2, <4>3, <4>4 DEF Moved
      <3>2. Opened' = Opened
        BY <2>1, Zenon DEF ValidateFails, Opened
      <3>3. BindRef' = BindRef
        <4>1. pc'["bind"] = pc["bind"] /\ resources' = resources
          BY <2>1, ThreadKinds DEF ValidateFails, Goto, TypeOK
        <4> QED
          BY <4>1, Zenon DEF BindRef
      <3>4. RefCount' = RefCount
        BY <2>1 DEF ValidateFails
      <3> QED
        BY <1>0, <3>1, <3>2, <3>3, <3>4 DEF References
    <2>2. CASE Validates(t)
      <3>1. Count(RefPlaces)' = Count(RefPlaces)
        <4>1. Goto(t, "request")
          BY <2>2 DEF Validates
        <4>2. Moved(Count(RefPlaces), Count(RefPlaces)', RefPlaces, pc[t], "request")
          BY <4>1, Move, ThreadKinds
        <4>3. pc[t] \notin RefPlaces
          BY <2>2 DEF Validates, RefPlaces
        <4>4. "request" \notin RefPlaces
          BY DEF RefPlaces
        <4> QED
          BY <4>2, <4>3, <4>4 DEF Moved
      <3>2. Opened' = Opened
        BY <2>2, Zenon DEF Validates, Opened
      <3>3. BindRef' = BindRef
        <4>1. pc'["bind"] = pc["bind"] /\ resources' = resources
          BY <2>2, ThreadKinds DEF Validates, Goto, TypeOK
        <4> QED
          BY <4>1, Zenon DEF BindRef
      <3>4. RefCount' = RefCount
        BY <2>2 DEF Validates
      <3> QED
        BY <1>0, <3>1, <3>2, <3>3, <3>4 DEF References
    <2>3. CASE Requests(t)
      <3>1. Count(RefPlaces)' = Count(RefPlaces)
        <4>1. PICK w \in {"out", "undo", "service"} : Goto(t, w)
          BY <2>3 DEF Requests, Goto
        <4>2. Moved(Count(RefPlaces), Count(RefPlaces)', RefPlaces, pc[t], w)
          BY <4>1, Move, ThreadKinds
        <4>3. pc[t] \notin RefPlaces
          BY <2>3 DEF Requests, RefPlaces
        <4>4. w \notin RefPlaces
          BY <4>1 DEF RefPlaces
        <4> QED
          BY <4>2, <4>3, <4>4 DEF Moved
      <3>2. Opened' = Opened
        BY <2>3, Zenon DEF Requests, Opened
      <3>3. BindRef' = BindRef
        <4>1. pc'["bind"] = pc["bind"] /\ resources' = resources
          BY <2>3, ThreadKinds DEF Requests, Goto, TypeOK
        <4> QED
          BY <4>1, Zenon DEF BindRef
      <3>4. RefCount' = RefCount
        BY <2>3 DEF Requests
      <3> QED
        BY <1>0, <3>1, <3>2, <3>3, <3>4 DEF References
    <2> QED
      BY <1>4, <2>1, <2>2, <2>3 DEF Validating
  <1>5. ASSUME NEW i \in Irps, OpenGoesOn(i) PROVE References'
    <2> i \in Threads
      BY ThreadKinds
    <2>1. CASE OpenRefused(i)
      <3>1. Count(RefPlaces)' = Count(RefPlaces) - 1
        <4>1. Goto(i, "out")
          BY <2>1 DEF OpenRefused
        <4>2. Moved(Count(RefPlaces), Count(RefPlaces)', RefPlaces, pc[i], "out")
          BY <4>1, Move, ThreadKinds
        <4>3. pc[i] \in RefPlaces
          BY <2>1 DEF OpenRefused, RefPlaces
        <4>4. "out" \notin RefPlaces
          BY DEF RefPlaces
        <4> QED
          BY <4>2, <4>3, <4>4 DEF Moved
      <3>2. Opened' = Opened
        BY <2>1, Zenon DEF OpenRefused, Opened
      <3>3. BindRef' = BindRef
        <4>1. pc'["bind"] = pc["bind"] /\ resources' = resources
          BY <2>1, ThreadKinds DEF OpenRefused, Goto, TypeOK
        <4> QED
          BY <4>1, Zenon DEF BindRef
      <3>4. RefCount' = RefCount - 1
        BY <2>1 DEF OpenRefused, ndisprotDerefOpen
      <3> QED
        BY <1>0, <3>1, <3>2, <3>3, <3>4 DEF References
    <2>2. CASE OpenAssociates(i)
      <3>1. Count(RefPlaces)' = Count(RefPlaces) - 1
        <4>1. Goto(i, "validate")
          BY <2>2 DEF OpenAssociates
        <4>2. Moved(Count(RefPlaces), Count(RefPlaces)', RefPlaces, pc[i], "validate")
          BY <4>1, Move, ThreadKinds
        <4>3. pc[i] \in RefPlaces
          BY <2>2 DEF OpenAssociates, RefPlaces
        <4>4. "validate" \notin RefPlaces
          BY DEF RefPlaces
        <4> QED
          BY <4>2, <4>3, <4>4 DEF Moved
      <3>2. Opened' = Opened + 1
        BY <2>2, FileOpened DEF OpenAssociates, Opens
      <3>3. BindRef' = BindRef
        <4>1. pc'["bind"] = pc["bind"] /\ resources' = resources
          BY <2>2, ThreadKinds DEF OpenAssociates, Goto, TypeOK
        <4> QED
          BY <4>1, Zenon DEF BindRef
      <3>4. RefCount' = RefCount
        BY <2>2 DEF OpenAssociates
      <3> QED
        BY <1>0, <3>1, <3>2, <3>3, <3>4 DEF References
    <2>3. CASE OpenUndone(i)
      <3>1. Count(RefPlaces)' = Count(RefPlaces)
        <4>1. Goto(i, "out")
          BY <2>3 DEF OpenUndone
        <4>2. Moved(Count(RefPlaces), Count(RefPlaces)', RefPlaces, pc[i], "out")
          BY <4>1, Move, ThreadKinds
        <4>3. pc[i] \notin RefPlaces
          BY <2>3 DEF OpenUndone, RefPlaces
        <4>4. "out" \notin RefPlaces
          BY DEF RefPlaces
        <4> QED
          BY <4>2, <4>3, <4>4 DEF Moved
      <3>2. Opened' = Opened - 1
        BY <2>3, FileClosed DEF OpenUndone, Opens, OpeningPlaces
      <3>3. BindRef' = BindRef
        <4>1. pc'["bind"] = pc["bind"] /\ resources' = resources
          BY <2>3, ThreadKinds DEF OpenUndone, Goto, TypeOK
        <4> QED
          BY <4>1, Zenon DEF BindRef
      <3>4. RefCount' = RefCount - 1
        BY <2>3 DEF OpenUndone, ndisprotDerefOpen
      <3> QED
        BY <1>0, <3>1, <3>2, <3>3, <3>4 DEF References
    <2> QED
      BY <1>5, <2>1, <2>2, <2>3 DEF OpenGoesOn
  <1>6. ASSUME NEW i \in Irps, UseGoesOn(i) \/ StatusCancelCalled(i) PROVE References'
    <2> i \in Threads
      BY ThreadKinds
    <2>1. CASE UseRefused(i)
      <3>1. Count(RefPlaces)' = Count(RefPlaces)
        <4>1. Goto(i, "out")
          BY <2>1 DEF UseRefused
        <4>2. Moved(Count(RefPlaces), Count(RefPlaces)', RefPlaces, pc[i], "out")
          BY <4>1, Move, ThreadKinds
        <4>3. pc[i] \notin RefPlaces
          BY <2>1 DEF UseRefused, RefPlaces
        <4>4. "out" \notin RefPlaces
          BY DEF RefPlaces
        <4> QED
          BY <4>2, <4>3, <4>4 DEF Moved
      <3>2. Opened' = Opened
        BY <2>1, Zenon DEF UseRefused, Opened
      <3>3. BindRef' = BindRef
        <4>1. pc'["bind"] = pc["bind"] /\ resources' = resources
          BY <2>1, ThreadKinds DEF UseRefused, Goto, TypeOK
        <4> QED
          BY <4>1, Zenon DEF BindRef
      <3>4. RefCount' = RefCount
        BY <2>1 DEF UseRefused
      <3> QED
        BY <1>0, <3>1, <3>2, <3>3, <3>4 DEF References
    <2>2. CASE OidValidates(i)
      <3>1. Count(RefPlaces)' = Count(RefPlaces)
        <4>1. Goto(i, "oid_request")
          BY <2>2 DEF OidValidates
        <4>2. Moved(Count(RefPlaces), Count(RefPlaces)', RefPlaces, pc[i], "oid_request")
          BY <4>1, Move, ThreadKinds
        <4>3. pc[i] \notin RefPlaces
          BY <2>2 DEF OidValidates, RefPlaces
        <4>4. "oid_request" \notin RefPlaces
          BY DEF RefPlaces
        <4> QED
          BY <4>2, <4>3, <4>4 DEF Moved
      <3>2. Opened' = Opened
        BY <2>2, Zenon DEF OidValidates, Opened
      <3>3. BindRef' = BindRef
        <4>1. pc'["bind"] = pc["bind"] /\ resources' = resources
          BY <2>2, ThreadKinds DEF OidValidates, Goto, TypeOK
        <4> QED
          BY <4>1, Zenon DEF BindRef
      <3>4. RefCount' = RefCount
        BY <2>2 DEF OidValidates
      <3> QED
        BY <1>0, <3>1, <3>2, <3>3, <3>4 DEF References
    <2>3. CASE OidRequests(i)
      <3>1. Count(RefPlaces)' = Count(RefPlaces)
        <4>1. Goto(i, "out")
          BY <2>3 DEF OidRequests
        <4>2. Moved(Count(RefPlaces), Count(RefPlaces)', RefPlaces, pc[i], "out")
          BY <4>1, Move, ThreadKinds
        <4>3. pc[i] \notin RefPlaces
          BY <2>3 DEF OidRequests, RefPlaces
        <4>4. "out" \notin RefPlaces
          BY DEF RefPlaces
        <4> QED
          BY <4>2, <4>3, <4>4 DEF Moved
      <3>2. Opened' = Opened
        BY <2>3, Zenon DEF OidRequests, Opened
      <3>3. BindRef' = BindRef
        <4>1. pc'["bind"] = pc["bind"] /\ resources' = resources
          BY <2>3, ThreadKinds DEF OidRequests, Goto, TypeOK
        <4> QED
          BY <4>1, Zenon DEF BindRef
      <3>4. RefCount' = RefCount
        BY <2>3 DEF OidRequests
      <3> QED
        BY <1>0, <3>1, <3>2, <3>3, <3>4 DEF References
    <2>4. CASE WriteCounts(i)
      <3>1. Count(RefPlaces)' = Count(RefPlaces) + 1
        <4>1. Goto(i, "send")
          BY <2>4 DEF WriteCounts
        <4>2. Moved(Count(RefPlaces), Count(RefPlaces)', RefPlaces, pc[i], "send")
          BY <4>1, Move, ThreadKinds
        <4>3. pc[i] \notin RefPlaces
          BY <2>4 DEF WriteCounts, RefPlaces
        <4>4. "send" \in RefPlaces
          BY DEF RefPlaces
        <4> QED
          BY <4>2, <4>3, <4>4 DEF Moved
      <3>2. Opened' = Opened
        BY <2>4, Zenon DEF WriteCounts, Opened
      <3>3. BindRef' = BindRef
        <4>1. pc'["bind"] = pc["bind"] /\ resources' = resources
          BY <2>4, ThreadKinds DEF WriteCounts, Goto, TypeOK
        <4> QED
          BY <4>1, Zenon DEF BindRef
      <3>4. RefCount' = RefCount + 1
        BY <2>4 DEF WriteCounts, ndisprotRefOpen
      <3> QED
        BY <1>0, <3>1, <3>2, <3>3, <3>4 DEF References
    <2>5. CASE SendCompletes(i)
      <3>1. Count(RefPlaces)' = Count(RefPlaces)
        <4>1. Goto(i, "sent")
          BY <2>5 DEF SendCompletes
        <4>2. Moved(Count(RefPlaces), Count(RefPlaces)', RefPlaces, pc[i], "sent")
          BY <4>1, Move, ThreadKinds
        <4>3. pc[i] \in RefPlaces
          BY <2>5 DEF SendCompletes, RefPlaces
        <4>4. "sent" \in RefPlaces
          BY DEF RefPlaces
        <4> QED
          BY <4>2, <4>3, <4>4 DEF Moved
      <3>2. Opened' = Opened
        BY <2>5, Zenon DEF SendCompletes, Opened
      <3>3. BindRef' = BindRef
        <4>1. pc'["bind"] = pc["bind"] /\ resources' = resources
          BY <2>5, ThreadKinds DEF SendCompletes, Goto, TypeOK
        <4> QED
          BY <4>1, Zenon DEF BindRef
      <3>4. RefCount' = RefCount
        BY <2>5 DEF SendCompletes
      <3> QED
        BY <1>0, <3>1, <3>2, <3>3, <3>4 DEF References
    <2>6. CASE SendUncounts(i)
      <3>1. Count(RefPlaces)' = Count(RefPlaces)
        <4>1. Goto(i, "uncounted")
          BY <2>6 DEF SendUncounts
        <4>2. Moved(Count(RefPlaces), Count(RefPlaces)', RefPlaces, pc[i], "uncounted")
          BY <4>1, Move, ThreadKinds
        <4>3. pc[i] \in RefPlaces
          BY <2>6 DEF SendUncounts, RefPlaces
        <4>4. "uncounted" \in RefPlaces
          BY DEF RefPlaces
        <4> QED
          BY <4>2, <4>3, <4>4 DEF Moved
      <3>2. Opened' = Opened
        BY <2>6, Zenon DEF SendUncounts, Opened
      <3>3. BindRef' = BindRef
        <4>1. pc'["bind"] = pc["bind"] /\ resources' = resources
          BY <2>6, ThreadKinds DEF SendUncounts, Goto, TypeOK
        <4> QED
          BY <4>1, Zenon DEF BindRef
      <3>4. RefCount' = RefCount
        BY <2>6 DEF SendUncounts
      <3> QED
        BY <1>0, <3>1, <3>2, <3>3, <3>4 DEF References
    <2>7. CASE SendDerefs(i)
      <3>1. Count(RefPlaces)' = Count(RefPlaces) - 1
        <4>1. Goto(i, "out")
          BY <2>7 DEF SendDerefs
        <4>2. Moved(Count(RefPlaces), Count(RefPlaces)', RefPlaces, pc[i], "out")
          BY <4>1, Move, ThreadKinds
        <4>3. pc[i] \in RefPlaces
          BY <2>7 DEF SendDerefs, RefPlaces
        <4>4. "out" \notin RefPlaces
          BY DEF RefPlaces
        <4> QED
          BY <4>2, <4>3, <4>4 DEF Moved
      <3>2. Opened' = Opened
        BY <2>7, Zenon DEF SendDerefs, Opened
      <3>3. BindRef' = BindRef
        <4>1. pc'["bind"] = pc["bind"] /\ resources' = resources
          BY <2>7, ThreadKinds DEF SendDerefs, Goto, TypeOK
        <4> QED
          BY <4>1, Zenon DEF BindRef
      <3>4. RefCount' = RefCount - 1
        BY <2>7 DEF SendDerefs, ndisprotDerefOpen
      <3> QED
        BY <1>0, <3>1, <3>2, <3>3, <3>4 DEF References
    <2>8. CASE StatusQueues(i)
      <3>1. Count(RefPlaces)' = Count(RefPlaces)
        <4>1. PICK w \in {"out", "pended"} : Goto(i, w)
          BY <2>8 DEF StatusQueues, Goto
        <4>2. Moved(Count(RefPlaces), Count(RefPlaces)', RefPlaces, pc[i], w)
          BY <4>1, Move, ThreadKinds
        <4>3. pc[i] \notin RefPlaces
          BY <2>8 DEF StatusQueues, RefPlaces
        <4>4. w \notin RefPlaces
          BY <4>1 DEF RefPlaces
        <4> QED
          BY <4>2, <4>3, <4>4 DEF Moved
      <3>2. Opened' = Opened
        BY <2>8, Zenon DEF StatusQueues, Opened
      <3>3. BindRef' = BindRef
        <4>1. pc'["bind"] = pc["bind"] /\ resources' = resources
          BY <2>8, ThreadKinds DEF StatusQueues, Goto, TypeOK
        <4> QED
          BY <4>1, Zenon DEF BindRef
      <3>4. RefCount' = RefCount
        BY <2>8 DEF StatusQueues
      <3> QED
        BY <1>0, <3>1, <3>2, <3>3, <3>4 DEF References
    <2>9. CASE StatusCancelled(i)
      <3>1. Count(RefPlaces)' = Count(RefPlaces)
        <4>1. Goto(i, "out")
          BY <2>9 DEF StatusCancelled
        <4>2. Moved(Count(RefPlaces), Count(RefPlaces)', RefPlaces, pc[i], "out")
          BY <4>1, Move, ThreadKinds
        <4>3. pc[i] \notin RefPlaces
          BY <2>9 DEF StatusCancelled, RefPlaces
        <4>4. "out" \notin RefPlaces
          BY DEF RefPlaces
        <4> QED
          BY <4>2, <4>3, <4>4 DEF Moved
      <3>2. Opened' = Opened
        BY <2>9, Zenon DEF StatusCancelled, Opened
      <3>3. BindRef' = BindRef
        <4>1. pc'["bind"] = pc["bind"] /\ resources' = resources
          BY <2>9, ThreadKinds DEF StatusCancelled, Goto, TypeOK
        <4> QED
          BY <4>1, Zenon DEF BindRef
      <3>4. RefCount' = RefCount
        BY <2>9 DEF StatusCancelled
      <3> QED
        BY <1>0, <3>1, <3>2, <3>3, <3>4 DEF References
    <2>10. CASE StatusCancelCalled(i)
      <3>1. Count(RefPlaces)' = Count(RefPlaces)
        <4>1. Goto(i, "cancel")
          BY <2>10 DEF StatusCancelCalled
        <4>2. Moved(Count(RefPlaces), Count(RefPlaces)', RefPlaces, pc[i], "cancel")
          BY <4>1, Move, ThreadKinds
        <4>3. pc[i] \notin RefPlaces
          BY <2>10 DEF StatusCancelCalled, RefPlaces
        <4>4. "cancel" \notin RefPlaces
          BY DEF RefPlaces
        <4> QED
          BY <4>2, <4>3, <4>4 DEF Moved
      <3>2. Opened' = Opened
        BY <2>10, Zenon DEF StatusCancelCalled, Opened
      <3>3. BindRef' = BindRef
        <4>1. pc'["bind"] = pc["bind"] /\ resources' = resources
          BY <2>10, ThreadKinds DEF StatusCancelCalled, Goto, TypeOK
        <4> QED
          BY <4>1, Zenon DEF BindRef
      <3>4. RefCount' = RefCount
        BY <2>10 DEF StatusCancelCalled
      <3> QED
        BY <1>0, <3>1, <3>2, <3>3, <3>4 DEF References
    <2> QED
      BY <1>6, <2>1, <2>2, <2>3, <2>4, <2>5, <2>6, <2>7, <2>8, <2>9, <2>10 DEF UseGoesOn
  <1>7. ASSUME NEW f \in Files, CleanupMarks(f) \/ CleanupGoesOn(f) PROVE References'
    <2> f \in Threads
      BY ThreadKinds
    <2>1. CASE CleanupMarks(f)
      <3>1. Count(RefPlaces)' = Count(RefPlaces)
        <4>1. PICK w \in {"validate", "cleaned"} : Goto(f, w)
          BY <2>1 DEF CleanupMarks, Goto
        <4>2. Moved(Count(RefPlaces), Count(RefPlaces)', RefPlaces, pc[f], w)
          BY <4>1, Move, ThreadKinds
        <4>3. pc[f] \notin RefPlaces
          BY <2>1 DEF CleanupMarks, RefPlaces
        <4>4. w \notin RefPlaces
          BY <4>1 DEF RefPlaces
        <4> QED
          BY <4>2, <4>3, <4>4 DEF Moved
      <3>2. Opened' = Opened
        BY <2>1, Zenon DEF CleanupMarks, Opened
      <3>3. BindRef' = BindRef
        <4>1. pc'["bind"] = pc["bind"] /\ resources' = resources
          BY <2>1, ThreadKinds DEF CleanupMarks, Goto, TypeOK
        <4> QED
          BY <4>1, Zenon DEF BindRef
      <3>4. RefCount' = RefCount
        BY <2>1 DEF CleanupMarks
      <3> QED
        BY <1>0, <3>1, <3>2, <3>3, <3>4 DEF References
    <2>2. CASE CleanupServices(f)
      <3>1. Count(RefPlaces)' = Count(RefPlaces)
        <4>1. {"out", "pended", "status", "wait", "service", "cleaned"} \cap RefPlaces = {}
          BY DEF RefPlaces
        <4> QED
          BY <4>1, <2>2, ServedStay
      <3>2. Opened' = Opened
        BY <2>2, Zenon DEF CleanupServices, Opened
      <3>3. BindRef' = BindRef
        <4>1. pc'["bind"] = "create" <=> pc["bind"] = "create"
          <5>1. ASSUME NEW i \in Irps, Serves(i, [pc EXCEPT ![f] = "cleaned"]) PROVE pc'["bind"] = "create" <=> pc["bind"] = "create"
            BY <2>2, <5>1, TypeOK, ThreadKinds DEF CleanupServices, Serves, TypeOK
          <5>2. CASE pc' = [pc EXCEPT ![f] = "cleaned"] /\ UNCHANGED status
            BY <2>2, <5>2, TypeOK, ThreadKinds DEF CleanupServices, TypeOK
          <5> QED
            BY <2>2, <5>1, <5>2, Served DEF CleanupServices
        <4> QED
          BY <2>2, <4>1, Zenon DEF CleanupServices, BindRef
      <3> QED
        BY <2>2, <3>1, <3>2, <3>3 DEF CleanupServices, References
    <2>3. CASE Close(f)
      <3>1. Count(RefPlaces)' = Count(RefPlaces)
        <4>1. Goto(f, "done")
          BY <2>3 DEF Close
        <4>2. Moved(Count(RefPlaces), Count(RefPlaces)', RefPlaces, pc[f], "done")
          BY <4>1, Move, ThreadKinds
        <4>3. pc[f] \notin RefPlaces
          BY <2>3 DEF Close, RefPlaces
        <4>4. "done" \notin RefPlaces
          BY DEF RefPlaces
        <4> QED
          BY <4>2, <4>3, <4>4 DEF Moved
      <3>3. BindRef' = BindRef
        <4>1. pc'["bind"] = pc["bind"] /\ resources' = resources
          BY <2>3, ThreadKinds DEF Close, Goto, TypeOK
        <4> QED
          BY <4>1, Zenon DEF BindRef
      <3>4. CASE FsContext[f]
        <4>1. Opened' = Opened - 1 /\ RefCount' = RefCount - 1
          BY <2>3, <3>4, FileClosed DEF Close, ndisprotDerefOpen
        <4> QED
          BY <1>0, <3>1, <3>3, <4>1 DEF References
      <3>5. CASE ~FsContext[f]
        <4>1. Opened' = Opened /\ RefCount' = RefCount
          BY <2>3, <3>5, FileClosed DEF Close
        <4> QED
          BY <1>0, <3>1, <3>3, <4>1 DEF References
      <3> QED
        BY <3>4, <3>5
    <2> QED
      BY <1>7, <2>1, <2>2, <2>3 DEF CleanupGoesOn
  <1>8. CASE NdisProtStatus \/ Unload \/ Unloaded
    <2>1. CASE NdisProtStatus
      <3>1. Count(RefPlaces)' = Count(RefPlaces)
        <4>1. {"out", "pended", "status", "wait", "service", "cleaned"} \cap RefPlaces = {}
          BY DEF RefPlaces
        <4> QED
          BY <4>1, <2>1, ServedStay
      <3>2. Opened' = Opened
        BY <2>1, Zenon DEF NdisProtStatus, Opened
      <3>3. BindRef' = BindRef
        <4>1. pc'["bind"] = "create" <=> pc["bind"] = "create"
          <5>1. ASSUME NEW i \in Irps, Serves(i, pc) PROVE pc'["bind"] = "create" <=> pc["bind"] = "create"
            BY <2>1, <5>1, TypeOK, ThreadKinds DEF NdisProtStatus, Serves, TypeOK
          <5>2. CASE pc' = pc /\ UNCHANGED status
            BY <2>1, <5>2, TypeOK, ThreadKinds DEF NdisProtStatus, TypeOK
          <5> QED
            BY <2>1, <5>1, <5>2, Served DEF NdisProtStatus
        <4> QED
          BY <2>1, <4>1, Zenon DEF NdisProtStatus, BindRef
      <3> QED
        BY <2>1, <3>1, <3>2, <3>3 DEF NdisProtStatus, References
    <2>2. CASE Unload
      BY <2>2 DEF Unload, References, Count, Opened, BindRef
    <2>3. CASE Unloaded
      BY <2>3 DEF Unloaded, References, Count, Opened, BindRef
    <2> QED
      BY <1>8, <2>1, <2>2, <2>3
  <1>9. CASE UNCHANGED vars
    BY <1>9 DEF vars, References, Count, Opened, BindRef
  <1> QED
    BY <1>1, <1>2, <1>3, <1>4, <1>5, <1>6, <1>7, <1>8, <1>9 DEF Next

LEMMA StepUnbound ==
  ASSUME TypeOK, Stages, Lists, Unbound, StatusIrpOwned, [Next]_vars
  PROVE  Unbound'
  <1> USE DEF adapter, flags, files, status, counts, At
  <1>1. CASE BindAdapter \/ Binding \/ UnbindAdapter
    <2>1. CASE BindAdapter
      BY <2>1, TypeOK, Unbound, Lists, Stages, ThreadKinds
         DEF BindAdapter, TypeOK, Goto, Unbound
    <2>2. CASE BindOpening
      <3>1. PICK w \in {"open", "failed"} : Goto("bind", w)
        BY <2>2 DEF BindOpening, Goto
      <3> QED
        BY <2>2, <3>1, TypeOK, Unbound, Lists, Stages, ThreadKinds
           DEF BindOpening, TypeOK, Goto, Unbound
    <2>3. CASE BindOpens
      <3>1. PICK w \in {"query", "failed"} : Goto("bind", w)
        BY <2>3 DEF BindOpens, Goto
      <3> QED
        BY <2>3, <3>1, TypeOK, Unbound, Lists, Stages, ThreadKinds
           DEF BindOpens, TypeOK, Goto, Unbound
    <2>4. CASE BindQueries
      <3>1. PICK w \in {"activate", "failed"} : Goto("bind", w)
        BY <2>4 DEF BindQueries, Goto
      <3> QED
        BY <2>4, <3>1, TypeOK, Unbound, Lists, Stages, ThreadKinds
           DEF BindQueries, TypeOK, Goto, Unbound
    <2>5. CASE BindActivates
      <3>1. PICK w \in {"failed", "done"} : Goto("bind", w)
        BY <2>5 DEF BindActivates, Goto
      <3> QED
        BY <2>5, <3>1, TypeOK, Unbound, Lists, Stages, ThreadKinds
           DEF BindActivates, TypeOK, Goto, Unbound
    <2>6. CASE BindFails
      BY <2>6, TypeOK, Unbound, Lists, Stages, ThreadKinds
         DEF BindFails, TypeOK, Goto, Unbound
    <2>7. CASE UnbindAdapter
      BY <2>7, TypeOK, Unbound, Lists, Stages, ThreadKinds
         DEF UnbindAdapter, TypeOK, Goto, Unbound
    <2> QED
      BY <1>1, <2>1, <2>2, <2>3, <2>4, <2>5, <2>6, <2>7 DEF Binding
  <1>2. ASSUME NEW t \in Binders, Shutdown(t) PROVE Unbound'
    <2> t \in Threads
      BY DEF Threads
    <2>1. CASE ShutdownBegins(t)
      <3>1. PICK w \in {"done", "filter", "remove"} : Goto(t, w)
        BY <2>1 DEF ShutdownBegins, Goto
      <3> QED
        BY <2>1, <3>1, TypeOK, Unbound, Lists, Stages, ThreadKinds
           DEF ShutdownBegins, TypeOK, Goto, Unbound
    <2>2. CASE ShutdownFilters(t)
      BY <2>2, TypeOK, Unbound, Lists, Stages, ThreadKinds
         DEF ShutdownFilters, TypeOK, Goto, Unbound
    <2>3. CASE ShutdownServices(t)
      <3>1. ASSUME NEW i \in Irps, Serves(i, [pc EXCEPT ![t] = "wait"]) PROVE Unbound'
        BY <2>3, <3>1, TypeOK, Unbound, Lists, Stages, ThreadKinds
           DEF ShutdownServices, Serves, TypeOK, Goto, Unbound
      <3>2. CASE pc' = [pc EXCEPT ![t] = "wait"] /\ UNCHANGED status
        BY <2>3, <3>2, TypeOK, Unbound, Lists, Stages, ThreadKinds
           DEF ShutdownServices, TypeOK, Goto, Unbound
      <3> QED
        BY <2>3, <3>1, <3>2, Served DEF ShutdownServices
    <2>4. CASE ShutdownCloses(t)
      BY <2>4, TypeOK, Unbound, Lists, Stages, ThreadKinds
         DEF ShutdownCloses, TypeOK, Goto, Unbound
    <2>5. CASE ShutdownIdles(t)
      BY <2>5, TypeOK, Unbound, Lists, Stages, ThreadKinds
         DEF ShutdownIdles, TypeOK, Goto, Unbound
    <2>6. CASE ShutdownRemoves(t)
      BY <2>6, TypeOK, Unbound, Lists, Stages, ThreadKinds
         DEF ShutdownRemoves, TypeOK, Goto, Unbound
    <2>7. CASE ShutdownFrees(t)
      BY <2>7, TypeOK, Unbound, Lists, Stages, ThreadKinds
         DEF ShutdownFrees, TypeOK, Goto, Unbound, Lists, Stages, ndisprotDerefOpen
    <2> QED
      BY <1>2, <2>1, <2>2, <2>3, <2>4, <2>5, <2>6, <2>7 DEF Shutdown
  <1>3. ASSUME NEW i \in Irps, NEW f \in Files, OpenLooksUp(i, f) \/ UseBegins(i, f) PROVE Unbound'
    <2> i \in Threads
      BY ThreadKinds
    <2>1. CASE OpenLooksUp(i, f)
      BY <2>1, TypeOK, Unbound, Lists, Stages, ThreadKinds
         DEF OpenLooksUp, TypeOK, Goto, Unbound, Lists, Stages, ndisprotRefOpen
    <2>2. CASE UseBegins(i, f)
      <3>1. PICK w \in {"oid", "write", "indicate"} : Goto(i, w)
        BY <2>2 DEF UseBegins, Goto
      <3> QED
        BY <2>2, <3>1, TypeOK, Unbound, Lists, Stages, ThreadKinds
           DEF UseBegins, TypeOK, Goto, Unbound
    <2> QED
      BY <1>3, <2>1, <2>2
  <1>4. ASSUME NEW t \in Irps \cup Files, Validating(t) PROVE Unbound'
    <2> t \in Threads
      BY DEF Threads
    <2>1. CASE ValidateFails(t)
      <3>1. PICK w \in {"undo", "service"} : Goto(t, w)
        BY <2>1 DEF ValidateFails, Goto
      <3> QED
        BY <2>1, <3>1, TypeOK, Unbound, Lists, Stages, ThreadKinds
           DEF ValidateFails, TypeOK, Goto, Unbound
    <2>2. CASE Validates(t)
      BY <2>2, TypeOK, Unbound, Lists, Stages, ThreadKinds
         DEF Validates, TypeOK, Goto, Unbound
    <2>3. CASE Requests(t)
      <3>1. PICK w \in {"out", "undo", "service"} : Goto(t, w)
        BY <2>3 DEF Requests, Goto
      <3> QED
        BY <2>3, <3>1, TypeOK, Unbound, Lists, Stages, ThreadKinds
           DEF Requests, TypeOK, Goto, Unbound
    <2> QED
      BY <1>4, <2>1, <2>2, <2>3 DEF Validating
  <1>5. ASSUME NEW i \in Irps, OpenGoesOn(i) PROVE Unbound'
    <2> i \in Threads
      BY ThreadKinds
    <2>1. CASE OpenRefused(i)
      BY <2>1, TypeOK, Unbound, Lists, Stages, ThreadKinds
         DEF OpenRefused, TypeOK, Goto, Unbound, ndisprotDerefOpen
    <2>2. CASE OpenAssociates(i)
      BY <2>2, TypeOK, Unbound, Lists, Stages, ThreadKinds
         DEF OpenAssociates, TypeOK, Goto, Unbound
    <2>3. CASE OpenUndone(i)
      BY <2>3, TypeOK, Unbound, Lists, Stages, ThreadKinds
         DEF OpenUndone, TypeOK, Goto, Unbound, ndisprotDerefOpen
    <2> QED
      BY <1>5, <2>1, <2>2, <2>3 DEF OpenGoesOn
  <1>6. ASSUME NEW i \in Irps, UseGoesOn(i) \/ StatusCancelCalled(i) PROVE Unbound'
    <2> i \in Threads
      BY ThreadKinds
    <2>1. CASE UseRefused(i)
      BY <2>1, TypeOK, Unbound, Lists, Stages, ThreadKinds
         DEF UseRefused, TypeOK, Goto, Unbound
    <2>2. CASE OidValidates(i)
      BY <2>2, TypeOK, Unbound, Lists, Stages, ThreadKinds
         DEF OidValidates, TypeOK, Goto, Unbound
    <2>3. CASE OidRequests(i)
      BY <2>3, TypeOK, Unbound, Lists, Stages, ThreadKinds
         DEF OidRequests, TypeOK, Goto, Unbound
    <2>4. CASE WriteCounts(i)
      BY <2>4, TypeOK, Unbound, Lists, Stages, ThreadKinds
         DEF WriteCounts, TypeOK, Goto, Unbound, ndisprotRefOpen
    <2>5. CASE SendCompletes(i)
      BY <2>5, TypeOK, Unbound, Lists, Stages, ThreadKinds
         DEF SendCompletes, TypeOK, Goto, Unbound
    <2>6. CASE SendUncounts(i)
      BY <2>6, TypeOK, Unbound, Lists, Stages, ThreadKinds
         DEF SendUncounts, TypeOK, Goto, Unbound
    <2>7. CASE SendDerefs(i)
      BY <2>7, TypeOK, Unbound, Lists, Stages, ThreadKinds
         DEF SendDerefs, TypeOK, Goto, Unbound, ndisprotDerefOpen
    <2>8. CASE StatusQueues(i)
      <3>1. PICK w \in {"out", "pended"} : Goto(i, w)
        BY <2>8 DEF StatusQueues, Goto
      <3> QED
        BY <2>8, <3>1, TypeOK, Unbound, Lists, Stages, ThreadKinds
           DEF StatusQueues, TypeOK, Goto, Unbound
    <2>9. CASE StatusCancelled(i)
      BY <2>9, TypeOK, Unbound, Lists, Stages, ThreadKinds
         DEF StatusCancelled, TypeOK, Goto, Unbound
    <2>10. CASE StatusCancelCalled(i)
      BY <2>10, TypeOK, Unbound, Lists, Stages, ThreadKinds
         DEF StatusCancelCalled, TypeOK, Goto, Unbound
    <2> QED
      BY <1>6, <2>1, <2>2, <2>3, <2>4, <2>5, <2>6, <2>7, <2>8, <2>9, <2>10 DEF UseGoesOn
  <1>7. ASSUME NEW f \in Files, CleanupMarks(f) \/ CleanupGoesOn(f) PROVE Unbound'
    <2> f \in Threads
      BY ThreadKinds
    <2>1. CASE CleanupMarks(f)
      <3>1. PICK w \in {"validate", "cleaned"} : Goto(f, w)
        BY <2>1 DEF CleanupMarks, Goto
      <3> QED
        BY <2>1, <3>1, TypeOK, Unbound, Lists, Stages, ThreadKinds
           DEF CleanupMarks, TypeOK, Goto, Unbound
    <2>2. CASE CleanupServices(f)
      <3>1. ASSUME NEW i \in Irps, Serves(i, [pc EXCEPT ![f] = "cleaned"]) PROVE Unbound'
        BY <2>2, <3>1, TypeOK, Unbound, Lists, Stages, ThreadKinds
           DEF CleanupServices, Serves, TypeOK, Goto, Unbound
      <3>2. CASE pc' = [pc EXCEPT ![f] = "cleaned"] /\ UNCHANGED status
        BY <2>2, <3>2, TypeOK, Unbound, Lists, Stages, ThreadKinds
           DEF CleanupServices, TypeOK, Goto, Unbound
      <3> QED
        BY <2>2, <3>1, <3>2, Served DEF CleanupServices
    <2>3. CASE Close(f)
      BY <2>3, TypeOK, Unbound, Lists, Stages, ThreadKinds
         DEF Close, TypeOK, Goto, Unbound, ndisprotDerefOpen
    <2> QED
      BY <1>7, <2>1, <2>2, <2>3 DEF CleanupGoesOn
  <1>8. CASE NdisProtStatus \/ Unload \/ Unloaded
    <2>1. CASE NdisProtStatus
      <3>1. ASSUME NEW i \in Irps, Serves(i, pc) PROVE Unbound'
        BY <2>1, <3>1, TypeOK, Unbound, Lists, Stages, ThreadKinds
           DEF NdisProtStatus, Serves, TypeOK, Goto, Unbound
      <3>2. CASE pc' = pc /\ UNCHANGED status
        BY <2>1, <3>2, TypeOK, Unbound, Lists, Stages, ThreadKinds
           DEF NdisProtStatus, TypeOK, Goto, Unbound
      <3> QED
        BY <2>1, <3>1, <3>2, Served DEF NdisProtStatus
    <2>2. CASE Unload
      BY Unbound, <2>2
         DEF Unload, Unbound
    <2>3. CASE Unloaded
      BY Unbound, <2>3
         DEF Unloaded, Unbound
    <2> QED
      BY <1>8, <2>1, <2>2, <2>3
  <1>9. CASE UNCHANGED vars
    BY Unbound, <1>9 DEF vars, Unbound
  <1> QED
    BY <1>1, <1>2, <1>3, <1>4, <1>5, <1>6, <1>7, <1>8, <1>9 DEF Next

-----------------------------------------------------------------------------
(* The invariant, and what follows from it.                                *)

LEMMA CountNone ==
  ASSUME NEW S, \A t \in Threads : pc[t] \notin S
  PROVE  Count(S) = 0
  <1>1. {t \in Threads : pc[t] \in S} = {}
    OBVIOUS
  <1> QED
    BY <1>1, FS_EmptySet, Zenon DEF Count

LEMMA OpenedNone ==
  ASSUME \A f \in Files : ~FsContext[f]
  PROVE  Opened = 0
  <1>1. {f \in Files : FsContext[f]} = {}
    OBVIOUS
  <1> QED
    BY <1>1, FS_EmptySet, Zenon DEF Opened

LEMMA InitIInv == Init => IInv
  <1> SUFFICES ASSUME Init PROVE IInv
    OBVIOUS
  <1> USE DEF At
  <1>1. TypeOK
    BY InitType
  <1>2. \A t \in Threads : pc[t] = "out"
    BY DEF Init
  <1>3. pc["bind"] = "out" /\ pc["unbind"] = "out" /\ \A t \in Irps \cup Files \cup Binders : pc[t] = "out"
    BY <1>2, ThreadKinds DEF Threads
  <1>4. Places
    BY <1>3 DEF Places
  <1>5. Stages
    BY <1>3 DEF Stages, Init, Binders, Closing
  <1>6. Handles /\ Lists
    <2>1. bind = "IDLE" /\ ~BindingHandle /\ ~resources /\ ~listed
      BY Zenon DEF Init
    <2> QED
      BY <1>3, <2>1 DEF Handles, Lists, Binders, Closing
  <1>7. Opens
    BY <1>3 DEF Opens, OpeningPlaces
  <1>8. Openers
    BY <1>3, BindAssumption DEF Openers, Opening, Init
  <1>9. StatusIrpOwned
    BY <1>3, BindAssumption DEF StatusIrpOwned, Init
  <1>10. Unloading
    BY DEF Init, Unloading
  <1>11. PendsExact
    <2>1. Count(PendPlaces) = 0
      BY <1>2, CountNone DEF PendPlaces
    <2> QED
      BY <2>1 DEF PendsExact, Init
  <1>12. References /\ Unbound
    <2>1. Count(RefPlaces) = 0
      BY <1>2, CountNone DEF RefPlaces
    <2>2. Opened = 0
      BY OpenedNone DEF Init
    <2>3. BindRef = 0
      BY <1>3 DEF BindRef, Init
    <2> QED
      BY <2>1, <2>2, <2>3 DEF References, Unbound, Init
  <1> QED
    BY <1>1, <1>4, <1>5, <1>6, <1>7, <1>8, <1>9, <1>10, <1>11, <1>12 DEF IInv

LEMMA StepIInv == ~EarlyUnbind /\ IInv /\ [Next]_vars => IInv'
  <1> SUFFICES ASSUME ~EarlyUnbind, IInv, [Next]_vars PROVE IInv'
    OBVIOUS
  <1>0. /\ TypeOK /\ Places /\ Stages /\ Handles /\ Lists
        /\ Opens /\ Openers /\ StatusIrpOwned /\ Unloading
        /\ PendsExact /\ References /\ Unbound
    BY DEF IInv
  <1>1. TypeOK' /\ Places' /\ StatusIrpOwned' /\ Unloading'
    BY <1>0, StepType, StepPlaces, StepStatus, StepUnloading
  <1>2. Stages' /\ Handles' /\ Lists'
    BY <1>0, StepStages, StepHandles, StepLists
  <1>3. Opens' /\ Openers' /\ PendsExact'
    BY <1>0, StepOpens, StepOpeners, StepPends
  <1>4. References' /\ Unbound'
    BY <1>0, StepReferences, StepUnbound
  <1> QED
    BY <1>1, <1>2, <1>3, <1>4 DEF IInv

\* Where every thread is, how far the binding has come, who holds what of it: as
\* ndisbind.c, ntdisp.c and send.c leave it after every step.
THEOREM Invariant ==
  ASSUME ~EarlyUnbind
  PROVE  Spec => []IInv
  <1>1. IInv /\ [Next]_vars => IInv'
    BY StepIInv
  <1> QED
    BY <1>1, InitIInv, PTL DEF Spec

\* What a reference count of zero means.
LEMMA Freed ==
  ASSUME IInv, RefCount = 0
  PROVE  /\ pc["bind"] \in {"out", "done"} /\ pc["unbind"] \in {"out", "done"}
         /\ ~BindingHandle /\ PendedSendCount = 0
         /\ \A f \in Files : ~FsContext[f]
         /\ \A t \in Threads : pc[t] \notin RefPlaces
  <1> USE DEF At
  <1>1. TypeOK /\ Stages /\ Handles /\ Lists /\ PendsExact /\ References
    BY DEF IInv
  <1>2. BindRef = 0 /\ Opened = 0 /\ Count(RefPlaces) = 0
    <2>1. BindRef \in Nat /\ Opened \in Nat /\ Count(RefPlaces) \in Nat
      BY OpenedType, CountType DEF BindRef
    <2>2. BindRef + Opened + Count(RefPlaces) = 0
      BY <1>1 DEF References
    <2>3. \A a, b, c \in Nat : a + b + c = 0 => a = 0 /\ b = 0 /\ c = 0
      OBVIOUS
    <2> QED
      BY <2>1, <2>2, <2>3, Zenon
  <1>3. pc["bind"] # "create" /\ ~resources
    BY <1>2 DEF BindRef
  <1>4. pc["bind"] \in {"out", "done"} /\ pc["unbind"] \in {"out", "done"} /\ bind # "ACTIVE"
    BY <1>1, <1>3 DEF Lists
  <1>5. ~BindingHandle
    BY <1>1, <1>4 DEF Handles, Closing, Binders
  <1>6. PendedSendCount = 0
    BY <1>1, <1>5 DEF PendsExact, TypeOK
  <1> QED
    BY <1>2, <1>4, <1>5, <1>6, OpenedType, CountType

LEMMA HeldWhileUsed == IInv => HandleHeld
  <1> SUFFICES ASSUME IInv, NEW t \in Threads, pc[t] \in {"request", "oid_request", "send", "sent", "query"}
               PROVE  BindingHandle
    BY DEF HandleHeld
  <1>1. TypeOK /\ Places /\ Handles /\ PendsExact
    BY DEF IInv
  <1>2. CASE pc[t] = "query"
    <2>1. t = "bind"
      BY <1>1, <1>2 DEF Places, Threads, Binders, Taking, Closing, OpeningPlaces
    <2> QED
      BY <1>1, <1>2, <2>1 DEF Handles
  <1>3. CASE pc[t] \in PendPlaces
    <2>1. PendedSendCount > 0
      BY <1>1, <1>3, CountType DEF PendsExact
    <2> QED
      BY <1>1, <2>1 DEF PendsExact
  <1> QED
    BY <1>2, <1>3 DEF PendPlaces

LEMMA CleanWhenFreed == IInv => FreedClean
  <1> SUFFICES ASSUME IInv, RefCount = 0, ~raced
               PROVE  ~BindingHandle /\ pFileObject = NoFile
    BY Freed DEF FreedClean
  <1>1. TypeOK /\ Openers
    BY DEF IInv
  <1>2. pFileObject \notin Files
    BY <1>1, Freed DEF Openers
  <1> QED
    BY <1>1, <1>2, Freed DEF TypeOK

LEMMA UnusedWhenFreed == IInv => FreedUnused
  <1> SUFFICES ASSUME IInv, RefCount = 0 PROVE FreedUnused
    BY DEF FreedUnused
  <1> USE DEF At
  <1>1. TypeOK /\ Places /\ Opens /\ Openers /\ PendsExact
    BY DEF IInv
  <1>2. \A t \in Threads : pc[t] \notin PendPlaces \cup RefPlaces
    <2>1. \A t \in Threads : pc[t] \notin PendPlaces
      BY <1>1, Freed, CountType DEF PendsExact
    <2> QED
      BY <2>1, Freed
  <1>3. ASSUME NEW i \in Irps
        PROVE  pc[i] = "out" \/ (~FsContext[on[i]] /\ pc[i] \in {"oid", "write", "indicate", "pended", "cancel"})
    <2>1. pc[i] = "out" \/ (on[i] \in Files /\ ~FsContext[on[i]])
      BY <1>1, Freed DEF Opens
    <2>2. pc[i] \notin OpeningPlaces
      BY <1>1, <2>1 DEF Opens, OpeningPlaces
    <2>3. pc[i] \notin PendPlaces \cup RefPlaces
      BY <1>2, ThreadKinds
    <2>4. pc[i] \in {"out", "oid", "write", "indicate", "pended", "cancel"}
      BY <1>1, <2>2, <2>3 DEF Places, PendPlaces, RefPlaces
    <2> QED
      BY <2>1, <2>4
  <1>4. ASSUME NEW f \in Files PROVE pc[f] \in {"out", "cleaned", "done"} \/ raced
    BY <1>1, Freed DEF Places, Openers
  <1>5. \A t \in Binders : pc[t] \in {"out", "done"}
    BY Freed DEF Binders
  <1> QED
    BY <1>3, <1>4, <1>5 DEF FreedUnused

LEMMA CleanWhenUnloaded == IInv => UnloadClean
  <1> SUFFICES ASSUME IInv, loaded = "no"
               PROVE  /\ RefCount = Count({"uncounted"}) /\ PendedSendCount = 0
                      /\ ~listed /\ ~resources /\ StatusIndicationIrp = NoIrp
    BY DEF UnloadClean
  <1> USE DEF At
  <1>1. TypeOK /\ Places /\ Stages /\ Handles /\ Lists /\ Opens /\ Unloading /\ StatusIrpOwned /\ References
        /\ PendsExact
    BY DEF IInv
  <1>2. ~BindingHandle /\ pc["bind"] \in {"out", "done"} /\ pc["unbind"] \in {"out", "done"}
    BY <1>1 DEF Unloading, Binders
  <1>3. ~resources /\ ~listed
    <2>1. bind # "ACTIVE"
      BY <1>1, <1>2 DEF Handles
    <2>2. ~resources
      BY <1>1, <1>2, <2>1 DEF Lists
    <2> QED
      BY <1>1, <1>2, <2>2 DEF Lists
  <1>4. \A f \in Files : ~FsContext[f] /\ \A i \in Irps : on[i] = f => pc[i] \in Completed
    BY <1>1 DEF Unloading, Opens
  <1>5. PendedSendCount = 0 /\ \A t \in Threads : pc[t] \notin PendPlaces
    <2>1. PendedSendCount = 0
      BY <1>1, <1>2 DEF PendsExact, TypeOK
    <2> QED
      BY <1>1, <2>1, CountType DEF PendsExact
  <1>6. \A i \in Irps : pc[i] \in {"out", "uncounted"}
    BY <1>1, <1>4, <1>5, ThreadKinds DEF Opens, Completed, PendPlaces
  <1>7. StatusIndicationIrp = NoIrp
    BY <1>1, <1>6 DEF TypeOK, StatusIrpOwned
  <1>8. RefCount = Count({"uncounted"})
    <2>1. \A t \in Threads : pc[t] \in RefPlaces <=> pc[t] \in {"uncounted"}
      <3>1. \A f \in Files : pc[f] \notin RefPlaces /\ pc[f] # "uncounted"
        BY <1>1 DEF Places, RefPlaces
      <3> QED
        BY <1>2, <1>6, <3>1 DEF Threads, Binders, RefPlaces
    <2>2. Count(RefPlaces) = Count({"uncounted"})
      <3>1. {t \in Threads : pc[t] \in RefPlaces} = {t \in Threads : pc[t] \in {"uncounted"}}
        BY <2>1
      <3> QED
        BY <3>1 DEF Count
    <2>3. BindRef = 0
      BY <1>2, <1>3 DEF BindRef
    <2>4. Opened = 0
      BY <1>4, OpenedNone
    <2> QED
      BY <1>1, <2>2, <2>3, <2>4, CountType DEF References
  <1> QED
    BY <1>3, <1>5, <1>7, <1>8

LEMMA OneTakesDown == IInv => OneShutdown
  <1> SUFFICES ASSUME IInv PROVE Count({"filter", "status", "wait", "idle", "remove", "free"}) <= 1
    BY DEF OneShutdown
  <1> USE DEF At
  <1>1. Places /\ Stages
    BY DEF IInv
  <1> DEFINE S == {"filter", "status", "wait", "idle", "remove", "free"}
             C == {t \in Threads : pc[t] \in S}
  <1>2. \A t \in Threads : pc[t] \in S => t \in Binders
    BY <1>1 DEF Places, Threads, OpeningPlaces
  <1>3. ~(pc["bind"] \in S /\ pc["unbind"] \in S)
    BY <1>1 DEF Stages
  <1>4. PICK b \in Binders : C \subseteq {b}
    BY <1>2, <1>3 DEF Binders
  <1>5. IsFiniteSet({b}) /\ Cardinality({b}) = 1
    BY FS_Singleton
  <1> HIDE DEF C, S
  <1>6. Cardinality(C) <= 1
    BY <1>4, <1>5, FS_Subset
  <1>7. Count(S) <= 1
    BY <1>6, Zenon DEF C, Count
  <1> QED
    BY <1>7 DEF S

\* An open context lives as long as somebody counts on it, and the handle of the
\* adapter as long as a request or a write uses it (ndisprotRefOpen,
\* ndisprotDerefOpen, ndisprotWaitForPendingIO).
THEOREM BindingAlwaysHeld ==
  ASSUME ~EarlyUnbind
  PROVE  Spec => []BindingHeld
  <1>1. IInv => BindingHeld
    <2>1. IInv => TypeOK /\ ReferencesExact
      BY ReferencesAre DEF IInv
    <2> QED
      BY <2>1, HeldWhileUsed, CleanWhenFreed, UnusedWhenFreed, CleanWhenUnloaded DEF BindingHeld
  <1> QED
    BY <1>1, Invariant, PTL

\* The binding has one file object and is taken down once, and the IRP that waits
\* for a status indication is completed once (ndisprotOpenDevice,
\* ndisprotShutdownBinding, ndisServiceIndicateStatusIrp).
THEOREM AlwaysOneOwner ==
  ASSUME ~EarlyUnbind
  PROVE  Spec => []OneOwner
  <1>1. IInv => SoleOpener
    BY DEF IInv, Openers, SoleOpener, FileOpen, At
  <1>2. IInv => OneOwner
    BY <1>1, OneTakesDown DEF OneOwner, IInv
  <1> QED
    BY <1>2, Invariant, PTL


================================================================================
