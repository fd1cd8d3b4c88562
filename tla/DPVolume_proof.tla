--------------------------- MODULE DPVolume_proof ---------------------------
(***************************************************************************)
(* Proofs about DPVolume, for every set of IRPs, sectors and values.       *)
(*                                                                         *)
(* The safety theorems assume what the run volume assumes: the system never *)
(* fails to map the buffer of a write (~MapFails), and the volume comes    *)
(* online at most once (MaxOnline <= 1).  Without the first a write reaches *)
(* the protected disk; the run volume_online_again shows why the second    *)
(* cannot be left out.                                                     *)
(***************************************************************************)
EXTENDS DPVolume, TLAPS

-----------------------------------------------------------------------------
(* Type correctness.                                                       *)

LEMMA NoDataType == NoData \in Contents
  BY DEF NoData, Contents

LEMMA NoReqType == NoReq \in Requests
  BY DEF NoReq, Requests

LEMMA InitType == Init => TypeOK
  <1> SUFFICES ASSUME Init PROVE TypeOK
    OBVIOUS
  <1>1. queue \in Seq(Irps)
    BY DEF Init
  <1>2. onlines \in 0 .. MaxOnline
    BY DPAssumption DEF Init
  <1>3. file \in [Sectors -> Values] /\ expect \in Contents
    BY DPAssumption DEF Init, Contents
  <1>4. req \in [Irps -> Requests]
    BY NoReqType DEF Init
  <1>5. fileBuf \in Contents /\ data \in [Irps -> Contents] /\ snap \in [Irps -> Contents]
    BY NoDataType DEF Init
  <1> QED
    BY <1>1, <1>2, <1>3, <1>4, <1>5 DEF Init, TypeOK, DeviceTypes, IrpTypes, Handlers

LEMMA OnExtentType ==
  ASSUME NEW f \in Contents, NEW S
  PROVE  OnExtent(f, S) \in Contents
  BY DEF OnExtent, Contents

LEMMA OverwriteType ==
  ASSUME NEW f \in [Sectors -> Values], NEW S, NEW v \in Values
  PROVE  Overwrite(f, S, v) \in [Sectors -> Values]
  BY DEF Overwrite

\* The parts of a step that several actions share keep the types.
LEMMA IssuedType ==
  ASSUME TypeOK, NEW r \in Irps, NEW op, NEW e \in SUBSET Sectors, Issued(r, op, e)
  PROVE  /\ expect' \in Contents
         /\ solo' \in [Irps -> SUBSET Sectors]
         /\ snap' \in [Irps -> Contents]
  <1> USE DEF TypeOK, IrpTypes
  <1>1. expect' \in Contents
    BY DEF Issued, Overwrite, Contents
  <1>2. solo' \in [Irps -> SUBSET Sectors]
    BY DEF Issued
  <1>3. \A q \in Irps : Overwrite(snap[q], e, Unknown) \in Contents
    BY DEF Overwrite, Contents
  <1>4. snap' \in [Irps -> Contents]
    BY <1>3, NoDataType, OnExtentType DEF Issued
  <1> QED
    BY <1>1, <1>2, <1>4

LEMMA CompleteType ==
  ASSUME TypeOK, NEW r \in Irps, NEW good \in BOOLEAN, NEW d \in Contents,
         Complete(r, good, d)
  PROVE  /\ st' \in [Irps -> {"idle", "queued", "worker", "lower", "done"}]
         /\ req' \in [Irps -> Requests]
         /\ ok' \in [Irps -> BOOLEAN]
         /\ data' \in [Irps -> Contents]
         /\ expect' \in Contents
         /\ solo' \in [Irps -> SUBSET Sectors]
         /\ snap' \in [Irps -> Contents]
  <1> USE DEF TypeOK, IrpTypes
  <1>1. req[r].op = "write" => req[r].val \in Values
    BY DEF Requests
  <1>2. expect' \in Contents
    BY <1>1 DEF Complete, Overwrite, Contents
  <1> QED
    BY <1>2 DEF Complete

LEMMA FinishType ==
  ASSUME TypeOK, pc \in Handlers, NEW good \in BOOLEAN, NEW d \in Contents,
         Finish(good, d)
  PROVE  IrpTypes'
  <1>1. cur \in Irps /\ Complete(cur, good, d)
    BY DEF TypeOK, IrpTypes, Finish
  <1> QED
    BY <1>1, CompleteType, NoDataType DEF Finish, IrpTypes, Handlers

LEMMA PassDownType ==
  ASSUME TypeOK, pc \in Handlers, PassDown
  PROVE  IrpTypes'
  BY NoDataType DEF TypeOK, PassDown, IrpTypes, Handlers, history

LEMMA StepType == TypeOK /\ [Next]_vars => TypeOK'
  <1> SUFFICES ASSUME TypeOK, [Next]_vars PROVE TypeOK'
    OBVIOUS
  <1> USE DEF TypeOK, Handlers, devVars, queueVars, storeVars, thread, irpVars, history
  <1>1. ASSUME NEW r \in Irps, NEW op \in {"read", "write"}, NEW e \in Extents,
               NEW v \in Values \cup {Unknown}, op = "write" => v \in Values,
               Dispatch(r, op, e, v)
        PROVE  TypeOK'
    <2>1. e \in SUBSET Sectors
      BY DPAssumption
    <2>2. req' \in [Irps -> Requests]
      BY <1>1, <2>1 DEF Dispatch, DeviceTypes, IrpTypes, Requests
    <2>3. DeviceTypes'
      BY <1>1 DEF Dispatch, DeviceTypes
    <2>4. IrpTypes'
      BY <1>1, <2>1, <2>2, IssuedType DEF Dispatch, IrpTypes
    <2> QED
      BY <2>3, <2>4
  <1>2. ASSUME NEW r \in Irps, DispatchRead(r) \/ DispatchWrite(r) PROVE TypeOK'
    BY <1>1, <1>2 DEF DispatchRead, DispatchWrite
  <1>3. ASSUME NEW r \in Irps, DispatchSignal(r) PROVE TypeOK'
    BY <1>3 DEF DispatchSignal, DeviceTypes, IrpTypes
  <1>4. ASSUME NEW r \in Irps, Retire(r) PROVE TypeOK'
    BY <1>4, NoReqType, NoDataType DEF Retire, DeviceTypes, IrpTypes
  <1>5. ASSUME NEW r \in Irps, LowerRead(r) PROVE TypeOK'
    <2>1. disk \in Contents
      BY DEF DeviceTypes, Contents
    <2>2. PICK good \in BOOLEAN, d \in Contents : Complete(r, good, d)
      BY <1>5, <2>1, OnExtentType, NoDataType DEF LowerRead
    <2> QED
      BY <1>5, <2>2, CompleteType DEF LowerRead, DeviceTypes, IrpTypes
  <1>6. ASSUME NEW r \in Irps, LowerWrite(r) PROVE TypeOK'
    <2>1. req[r].val \in Values
      BY <1>6 DEF LowerWrite, IrpTypes, Requests
    <2>2. PICK good \in BOOLEAN : Complete(r, good, NoData)
      BY <1>6 DEF LowerWrite
    <2>3. \E S : disk' = Overwrite(disk, S, req[r].val)
      BY <1>6 DEF LowerWrite
    <2>4. disk' \in [Sectors -> Values]
      BY <2>1, <2>3, OverwriteType DEF DeviceTypes
    <2> QED
      BY <1>6, <2>2, <2>4, NoDataType, CompleteType DEF LowerWrite, DeviceTypes, IrpTypes
  <1>7. ASSUME VolumeOnline PROVE TypeOK'
    <2>1. onlines' \in 0 .. MaxOnline
      BY <1>7, DPAssumption DEF VolumeOnline, DeviceTypes
    <2>2. /\ bitmap' \in {"null", "live", "freed"}
          /\ marked' \subseteq Sectors
          /\ tempFile' \in {"none", "open", "closed"}
          /\ gProtectDevExt' \in BOOLEAN
      BY <1>7 DEF VolumeOnline, OnlineSucceeds, OnlineFails, DeviceTypes
    <2>3. DeviceTypes'
      BY <1>7, <2>1, <2>2 DEF VolumeOnline, DeviceTypes
    <2>4. IrpTypes'
      BY <1>7 DEF VolumeOnline, IrpTypes
    <2> QED
      BY <2>3, <2>4
  <1>8. ASSUME Reinitialize PROVE TypeOK'
    BY <1>8, DPAssumption DEF Reinitialize, DeviceTypes, IrpTypes
  <1>9. ASSUME RemoveSignal \/ RemoveFinish PROVE TypeOK'
    <2>1. DeviceTypes'
      BY <1>9 DEF RemoveSignal, RemoveFinish, DeviceTypes
    <2>2. IrpTypes'
      BY <1>9 DEF RemoveSignal, RemoveFinish, IrpTypes
    <2> QED
      BY <2>1, <2>2
  <1>10. ASSUME WorkerWait \/ WorkerCheck PROVE TypeOK'
    <2>1. DeviceTypes'
      BY <1>10 DEF WorkerWait, WorkerCheck, DeviceTypes
    <2>2. IrpTypes'
      BY <1>10 DEF WorkerWait, WorkerCheck, IrpTypes
    <2> QED
      BY <2>1, <2>2
  <1>11. ASSUME WorkerTake PROVE TypeOK'
    <2>1. queue # <<>> => Head(queue) \in Irps /\ Tail(queue) \in Seq(Irps)
      BY DEF DeviceTypes
    <2> QED
      BY <1>11, <2>1 DEF WorkerTake, DeviceTypes, IrpTypes
  <1>12. ASSUME WorkerNoBuffer \/ WorkerReadClear PROVE TypeOK'
    BY <1>12, PassDownType DEF WorkerNoBuffer, WorkerReadClear, Handling, PassDown, DeviceTypes
  <1>13. file \in Contents /\ disk \in Contents
    BY DEF DeviceTypes, Contents
  <1>14. ASSUME WorkerReadSet \/ WorkerReadUnknown PROVE TypeOK'
    <2>1. PICK good \in BOOLEAN, d \in Contents : Finish(good, d)
      BY <1>13, <1>14, OnExtentType, NoDataType DEF WorkerReadSet, WorkerReadUnknown
    <2> QED
      BY <1>14, <2>1, FinishType DEF WorkerReadSet, WorkerReadUnknown, Handling, DeviceTypes
  <1>15. ASSUME WorkerReadBlend PROVE TypeOK'
    <2>1. CASE Finish(FALSE, NoData)
      BY <1>15, <2>1, FinishType, NoDataType DEF WorkerReadBlend, Handling, DeviceTypes
    <2>2. CASE ~Finish(FALSE, NoData)
      BY <1>13, <1>15, <2>2, OnExtentType DEF WorkerReadBlend, Handling, DeviceTypes, IrpTypes
    <2> QED
      BY <2>1, <2>2
  <1>16. ASSUME WorkerBlendLower PROVE TypeOK'
    <2>1. CASE Finish(FALSE, NoData)
      BY <1>16, <2>1, FinishType, NoDataType DEF WorkerBlendLower, DeviceTypes
    <2>2. CASE ~Finish(FALSE, NoData)
      <3>1. DeviceTypes'
        BY <1>16 DEF WorkerBlendLower, DeviceTypes
      <3>2. data' \in [Irps -> Contents]
        <4>1. OnExtent(disk, req[cur].ext) \in Contents
          BY <1>13, OnExtentType
        <4>2. data' = [data EXCEPT ![cur] = OnExtent(disk, req[cur].ext)]
          BY <1>16, <2>2 DEF WorkerBlendLower
        <4> QED
          BY <4>1, <4>2 DEF IrpTypes
      <3>3. IrpTypes'
        BY <1>16, <2>2, <3>2 DEF WorkerBlendLower, IrpTypes
      <3> QED
        BY <3>1, <3>3
    <2> QED
      BY <2>1, <2>2
  <1>17. ASSUME WorkerMerge PROVE TypeOK'
    <2>1. \A M : Merged(M) \in Contents
      BY <1>17 DEF Merged, WorkerMerge, IrpTypes, Contents
    <2>2. PICK good \in BOOLEAN, d \in Contents : Finish(good, d)
      BY <1>17, <2>1, NoDataType DEF WorkerMerge
    <2> QED
      BY <1>17, <2>2, FinishType DEF WorkerMerge, DeviceTypes
  <1>18. ASSUME WorkerWriteFile PROVE TypeOK'
    <2>1. req[cur].val \in Values
      BY <1>18 DEF WorkerWriteFile, Handling, IrpTypes, Requests
    <2>2. \E S : file' = Overwrite(file, S, req[cur].val)
      BY <1>18 DEF WorkerWriteFile
    <2>3. file' \in [Sectors -> Values]
      BY <2>1, <2>2, OverwriteType DEF DeviceTypes
    <2>4. DeviceTypes'
      BY <1>18, <2>3 DEF WorkerWriteFile, Handling, DeviceTypes
    <2>5. CASE Finish(FALSE, NoData)
      BY <1>18, <2>4, <2>5, FinishType, NoDataType DEF WorkerWriteFile, Handling
    <2>6. CASE ~Finish(FALSE, NoData)
      BY <1>18, <2>4, <2>6 DEF WorkerWriteFile, Handling, IrpTypes
    <2> QED
      BY <2>5, <2>6
  <1>19. ASSUME WorkerSetBit PROVE TypeOK'
    <2>1. PICK good \in BOOLEAN : Finish(good, NoData)
      BY <1>19 DEF WorkerSetBit
    <2>2. req[cur].ext \in SUBSET Sectors
      BY <1>19 DEF WorkerSetBit, IrpTypes, Requests
    <2> QED
      BY <1>19, <2>1, <2>2, NoDataType, FinishType DEF WorkerSetBit, DeviceTypes
  <1>20. ASSUME UNCHANGED vars PROVE TypeOK'
    BY <1>20 DEF vars, DeviceTypes, IrpTypes
  <1> QED
    BY <1>2, <1>3, <1>4, <1>5, <1>6, <1>7, <1>8, <1>9, <1>10, <1>11, <1>12, <1>14,
       <1>15, <1>16, <1>17, <1>18, <1>19, <1>20 DEF Next, Worker, Lower

\* Every variable of the filter keeps its type, whatever the IRPs, sectors
\* and values, and whatever fails below (DPDispatchReadWrite, DPReadWriteThread).
THEOREM TypeCorrect == Spec => []TypeOK
  <1>1. Init => TypeOK
    BY InitType
  <1>2. TypeOK /\ [Next]_vars => TypeOK'
    BY StepType
  <1> QED
    BY <1>1, <1>2, PTL DEF Spec

-----------------------------------------------------------------------------
(* The inductive invariant.                                                *)

\* The worker's IRP is its own, and the queue holds IRPs that wait, once each.
Owned ==
    /\ pc \in Handlers => st[cur] = "worker"
    /\ \A i \in 1 .. Len(queue) : st[queue[i]] = "queued"
    /\ \A i, j \in 1 .. Len(queue) : queue[i] = queue[j] => i = j

\* Protection is set once, after the volume is online; before it no IRP is
\* queued and no sector is marked.
Phases ==
    /\ protect => reinit /\ gProtectDevExt
    /\ ~protect => queue = <<>> /\ pc \notin Handlers /\ marked = {}
    /\ gProtectDevExt => onlines > 0
    /\ gProtectDevExt /\ ~removed => bitmap = "live"
    /\ removed => pc = "exited"

\* What the program counter of the worker says of the IRP it serves.
Serving ==
    /\ pc \in {"blend", "merge"} => req[cur].op = "read"
    /\ pc = "setbit" => /\ req[cur].op = "write"
                        /\ \A s \in req[cur].ext : file[s] = req[cur].val

\* A pending write leaves its extent undetermined; where it is solo, it is
\* the only one; below, it is early or has no length, and its solo sectors
\* are not redirected.
Writes ==
    \A r \in Irps : Pending(r) /\ req[r].op = "write" =>
        /\ solo[r] \subseteq req[r].ext
        /\ \A s \in req[r].ext : expect[s] = Unknown
        /\ \A s \in solo[r] : \A q \in Irps :
              q # r /\ Pending(q) /\ req[q].op = "write" => s \notin req[q].ext
        /\ st[r] = "lower" => /\ req[r].early \/ req[r].ext = {}
                              /\ solo[r] \cap marked = {}

\* What a pending read must return is still what its sectors must hold; when
\* it is below, those sectors are not redirected.
Reads ==
    \A r \in Irps : Pending(r) /\ req[r].op = "read" =>
        \A s \in req[r].ext : snap[r][s] # Unknown =>
            /\ expect[s] = snap[r][s]
            /\ st[r] = "lower" => s \notin marked

\* The buffers of a read that blends file and disk.
Blending ==
    /\ pc \in {"blend", "merge"} =>
          \A s \in req[cur].ext \cap marked :
              snap[cur][s] # Unknown => fileBuf[s] = snap[cur][s]
    /\ pc = "merge" =>
          \A s \in req[cur].ext \ marked :
              snap[cur][s] # Unknown => data[cur][s] = snap[cur][s]

Facts ==
    /\ Owned /\ Phases /\ Serving /\ Writes /\ Reads /\ Blending
    /\ AckedDataKept /\ ReadsSeeAckedData

IInv == TypeOK /\ Facts

LEMMA InitFacts == Init => Facts
  BY DEF Init, Facts, Owned, Phases, Serving, Writes, Reads, Blending, AckedDataKept,
         ReadsSeeAckedData, Handlers, Pending, View

-----------------------------------------------------------------------------
(* What a step that leaves certain variables alone cannot disturb.         *)
LEMMA FrameOwned == Owned /\ UNCHANGED <<pc, cur, queue, st>> => Owned'
  BY DEF Owned

LEMMA FramePhases ==
  Phases /\ UNCHANGED <<protect, bitmap, marked, gProtectDevExt, reinit, onlines, removed,
                        queue, pc>> => Phases'
  BY DEF Phases

LEMMA FrameServing == Serving /\ UNCHANGED <<pc, cur, req, file>> => Serving'
  BY DEF Serving

LEMMA FrameWrites == Writes /\ UNCHANGED <<st, req, expect, solo, marked>> => Writes'
  BY DEF Writes, Pending

LEMMA FrameReads == Reads /\ UNCHANGED <<st, req, expect, snap, marked>> => Reads'
  BY DEF Reads, Pending

LEMMA FrameBlending ==
  Blending /\ UNCHANGED <<pc, cur, req, marked, snap, fileBuf, data>> => Blending'
  BY DEF Blending

LEMMA FrameAcked == AckedDataKept /\ UNCHANGED <<expect, marked, disk, file>> => AckedDataKept'
  BY DEF AckedDataKept, View

LEMMA FrameDone == ReadsSeeAckedData /\ UNCHANGED <<st, req, ok, data, snap>> => ReadsSeeAckedData'
  BY DEF ReadsSeeAckedData

-----------------------------------------------------------------------------
(* A request is issued.                                                    *)
LEMMA DispatchFacts ==
  ASSUME IInv, NEW r \in Irps, NEW op \in {"read", "write"}, NEW e \in SUBSET Sectors,
         NEW v \in Values \cup {Unknown}, Dispatch(r, op, e, v)
  PROVE  Facts'
  <1> USE DEF IInv, Facts, TypeOK, devVars, queueVars, storeVars, thread, irpVars, history
  <1>1. /\ st[r] = "idle" /\ st'[r] \in {"queued", "lower"}
        /\ \A q \in Irps \ {r} : st'[q] = st[q] /\ req'[q] = req[q]
        /\ req'[r] = [op |-> op, ext |-> e, val |-> v, early |-> ~protect]
        /\ st'[r] = "lower" <=> ~protect
    BY DEF Dispatch, IrpTypes
  <1>2. UNCHANGED <<protect, bitmap, marked, tempFile, gProtectDevExt, reinit, onlines,
                    removed, disk, file, pc, cur, fileBuf, ok, data>>
    BY DEF Dispatch
  <1>3. Issued(r, op, e)
    BY DEF Dispatch
  <1>4. pc \in Handlers => cur # r /\ cur \in Irps
    BY <1>1 DEF Owned, IrpTypes
  <1>5. Owned'
    <2>1. \A i \in 1 .. Len(queue) : queue[i] \in Irps /\ queue[i] # r
      BY <1>1 DEF Owned, DeviceTypes
    <2>2. CASE protect
      <3>1. queue' = Append(queue, r) /\ st'[r] = "queued"
        BY <2>2 DEF Dispatch, IrpTypes
      <3>2. /\ Len(queue') = Len(queue) + 1
            /\ queue'[Len(queue) + 1] = r
            /\ \A i \in 1 .. Len(queue) : queue'[i] = queue[i]
        BY <3>1 DEF DeviceTypes
      <3>3. \A i \in 1 .. Len(queue') : i = Len(queue) + 1 \/ i \in 1 .. Len(queue)
        BY <3>2 DEF DeviceTypes
      <3> QED
        BY <1>1, <1>2, <1>4, <2>1, <3>1, <3>2, <3>3 DEF Owned
    <2>3. CASE ~protect
      BY <1>1, <1>2, <1>4, <2>1, <2>3 DEF Owned, Dispatch
    <2> QED
      BY <2>2, <2>3
  <1>6. Phases'
    BY <1>2 DEF Phases, Dispatch
  <1>7. Serving'
    BY <1>1, <1>2, <1>4 DEF Serving, Handlers
  <1>8. \A q \in Irps \ {r} : /\ solo'[q] \subseteq solo[q]
                              /\ op = "write" => solo'[q] \cap e = {}
    BY <1>3 DEF Issued, IrpTypes
  <1>9. Writes'
    <2>1. ASSUME NEW q \in Irps, (Pending(q) /\ req[q].op = "write")'
          PROVE  /\ (solo[q] \subseteq req[q].ext)'
                 /\ \A s \in req'[q].ext : expect'[s] = Unknown
                 /\ \A s \in solo'[q] : \A p \in Irps :
                       p # q /\ (Pending(p) /\ req[p].op = "write")' => s \notin req'[p].ext
                 /\ st'[q] = "lower" => /\ req'[q].early \/ req'[q].ext = {}
                                        /\ solo'[q] \cap marked' = {}
      <3>1. \A s \in Sectors : expect[s] = Unknown => expect'[s] = Unknown
        BY <1>3 DEF Issued, Overwrite
      <3>2. CASE q = r
        <4>1. op = "write" /\ solo'[r] = {s \in e : ~WritePending(s)}
          BY <1>1, <1>3, <2>1, <3>2 DEF Issued, IrpTypes
        <4>2. \A s \in e : expect'[s] = Unknown
          BY <1>3, <4>1 DEF Issued, Overwrite
        <4>3. \A s \in solo'[r] : \A p \in Irps :
                 p # r /\ (Pending(p) /\ req[p].op = "write")' => s \notin req'[p].ext
          BY <1>1, <4>1 DEF WritePending, Pending
        <4>4. st'[r] = "lower" => req'[r].early
          <5>1. st'[r] = "lower" => ~protect
            BY <1>1
          <5>2. req'[r].early = ~protect
            BY <1>1
          <5> QED
            BY <5>1, <5>2, Zenon
        <4>5. st'[r] = "lower" => solo'[r] \cap marked' = {}
          BY <1>1, <1>2 DEF Phases
        <4> QED
          BY <1>1, <3>2, <4>1, <4>2, <4>3, <4>4, <4>5
      <3>3. CASE q # r
        <4>1. Pending(q) /\ req[q].op = "write" /\ req[q].ext \in SUBSET Sectors
          BY <1>1, <2>1, <3>3 DEF Pending, IrpTypes, Requests
        <4> QED
          BY <1>1, <1>2, <1>8, <3>1, <3>3, <4>1 DEF Writes, Pending
      <3> QED
        BY <3>2, <3>3
    <2> QED
      BY <2>1 DEF Writes
  <1>10. Reads'
    <2> SUFFICES ASSUME NEW q \in Irps, (Pending(q) /\ req[q].op = "read")',
                        NEW s \in req'[q].ext, snap'[q][s] # Unknown
                 PROVE  /\ expect'[s] = snap'[q][s]
                        /\ st'[q] = "lower" => s \notin marked'
      BY DEF Reads
    <2>1. CASE q = r
      <3>1. op = "read" /\ expect' = expect /\ snap'[r] = OnExtent(expect, e) /\ s \in e
        BY <1>1, <1>3, <2>1 DEF Issued, IrpTypes
      <3> QED
        BY <1>1, <1>2, <2>1, <3>1 DEF OnExtent, Phases
    <2>2. CASE q # r
      <3>1. Pending(q) /\ req[q].op = "read" /\ s \in req[q].ext /\ s \in Sectors
        BY <1>1, <2>2 DEF Pending, IrpTypes, Requests
      <3>2. snap'[q][s] = snap[q][s] /\ (op = "write" => s \notin e)
        BY <1>3, <2>2, <3>1 DEF Issued, Overwrite, IrpTypes
      <3>3. expect'[s] = expect[s]
        BY <1>3, <3>1, <3>2 DEF Issued, Overwrite
      <3> QED
        BY <1>1, <1>2, <2>2, <3>1, <3>2, <3>3 DEF Reads
    <2> QED
      BY <2>1, <2>2
  <1>11. Blending'
    <2>1. pc \in Handlers => \A s \in Sectors : snap'[cur][s] # Unknown => snap'[cur][s] = snap[cur][s]
      BY <1>3, <1>4 DEF Issued, Overwrite, IrpTypes
    <2>2. pc \in Handlers => req'[cur] = req[cur] /\ req[cur].ext \subseteq Sectors
      BY <1>1, <1>4 DEF IrpTypes, Requests
    <2> QED
      BY <1>2, <2>1, <2>2 DEF Blending, Handlers
  <1>12. AckedDataKept'
    BY <1>2, <1>3 DEF AckedDataKept, View, Issued, Overwrite
  <1>13. ReadsSeeAckedData'
    <2> SUFFICES ASSUME NEW q \in Irps, (st[q] = "done" /\ ok[q] /\ req[q].op = "read")',
                        NEW s \in req'[q].ext, snap'[q][s] # Unknown
                 PROVE  data'[q][s] = snap'[q][s]
      BY DEF ReadsSeeAckedData
    <2>1. q # r /\ s \in Sectors
      BY <1>1 DEF IrpTypes, Requests
    <2>2. snap'[q][s] = snap[q][s]
      BY <1>3, <2>1 DEF Issued, Overwrite, IrpTypes
    <2> QED
      BY <1>1, <1>2, <2>1, <2>2 DEF ReadsSeeAckedData
  <1> QED
    BY <1>5, <1>6, <1>7, <1>9, <1>10, <1>11, <1>12, <1>13

-----------------------------------------------------------------------------
(* A request ends.                                                         *)

\* Completing a pending IRP, when it marks at most its own extent, and when
\* a read that succeeds returns what it must.
LEMMA CompleteFacts ==
  ASSUME IInv, NEW r \in Irps, Pending(r), NEW good \in BOOLEAN, NEW d \in Contents,
         Complete(r, good, d),
         \A s \in marked' : s \in marked \/ (req[r].op = "write" /\ s \in req[r].ext),
         good /\ req[r].op = "read" =>
            \A s \in req[r].ext : snap[r][s] # Unknown => d[s] = snap[r][s]
  PROVE  Writes' /\ Reads' /\ ReadsSeeAckedData'
  <1> USE DEF IInv, Facts, TypeOK
  <1>1. /\ st'[r] = "done" /\ \A q \in Irps \ {r} : st'[q] = st[q]
        /\ ok'[r] = good /\ \A q \in Irps \ {r} : ok'[q] = ok[q]
        /\ data'[r] = d /\ \A q \in Irps \ {r} : data'[q] = data[q]
        /\ UNCHANGED <<req, solo, snap>>
    BY DEF Complete, IrpTypes
  <1>2. \A q \in Irps : Pending(q)' => q # r /\ Pending(q)
    BY <1>1 DEF Pending
  <1>3. \A q \in Irps : req[q].ext \subseteq Sectors
    BY DEF IrpTypes, Requests
  <1>4. \A s \in Sectors :
           expect'[s] = expect[s] \/ (req[r].op = "write" /\ s \in solo[r])
    BY DEF Complete, Overwrite
  <1>5. Writes'
    <2>1. ASSUME NEW q \in Irps, Pending(q)', req'[q].op = "write"
          PROVE  /\ solo'[q] \subseteq req'[q].ext
                 /\ \A s \in req'[q].ext : expect'[s] = Unknown
                 /\ \A s \in solo'[q] : \A p \in Irps :
                       p # q /\ Pending(p)' /\ req'[p].op = "write" => s \notin req'[p].ext
                 /\ st'[q] = "lower" => /\ req'[q].early \/ req'[q].ext = {}
                                        /\ solo'[q] \cap marked' = {}
      <3>1. q # r /\ Pending(q) /\ req[q].op = "write"
        BY <1>1, <1>2, <2>1
      <3>2. \A s \in req[q].ext : expect[s] = Unknown /\ expect'[s] = Unknown
        BY <1>3, <1>4, <3>1 DEF Writes
      <3>3. \A s \in solo[q] : req[r].op = "write" => s \notin req[r].ext
        BY <3>1 DEF Writes
      <3>4. st[q] = "lower" => solo[q] \cap marked' = {}
        BY <3>1, <3>3 DEF Writes
      <3> QED
        BY <1>1, <1>2, <3>1, <3>2, <3>4 DEF Writes
    <2> QED
      BY <2>1 DEF Writes
  <1>6. Reads'
    <2> SUFFICES ASSUME NEW q \in Irps, Pending(q)', req'[q].op = "read",
                        NEW s \in req'[q].ext, snap'[q][s] # Unknown
                 PROVE  /\ expect'[s] = snap'[q][s]
                        /\ st'[q] = "lower" => s \notin marked'
      BY DEF Reads
    <2>1. q # r /\ Pending(q) /\ req[q].op = "read" /\ s \in Sectors
      BY <1>1, <1>2, <1>3
    <2>2. expect[s] = snap[q][s] /\ expect[s] # Unknown
      BY <1>1, <2>1 DEF Reads
    <2>3. req[r].op = "write" => s \notin req[r].ext /\ s \notin solo[r]
      BY <2>2 DEF Writes
    <2> QED
      BY <1>1, <1>4, <2>1, <2>2, <2>3 DEF Reads
  <1>7. ReadsSeeAckedData'
    BY <1>1 DEF ReadsSeeAckedData
  <1> QED
    BY <1>5, <1>6, <1>7

LEMMA RetireFacts ==
  ASSUME IInv, NEW r \in Irps, Retire(r)
  PROVE  Facts'
  <1> USE DEF IInv, Facts, TypeOK, devVars, queueVars, storeVars, thread
  <1>1. /\ st[r] = "done" /\ st'[r] = "idle"
        /\ \A q \in Irps \ {r} : /\ st'[q] = st[q] /\ req'[q] = req[q] /\ ok'[q] = ok[q]
                                 /\ data'[q] = data[q] /\ solo'[q] = solo[q]
                                 /\ snap'[q] = snap[q]
    BY DEF Retire, IrpTypes
  <1>2. UNCHANGED <<protect, bitmap, marked, tempFile, gProtectDevExt, reinit, onlines,
                    queue, removed, disk, file, pc, cur, fileBuf, expect>>
    BY DEF Retire
  <1>3. \A q \in Irps : Pending(q)' => q # r /\ Pending(q)
    BY <1>1 DEF Pending
  <1>4. pc \in Handlers => cur \in Irps /\ cur # r
    BY <1>1 DEF Owned, IrpTypes
  <1>5. Owned'
    <2>1. \A i \in 1 .. Len(queue) : queue[i] \in Irps /\ queue[i] # r
      BY <1>1 DEF Owned, DeviceTypes
    <2> QED
      BY <1>1, <1>2, <1>4, <2>1 DEF Owned
  <1>6. Serving' /\ Blending'
    BY <1>1, <1>2, <1>4 DEF Serving, Blending, Handlers
  <1>7. Writes'
    BY <1>1, <1>2, <1>3 DEF Writes
  <1>8. Reads'
    BY <1>1, <1>2, <1>3 DEF Reads
  <1>9. ReadsSeeAckedData'
    BY <1>1 DEF ReadsSeeAckedData
  <1> QED
    BY <1>2, <1>5, <1>6, <1>7, <1>8, <1>9, FramePhases, FrameAcked

\* The lower device completes a read.
LEMMA LowerReadFacts ==
  ASSUME IInv, NEW r \in Irps, LowerRead(r)
  PROVE  Facts'
  <1> USE DEF IInv, Facts, TypeOK, devVars, queueVars, storeVars, thread
  <1>1. st[r] = "lower" /\ req[r].op = "read" /\ Pending(r)
    BY DEF LowerRead, Pending
  <1>2. UNCHANGED <<protect, bitmap, marked, tempFile, gProtectDevExt, reinit, onlines,
                    queue, removed, disk, file, pc, cur, fileBuf>>
    BY DEF LowerRead
  <1>3. disk \in Contents /\ req[r].ext \subseteq Sectors
    BY DEF DeviceTypes, IrpTypes, Contents, Requests
  <1>4. PICK good \in BOOLEAN, d \in Contents :
           /\ Complete(r, good, d)
           /\ good => d = OnExtent(disk, req[r].ext)
    BY <1>3, NoDataType, OnExtentType DEF LowerRead
  <1>5. \A s \in req[r].ext : snap[r][s] # Unknown => disk[s] = snap[r][s]
    BY <1>1, <1>3 DEF Reads, AckedDataKept, View
  <1>6. Writes' /\ Reads' /\ ReadsSeeAckedData'
    <2>1. good => \A s \in req[r].ext : snap[r][s] # Unknown => d[s] = snap[r][s]
      BY <1>3, <1>4, <1>5 DEF OnExtent
    <2> QED
      BY <1>1, <1>2, <1>4, <2>1, CompleteFacts
  <1>7. /\ \A q \in Irps \ {r} : st'[q] = st[q] /\ data'[q] = data[q]
        /\ UNCHANGED <<req, solo, snap, expect>>
    BY <1>1, <1>4 DEF Complete, IrpTypes
  <1>8. pc \in Handlers => cur \in Irps /\ cur # r
    BY <1>1 DEF Owned, IrpTypes
  <1>9. Owned'
    BY <1>1, <1>2, <1>7, <1>8 DEF Owned, DeviceTypes
  <1>10. Blending'
    BY <1>2, <1>7, <1>8 DEF Blending, Handlers
  <1> QED
    BY <1>2, <1>6, <1>7, <1>9, <1>10, FramePhases, FrameServing, FrameAcked

\* The lower device completes a write.
LEMMA LowerWriteFacts ==
  ASSUME IInv, NEW r \in Irps, LowerWrite(r)
  PROVE  Facts'
  <1> USE DEF IInv, Facts, TypeOK, devVars, queueVars, storeVars, thread
  <1>1. st[r] = "lower" /\ req[r].op = "write" /\ Pending(r)
    BY DEF LowerWrite, Pending
  <1>2. UNCHANGED <<protect, bitmap, marked, tempFile, gProtectDevExt, reinit, onlines,
                    queue, removed, file, pc, cur, fileBuf>>
    BY DEF LowerWrite
  <1>3. PICK good \in BOOLEAN : Complete(r, good, NoData)
    BY DEF LowerWrite
  <1>4. Writes' /\ Reads' /\ ReadsSeeAckedData'
    BY <1>1, <1>2, <1>3, NoDataType, CompleteFacts
  <1>5. /\ \A q \in Irps \ {r} : st'[q] = st[q] /\ data'[q] = data[q]
        /\ UNCHANGED <<req, solo, snap>>
    BY <1>1, <1>3 DEF Complete, IrpTypes
  <1>6. pc \in Handlers => cur \in Irps /\ cur # r
    BY <1>1 DEF Owned, IrpTypes
  <1>7. Owned'
    BY <1>1, <1>2, <1>5, <1>6 DEF Owned, DeviceTypes
  <1>8. Blending'
    BY <1>2, <1>5, <1>6 DEF Blending, Handlers
  <1>9. AckedDataKept'
    <2> SUFFICES ASSUME NEW s \in Sectors, expect'[s] # Unknown PROVE View(s)' = expect'[s]
      BY DEF AckedDataKept
    <2>1. /\ solo[r] \subseteq req[r].ext /\ solo[r] \cap marked = {}
          /\ \A x \in req[r].ext : expect[x] = Unknown
      BY <1>1 DEF Writes
    <2>2. s \notin req[r].ext => disk'[s] = disk[s]
      BY DEF LowerWrite, Overwrite
    <2>3. CASE expect'[s] = expect[s]
      BY <1>2, <2>1, <2>2, <2>3 DEF AckedDataKept, View
    <2>4. CASE expect'[s] # expect[s]
      <3>1. s \in solo[r] /\ expect'[s] = req[r].val /\ disk'[s] = req[r].val
        BY <2>1, <2>4 DEF LowerWrite, Complete, Overwrite
      <3> QED
        BY <1>2, <2>1, <3>1 DEF View
    <2> QED
      BY <2>3, <2>4
  <1> QED
    BY <1>2, <1>4, <1>5, <1>7, <1>8, <1>9, FramePhases, FrameServing

-----------------------------------------------------------------------------
(* The device: IOCTL_VOLUME_ONLINE, the boot callback, removal.            *)
LEMMA SignalFacts ==
  ASSUME IInv,
         \/ \E r \in Irps : DispatchSignal(r)
         \/ RemoveSignal
  PROVE  Facts'
  <1>1. UNCHANGED <<devVars, queue, removed, storeVars, thread, irpVars, history>>
    BY DEF DispatchSignal, RemoveSignal
  <1> QED
    BY <1>1, FrameOwned, FramePhases, FrameServing, FrameWrites, FrameReads,
       FrameBlending, FrameAcked, FrameDone
       DEF IInv, Facts, devVars, storeVars, thread, irpVars, history

\* Only the first time: nothing is protected, so nothing is marked.
LEMMA OnlineFacts ==
  ASSUME IInv, MaxOnline <= 1, VolumeOnline
  PROVE  Facts'
  <1> USE DEF IInv, Facts, TypeOK
  <1>1. UNCHANGED <<protect, reinit, queue, removed, disk, file, pc, cur, fileBuf,
                    st, req, ok, data, expect, solo, snap>>
    BY DEF VolumeOnline, queueVars, storeVars, thread, irpVars, history
  <1>2. onlines = 0 /\ onlines' = 1
    BY DPAssumption DEF VolumeOnline, DeviceTypes
  <1>3. ~gProtectDevExt /\ ~protect /\ marked = {} /\ ~removed
    BY <1>2 DEF Phases, VolumeOnline
  <1>4. marked' = {} /\ (gProtectDevExt' => bitmap' = "live")
    BY <1>3 DEF VolumeOnline, OnlineSucceeds, OnlineFails
  <1>5. Phases'
    BY <1>1, <1>2, <1>3, <1>4 DEF Phases
  <1> QED
    BY <1>1, <1>3, <1>4, <1>5, FrameOwned, FrameServing, FrameWrites, FrameReads,
       FrameBlending, FrameAcked, FrameDone

LEMMA ReinitializeFacts ==
  ASSUME IInv, Reinitialize
  PROVE  Facts'
  <1> USE DEF IInv, Facts, TypeOK
  <1>1. UNCHANGED <<bitmap, marked, gProtectDevExt, onlines, queue, removed, disk, pc, cur,
                    fileBuf, st, req, ok, data, expect, solo, snap>>
    BY DEF Reinitialize, queueVars, thread, irpVars, history
  <1>2. ~protect /\ marked = {} /\ pc \notin Handlers
    BY DEF Phases, Reinitialize
  <1>3. Phases'
    BY <1>1, <1>2 DEF Phases, Reinitialize
  <1>4. Serving'
    BY <1>1, <1>2 DEF Serving, Handlers
  <1>5. AckedDataKept'
    BY <1>1, <1>2 DEF AckedDataKept, View
  <1> QED
    BY <1>1, <1>3, <1>4, <1>5, FrameOwned, FrameWrites, FrameReads, FrameBlending, FrameDone

LEMMA RemoveFinishFacts ==
  ASSUME IInv, RemoveFinish
  PROVE  Facts'
  <1> USE DEF IInv, Facts
  <1>1. /\ UNCHANGED <<protect, marked, gProtectDevExt, reinit, onlines, queue, disk, file,
                       pc, cur, fileBuf, st, req, ok, data, expect, solo, snap>>
        /\ removed' /\ pc = "exited"
    BY DEF RemoveFinish, queueVars, storeVars, thread, irpVars, history
  <1>2. Phases'
    BY <1>1 DEF Phases
  <1> QED
    BY <1>1, <1>2, FrameOwned, FrameServing, FrameWrites, FrameReads, FrameBlending,
       FrameAcked, FrameDone

-----------------------------------------------------------------------------
(* The worker.                                                             *)
LEMMA WorkerIdleFacts ==
  ASSUME IInv, WorkerWait \/ WorkerCheck
  PROVE  Facts'
  <1> USE DEF IInv, Facts
  <1>1. /\ UNCHANGED <<devVars, queue, removed, storeVars, cur, fileBuf, irpVars, history>>
        /\ pc \notin Handlers /\ pc' \notin Handlers
        /\ ~removed
    BY DEF WorkerWait, WorkerCheck, queueVars, Handlers, Phases
  <1> USE DEF devVars, storeVars, irpVars, history
  <1>2. Owned' /\ Phases'
    BY <1>1 DEF Owned, Phases
  <1>3. Serving' /\ Blending'
    BY <1>1 DEF Serving, Blending, Handlers
  <1> QED
    BY <1>1, <1>2, <1>3, FrameWrites, FrameReads, FrameAcked, FrameDone

LEMMA WorkerTakeFacts ==
  ASSUME IInv, WorkerTake
  PROVE  Facts'
  <1> USE DEF IInv, Facts, TypeOK
  <1>1. /\ UNCHANGED <<devVars, removed, storeVars, fileBuf, req, ok, data, history>>
        /\ pc = "drain"
    BY DEF WorkerTake
  <1> USE DEF devVars, storeVars, history
  <1>2. CASE queue = <<>>
    <2>1. UNCHANGED <<queue, cur, st>> /\ pc' = "wait"
      BY <1>2 DEF WorkerTake
    <2>2. Owned' /\ Phases' /\ Serving' /\ Blending'
      BY <1>1, <2>1 DEF Owned, Phases, Serving, Blending, Handlers
    <2> QED
      BY <1>1, <2>1, <2>2, FrameWrites, FrameReads, FrameAcked, FrameDone
  <1>3. CASE queue # <<>>
    <2> DEFINE h == Head(queue)
    <2>1. /\ pc' = "handle" /\ cur' = h /\ queue' = Tail(queue)
          /\ st' = [st EXCEPT ![h] = "worker"]
      BY <1>3 DEF WorkerTake
    <2>2. /\ h = queue[1] /\ h \in Irps /\ Len(queue) >= 1
          /\ Len(queue') = Len(queue) - 1
          /\ \A i \in 1 .. Len(queue') : queue'[i] = queue[i + 1] /\ queue[i + 1] \in Irps
      BY <1>3, <2>1 DEF DeviceTypes
    <2>3. /\ st[h] = "queued" /\ st'[h] = "worker"
          /\ \A q \in Irps \ {h} : st'[q] = st[q]
      BY <2>1, <2>2 DEF Owned, DeviceTypes, IrpTypes
    <2>4. Owned'
      <3>1. \A i \in 1 .. Len(queue') : i + 1 \in 1 .. Len(queue) /\ i + 1 # 1
        BY <2>2 DEF DeviceTypes
      <3>2. \A i \in 1 .. Len(queue') : queue'[i] # h
        BY <2>2, <3>1 DEF Owned, DeviceTypes
      <3>3. \A i \in 1 .. Len(queue') : st'[queue'[i]] = "queued"
        BY <2>2, <2>3, <3>1, <3>2 DEF Owned
      <3>4. \A i, j \in 1 .. Len(queue') : queue'[i] = queue'[j] => i = j
        BY <2>2, <3>1 DEF Owned, DeviceTypes
      <3> QED
        BY <2>1, <2>3, <3>3, <3>4 DEF Owned
    <2>5. Phases'
      <3>1. protect
        BY <1>3 DEF Phases
      <3> QED
        BY <1>1, <3>1 DEF Phases
    <2>6. Serving' /\ Blending'
      BY <2>1 DEF Serving, Blending, Handlers
    <2>7. \A q \in Irps : /\ Pending(q)' <=> Pending(q)
                          /\ st'[q] = "lower" <=> st[q] = "lower"
                          /\ st'[q] = "done" <=> st[q] = "done"
      BY <2>3 DEF Pending
    <2>8. Writes' /\ Reads'
      BY <1>1, <2>7 DEF Writes, Reads
    <2>9. ReadsSeeAckedData'
      BY <1>1, <2>7 DEF ReadsSeeAckedData
    <2> QED
      BY <1>1, <2>4, <2>5, <2>6, <2>8, <2>9, FrameAcked
  <1> QED
    BY <1>2, <1>3

\* While the worker serves an IRP the volume is protected and not removed.
LEMMA Served ==
  ASSUME IInv, pc \in Handlers
  PROVE  /\ cur \in Irps /\ st[cur] = "worker" /\ Pending(cur)
         /\ req[cur].ext \subseteq Sectors
         /\ protect /\ ~removed /\ bitmap = "live" /\ Bits = {marked}
  BY DEF IInv, Facts, TypeOK, IrpTypes, Requests, Owned, Phases, Pending, Bits, Handlers

LEMMA FinishFacts ==
  ASSUME IInv, pc \in Handlers, NEW good \in BOOLEAN, NEW d \in Contents, Finish(good, d),
         UNCHANGED <<protect, bitmap, gProtectDevExt, reinit, onlines, queue, removed>>,
         \A s \in marked' : s \in marked \/ (req[cur].op = "write" /\ s \in req[cur].ext),
         good /\ req[cur].op = "read" =>
            \A s \in req[cur].ext : snap[cur][s] # Unknown => d[s] = snap[cur][s]
  PROVE  Owned' /\ Phases' /\ Serving' /\ Writes' /\ Reads' /\ Blending' /\ ReadsSeeAckedData'
  <1> USE DEF IInv, Facts, TypeOK
  <1>1. Complete(cur, good, d) /\ pc' = "drain"
    BY DEF Finish
  <1>2. Writes' /\ Reads' /\ ReadsSeeAckedData'
    BY <1>1, Served, CompleteFacts
  <1>3. Serving' /\ Blending'
    BY <1>1 DEF Serving, Blending, Handlers
  <1>4. Phases'
    BY <1>1, Served DEF Phases, Handlers
  <1>5. Owned'
    <2>1. \A q \in Irps \ {cur} : st'[q] = st[q]
      BY <1>1 DEF Complete, IrpTypes
    <2>2. \A i \in 1 .. Len(queue) : queue[i] \in Irps /\ queue[i] # cur
      BY Served DEF Owned, DeviceTypes
    <2> QED
      BY <1>1, <2>1, <2>2 DEF Owned, Handlers
  <1> QED
    BY <1>2, <1>3, <1>4, <1>5

LEMMA PassDownFacts ==
  ASSUME IInv, pc \in Handlers, PassDown, UNCHANGED <<queueVars, removed>>,
         req[cur].op = "write" => req[cur].ext = {},
         req[cur].op = "read" => req[cur].ext \cap marked = {}
  PROVE  Facts'
  <1> USE DEF IInv, Facts, TypeOK
  <1>1. /\ UNCHANGED <<devVars, queue, removed, storeVars, req, ok, data, history>>
        /\ pc' = "drain" /\ st'[cur] = "lower" /\ st[cur] = "worker"
        /\ \A q \in Irps \ {cur} : st'[q] = st[q]
    BY Served DEF PassDown, IrpTypes, queueVars
  <1> USE DEF devVars, storeVars, history
  <1>2. \A q \in Irps : Pending(q)' <=> Pending(q)
    BY <1>1 DEF Pending
  <1>3. Owned'
    <2>1. \A i \in 1 .. Len(queue) : queue[i] \in Irps /\ queue[i] # cur
      BY Served DEF Owned, DeviceTypes
    <2> QED
      BY <1>1, <2>1 DEF Owned, Handlers
  <1>4. Phases'
    BY <1>1, Served DEF Phases, Handlers
  <1>5. Serving' /\ Blending'
    BY <1>1 DEF Serving, Blending, Handlers
  <1>6. Writes'
    BY <1>1, <1>2, Served DEF Writes
  <1>7. Reads'
    BY <1>1, <1>2, Served DEF Reads
  <1>8. ReadsSeeAckedData'
    BY <1>1, Served DEF ReadsSeeAckedData
  <1> QED
    BY <1>1, <1>3, <1>4, <1>5, <1>6, <1>7, <1>8, FrameAcked

\* Redirection sends a write below only if it has no length, and a read only
\* if none of its sectors is marked.
LEMMA WorkerPassFacts ==
  ASSUME IInv, ~MapFails, WorkerNoBuffer \/ WorkerReadClear
  PROVE  Facts'
  <1>1. pc \in Handlers /\ PassDown /\ UNCHANGED <<queueVars, removed>>
    BY DEF WorkerNoBuffer, WorkerReadClear, Handling, Handlers
  <1>2. /\ req[cur].op = "write" => req[cur].ext = {}
        /\ req[cur].op = "read" => req[cur].ext \cap marked = {}
    BY <1>1, Served DEF WorkerNoBuffer, WorkerReadClear, Handling
  <1> QED
    BY <1>1, <1>2, PassDownFacts

LEMMA WorkerReadSetFacts ==
  ASSUME IInv, WorkerReadSet \/ WorkerReadUnknown
  PROVE  Facts'
  <1> USE DEF devVars, storeVars, queueVars
  <1>1. /\ pc \in Handlers
        /\ UNCHANGED <<devVars, storeVars, queueVars, removed>>
        /\ req[cur].op = "read"
    BY DEF WorkerReadSet, WorkerReadUnknown, Handling, Handlers
  <1>2. file \in Contents
    BY DEF IInv, TypeOK, DeviceTypes, Contents
  <1>3. PICK good \in BOOLEAN, d \in Contents :
           /\ Finish(good, d)
           /\ good => req[cur].ext \subseteq marked /\ d = OnExtent(file, req[cur].ext)
    BY <1>1, <1>2, Served, NoDataType, OnExtentType DEF WorkerReadSet, WorkerReadUnknown
  <1>4. good => \A s \in req[cur].ext : snap[cur][s] # Unknown => d[s] = snap[cur][s]
    BY <1>1, <1>3, Served DEF IInv, Facts, Reads, AckedDataKept, View, OnExtent
  <1>5. /\ Owned' /\ Phases' /\ Serving' /\ Writes' /\ Reads' /\ Blending'
        /\ ReadsSeeAckedData'
    BY <1>1, <1>3, <1>4, FinishFacts
  <1>6. UNCHANGED expect
    BY <1>1, <1>3 DEF Finish, Complete
  <1> QED
    BY <1>1, <1>5, <1>6, FrameAcked DEF IInv, Facts

\* A read that is given up.
LEMMA GiveUpFacts ==
  ASSUME IInv, pc \in Handlers, req[cur].op = "read", Finish(FALSE, NoData),
         UNCHANGED <<devVars, queue, removed, storeVars>>
  PROVE  Facts'
  <1> USE DEF devVars, storeVars
  <1>1. /\ Owned' /\ Phases' /\ Serving' /\ Writes' /\ Reads' /\ Blending'
        /\ ReadsSeeAckedData'
    BY NoDataType, FinishFacts
  <1>2. UNCHANGED expect
    BY DEF Finish, Complete
  <1> QED
    BY <1>1, <1>2, FrameAcked DEF IInv, Facts

LEMMA WorkerReadBlendFacts ==
  ASSUME IInv, WorkerReadBlend
  PROVE  Facts'
  <1> USE DEF devVars, storeVars, queueVars, irpVars, history
  <1>1. /\ pc \in Handlers /\ req[cur].op = "read"
        /\ UNCHANGED <<devVars, storeVars, queueVars, removed>>
    BY DEF WorkerReadBlend, Handling, Handlers
  <1>2. CASE Finish(FALSE, NoData)
    BY <1>1, <1>2, GiveUpFacts
  <1>3. CASE ~Finish(FALSE, NoData)
    <2>1. /\ fileBuf' = OnExtent(file, req[cur].ext) /\ pc' = "blend"
          /\ UNCHANGED <<cur, irpVars, history>>
      BY <1>3 DEF WorkerReadBlend
    <2>2. Blending'
      BY <1>1, <2>1, Served DEF IInv, Facts, Blending, Reads, AckedDataKept, View, OnExtent
    <2>3. Serving'
      BY <1>1, <2>1 DEF Serving
    <2>4. Owned' /\ Phases'
      BY <1>1, <2>1, Served DEF IInv, Facts, Owned, Phases, Handlers
    <2> QED
      BY <1>1, <2>1, <2>2, <2>3, <2>4, FrameWrites, FrameReads, FrameAcked, FrameDone
         DEF IInv, Facts
  <1> QED
    BY <1>2, <1>3

LEMMA WorkerBlendLowerFacts ==
  ASSUME IInv, WorkerBlendLower
  PROVE  Facts'
  <1> USE DEF devVars, storeVars, queueVars, history
  <1>1. /\ pc = "blend" /\ pc \in Handlers /\ req[cur].op = "read"
        /\ UNCHANGED <<devVars, storeVars, queueVars, removed>>
    BY DEF WorkerBlendLower, Handlers, IInv, Facts, Serving
  <1>2. CASE Finish(FALSE, NoData)
    BY <1>1, <1>2, GiveUpFacts
  <1>3. CASE ~Finish(FALSE, NoData)
    <2>1. /\ data' = [data EXCEPT ![cur] = OnExtent(disk, req[cur].ext)] /\ pc' = "merge"
          /\ UNCHANGED <<cur, fileBuf, st, req, ok, history>>
      BY <1>3 DEF WorkerBlendLower
    <2>2. data'[cur] = OnExtent(disk, req[cur].ext)
      BY <1>1, <2>1, Served DEF IInv, TypeOK, IrpTypes
    <2>3. Blending'
      BY <1>1, <2>1, <2>2, Served
         DEF IInv, Facts, Blending, Reads, AckedDataKept, View, OnExtent
    <2>4. Serving'
      BY <1>1, <2>1 DEF Serving
    <2>5. Owned' /\ Phases'
      BY <1>1, <2>1, Served DEF IInv, Facts, Owned, Phases, Handlers
    <2>6. ReadsSeeAckedData'
      <3>1. \A q \in Irps \ {cur} : data'[q] = data[q]
        BY <2>1 DEF IInv, TypeOK, IrpTypes
      <3> QED
        BY <1>1, <2>1, <3>1, Served DEF IInv, Facts, ReadsSeeAckedData
    <2> QED
      BY <1>1, <2>1, <2>3, <2>4, <2>5, <2>6, FrameWrites, FrameReads, FrameAcked
         DEF IInv, Facts
  <1> QED
    BY <1>2, <1>3

LEMMA WorkerMergeFacts ==
  ASSUME IInv, WorkerMerge
  PROVE  Facts'
  <1> USE DEF devVars, storeVars, queueVars
  <1>1. /\ pc = "merge" /\ pc \in Handlers /\ req[cur].op = "read"
        /\ UNCHANGED <<devVars, storeVars, queueVars, removed>>
    BY DEF WorkerMerge, Handlers, IInv, Facts, Serving
  <1>2. Finish(TRUE, Merged(marked)) /\ Merged(marked) \in Contents
    <2>1. Merged(marked) \in Contents
      BY <1>1, Served DEF Merged, IInv, TypeOK, IrpTypes, Contents
    <2>2. Finish(TRUE, Merged(marked))
      BY <1>1, Served DEF WorkerMerge
    <2> QED
      BY <2>1, <2>2
  <1>3. \A s \in req[cur].ext : snap[cur][s] # Unknown => Merged(marked)[s] = snap[cur][s]
    BY <1>1, Served DEF IInv, Facts, Blending, Merged
  <1>4. /\ Owned' /\ Phases' /\ Serving' /\ Writes' /\ Reads' /\ Blending'
        /\ ReadsSeeAckedData'
    BY <1>1, <1>2, <1>3, FinishFacts
  <1>5. UNCHANGED expect
    BY <1>1, <1>2 DEF Finish, Complete
  <1> QED
    BY <1>1, <1>4, <1>5, FrameAcked DEF IInv, Facts

LEMMA WorkerWriteFileFacts ==
  ASSUME IInv, WorkerWriteFile
  PROVE  Facts'
  <1> USE DEF devVars, queueVars, irpVars, history
  <1>1. /\ pc \in Handlers /\ req[cur].op = "write"
        /\ UNCHANGED <<devVars, disk, queueVars, removed>>
    BY DEF WorkerWriteFile, Handling, Handlers
  <1>2. PICK S \in SUBSET req[cur].ext : file' = Overwrite(file, S, req[cur].val)
    BY DEF WorkerWriteFile
  <1>3. \A s \in Sectors : expect[s] # Unknown => file'[s] = file[s]
    BY <1>1, <1>2, Served DEF IInv, Facts, Writes, Overwrite
  <1>4. UNCHANGED expect => AckedDataKept'
    BY <1>1, <1>3 DEF IInv, Facts, AckedDataKept, View
  <1>5. CASE Finish(FALSE, NoData)
    <2>1. /\ Owned' /\ Phases' /\ Serving' /\ Writes' /\ Reads' /\ Blending'
          /\ ReadsSeeAckedData'
      BY <1>1, <1>5, NoDataType, FinishFacts
    <2>2. UNCHANGED expect
      BY <1>5 DEF Finish, Complete
    <2> QED
      BY <1>4, <2>1, <2>2 DEF Facts
  <1>6. CASE ~Finish(FALSE, NoData)
    <2>1. /\ file' = Overwrite(file, req[cur].ext, req[cur].val) /\ pc' = "setbit"
          /\ UNCHANGED <<cur, fileBuf, irpVars, history>>
      BY <1>6 DEF WorkerWriteFile
    <2>2. Serving'
      BY <1>1, <2>1, Served DEF Serving, Overwrite
    <2>3. Blending'
      BY <2>1 DEF Blending
    <2>4. Owned' /\ Phases'
      BY <1>1, <2>1, Served DEF IInv, Facts, Owned, Phases, Handlers
    <2> QED
      BY <1>1, <1>4, <2>1, <2>2, <2>3, <2>4, FrameWrites, FrameReads, FrameDone
         DEF IInv, Facts
  <1> QED
    BY <1>5, <1>6

LEMMA WorkerSetBitFacts ==
  ASSUME IInv, WorkerSetBit
  PROVE  Facts'
  <1> USE DEF queueVars, storeVars
  <1>1. /\ pc = "setbit" /\ pc \in Handlers /\ req[cur].op = "write"
        /\ UNCHANGED <<protect, bitmap, gProtectDevExt, reinit, onlines, queue, removed,
                       storeVars>>
    BY DEF WorkerSetBit, Handlers, IInv, Facts, Serving
  <1>2. PICK good \in BOOLEAN :
           /\ Finish(good, NoData)
           /\ marked' = IF good THEN marked \cup req[cur].ext ELSE marked
    BY <1>1, Served DEF WorkerSetBit
  <1>3. /\ Owned' /\ Phases' /\ Serving' /\ Writes' /\ Reads' /\ Blending'
        /\ ReadsSeeAckedData'
    BY <1>1, <1>2, NoDataType, FinishFacts
  <1>4. AckedDataKept'
    <2> SUFFICES ASSUME NEW s \in Sectors, expect'[s] # Unknown PROVE View(s)' = expect'[s]
      BY DEF AckedDataKept
    <2>1. /\ solo[cur] \subseteq req[cur].ext
          /\ \A x \in req[cur].ext : expect[x] = Unknown /\ file[x] = req[cur].val
      BY <1>1, Served DEF IInv, Facts, Writes, Serving
    <2>2. expect' = IF good THEN Overwrite(expect, solo[cur], req[cur].val) ELSE expect
      BY <1>1, <1>2 DEF Finish, Complete
    <2>3. CASE s \in req[cur].ext
      BY <1>1, <1>2, <2>1, <2>2, <2>3 DEF Overwrite, View
    <2>4. CASE s \notin req[cur].ext
      BY <1>1, <1>2, <2>1, <2>2, <2>4 DEF IInv, Facts, AckedDataKept, Overwrite, View
    <2> QED
      BY <2>3, <2>4
  <1> QED
    BY <1>3, <1>4 DEF Facts

-----------------------------------------------------------------------------
(* The invariant is inductive.                                             *)
LEMMA StepFacts ==
  ASSUME MaxOnline <= 1, ~MapFails
  PROVE  IInv /\ [Next]_vars => Facts'
  <1> SUFFICES ASSUME IInv, [Next]_vars PROVE Facts'
    OBVIOUS
  <1>1. ASSUME NEW r \in Irps, DispatchRead(r) \/ DispatchWrite(r) PROVE Facts'
    BY <1>1, DPAssumption, DispatchFacts DEF DispatchRead, DispatchWrite
  <1>2. ASSUME NEW r \in Irps, DispatchSignal(r) PROVE Facts'
    BY <1>2, SignalFacts
  <1>3. ASSUME NEW r \in Irps, Retire(r) PROVE Facts'
    BY <1>3, RetireFacts
  <1>4. ASSUME NEW r \in Irps, Lower(r) PROVE Facts'
    BY <1>4, LowerReadFacts, LowerWriteFacts DEF Lower
  <1>5. CASE VolumeOnline
    BY <1>5, OnlineFacts
  <1>6. CASE Reinitialize
    BY <1>6, ReinitializeFacts
  <1>7. CASE RemoveSignal
    BY <1>7, SignalFacts
  <1>8. CASE RemoveFinish
    BY <1>8, RemoveFinishFacts
  <1>9. CASE Worker
    BY <1>9, WorkerIdleFacts, WorkerTakeFacts, WorkerPassFacts, WorkerReadSetFacts,
       WorkerReadBlendFacts, WorkerBlendLowerFacts, WorkerMergeFacts, WorkerWriteFileFacts,
       WorkerSetBitFacts DEF Worker
  <1>10. CASE UNCHANGED vars
    BY <1>10, FrameOwned, FramePhases, FrameServing, FrameWrites, FrameReads, FrameBlending,
       FrameAcked, FrameDone
       DEF IInv, Facts, vars, devVars, queueVars, storeVars, thread, irpVars, history
  <1> QED
    BY <1>1, <1>2, <1>3, <1>4, <1>5, <1>6, <1>7, <1>8, <1>9, <1>10 DEF Next

\* The inductive invariant holds throughout (the whole of DPMain.c's read and
\* write path: dispatch, queue, worker, marks, buffers, lower device).
THEOREM Inductive ==
  ASSUME MaxOnline <= 1, ~MapFails
  PROVE  Spec => []IInv
  <1>1. Init => IInv
    BY InitType, InitFacts DEF IInv
  <1>2. IInv /\ [Next]_vars => IInv'
    BY StepType, StepFacts DEF IInv
  <1> QED
    BY <1>1, <1>2, PTL DEF Spec

\* A read that succeeds returns what the last write to complete has left
\* (DPReadWriteThread with DPBitmapTest and DPBitmapGet).
THEOREM ReadsCorrect ==
  ASSUME MaxOnline <= 1, ~MapFails
  PROVE  Spec => []ReadsSeeAckedData
  <1>1. IInv => ReadsSeeAckedData
    BY DEF IInv, Facts
  <1> QED
    BY <1>1, Inductive, PTL

\* The marks always lead to the acknowledged data (DPBitmapSet comes after
\* the temporary file is written, and before the write is completed).
THEOREM NoDataLost ==
  ASSUME MaxOnline <= 1, ~MapFails
  PROVE  Spec => []AckedDataKept
  <1>1. IInv => AckedDataKept
    BY DEF IInv, Facts
  <1> QED
    BY <1>1, Inductive, PTL

\* The worker never meets a bitmap that is NULL or freed (DPDispatchPnp waits
\* for the thread before DPBitmapFree).
THEOREM BitmapLive ==
  ASSUME MaxOnline <= 1, ~MapFails
  PROVE  Spec => []BitmapLiveInUse
  <1>1. IInv => BitmapLiveInUse
    BY Served DEF BitmapLiveInUse
  <1> QED
    BY <1>1, Inductive, PTL

\* Only what was passed down before the protection changes the protected disk
\* (DPDispatchReadWrite, DPReadWriteThread).
THEOREM DiskIsFrozen ==
  ASSUME MaxOnline <= 1, ~MapFails
  PROVE  Spec => DiskFrozen
  <1> DEFINE Frozen(s) == \/ ~protect
                          \/ \E r \in Irps : st[r] = "lower" /\ req[r].early /\ s \in req[r].ext
  <1>1. ASSUME IInv, [Next]_vars, NEW s \in Sectors, disk'[s] # disk[s]
        PROVE  Frozen(s)
    <2>1. disk' # disk
      BY <1>1
    <2>2. PICK r \in Irps : LowerWrite(r)
      BY <1>1, <2>1 DEF Next, vars, devVars, queueVars, storeVars, thread, DispatchRead,
         DispatchWrite, Dispatch, DispatchSignal, Retire, Lower, LowerRead, VolumeOnline,
         Reinitialize, RemoveSignal, RemoveFinish, Worker, WorkerWait, WorkerCheck,
         WorkerTake, WorkerNoBuffer, WorkerReadClear, PassDown, WorkerReadSet,
         WorkerReadBlend, WorkerReadUnknown, WorkerBlendLower, WorkerMerge,
         WorkerWriteFile, WorkerSetBit
    <2>3. st[r] = "lower" /\ req[r].op = "write" /\ s \in req[r].ext
      BY <1>1, <2>2 DEF LowerWrite, Overwrite
    <2>4. req[r].early
      BY <1>1, <2>3 DEF IInv, Facts, Writes, Pending
    <2> QED
      BY <2>3, <2>4
  <1>2. IInv /\ [Next]_vars =>
           [\A s \in Sectors : disk'[s] # disk[s] => Frozen(s)]_vars
    BY <1>1
  <1>3. [][\A s \in Sectors : disk'[s] # disk[s] => Frozen(s)]_vars => DiskFrozen
    BY PTL DEF DiskFrozen
  <1> QED
    BY <1>2, <1>3, Inductive, PTL DEF Spec

-----------------------------------------------------------------------------
(* DPVolume implements VolumeContract: every step of the filter, seen      *)
(* through Phase, is a step of the contract or changes nothing in it.      *)

LEMMA InitContract == Init => Contract!Init
  BY DEF Init, Contract!Init, Phase, Pending, NoData

-----------------------------------------------------------------------------
LEMMA DispatchContract ==
  ASSUME IInv, NEW r \in Irps, NEW op \in {"read", "write"}, NEW e \in SUBSET Sectors,
         NEW v \in Values \cup {Unknown}, Dispatch(r, op, e, v)
  PROVE  Contract!Issue(r)
  <1> USE DEF IInv, TypeOK, IrpTypes
  <1>1. /\ st[r] = "idle" /\ st'[r] \in {"queued", "lower"}
        /\ \A q \in Irps \ {r} : st'[q] = st[q] /\ req'[q] = req[q]
        /\ req'[r] = [op |-> op, ext |-> e, val |-> v, early |-> ~protect]
        /\ UNCHANGED <<ok, data>>
    BY DEF Dispatch
  <1>2. Phase[r] = "idle" /\ Phase' = [Phase EXCEPT ![r] = "pending"]
    BY <1>1 DEF Phase, Pending
  <1>3. Issued(r, op, e)
    BY DEF Dispatch
  <1>4. CASE op = "read"
    <2>1. expect' = expect
      BY <1>3, <1>4 DEF Issued
    <2>2. snap' = [snap EXCEPT ![r] = Contract!Keep(expect, req'[r].ext)]
      <3>1. req'[r].ext = e
        BY <1>1
      <3>2. OnExtent(expect, e) = Contract!Keep(expect, e)
        BY DEF OnExtent, Contract!Keep
      <3>3. snap' = [snap EXCEPT ![r] = OnExtent(expect, e)]
        BY <1>3, <1>4 DEF Issued
      <3> QED
        BY <3>1, <3>2, <3>3
    <2>3. solo' = [solo EXCEPT ![r] = {}]
      BY <1>3, <1>4 DEF Issued
    <2> QED
      BY <1>1, <1>2, <1>4, <2>1, <2>2, <2>3 DEF Contract!Issue, Contract!IssueRead
  <1>5. CASE op = "write"
    <2>1. expect' = Contract!Mask(expect, e)
      BY <1>3, <1>5 DEF Issued, Overwrite, Contract!Mask
    <2>2. snap' = [q \in Irps |-> Contract!Mask(IF q = r THEN [s \in Sectors |-> Unknown]
                                                ELSE snap[q], e)]
      BY <1>3, <1>5 DEF Issued, Overwrite, NoData, Contract!Mask
    <2>3. \A s \in e : WritePending(s) <=> Contract!Writing(s)
      BY DEF WritePending, Contract!Writing, Phase, Pending
    <2>4. solo' = [q \in Irps |-> IF q = r THEN {s \in e : ~Contract!Writing(s)}
                                  ELSE solo[q] \ e]
      BY <1>3, <1>5, <2>3 DEF Issued
    <2> QED
      BY <1>1, <1>2, <1>5, <2>1, <2>2, <2>4 DEF Contract!Issue, Contract!IssueWrite
  <1> QED
    BY <1>4, <1>5

LEMMA RetireContract ==
  ASSUME IInv, NEW r \in Irps, Retire(r)
  PROVE  Contract!Retire(r)
  BY DEF Retire, Contract!Retire, Phase, Pending, IInv, TypeOK, IrpTypes

LEMMA CompleteContract ==
  ASSUME IInv, ReadsSeeAckedData', NEW r \in Irps, Pending(r), req[r].op \in {"read", "write"},
         NEW good \in BOOLEAN, NEW d \in Contents, Complete(r, good, d)
  PROVE  Contract!Succeed(r) \/ Contract!Fail(r)
  <1> USE DEF IInv, TypeOK, IrpTypes
  <1>1. /\ Phase[r] = "pending" /\ Phase' = [Phase EXCEPT ![r] = "done"]
        /\ ok' = [ok EXCEPT ![r] = good]
        /\ \A q \in Irps \ {r} : data'[q] = data[q]
        /\ UNCHANGED <<req, solo, snap>>
    BY DEF Complete, Phase, Pending
  <1>2. data' \in [Irps -> Contract!Contents]
    BY CompleteType DEF Contents, Contract!Contents
  <1>3. CASE good
    <2>1. ok'[r] /\ st'[r] = "done"
      BY <1>3 DEF Complete
    <2>2. req[r].op = "read" =>
             /\ \A s \in req[r].ext : snap[r][s] # Unknown => data'[r][s] = snap[r][s]
             /\ UNCHANGED expect
      BY <1>1, <2>1 DEF ReadsSeeAckedData, Complete
    <2>3. req[r].op = "write" =>
             expect' = [s \in Sectors |-> IF s \in solo[r] THEN req[r].val ELSE expect[s]]
      BY <1>3 DEF Complete, Overwrite
    <2> QED
      BY <1>1, <1>2, <1>3, <2>2, <2>3 DEF Contract!Succeed
  <1>4. CASE ~good
    <2>1. UNCHANGED expect /\ ok' = [ok EXCEPT ![r] = FALSE]
      BY <1>1, <1>4 DEF Complete
    <2> QED
      BY <1>1, <1>2, <2>1 DEF Contract!Fail
  <1> QED
    BY <1>3, <1>4

LEMMA FinishContract ==
  ASSUME IInv, ReadsSeeAckedData', pc \in Handlers, req[cur].op \in {"read", "write"},
         NEW good \in BOOLEAN, NEW d \in Contents, Finish(good, d)
  PROVE  Contract!Next
  BY Served, CompleteContract DEF Finish, Contract!Next

\* A step that leaves what the issuers see alone.
LEMMA HiddenContract ==
  ASSUME UNCHANGED <<req, ok, data, history>>,
         \A q \in Irps : (Pending(q)' <=> Pending(q)) /\ (~Pending(q) => st'[q] = st[q])
  PROVE  UNCHANGED Contract!vars
  BY DEF Contract!vars, Phase, history

-----------------------------------------------------------------------------
LEMMA WorkerContract ==
  ASSUME IInv, TypeOK', ReadsSeeAckedData', Worker
  PROVE  Contract!Next \/ UNCHANGED Contract!vars
  <1> USE DEF IInv, TypeOK, IrpTypes
  <1>1. CASE WorkerWait \/ WorkerCheck
    <2>1. UNCHANGED <<irpVars, history>>
      BY <1>1 DEF WorkerWait, WorkerCheck
    <2> QED
      BY <2>1, HiddenContract DEF irpVars, Pending
  <1>2. CASE WorkerTake
    <2>1. UNCHANGED <<req, ok, data, history>>
      BY <1>2 DEF WorkerTake
    <2>2. \A q \in Irps : st'[q] = st[q] \/ (st[q] = "queued" /\ st'[q] = "worker")
      <3>1. queue # <<>> => Head(queue) = queue[1] /\ 1 \in 1 .. Len(queue)
        BY DEF DeviceTypes
      <3>2. queue # <<>> => st[Head(queue)] = "queued"
        BY <3>1 DEF Facts, Owned
      <3> QED
        BY <1>2, <3>2 DEF WorkerTake
    <2> QED
      BY <2>1, <2>2, HiddenContract DEF Pending
  <1>3. CASE WorkerNoBuffer \/ WorkerReadClear
    <2>1. pc \in Handlers /\ PassDown
      BY <1>3 DEF WorkerNoBuffer, WorkerReadClear, Handling, Handlers
    <2>2. \A q \in Irps : st'[q] = st[q] \/ (st[q] = "worker" /\ st'[q] = "lower")
      BY <2>1, Served DEF PassDown
    <2> QED
      BY <2>1, <2>2, HiddenContract DEF PassDown, Pending
  <1>4. file \in Contents /\ disk \in Contents
    BY DEF DeviceTypes, Contents
  <1>5. CASE WorkerReadSet \/ WorkerReadUnknown
    <2>1. PICK good \in BOOLEAN, d \in Contents : Finish(good, d)
      BY <1>4, <1>5, NoDataType, OnExtentType DEF WorkerReadSet, WorkerReadUnknown
    <2> QED
      BY <1>5, <2>1, FinishContract DEF WorkerReadSet, WorkerReadUnknown, Handling, Handlers
  <1>6. CASE WorkerReadBlend
    <2>1. CASE Finish(FALSE, NoData)
      BY <1>6, <2>1, NoDataType, FinishContract DEF WorkerReadBlend, Handling, Handlers
    <2>2. CASE ~Finish(FALSE, NoData)
      BY <1>6, <2>2, HiddenContract DEF WorkerReadBlend, irpVars, Pending
    <2> QED
      BY <2>1, <2>2
  <1>7. CASE WorkerBlendLower
    <2>1. pc \in Handlers /\ req[cur].op = "read"
      BY <1>7 DEF WorkerBlendLower, Handlers, Facts, Serving
    <2>2. CASE Finish(FALSE, NoData)
      BY <2>1, <2>2, NoDataType, FinishContract
    <2>3. CASE ~Finish(FALSE, NoData)
      <3>1. /\ data' = [data EXCEPT ![cur] = OnExtent(disk, req[cur].ext)]
            /\ UNCHANGED <<st, req, ok, history>>
        BY <1>7, <2>3 DEF WorkerBlendLower
      <3>2. data' \in [Irps -> Contract!Contents]
        BY DEF Contents, Contract!Contents
      <3>3. /\ cur \in Irps /\ Phase[cur] = "pending" /\ UNCHANGED Phase
            /\ \A q \in Irps \ {cur} : data'[q] = data[q]
        BY <2>1, <3>1, Served DEF Phase, Pending
      <3>4. Contract!Transfer(cur)
        BY <3>1, <3>2, <3>3 DEF Contract!Transfer, history
      <3> QED
        BY <3>3, <3>4 DEF Contract!Next
    <2> QED
      BY <2>2, <2>3
  <1>8. CASE WorkerMerge
    <2>1. pc \in Handlers /\ req[cur].op = "read"
      BY <1>8 DEF WorkerMerge, Handlers, Facts, Serving
    <2>2. \A M : Merged(M) \in Contents
      BY <2>1 DEF Merged, Contents
    <2>3. PICK good \in BOOLEAN, d \in Contents : Finish(good, d)
      BY <1>8, <2>2, NoDataType DEF WorkerMerge
    <2> QED
      BY <2>1, <2>3, FinishContract
  <1>9. CASE WorkerWriteFile
    <2>1. CASE Finish(FALSE, NoData)
      BY <1>9, <2>1, NoDataType, FinishContract DEF WorkerWriteFile, Handling, Handlers
    <2>2. CASE ~Finish(FALSE, NoData)
      BY <1>9, <2>2, HiddenContract DEF WorkerWriteFile, irpVars, Pending
    <2> QED
      BY <2>1, <2>2
  <1>10. CASE WorkerSetBit
    <2>1. pc \in Handlers /\ req[cur].op = "write"
      BY <1>10 DEF WorkerSetBit, Handlers, Facts, Serving
    <2>2. PICK good \in BOOLEAN : Finish(good, NoData)
      BY <1>10 DEF WorkerSetBit
    <2> QED
      BY <2>1, <2>2, NoDataType, FinishContract
  <1> QED
    BY <1>1, <1>2, <1>3, <1>5, <1>6, <1>7, <1>8, <1>9, <1>10 DEF Worker

LEMMA StepContract ==
  ASSUME MaxOnline <= 1, ~MapFails
  PROVE  IInv /\ [Next]_vars => [Contract!Next]_(Contract!vars)
  <1> SUFFICES ASSUME IInv, [Next]_vars PROVE Contract!Next \/ UNCHANGED Contract!vars
    OBVIOUS
  <1>1. TypeOK' /\ ReadsSeeAckedData'
    BY StepType, StepFacts DEF IInv, Facts
  <1>2. ASSUME NEW r \in Irps, DispatchRead(r) \/ DispatchWrite(r) PROVE Contract!Next
    BY <1>2, DPAssumption, DispatchContract DEF DispatchRead, DispatchWrite, Contract!Next
  <1>3. ASSUME NEW r \in Irps, Retire(r) PROVE Contract!Next
    BY <1>3, RetireContract DEF Contract!Next
  <1>4. ASSUME NEW r \in Irps, LowerRead(r) PROVE Contract!Next
    <2>1. disk \in Contents
      BY DEF IInv, TypeOK, DeviceTypes, Contents
    <2>2. PICK good \in BOOLEAN, d \in Contents : Complete(r, good, d)
      BY <1>4, <2>1, NoDataType, OnExtentType DEF LowerRead
    <2> QED
      BY <1>1, <1>4, <2>2, CompleteContract DEF LowerRead, Pending, Contract!Next
  <1>5. ASSUME NEW r \in Irps, LowerWrite(r) PROVE Contract!Next
    <2>1. PICK good \in BOOLEAN : Complete(r, good, NoData)
      BY <1>5 DEF LowerWrite
    <2> QED
      BY <1>1, <1>5, <2>1, NoDataType, CompleteContract DEF LowerWrite, Pending, Contract!Next
  <1>6. CASE Worker
    BY <1>1, <1>6, WorkerContract
  <1>7. CASE \/ \E r \in Irps : DispatchSignal(r)
             \/ VolumeOnline \/ Reinitialize \/ RemoveSignal \/ RemoveFinish
             \/ UNCHANGED vars
    <2>1. UNCHANGED <<irpVars, history>>
      BY <1>7 DEF DispatchSignal, VolumeOnline, Reinitialize, RemoveSignal, RemoveFinish, vars
    <2> QED
      BY <2>1, HiddenContract DEF irpVars, Pending
  <1> QED
    BY <1>2, <1>3, <1>4, <1>5, <1>6, <1>7 DEF Next, Lower

\* The filter, with redirection, queue and worker, cannot be told from one
\* volume of regular sectors: the issuers of IRPs see nothing of it.
THEOREM Implementation ==
  ASSUME MaxOnline <= 1, ~MapFails
  PROVE  Spec => ImplementsVolume
  <1>1. Spec => []IInv
    BY Inductive
  <1> QED
    BY <1>1, InitContract, StepContract, PTL DEF Spec, ImplementsVolume, Contract!Spec
=============================================================================
