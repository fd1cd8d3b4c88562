------------------------------ MODULE DPVolume ------------------------------
(***************************************************************************)
(* The protected volume of the disk-restore filter driver DP (DP/DPMain.c).*)
(*                                                                         *)
(* Before the volume is protected, DPDispatchReadWrite passes every IRP to *)
(* the lower device.  Once DPReinitializationRoutine has set Protect, IRPs *)
(* are queued and one worker thread, DPReadWriteThread, serves them: it    *)
(* redirects writes to a sparse temporary file, marks the redirected       *)
(* sectors in a bitmap, and reads each sector from the file or from the    *)
(* disk according to its mark.                                             *)
(*                                                                         *)
(* The state after DPAddDevice has succeeded is the initial state.  The    *)
(* lower device, the temporary file and the pool are external: each        *)
(* operation on them may fail, and a failed write may have written a part. *)
(***************************************************************************)
EXTENDS Naturals, Sequences

CONSTANTS
    Irps,       \* the IRPs that can be outstanding at once
    Sectors,    \* the sectors of the volume
    Extents,    \* the sets of sectors an IRP can address ({} is Length = 0)
    Values,     \* what a sector can hold
    Zero,       \* what a sector of the fresh sparse file holds
    Unknown,    \* "no value", "no IRP"
    CanRemove,  \* may the PnP manager remove the volume?
    MapFails,   \* may MmGetSystemAddressForMdlSafe return NULL?
    MaxOnline   \* how many IOCTL_VOLUME_ONLINE the volume receives

ASSUME DPAssumption ==
    /\ Extents \subseteq SUBSET Sectors
    /\ Zero \in Values
    /\ Unknown \notin Values
    /\ CanRemove \in BOOLEAN
    /\ MapFails \in BOOLEAN
    /\ MaxOnline \in Nat

VARIABLES
    \* the device extension
    protect,        \* DevExt->Protect
    bitmap,         \* DevExt->Bitmap: NULL, usable, or a freed block
    marked,         \* the sectors whose bit is set in it
    tempFile,       \* DevExt->TempFile
    queue,          \* DevExt->ReqList
    reqEvent,       \* DevExt->ReqEvent, a synchronization event
    term,           \* DevExt->ThreadTermFlag
    \* the driver
    gProtectDevExt, \* has the global pointer been set?
    reinit,         \* has the boot reinitialization callback run?
    onlines,        \* IOCTL_VOLUME_ONLINE requests so far
    removed,        \* has IRP_MN_REMOVE_DEVICE been handled?
    \* the storage below
    disk, file,
    \* DPReadWriteThread: where it is, the IRP it serves, its file buffer
    pc, cur, fileBuf,
    \* the IRPs: state, parameters, result, dispatchers yet to set ReqEvent
    st, req, ok, data, toSignal,
    \* history: what the users of the volume may count on
    expect,         \* the contents of each sector, Unknown while undetermined
    solo,           \* the sectors on which a write has met no other write
    snap            \* what a read must return, Unknown where it is free

devVars   == <<protect, bitmap, marked, tempFile, gProtectDevExt, reinit, onlines>>
queueVars == <<queue, reqEvent, toSignal>>
storeVars == <<disk, file>>
thread    == <<pc, cur, fileBuf>>
irpVars   == <<st, req, ok, data>>
history   == <<expect, solo, snap>>
vars      == <<devVars, queueVars, term, removed, storeVars, thread, irpVars, history>>

-----------------------------------------------------------------------------
NoData == [s \in Sectors |-> Unknown]
NoReq  == [op |-> "none", ext |-> {}, val |-> Unknown, early |-> FALSE]

Contents == [Sectors -> Values \cup {Unknown}]

Requests ==
    {q \in [op : {"none", "read", "write"}, ext : SUBSET Sectors,
            val : Values \cup {Unknown}, early : BOOLEAN] :
        q.op = "write" => q.val \in Values}

Pending(r) == st[r] \in {"queued", "worker", "lower"}

\* Some write that covers sector s has been issued and not completed.
WritePending(s) == \E q \in Irps : Pending(q) /\ req[q].op = "write" /\ s \in req[q].ext

\* f with the sectors of S overwritten by v
Overwrite(f, S, v) == [s \in Sectors |-> IF s \in S THEN v ELSE f[s]]

\* f on the sectors of S, nothing elsewhere
OnExtent(f, S) == [s \in Sectors |-> IF s \in S THEN f[s] ELSE Unknown]

\* What a user of the volume finds in sector s.
View(s) == IF s \in marked THEN file[s] ELSE disk[s]

\* The marks the code can read: those of the bitmap, or, in freed memory, any.
Bits == IF bitmap = "live" THEN {marked} ELSE SUBSET Sectors

-----------------------------------------------------------------------------
(* History.  A write makes the contents of its extent undetermined until   *)
(* it completes; a write that met no other write on a sector determines it.*)
Issued(r, op, e) ==
    /\ expect' = IF op = "write" THEN Overwrite(expect, e, Unknown) ELSE expect
    /\ solo' = [q \in Irps |->
                  IF q = r THEN IF op = "write" THEN {s \in e : ~WritePending(s)} ELSE {}
                  ELSE IF op = "write" THEN solo[q] \ e ELSE solo[q]]
    /\ snap' = [q \in Irps |->
                  IF q = r THEN IF op = "read" THEN OnExtent(expect, e) ELSE NoData
                  ELSE IF op = "write" THEN Overwrite(snap[q], e, Unknown) ELSE snap[q]]

\* DPCompleteRequest, or completion by the lower device.
Complete(r, good, d) ==
    /\ st'   = [st   EXCEPT ![r] = "done"]
    /\ ok'   = [ok   EXCEPT ![r] = good]
    /\ data' = [data EXCEPT ![r] = d]
    /\ expect' = IF good /\ req[r].op = "write"
                 THEN Overwrite(expect, solo[r], req[r].val) ELSE expect
    /\ UNCHANGED <<req, solo, snap>>

-----------------------------------------------------------------------------
(* DPDispatchReadWrite, in two steps when the volume is protected: the     *)
(* dispatching thread inserts the IRP, and later sets the event.           *)
Dispatch(r, op, e, v) ==
    /\ st[r] = "idle"
    /\ ~removed
    /\ req' = [req EXCEPT ![r] = [op |-> op, ext |-> e, val |-> v, early |-> ~protect]]
    /\ Issued(r, op, e)
    /\ IF protect
       THEN /\ st' = [st EXCEPT ![r] = "queued"]
            /\ queue' = Append(queue, r)
            /\ toSignal' = toSignal \cup {r}
       ELSE /\ st' = [st EXCEPT ![r] = "lower"]
            /\ UNCHANGED <<queue, toSignal>>
    /\ UNCHANGED <<devVars, reqEvent, term, removed, storeVars, thread, ok, data>>

DispatchRead(r)  == \E e \in Extents : Dispatch(r, "read", e, Unknown)
DispatchWrite(r) == \E e \in Extents, v \in Values : Dispatch(r, "write", e, v)

DispatchSignal(r) ==
    /\ r \in toSignal
    /\ toSignal' = toSignal \ {r}
    /\ reqEvent' = TRUE
    /\ UNCHANGED <<devVars, queue, term, removed, storeVars, thread, irpVars, history>>

\* The issuer takes the result and may reuse the IRP.
Retire(r) ==
    /\ st[r] = "done"
    /\ r \notin toSignal
    /\ st'   = [st   EXCEPT ![r] = "idle"]
    /\ req'  = [req  EXCEPT ![r] = NoReq]
    /\ ok'   = [ok   EXCEPT ![r] = FALSE]
    /\ data' = [data EXCEPT ![r] = NoData]
    /\ solo' = [solo EXCEPT ![r] = {}]
    /\ snap' = [snap EXCEPT ![r] = NoData]
    /\ UNCHANGED <<devVars, queueVars, term, removed, storeVars, thread, expect>>

-----------------------------------------------------------------------------
(* The lower device completes what it was sent, in any order.              *)
LowerRead(r) ==
    /\ st[r] = "lower"
    /\ req[r].op = "read"
    /\ \/ Complete(r, TRUE, OnExtent(disk, req[r].ext))
       \/ Complete(r, FALSE, NoData)
    /\ UNCHANGED <<devVars, queueVars, term, removed, storeVars, thread>>

LowerWrite(r) ==
    /\ st[r] = "lower"
    /\ req[r].op = "write"
    /\ \/ /\ disk' = Overwrite(disk, req[r].ext, req[r].val)
          /\ Complete(r, TRUE, NoData)
       \/ /\ \E S \in SUBSET req[r].ext : disk' = Overwrite(disk, S, req[r].val)
          /\ Complete(r, FALSE, NoData)
    /\ UNCHANGED <<devVars, queueVars, term, removed, file, thread>>

-----------------------------------------------------------------------------
(* DPVolumeOnLineCompleteRoutine for the volume that is drive D:.          *)
OnlineSucceeds ==
    /\ bitmap' = "live"
    /\ marked' = {}
    /\ gProtectDevExt' = TRUE
    /\ UNCHANGED tempFile

\* A query fails: the bitmap the extension may already hold is freed, and
\* the pointer kept.  DPBitmapInit fails: it has reset the pointer itself.
OnlineFails ==
    /\ \/ bitmap' = IF bitmap = "null" THEN "null" ELSE "freed"
       \/ bitmap' = "null"
    /\ tempFile' = IF tempFile = "none" THEN "none" ELSE "closed"
    /\ UNCHANGED <<marked, gProtectDevExt>>

VolumeOnline ==
    /\ onlines < MaxOnline
    /\ ~removed
    /\ onlines' = onlines + 1
    /\ OnlineSucceeds \/ OnlineFails
    /\ UNCHANGED <<protect, reinit, queueVars, term, removed, storeVars, thread,
                   irpVars, history>>

(* DPReinitializationRoutine dereferences gProtectDevExt without a test:   *)
(* the volume must have come online before the boot drivers are done.      *)
Reinitialize ==
    /\ ~reinit
    /\ gProtectDevExt
    /\ ~removed
    /\ reinit' = TRUE
    /\ \/ /\ tempFile' = "open"
          /\ file' = [s \in Sectors |-> Zero]
          /\ protect' = TRUE
       \/ /\ tempFile' \in {"none", "open"}
          /\ UNCHANGED <<file, protect>>
    /\ UNCHANGED <<bitmap, marked, gProtectDevExt, onlines, queueVars, term, removed,
                   disk, thread, irpVars, history>>

(* DPDispatchPnp, IRP_MN_REMOVE_DEVICE: stop the thread, wait for its end, *)
(* then free the bitmap, detach and delete the device.                     *)
RemoveSignal ==
    /\ CanRemove
    /\ ~term
    /\ term' = TRUE
    /\ reqEvent' = TRUE
    /\ UNCHANGED <<devVars, queue, toSignal, removed, storeVars, thread, irpVars, history>>

\* Mutant: the device is torn down without waiting for the thread.
RemoveFinish_NoWait ==
    /\ ~removed
    /\ term
    /\ removed' = TRUE
    /\ bitmap' = IF bitmap = "null" THEN "null" ELSE "freed"
    /\ UNCHANGED <<protect, marked, tempFile, gProtectDevExt, reinit, onlines, queueVars,
                   term, storeVars, thread, irpVars, history>>

RemoveFinish ==
    /\ ~removed
    /\ term
    /\ pc = "exited"
    /\ removed' = TRUE
    /\ bitmap' = IF bitmap = "null" THEN "null" ELSE "freed"
    /\ UNCHANGED <<protect, marked, tempFile, gProtectDevExt, reinit, onlines, queueVars,
                   term, storeVars, thread, irpVars, history>>

-----------------------------------------------------------------------------
(* DPReadWriteThread.                                                      *)
WorkerWait ==
    /\ pc = "wait"
    /\ reqEvent
    /\ reqEvent' = FALSE
    /\ pc' = "check"
    /\ UNCHANGED <<devVars, queue, toSignal, term, removed, storeVars, cur, fileBuf,
                   irpVars, history>>

WorkerCheck ==
    /\ pc = "check"
    /\ pc' = IF term THEN "exited" ELSE "drain"
    /\ UNCHANGED <<devVars, queueVars, term, removed, storeVars, cur, fileBuf,
                   irpVars, history>>

\* Mutant: Irp is not fetched from the entry.
WorkerTake_StaleIrp ==
    /\ pc = "drain"
    /\ queue # <<>>
    /\ pc' = "handle"
    /\ queue' = Tail(queue)
    /\ UNCHANGED <<devVars, reqEvent, toSignal, term, removed, storeVars, cur, fileBuf,
                   irpVars, history>>

WorkerTake ==
    /\ pc = "drain"
    /\ \/ /\ queue = <<>>
          /\ pc' = "wait"
          /\ UNCHANGED <<queue, cur, st>>
       \/ /\ queue # <<>>
          /\ pc' = "handle"
          /\ cur' = Head(queue)
          /\ queue' = Tail(queue)
          /\ st' = [st EXCEPT ![Head(queue)] = "worker"]
    /\ UNCHANGED <<devVars, reqEvent, toSignal, term, removed, storeVars, fileBuf,
                   req, ok, data, history>>

\* ERRNEXT: hand the IRP to the lower device and go on.
PassDown ==
    /\ st' = [st EXCEPT ![cur] = "lower"]
    /\ pc' = "drain"
    /\ cur' = Unknown
    /\ fileBuf' = NoData
    /\ UNCHANGED <<req, ok, data, storeVars, devVars, history>>

\* Mutant: one IRP per wakeup, "if" for "while".
Finish_Once(good, d) ==
    /\ Complete(cur, good, d)
    /\ pc' = "wait"
    /\ cur' = Unknown
    /\ fileBuf' = NoData

\* ERRERR and ERRCMPLT: complete the IRP and go on.
Finish(good, d) ==
    /\ Complete(cur, good, d)
    /\ pc' = "drain"
    /\ cur' = Unknown
    /\ fileBuf' = NoData

Handling(op) ==
    /\ pc = "handle"
    /\ req[cur].op = op
    /\ UNCHANGED <<queueVars, term, removed>>

\* The IRP has no buffer the driver can use, or no length.
WorkerNoBuffer ==
    /\ pc = "handle"
    /\ MapFails \/ req[cur].ext = {}
    /\ PassDown
    /\ UNCHANGED <<queueVars, term, removed>>

\* Mutant: a range that is only partly redirected counts as clear.
WorkerReadClear_Partial ==
    /\ Handling("read")
    /\ req[cur].ext # {}
    /\ bitmap # "null"
    /\ \E M \in Bits : ~(req[cur].ext \subseteq M)
    /\ PassDown

\* DPBitmapTest: BITMAP_RANGE_CLEAR.
WorkerReadClear ==
    /\ Handling("read")
    /\ req[cur].ext # {}
    /\ bitmap # "null"
    /\ \E M \in Bits : req[cur].ext \cap M = {}
    /\ PassDown

\* BITMAP_RANGE_SET: the whole range is in the file.
WorkerReadSet ==
    /\ Handling("read")
    /\ req[cur].ext # {}
    /\ bitmap # "null"
    /\ \E M \in Bits : req[cur].ext \subseteq M
    /\ \/ /\ tempFile = "open"
          /\ Finish(TRUE, OnExtent(file, req[cur].ext))
       \/ Finish(FALSE, NoData)
    /\ UNCHANGED <<devVars, storeVars>>

\* BITMAP_RANGE_BLEND: read the file, then the lower device, then merge.
WorkerReadBlend ==
    /\ Handling("read")
    /\ bitmap # "null"
    /\ \E M \in Bits : /\ req[cur].ext \cap M # {}
                       /\ ~(req[cur].ext \subseteq M)
    /\ \/ /\ tempFile = "open"
          /\ fileBuf' = OnExtent(file, req[cur].ext)
          /\ pc' = "blend"
          /\ UNCHANGED <<cur, irpVars, history>>
       \/ Finish(FALSE, NoData)
    /\ UNCHANGED <<devVars, storeVars>>

WorkerBlendLower ==
    /\ pc = "blend"
    /\ \/ /\ data' = [data EXCEPT ![cur] = OnExtent(disk, req[cur].ext)]
          /\ pc' = "merge"
          /\ UNCHANGED <<cur, fileBuf, st, req, ok, history>>
       \/ Finish(FALSE, NoData)
    /\ UNCHANGED <<devVars, queueVars, term, removed, storeVars>>

\* Mutant: source and destination of the merge swapped.
Merged_Swapped(M) == [s \in Sectors |-> IF s \in M THEN data[cur][s] ELSE fileBuf[s]]

\* DPBitmapGet: the marked sectors come from the file.
Merged(M) == [s \in Sectors |-> IF s \in M THEN fileBuf[s] ELSE data[cur][s]]

WorkerMerge ==
    /\ pc = "merge"
    /\ \/ bitmap # "null" /\ \E M \in Bits : Finish(TRUE, Merged(M))
       \/ bitmap = "null" /\ Finish(FALSE, NoData)
    /\ UNCHANGED <<devVars, queueVars, term, removed, storeVars>>

\* DPBitmapTest: BITMAP_BIT_UNKNOW.
WorkerReadUnknown ==
    /\ Handling("read")
    /\ req[cur].ext # {}
    /\ bitmap = "null"
    /\ Finish(FALSE, NoData)
    /\ UNCHANGED <<devVars, storeVars>>

\* Mutant: when the file cannot be written, the write goes on to the disk.
WorkerWriteFile_FallBack ==
    /\ Handling("write")
    /\ req[cur].ext # {}
    /\ \/ /\ tempFile = "open"
          /\ file' = Overwrite(file, req[cur].ext, req[cur].val)
          /\ pc' = "setbit"
          /\ UNCHANGED <<cur, fileBuf, devVars, disk, irpVars, history>>
       \/ PassDown

WorkerWriteFile ==
    /\ Handling("write")
    /\ req[cur].ext # {}
    /\ \/ /\ tempFile = "open"
          /\ file' = Overwrite(file, req[cur].ext, req[cur].val)
          /\ pc' = "setbit"
          /\ UNCHANGED <<cur, fileBuf, irpVars, history>>
       \/ /\ \E S \in SUBSET req[cur].ext :
                /\ tempFile # "open" => S = {}
                /\ file' = Overwrite(file, S, req[cur].val)
          /\ Finish(FALSE, NoData)
    /\ UNCHANGED <<devVars, disk>>

\* Mutant: the write is acknowledged without its marks.
WorkerSetBit_NoMark ==
    /\ pc = "setbit"
    /\ bitmap # "null"
    /\ Finish(TRUE, NoData)
    /\ UNCHANGED <<devVars, queueVars, term, removed, storeVars>>

\* DPBitmapSet marks the whole range, or fails before it has marked any.
WorkerSetBit ==
    /\ pc = "setbit"
    /\ \/ /\ bitmap # "null"
          /\ marked' = IF bitmap = "live" THEN marked \cup req[cur].ext ELSE marked
          /\ Finish(TRUE, NoData)
       \/ /\ UNCHANGED marked
          /\ Finish(FALSE, NoData)
    /\ UNCHANGED <<protect, bitmap, tempFile, gProtectDevExt, reinit, onlines,
                   queueVars, term, removed, storeVars>>

-----------------------------------------------------------------------------
Init ==
    /\ protect = FALSE /\ bitmap = "null" /\ marked = {} /\ tempFile = "none"
    /\ queue = <<>> /\ reqEvent = FALSE /\ toSignal = {} /\ term = FALSE
    /\ gProtectDevExt = FALSE /\ reinit = FALSE /\ onlines = 0 /\ removed = FALSE
    /\ disk \in [Sectors -> Values]
    /\ file = [s \in Sectors |-> Zero]
    /\ pc = "wait" /\ cur = Unknown /\ fileBuf = NoData
    /\ st = [r \in Irps |-> "idle"]
    /\ req = [r \in Irps |-> NoReq]
    /\ ok = [r \in Irps |-> FALSE]
    /\ data = [r \in Irps |-> NoData]
    /\ expect = disk
    /\ solo = [r \in Irps |-> {}]
    /\ snap = [r \in Irps |-> NoData]

Worker ==
    \/ WorkerWait \/ WorkerCheck \/ WorkerTake \/ WorkerNoBuffer
    \/ WorkerReadClear \/ WorkerReadSet \/ WorkerReadBlend \/ WorkerReadUnknown
    \/ WorkerBlendLower \/ WorkerMerge \/ WorkerWriteFile \/ WorkerSetBit

Lower(r) == LowerRead(r) \/ LowerWrite(r)

Next ==
    \/ \E r \in Irps : \/ DispatchRead(r) \/ DispatchWrite(r) \/ DispatchSignal(r)
                       \/ Retire(r) \/ Lower(r)
    \/ VolumeOnline \/ Reinitialize \/ RemoveSignal \/ RemoveFinish
    \/ Worker

(* The worker is a real-time system thread and runs when it can, the       *)
(* dispatching thread returns from its call, and the lower device answers. *)
Fairness ==
    /\ WF_vars(Worker)
    /\ \A r \in Irps : WF_vars(DispatchSignal(r)) /\ WF_vars(Lower(r))

Spec == Init /\ [][Next]_vars
FairSpec == Spec /\ Fairness

-----------------------------------------------------------------------------
(* Properties.                                                             *)

Handlers == {"handle", "blend", "merge", "setbit"}

DeviceTypes ==
    /\ protect \in BOOLEAN
    /\ bitmap \in {"null", "live", "freed"}
    /\ marked \subseteq Sectors
    /\ tempFile \in {"none", "open", "closed"}
    /\ queue \in Seq(Irps)
    /\ reqEvent \in BOOLEAN
    /\ toSignal \subseteq Irps
    /\ term \in BOOLEAN
    /\ gProtectDevExt \in BOOLEAN
    /\ reinit \in BOOLEAN
    /\ onlines \in 0..MaxOnline
    /\ removed \in BOOLEAN
    /\ disk \in [Sectors -> Values]
    /\ file \in [Sectors -> Values]

IrpTypes ==
    /\ pc \in {"wait", "check", "drain", "exited"} \cup Handlers
    /\ cur \in Irps \cup {Unknown}
    /\ pc \in Handlers => cur \in Irps
    /\ fileBuf \in Contents
    /\ st \in [Irps -> {"idle", "queued", "worker", "lower", "done"}]
    /\ req \in [Irps -> Requests]
    /\ ok \in [Irps -> BOOLEAN]
    /\ data \in [Irps -> Contents]
    /\ expect \in Contents
    /\ solo \in [Irps -> SUBSET Sectors]
    /\ snap \in [Irps -> Contents]

\* Every variable keeps its type.
TypeOK == DeviceTypes /\ IrpTypes

\* A read that succeeds returns, in every sector no write touched while it
\* was outstanding, what the last write to complete there has left: across
\* the redirection, the blend of file and disk, and reads already handed to
\* the lower device (DPReadWriteThread, DPBitmapTest, DPBitmapGet).
ReadsSeeAckedData ==
    \A r \in Irps :
        st[r] = "done" /\ ok[r] /\ req[r].op = "read" =>
            \A s \in req[r].ext : snap[r][s] # Unknown => data[r][s] = snap[r][s]

\* The mark of a sector always leads to its acknowledged contents, in the
\* temporary file or on the disk: the switch to protection loses no data.
AckedDataKept == \A s \in Sectors : expect[s] # Unknown => View(s) = expect[s]

\* Once the volume is protected the disk changes only through writes that
\* DPDispatchReadWrite had passed down before (the comment of line 425: "we write the buffer file, never the disk").
DiskFrozen ==
    [][\A s \in Sectors : disk'[s] # disk[s] =>
          \/ ~protect
          \/ \E r \in Irps : st[r] = "lower" /\ req[r].early /\ s \in req[r].ext]_vars

\* A sector whose mark is clear is the disk's: it has never been redirected
\* (the comment of line 320: a clear range is "the real contents of the disk").
\* Not so after a second IOCTL_VOLUME_ONLINE.
ClearIsDisk ==
    \A s \in Sectors : s \notin marked /\ expect[s] # Unknown => disk[s] = expect[s]

\* While the thread serves an IRP of the queue its bitmap pointer is usable,
\* unless a further IOCTL_VOLUME_ONLINE has replaced or freed the bitmap.
BitmapLiveInUse == onlines <= 1 /\ pc \in Handlers => bitmap = "live"

\* A queued IRP is completed unless the device is being removed: no wakeup
\* is lost between ExInterlockedRemoveHeadList and KeWaitForSingleObject.
QueuedServed == \A r \in Irps : st[r] = "queued" ~> st[r] = "done" \/ term

-----------------------------------------------------------------------------
\* What the issuers see of an IRP: where it waits is hidden.
Phase == [r \in Irps |-> IF Pending(r) THEN "pending" ELSE st[r]]

Contract == INSTANCE VolumeContract WITH phase <- Phase

\* The filter, with everything that happens to an IRP inside it and below,
\* is one volume of regular sectors: redirection cannot be told from outside.
ImplementsVolume == Contract!Spec

=============================================================================
