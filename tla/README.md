# TLA+ specifications of WinKernelDev

WinKernelDev is a collection of Windows kernel drivers, each of them a program
of its own: a disk-restore filter, keyboard and serial port filters, a file
system filter library with an encryption filter on top of it, a TDI firewall,
three NDIS drivers, a RAM disk and a number of small samples. The drivers do not
talk to each other. What they share is the environment, which is what makes
them hard: requests (IRPs) arrive on any processor, are completed on others and
at raised IRQL, pass through devices above and below, and must survive devices
that are removed and drivers that are unloaded under them.

This directory holds TLA+ modules of the drivers whose logic is most their own,
the configurations that check them with TLC, and proofs checked by TLAPS.
Paths are relative to `src/`. The sources are GBK text with CRLF line ends.

1. [The system](#1-the-system): components, state, operations, hazards
2. [The modules](#2-the-modules): what models what
3. [The runs](#3-the-runs): what is checked, within which bounds, what it shows
4. [Fairness](#4-fairness)
5. [The proofs](#5-the-proofs)
6. [Where code and comments disagree](#6-where-code-and-comments-disagree)
7. [What is not modelled](#7-what-is-not-modelled)
8. [Plan](#8-plan)

To check a module and to verify a proof:

    tlc -workers 2 -config MCDPVolume.cfg MCDPVolume
    tlapm DPVolume_proof.tla

`PROJECT.json` lists the components, the runs, the lines each definition stands
for, the hazards with the properties aimed at them, the theorems, and for every
property a mutation of the code (a definition `X_Suffix` beside `X`) that
breaks it.

## 1. The system

### DP, the disk-restore filter (`DP/DPMain.c`, `DP/DPBitmap.c`)

A filter above one volume. Until the boot drivers are done it lets everything
pass; from then on the disk is never written again: writes go to a sparse
temporary file, and a restart restores the disk.

- **State.** The device extension: `Protect`, `Bitmap`, `TempFile`, `ReqList`
  with `ReqEvent`, `ThreadTermFlag`, the paging count with its event; the
  global `gProtectDevExt`; the IRPs in flight; the bitmap as an array of
  regions of which only the touched ones are allocated.
- **Operations.** `DPDispatchReadWrite` (pass down, or queue and wake),
  `DPReadWriteThread` with its completion routines, `IOCTL_VOLUME_ONLINE`,
  `DPReinitializationRoutine`, removal, paging notifications; `DPBitmapSet`,
  `DPBitmapTest`, `DPBitmapGet`.
- **Interaction.** Dispatchers and the thread share `ReqList` and `ReqEvent`;
  the thread alone uses the bitmap, but `IOCTL_VOLUME_ONLINE` creates it and
  removal frees it; reads of untouched sectors are handed to the lower device
  and end there later, after writes that the thread has served since.
- **Hard.** The switch to protection while early writes are still below; a
  range that is partly redirected (file, lower device, merge: three steps that
  can each fail); a write that fails after a part of it; a wakeup between two
  looks at the queue; removal in the middle of an IRP; byte and region
  boundaries in the bitmap; a region that cannot be allocated.
- **Correct when** a read returns what was last written wherever it lives; the
  disk stays frozen; no acknowledged write is lost; each queued IRP ends; the
  thread's bitmap is usable; a range is marked whole or not at all.

### coworker2, the string queue (`coworker2/`)

User programs send strings to the device and receive them from it; a receive
waits while there is none.

- **State.** A list under a spin lock and one synchronization event.
- **Operations.** `CWK_DVC_SEND_STR` (check, insert, set the event),
  `CWK_DVC_RECV_STR` (remove, or wait and look again), unload.
- **Hard.** Insert and set are two steps, as are look and wait; an event that is
  set already is not set twice; buffers of exactly the maximal length or with no
  terminator; a reply longer than the buffer of the receiver.
- **Correct when** what is delivered fits, no string is stranded beside a
  waiting receiver, and a waiting receiver returns when there is a string.

### ctrl2cap, the keyboard class filter (`ctrl2cap/ctrl2cap/ctrl2cap.c`)

- **State.** A chain of filter devices, one for each keyboard, and
  `gC2pKeyCount`, the number of reads below.
- **Operations.** Attachment at load, read (`++`, completion routine, pass
  down), completion (`--`), device removal, unload (detach and delete each,
  then sleep until the count is zero).
- **Hard.** `++` and `--` run on different processors without interlock; reads
  are issued while the unload detaches; the unload walks `NextDevice` of
  devices it has deleted.
- **Correct when** the count is exact, the unload outlasts every read that
  will still be completed into the driver, and ends.

### tdi_fw, the TDI firewall (`tdi_fw/`)

A filter above TCP and UDP. Clients open address and connection objects,
associate, connect, listen; the transport calls back with events. Rules decide,
decisions are logged.

- **State.** `obj_tbl.c`: a hash table of file objects, and one of connection
  contexts. `conn_state.c`: a table of listen entries and one of TCP
  connection entries with their states, and a chain of closed entries that a
  thread frees after a time. `filter.c`: chains of rules, and a ring of 1024 log
  entries with one event. `pid_pname.c`: the processes, with their names once the
  user's program has answered for them.
- **Operations.** Create, associate, disassociate, cleanup
  (`disp_obj.c`); connect, listen, accept, disconnect with their completions
  (`disp_conn.c`); the connect and disconnect events (`ev_conn.c`); the thread;
  unload (`tdi_fw.c`); adding and clearing rules, logging, reading the log.
- **Interaction.** Object table and connection table point at each other, each
  under a spin lock of its own; completions, events and the client's cleanup
  reach the same object from different processors.
- **Hard.** An entry freed while its object still points at it; a state that is
  read under the lock and set under another hold; the release of the other side
  before the completion that establishes the connection; an object reused for
  the next connection; a timeout computed from the wrong end; the thread told to
  exit just after it has scanned; a log queue that overflows under its reader; an
  open that logs a request and waits for the program that reads the log.
- **Correct when** each entry has one owner, the table shows what the
  transport knows, closed entries are freed in time and nothing is left at exit;
  what the log drops is counted, and who waits for a name is woken.

### crypt_file, the encryption filter (`crypt_file/`, on `sfilter/`)

Files that notepad.exe opens are encrypted on disk and clear in notepad; every
other process sees the encrypted bytes. All opens of a file share one cache.

- **State.** A list of FCBs of files that are being encrypted under a lock that
  combines a spin lock and an IRQL; the shared cache; the file on disk with its
  header of one page.
- **Operations.** Create, with a pre-open of the driver's own by a notepad
  (`cf_create.c`: find out whether the file is in the list, empty, has a
  header, and write one), insertion after the create (`cf_list.c`,
  `cf_sfilter.c`), paging reads and writes (`cf_modify_irp.c`: decrypt,
  encrypt, shift by the header), clearing the cache (`cf_file_irp.c`), close.
- **Hard.** Checks made on one file object and used for another, later; the
  cache cleared, and the list locked after that; `UncleanCount` read while
  another create is under way; the order of clearing and removal at close; an
  FCB read after it was freed.
- **Correct when** notes are never on the disk in the clear, another process
  never reads them, notepad always does, and both never have a file open at once.

### ndisprot, the protocol driver (`ndisprot/`)

User programs open an adapter through a device, send and receive raw packets,
query the adapter, and leave one IRP that waits for a status indication.

- **State.** An open context per adapter: flags for the bind and the opener, a
  reference count, `PendedReads` with `PendedReadCount`, `RecvPktQueue`,
  `PendedSendCount`, the NDIS handle, pools, the power state, the one
  `StatusIndicationIrp`; the global list; cancel routines in the IRPs.
- **Operations.** Bind and unbind (`ndisbind.c`), open, cleanup, close, the I/O
  controls (`ntdisp.c`), read with the service routine, the receive handlers,
  cancellation and flushing (`recv.c`), write (`send.c`), loss of power, unload.
- **Hard.** A pended read is raced for by five parties; each list is looked at by
  the thread that inserts into the other; an open is visible before it is
  validated; `ndisprotShutdownBinding` waits on counts that are lowered in
  several steps.
- **Correct when** each read is completed by one, none waits beside a packet, the
  references are those who count on the context, the handle outlives its users,
  and an unbind returns.

### ndisedge, the miniport (`ndisedge/`)

A virtual adapter. A send becomes an IRP to ndisprot, and reads posted to
ndisprot become received packets.

- **State.** `Flags`, changed without a lock; TCBs (free list, busy count,
  `SendWaitList`) and RCBs (free list, busy count, references); work items for
  reads, requests and the notification; `InitEvent`, `RefCount`, `HaltEvent`.
- **Operations.** `MPSendPackets` with its completion and cancellation
  (`Send.c`), posting and completing reads, `MPReturnPacket` (`Receive.c`),
  initialisation by `MPInitialize` or, when ndisprot loads later, by a work item
  (`Init.c`, `ExCallbk.c`), requests (`Request.c`), `MPHalt` (`NdisWdm.c`).
- **Interaction.** Its target is ndisprot's device; an executive callback object
  tells each of the two drivers that the other has come.
- **Hard.** Local variables that outlive one packet of an array; a work item that
  is about to end when it is needed again; flags that lose an update; a halt
  during an initialisation, or between two notifications.
- **Correct when** each packet is returned once, the counts for which `MPHalt`
  waits are exact, nothing is freed under anybody, ndisprot is not missed, and
  the halt returns.

### passthru, the intermediate driver (`passthru/`)

A virtual miniport on each binding, through which everything passes.

- **State.** An `ADAPT` per binding with a reference count, the power states of
  both edges, one queued request, the counts of what is below, the last media
  status; packet pools; a control device shared by all miniports.
- **Operations.** Bind, unbind, initialise, halt, request, send, receive, media
  status, power events (`protocol.c`, `miniport.c`); registration of the device
  (`passthru.c`).
- **Hard.** Two parties free the `ADAPT`; a request passes the first test and
  finds an unbind at the second; a request or a send counted while the edge
  below goes to sleep; the media status is kept, told and started anew without a
  lock; a new first miniport while the last takes the device down.
- **Correct when** the `ADAPT` is freed once, under nobody, always; a request
  waits in one place and for power only; the miniport below sleeps with nothing
  outstanding; and those who wait are let go.

### sfilter, the file system filter library (`sfilter/`)

Close to the WDK's sample, with callbacks before and after each request.

- **State.** Device stacks of file systems and volumes, an extension for each
  device with the `TypeFlag` by which the driver knows its own,
  `gSfilterAttachLock`.
- **Operations.** Notification of file systems with the enumeration of their
  volumes, mount and load with their completions, dispatch with the callbacks,
  fast I/O, detachment, `DriverUnload`.
- **Hard.** A volume that is mounted while volumes are enumerated is found twice
  or not at all; a device is in the stack before it is known; devices are
  deleted while requests and mounts are inside; unload meets what is half done.
- **Correct when** each volume has one device, none is missed, none is forgotten,
  each request is completed once and none is left in a device that is gone.

### The rest

- **comcap** (`comcap/`): 32 serial ports filtered; its unload detaches, sleeps
  five seconds, and deletes.
- **WfpSample**, **minifilter**, **Callback**: a rule list under a spin lock,
  a flag set by messages, registration callbacks.
- **ramdisk_wdf**: range checks on a block of memory, and a FAT boot sector.
- **ps2intcap**, **Kb_sniff_Mp**, **Hook**, **First**, **sflt_smpl**,
  **AppInitReInjectDrv**, **coworker**, **tdifw_smpl**: patches, hooks and
  samples with next to no state.

Every component is listed in `PROJECT.json` with its status; the hazards there
are located to the line.

## 2. The modules

| module | code | instance for TLC | proofs |
|---|---|---|---|
| `DPVolume` | `DP/DPMain.c`: reads, writes, online, protection, removal | `MCDPVolume` | `DPVolume_proof` |
| `VolumeContract` | what a volume promises whoever issues IRPs | | `DPVolume_proof` |
| `DPBitmap` | `DP/DPBitmap.c` | `MCSmallParts` | `SmallParts_proof` |
| `SectorMarks` | what the bitmap promises its user | | `SmallParts_proof` |
| `DPPaging` | `DP/DPMain.c`, paging notifications | `MCSmallParts` | `SmallParts_proof` |
| `Coworker` | `coworker2/coworker_sys/coworker_sys.c` | `MCSmallParts` | `SmallParts_proof` |
| `Ctrl2cap` | `ctrl2cap/ctrl2cap/ctrl2cap.c` | `MCSmallParts` | `SmallParts_proof` |
| `TdiConn` | `tdi_fw/conn_state.c`, `obj_tbl.c`, `disp_conn.c`, `ev_conn.c` | `MCCryptFile` | `CryptFile_proof` |
| `TdiLog` | `tdi_fw/filter.c`, `pid_pname.c`, `disp_obj.c`, `ipc.c` | `MCCryptFile` | `CryptFile_proof` |
| `CryptFile` | `crypt_file/*.c` | `MCCryptFile` | `CryptFile_proof` |
| `NdisProtBind` | `ndisprot/ndisbind.c`, `ntdisp.c`, `send.c` | `MCNdisProtBind`, `MCNdis` | `NdisProtBind_proof` |
| `NdisProtRecv` | `ndisprot/recv.c`, with cleanup and unbind | `MCNdisProtRecv`, `MCNdis` | `NdisData_proof` |
| `NdisEdgeSend` | `ndisedge/Send.c`, `NdisWdm.c` | `MCNdis` | `NdisData_proof` |
| `NdisEdgeRecv` | `ndisedge/Receive.c`, `NdisWdm.c` | `MCNdis` | `NdisData_proof` |
| `NdisEdgeInit` | `ndisedge/Init.c`, `ExCallbk.c`, `Request.c`, `NdisWdm.c`, `ndisprot/excallbk.c` | `MCSmallParts` | `SmallParts_proof` |
| `PassthruAdapt` | `passthru/protocol.c`, `miniport.c` | `MCPassthru` | `Passthru_proof` |
| `PassthruRecv` | the receive handlers against `MPHalt` | `MCPassthru` | `Passthru_proof` |
| `PassthruDevice` | `passthru/passthru.c` | `MCPassthru` | `Passthru_proof` |
| `SFilter` | `sfilter/sfilter.c` | `MCSFilter` | `SFilter_proof` |
| `CountingTheorems` | lemmas on counts and sequences that the proofs share | | |

Two pairs compose. `DPVolume` implements `VolumeContract`
(`ImplementsVolume`, checked and proved), and `DPBitmap` implements
`SectorMarks` (`ImplementsMarks`), which is the set `marked` that `DPVolume`
uses for the bitmap: a range is added whole, or nothing of it is, or the set
cannot be read when the block is gone. `NdisEdgeInit` composes two drivers: it
has ndisprot's side of the callback object (`ndisprot/excallbk.c`) and the
adapter's.

`MCSmallParts`, `MCCryptFile`, `MCNdis` and `MCPassthru` put several models that
share no state into one module, and their theorems into one proof module. The
variable `part`, chosen in the first state (in `MCCryptFile` and `MCNdis` from the
constant `Parts`, since several runs share the module), says which of them takes
steps; the others stay at their initial states. Such a run has the sum, not the product, of its models' states. A
property is about the variables of its model, so that in the other parts it
speaks of an initial state.
In `MCTdiConn.cfg` and `MCCryptFile.cfg` the models the run does not take have empty
sets for their constants; and where `CryptFile` stays at its initial state, only one of
its three files is taken.

A property that a run checks is often a conjunction of named parts, given at the
end of its module: `BindingHeld` of `NdisProtBind` is `TypeOK`,
`ReferencesExact`, `HandleHeld`, `FreedClean`, `FreedUnused` and `UnloadClean`.
The parts carry the comments with the code's lines.

One action stands for one piece of code that no other thread can interleave
with: what is done under a spin lock, or between two accesses to shared state.
Where a handler accesses shared state several times it is several actions, with
a program counter. Failures of calls that the code handles (pool, file, lower
device) are alternatives of the action that makes the call.

**DPVolume.** The device extension is `protect`, `bitmap` (NULL, live or
freed), `marked`, `tempFile`, `queue`, `reqEvent`, `term`. A write or read is
`Dispatch`, which passes it down (before protection) or queues it, and then
`DispatchSignal`, which sets the event. The thread has one action for each
stage of an IRP: wait, check, take, read or write by `DPBitmapTest`, and for a
blend `WorkerReadBlend`, `WorkerBlendLower` and `WorkerMerge`; for a write
`WorkerWriteFile` and `WorkerSetBit`. What `Bits` yields is the bitmap's marks,
or, if the pointer is to freed memory, any. The temporary file writes a part
before it fails. `LowerRead` and `LowerWrite` are the lower device.
`expect`, `solo` and `snap` are history: the acknowledged contents, the sectors
on which a pending write met no other, and what a read must return.

**DPBitmap** keeps the code's arithmetic: regions, bytes, bits; head bits, tail
bits and whole bytes are set as three loops set them, and the region after the
range is allocated, as the code does. The abstraction is `marked`, the sectors
whose bits are set.

**DPPaging** has one action for each access of the handler to the count, the
event and the flag. The event is initialised as a notification event, so a wait
does not reset it, and notifications overlap.

**Coworker.** A string is its length: `RepliesFit` is about lengths. Send is
check, insert, set; receive is a loop of remove and wait.

**Ctrl2cap.** `++` and `--` are a load and a store. A deleted device object is
memory that may be overwritten (`reused`) before `NextDevice` is read from it. The
chain is the set of its devices, since the unload's order does not matter; a walk
that goes on from reused memory finds no more of them.

**TdiConn.** The functions of `conn_state.c` are operators (each holds both
locks throughout), the handlers are actions. A connection has a client's view
(`irp`), the transport's (`tcp`, `fins`) and the firewall's (`state`). Handlers
that read the state under one hold and set it under the next are two actions
(`Release`, `ReleaseSet`). A client may release or abort at any time, also what it
has released already or what is over; the transport then refuses, and the firewall
has stored `new_state` all the same, which is not initialised when no case applies:
any of `Uninitialized` (in the run one that makes a dead entry look open and one that
closes a live one; in the proofs any states). `again` records such a request. The thread is `ThreadWakes`, `ThreadScans`, `ThreadLoops`, with `Tick`
for time. The chain of closed entries is the set of its members and `circular`: the
thread walks it from end to end, so the order does not matter, and what does is
whether it leads back to itself. Then the thread walks in circles with the lock of
the table held (`ThreadSpins`, `Unlocked`), and time goes by (`TimeGoesBy`).

**CryptFile.** One file of two cells: the first page, where the header is, and
the rest. A cell holds one of a few forms (end of file, header, text, note and
the encrypted form of each). The create of a notepad is the pre-open in steps
(`PreOpen` to `PreClose`), the create, then `AppendClear` and `AppendLk`; of
another process, `OtherCreate` and `OtherPost`. Paging reads decrypt if the
file is in the list at that moment, paging writes encrypt. `raced` records that
one of the windows of the code was met (see section 6); each action that is such
a window calls `Race` with its condition, and no other action does.

**TdiLog.** The ring is `data`, `head`, `tail` with one slot that stays empty, as
in the code; a block is a number, so that one freed twice is seen (`twice`).
A thread in `tdi_create` goes through the lookup of the name, the event in the
list, the log, the signal, the wait and the reset; `log_request` and
`KeSetEvent` are two steps, since the lock is released between them. So are
`find_ple`, when it finds nothing, and `add_ple` (`CreateSetsEvent` and
`CreateAddsEntry`, `ProgramAnswers` and `ProgramAdds`), so that a process may get
two entries: the first is `entered`, `pname`, `pname_event`, the others are in
`behind`, and `doubled` records it. Processes end and come again
(`ProcessEnds`, `ProcessCreated`). The
program is external: it reads, answers for what it has read, waits, closes.
`filter_free` runs over all slots, as the code does. The
entries that those in the queue report as lost are counted as pairs of a slot and a
number up to its `log_skipped`, which is their sum.

**NdisProtBind.** Each IRP and file has a thread, and there is one for bind and
one for unbind. `ndisprotCreateBinding` is `BindAdapter` to `BindActivates` or
`BindFails`; both end in `ndisprotShutdownBinding` (`Shutdown*`). An open is the
lookup, the association, the validation (a request of its own to NDIS) and the
undoing of a failed one. `NdisProtSendComplete` completes the IRP, lowers
`PendedSendCount` and lets the reference go in three actions; the file of the write
may be closed after the first, and the driver unloaded after the second. `raced` records a cleanup that overlaps its file's
open; NDIS does not unbind before the bind has returned unless `EarlyUnbind`.

**NdisProtRecv.** `ndisprotServiceReads` is `ServiceEnters`, then a loop of
`ServiceTakes` and `ServiceCompletes`; so are `ndisprotCancelPendingReads` and
`ndisprotFlushReceiveQueue`. Each takes its reference and releases the lock
between two turns. A cancel routine is called when the IRP is still in the list
or has just been taken (`CancelCalled`, `CancelRemoves`).

**NdisEdgeSend.** `Status` and `pTCB` are variables of the thread that live as
long as the array of packets; `Packet` is the packet being looked at. `stale`
records the reference that is dropped for a packet that never had a TCB
(`Send.c:144-156`). `NICFreeSendTCB` frees, and the completion then sends what
waits. A change of the media's state is a read and a write of `Flags`.

**NdisEdgeRecv.** `lock` is the holder of `RecvLock`, where a thread goes on with
the lock held; the work item is `WorkBegins`, a loop of
`WorkTakes` and `WorkPosts`, and `WorkEnds`, which clears
`IsReadWorkItemQueued`. An RCB whose request the target refused is `unposted`.

**NdisEdgeInit.** `NICInitAdapterWorker` runs in `MPInitialize` and in the work
item of each notification: wait for `InitEvent`, open, allocate, query, set
the flags, post the status request, and either end frees what it allocated.
Registration, notification and the count on the callback are separate steps,
and so are the steps of `MPHalt`.

**PassthruAdapt.** One `ADAPT` and a thread for each of bind, initialisation,
unbind, halt, power event, the one request and each packet. A handler is cut at
`pAdapt->Lock` and where it waits; `PtStatus` and `MPProcessSetPowerOid`, which take
no lock, at each look at the `ADAPT`, and `MPInitialize` where it sets one state
after the other, which are "unset" before. `heard` is the last status from below and
`lost` says that it came, or power was being set, at a moment when the code
does not promise to tell it. The miniport below indicates one status at a time, and
none once NDIS closes the binding (`Closing`). **PassthruRecv** has the pool, and each
packet with the handler that works on it, with the test of `MiniportHandle` and its use
as two steps (`late` has the packets that `MPHalt` came upon in between); **PassthruDevice** the two routines that
wait for each other's state.

**SFilter.** `n` is the notification that is served (file system, enumeration,
attachment), `mount[v]` the mount of a volume on its way down and back,
`req[i]` a request with the callbacks' answers, `u` the unload. Devices are
reused, and a deleted one that something still points at is `dead`. Creation and
attachment may fail wherever the code makes them. A recognizer may leave while its
device loads the file system; that it does not register again after a load is a bound
of the model, since there is one load. The fast
I/O table is one action with an entry for each routine.

## 3. The runs

| run | instance | states | checks |
|---|---|---|---|
| `volume` | 2 IRPs; 2 sectors, extents of one and both; 2 values; online once; no removal | 1.5 million | `TypeOK`, `ReadsSeeAckedData`, `AckedDataKept`, `DiskFrozen`, `ImplementsVolume` |
| `volume_remove` | 2 IRPs, 1 sector, removal, failing maps, online twice; fair | 191 000 | `BitmapLiveInUse`, `QueuedServed` |
| `small_parts` | paging: 3 threads, up to 4 paging files; bitmap: regions of 2 bytes, 40 sectors, 84 ranges, two calls; strings: 2 senders, 1 receiver, maximal length 2; keyboards: 2, counters modulo 8; start of ndisedge: 2 work items, ndisprot loaded twice; fair | 190 000 | `PathsSettled`, `BitmapPromise`, `StringsDelivered`, `WaiterReturns`, `CountAndChain`, `UnloadOutlastsReads`, `StartSafe` |
| `tdi` | 2 connection objects, 3 entries, `MAX_CLOSED_TIME` 2 | 1.1 million | `EntriesOwned`, `TableTrue`, `EntriesFreed` |
| `crypt_and_log` | crypt: 2 notepads, 1 other process; log: a queue of 3 slots, 5 logs, 2 to a buffer, 2 threads of 1 process and 2 requests for its name | 1.0 million | `Exclusive`, `NotesProtected`, `SkippedExact`, `RingOwned`, `WaitersServed` |
| `ndisprot_recv` | 2 packets, a queue of 1; 2 reads, or 1 and power lost once | 713 000 | `CountsExact`, `ReadsServed`, `NothingFreedInUse` |
| `ndisprot_bind` | 2 IRPs, 2 files | 375 000 | `BindingHeld`, `OneOwner` |
| `ndisedge` | send: 3 packets, 2 TCBs, 2 callers, 2 completions, arrays of 2, 2 media changes; receive: 2 RCBs, 2 work items running, 1 error, 1 refusal, 1 media change | 189 000 | `SendsAccounted`, `ReadsAccounted` |
| `ndis_live` | one read or use, one packet, one file; 2 sends to one TCB; 2 RCBs; fair | 44 000 | `UnbindsReturn`, `HaltsReturn` |
| `passthru` | 1 packet sent, 1 request and 1 status at a time; 2 received packets, a pool of 1; 3 miniports; fair | 150 000 | `AdaptCounted`, `RequestsSettled`, `StatusTold`, `FramesSafe`, `DeviceSafe`, `WaitersReturn` |
| `sfilter` | a file system with 2 volumes, or a shadow copy, or a recognizer; 3 devices, 1 request | 319 000 | `VolumesCovered`, `DevicesAccounted`, `RequestsOutlived` |
| `sfilter_lost` | the same | up to the violation | `NoneLost` violated |

**Why the bounds are enough.**

- *DP.* IRPs are reused after completion, so runs are unbounded in length. Two
  IRPs give every overlap of two requests (write with write, a read handed to
  the lower device with a later write); the thread serves one at a time, and a
  third IRP could only wait longer. Two sectors and a range of both give the
  three answers of `DPBitmapTest`: clear, set, mixed. The value of a fresh
  file and one other tell a sector that was lost from one that was kept. The
  proofs lift all of these bounds. In `volume_remove` contents do not matter,
  so there is one value and one sector.
- *Bitmap.* The code's arithmetic depends on positions within a byte and within
  a region. With regions of two bytes, the offsets and lengths chosen lie on, one
  before and one after byte and region boundaries, and the longest ranges cover
  whole regions with both ends inside others. Two calls let a range be marked
  over another.
- *Paging.* Three threads let a notification overlap two others; four files are
  more than any two thresholds of the code (0 and 1) need.
- *Strings.* The maximal length 2 distinguishes an empty string, one that fits,
  one without terminator and one too long; three strings in the list are more
  than there are senders.
- *Keyboards.* The unload walks a chain: two devices have a first and a last, and
  the counter is raced for by two. It counts modulo `ULong` > 2, so a lost update
  may take it below zero, where it wraps as in the code.
- *TDI.* A client has one request per object outstanding, of any kind and at any
  time. Objects share only the table and its thread. Two give every order of
  two clients; three entries let one object have an entry queued and a new one
  while another has its own. Time 2 gives an entry not yet, just and long
  expired.
- *Log.* Three slots hold two entries; five logs let an entry that carries
  `log_skipped` be dropped itself, and the ring wrap. A process asks for its name
  twice (`MaxAsked`): `FirstAnswered` is about the first request, and the second is
  the one that can disturb it. A process has an entry and
  an event of its own in the list, or two entries if both of its threads add one, so
  one process with two threads shows every race for them; other handlers, which only log, are one at a time: two of them
  between unlock and `KeSetEvent` set the same event.
- *Crypt.* Two notepads meet in the creation and the insertion, and one with
  another process; there is one handle for each process.
- *ndisprot.* Two reads and two packets with a queue of one: the second packet
  overflows it, and two parties can hold a read each while a third finds the
  list empty. The loss of power empties
  only the queue of packets: it comes with one read. One binding, since contexts share nothing but the list.
  IRPs and files are reused.
- *ndisedge.* Arrays of two are the shortest in which one packet's TCB is
  tested for the next; three packets on two TCBs let one wait behind two. Two RCBs
  with the watermark 1 let reads be outstanding while the item is queued. Two
  notifications are the fewest that overwrite the pointer to a work item.
- *passthru.* NDIS has one request at a time. Sends are counted independently of
  each other, so one packet meets every state of the edge. Three miniports: one that
  goes, one that comes, one that waits. The number of media indications is not
  bounded.
- *sfilter.* Each of the worlds (`MCWorlds`) has the volumes that can meet: two for
  one enumeration, one with a request inside its device, one that must be left
  alone, and one file system that is loaded by its recognizer. A request is inside
  one device, so it need not meet two mounts. Three devices are one more than any world keeps.

Symmetry is used where model values are compared only for equality, and in no run
that checks liveness.

`CHECK_DEADLOCK FALSE` is there where the system may really stop: the volume is
removed, the driver is unloaded, its thread has exited, a binding or an adapter
is gone, the bounded calls are used up, or (crypt) the spin lock is never
released.

**What the properties say.** `ReadsSeeAckedData` and `AckedDataKept` are about
each read and each sector through the switch to protection and any failure.
`DiskFrozen` is an action property: the disk of a protected volume changes only
by writes passed down before. `QueuedServed` holds unless the volume is removed:
on removal the thread leaves and IRPs still queued are forgotten, which the
property allows for because the code does it. `NoStrandedString` is the reason
why one receiver never sleeps beside a string. `EntriesOwned` is about pointers
between two tables; `TableTracks` and `NoGhosts` relate the firewall's state to
the transport's. `NoteEncrypted`, `NoteSecret` and `NotepadReadsNotes` are
conditional on no window of the code having been met, `Exclusive` is not.
`SkippedExact` follows the number of lost entries through the entries that carry
it and are lost in turn.

The reference counts of the NDIS drivers are stated as sums over those who count
on the object (`ReferencesExact`), and that nobody uses what was freed as a
property of its own (`FreedUnlessLate`, `FreedUnused`): neither follows from the
other, since a count may be exact while a user has none. `NoStrandedRead` and
`OneCompletes` are about the two lists of ndisprot and five parties that empty
them. `QueuedForPower` is about a test that is repeated under the lock.
`StatusTold` relates two fields to what the miniport below said last, across the
power changes of both edges.
`NotMissed` is about two drivers that each register first and notify then.
`NothingMissed` and `AttachedOnce` are the two sides of the same race between an
enumeration and a mount. Where the code leaves a window, the property names it
(`FreedUnlessLate`, `stale`, `excused`, `raced`, `lost`, `late`, `reused`, `again`,
`doubled`) and holds outside of it: it does not show the window to be harmless. For
each hazard that a property leaves out in this way `PROJECT.json` says so.

## 4. Fairness

- `DPVolume`: weak fairness of the thread (a system thread at real-time
  priority, `DPMain.c:253`, that nothing can keep from running), of
  `DispatchSignal` (a dispatcher that has inserted its IRP goes on to set the
  event), and of the lower device, which answers. None for the issuing of IRPs,
  for online, for boot or for removal.
- `Coworker`: a thread inside the driver goes on to its next step, unless it is
  blocked. None for sends and receives: users need not call.
- `Ctrl2cap`: threads inside the driver run on, and a key is pressed on each
  keyboard sooner or later. The second is what the unload really depends on: the
  sleep loop waits for a key stroke on each keyboard.
- `NdisProtRecv`, `NdisProtBind`: threads inside the driver run on, NDIS completes
  requests, transfers and sends (within the 60 seconds the code waits), and
  unbinds when the protocol is deregistered. None for new reads, packets, opens,
  cancellations.
- `NdisEdgeSend`, `NdisEdgeRecv`: threads run on and queued work items are run; a
  target that is stopped completes or fails what it has; the protocols return
  the packets they have. While the target is open nothing is assumed of it.
- `PassthruAdapt`, `PassthruDevice`: threads run on; NDIS initialises the miniport
  it was asked to and halts one whose deinitialisation was asked for; the
  miniport below completes what it is given. None for binds, unbinds, requests,
  sends, indications and power events.
- The other modules state safety only and need none.

In a run of several models each keeps its own fairness. In its first state none of
them has a step that is assumed fair, so one that stays there satisfies its
fairness; but for the work item of `NdisEdgeRecv`, queued at the start, whose
fairness run `ndis_live` asks for in that part only.

## 5. The proofs

Every property of a passing run is the statement of a theorem, but for those that
are about liveness. A theorem holds for every value of the constants under the
assumptions the modules name, which TLC evaluates in the runs: that the sets of
threads, blocks, packets and keyboards are finite where the code counts them, that
names of different kinds differ, that bounds are natural numbers. The proofs have no
step without a proof.

All of them go the same way. The properties are not inductive: they speak of what
the user sees, and a step keeps them because of where the threads are and what each
of them holds. So each module has an invariant that says this: the types; for each
kind of thread its places and what it has there; for each thing that is handed
around (a read, a packet, a block, a reference) the one place where it is; and each
counter as the number of those who count. TLC checked each invariant on the run of
its module before it was proved. For each action and each part of the invariant
there is a lemma, so that a step is read with what it disturbs; and the theorem
takes its property from the invariant.

**CountingTheorems** has what the proofs share: `CountMove` (how the number of
elements that a function maps into a set changes when one element moves),
`CountChange` (two sets that differ in one element at most), and what is in a
sequence, and once, behind its head (`TailOf`), with an element more (`AppendOf`),
and if some are taken out: `RanksOf`, that the elements of a finite set of numbers
have the ranks from one to its size, each one's own. A model that picks the rest of
a list by rank, as `WaitListWithout` and `StackWithout` do, needs no recursion.

**DPVolume_proof.** Nothing TLC bounded remains: IRPs, sectors and values are
any sets.

- `TypeCorrect`: `Spec => []TypeOK`, without further assumption.
- `Inductive`: `Spec => []IInv` if the volume comes online at most once
  (`MaxOnline <= 1`) and buffers can be mapped (`~MapFails`).
  `IInv` is `TypeOK` with eight named parts. The property itself is not
  inductive: that a read returns acknowledged data depends on what it was told
  when it was handed down or blended. Hence
  - `Owned`: the IRP of the thread is its own, and the queue holds waiting IRPs
    once each;
  - `Phases`: what protection implies: the volume is online, the bitmap is live,
    and before it nothing is queued or marked;
  - `Serving`: at `setbit` the file holds the value of the write;
  - `Writes`: a pending write leaves its extent undetermined, and where it is
    alone nobody else writes; one that is below is early;
  - `Reads`: what a pending read must return is what the sector must hold, and,
    if it is below, no mark stands on it: this is the fact that justifies
    handing a clear read to the lower device while later writes are served;
  - `Blending`: what the two buffers of a blended read hold;
  - and `AckedDataKept`, `ReadsSeeAckedData` themselves.
- `ReadsCorrect`, `NoDataLost`, `DiskIsFrozen`, `BitmapLive`: the properties of
  the runs, from `IInv`. 

The step of the proof has one lemma for each action and, in it, one step for each
part the action can disturb; parts it leaves alone are carried over by frame
lemmas (`FrameOwned` and so on).

Both assumptions are needed. With a second `IOCTL_VOLUME_ONLINE` marks are lost
(`ClearIsDisk`, section 6). If a buffer cannot be mapped
the thread passes a write down to the protected disk (`DPMain.c:306-310`), and
`DiskFrozen` fails.

`Implementation`: `Spec => ImplementsVolume` under the same assumptions. Every
action of `DPVolume` is a step of the contract, or leaves its variables alone;
whether an IRP waits in the queue, in the thread or below is hidden by `Phase`.

**SmallParts_proof** is about the five models of `MCSmallParts`.

- *Paging* (`PathsAlwaysSettled`). `PagingCounted`: the count and what is accepted
  and not yet counted are the files, for any number of threads, overlapping or not.
  `PagingAlone`: as long as no two notifications have overlapped, what the one that
  is under way has done so far says what the count and the bit are.
- *Bitmap* (`BitmapKeepsPromise`). The head bits, whole bytes and tail bits that
  `DPBitmapSet` sets are the range's sectors (`SetBits`), for any size of a region:
  so a call adds the whole range to `marked`, or nothing if a region cannot be
  allocated, and `DPBitmap` implements `SectorMarks`. Assumed is that NULL is no
  block, and that a region has a byte.
- *Strings* (`StringsAlwaysDelivered`), for any senders, buffers and lengths and one
  receiver, as `OneReceiver` assumes: a second may stay blocked beside a string
  (section 6). While there is a string the event is set, or a sender is about to set
  it, or the receiver is about to look. That a reply fits (`RepliesAlwaysFit`) holds
  for any number of receivers.
- *Keyboards* (`CountAndChainAlways`, `UnloadAlwaysWaits`). `KeysCounted`: unless two
  updates raced, the count is the number of reads below, with each `++` and `--`
  that is between load and store; `ULong`, at which it wraps, must be more than the
  keyboards.
- *Start of ndisedge* (`StartAlwaysSafe`). `InitEvent` admits one worker
  (`Admitted`), whose copy of `Flags` is what they are until the halt (`Copied`); the
  registration of the callback follows the initialisation and ends with the halt's
  (`Called`, `StartCounted`); what ndisprot has notified a step too early is called
  later (`Told`); the halt's flush leaves no work item behind unless there were two
  (`Flushed`); and an adapter that is ready has its target and its resources, or some
  worker has failed (`Equipped`).

**CryptFile_proof** is about the three models of `MCCryptFile`.

- *Files*, for any number of processes. `ListKeepsOthersOut`: `Exclusive` is inductive
  with `TypeOK`. The two steps that matter are `AppendLk`, which inserts only if no
  file object but the notepad's own is open (`UncleanCount`), and `OtherPost`, which
  cancels the open of another process when the file is in the list; each tests under
  the lock, so whichever is first wins, with all the windows that `raced` stands for.
  `NotesAlwaysProtected` needs `NotesInv`: what disk, cache and dirty pages can hold
  together while the file is in the list and while it is not (`Contents`), what
  clearing the cache leaves (`Emptied`), who has inserted the file (`Inserted`), what
  a file without header is (`Headless`) and what each notepad has decided
  (`Decided`).
- *Log* (`SkippedAlwaysExact`, `RingAlwaysOwned`, `WaitersAlwaysServed`), for a ring of
  any size. `LogInv`: the slots between tail and head are a stretch around the
  ring's end (`Stretch`, `Around`), and each has a block of its own (`Blocks`); what is
  dropped is what the program was told, with what waiting entries and the buffer
  report (`Reported`); an event in the first entry of a process is that of a thread
  inside, unless there were two entries (`Inside`), and a thread's first request is
  answered by whoever reads it (`FirstTime`). `WaitersAlwaysServed` needs no more
  about a process with two entries than that its first request is its only one so far.
- *Connections* (`EntriesAlwaysOwned`, `TableAlwaysTrue`, `EntriesAlwaysFreed`), for any
  number of objects, entries and `MAX_CLOSED_TIME`. `ConnInv`: who points at an entry
  (`Pointed`), what is in the chain (`Chained`), what the entry says for each view the
  transport has of the connection, with each handler half done (`Connections`), how
  long the thread waits (`Waiting`) and what the unload leaves to it (`Exiting`). As
  the properties do, it excepts entries after an accept that reused an object, and
  connections that were released or aborted again.

**NdisProtBind_proof** (`BindingAlwaysHeld`, `AlwaysOneOwner`) holds under
`~EarlyUnbind`: NDIS does not unbind before the bind has returned. The invariant has
the stages of bind and unbind (`Stages`) and what the binding has in each (`Handles`,
`Lists`), who is in an open (`Opens`, and `Openers` unless `raced`), what an unload
has left (`Unloading`), and `PendedSendCount` and `RefCount` as the numbers of threads
at the places where they count (`PendsExact`, `References`); among these are the
writes whose IRP is completed and whose file may be closed, and at an unload nothing
else is left.

**NdisData_proof** is about reads and packets.

- *ndisprot* (`CountsAlwaysExact`, `ReadsAlwaysServed`, `NothingIsFreedInUse`), for any
  number of reads and packets and any length of the queue. Each read is in the list
  once, with one thread, or with its cancel routine (`ReadsOwned`); each packet in use
  is with the thread that indicates it, in the queue, or taken by one (`PacketsOwned`);
  `Counts` adds them up. `NoStrandedRead` is inductive with these.
- *Reads of ndisedge* (`ReadsAlwaysAccounted`). An RCB is in one place (`OnePlace`), its
  reference count is that of the read, the packet above and the threads that have not
  given theirs back (`Referenced`), so that who frees it is the last (`LastFrees`);
  the busy count is that of the RCBs not free (`ReadBusy`), for any number of them; and
  after the flush of `MPHalt` nobody begins (`AfterStop`).
- *Sends of ndisedge* (`SendsAlwaysAccounted`). Unless a reference was dropped that is
  not the packet's (`stale`), a packet is with one thread, in `SendWaitList`, with a
  TCB, or gone (`OneThread`, `PacketPlaces`, `KeptSomewhere`), and completed when it
  leaves the last of them (`Completions`); a TCB is free, with one thread or with the
  target, and carries one packet with one reference (`OneUser`, `Carries`, `SendBusy`);
  after the flush of `MPHalt` there is no sender (`HaltStages`). An array may have
  any length up to `MaxArray`.

**Passthru_proof** is about the three models of `MCPassthru`. *Adapt*
(`AdaptAlwaysCounted`, `RequestsAlwaysSettled`, `StatusAlwaysTold`): how far bind,
initialisation, unbind and halt have come together and who frees the `ADAPT`
(`Binding`, `Initializing`, `Unbinding`, `Memory`, `Counted`), where the request is and
what a power event does meanwhile (`Requests`), the number of packets below
(`Sending`), where the last status is kept and what `PtStatus` has seen (`Media`). *Recv* (`FramesAlwaysSafe`): who
has a packet of the pool, and that the free ones are the others. *Device*
(`DeviceAlwaysSafe`): where each miniport's routine is and what it will find
(`DevicePlaces`, `DeviceFound`), the count as a number of miniports
(`DeviceCounted`).

**SFilter_proof** (`VolumesAlwaysCovered`, `DevicesAlwaysAccounted`,
`RequestsAlwaysOutlived`) holds for any number of file systems, volumes, devices and
requests, if recognizers are file systems, each volume has a file system, and a file
system is no volume. `FilterInv`: a device is above one target, which it knows
(`Sited`), or in the hands of the notification or of one mount (`Held`); where one of
them is about to attach there is none (`Vacant`); outside an unload no device is dead
that sits above a volume, or above a file system other than a recognizer
(`Alive`); a volume that ought to have a device has it, or the
enumeration has it in its list, or its mount has returned and will look (`Covered`),
which is the race of the two; the device of a load is its recognizer's only one
(`Loading`); and a request is inside a device that exists, of a volume that is still
mounted (`Waiting`). `NoneForgotten`, `UnloadDetachable` and `NoBypass` are parts of
it themselves.

**Only model-checked.** Liveness under fairness, and `ENABLED`, are beyond TLAPS:
`QueuedServed`, `WaiterReturns`, `UnloadOutlastsReads`, `UnbindsReturn`,
`HaltsReturn` and `WaitersReturn`. So is induction over data, which no theorem here
needs: what would be recursive in the models is a set, a count or a choice by rank.
The safety part of two of them is proved: the unload of ctrl2cap does not return with
a read below (`UnloadAlwaysWaits`), and what `MPHalt` and the unbind wait for is
counted exactly. `sfilter_lost` is a counterexample and has nothing to prove.

## 6. Where code and comments disagree

One run ends in a violation on purpose, `sfilter_lost`.
`SfAttachToFileSystemDevice` sets `TypeFlag` (`sfilter.c:5422`) after the device
is in the stack (5410). A request that arrives in between meets a device that
the driver does not take for its own; the dispatch routines rely on the callback
to complete it (`ASSERT(ret == SF_IRP_COMPLETED)`, lines 1969, 2176, 2388, 2495),
the callbacks return `SF_IRP_PASS`, and nobody completes the request.

Other statements of comments and assertions that the code does not keep are
defined beside the properties (`ClearIsDisk`, `DeletedOnce`, `InsertedOnce`,
`StatusIrpEndsWithBinding`, `ReadPathGoes`, `NoReadAfterError`,
`CompletesOutstanding`, `KeptIsAbove`) or noted here; no
run checks them.

**DP**
- A second `IOCTL_VOLUME_ONLINE` of the protected volume replaces the bitmap
  (`DPMain.c:997`): redirected sectors read as clear, which the comment of line
  320 takes for the real contents (`ClearIsDisk`).
- A write whose buffer cannot be mapped reaches the protected disk
  (`DPMain.c:306-310`; the comment of line 425 says never).
- On removal, IRPs left in `ReqList` are neither completed nor passed on.
- `PagingPathCountEvent` stays set after the first notification, so it orders
  none of them; overlapping ones may leave `DO_POWER_PAGABLE` wrong.

**coworker2, ctrl2cap**
- Two strings may set the one event once (`coworker_sys.c:150, 181`); a second
  waiting receiver stays blocked beside a string, where the comment of lines
  177-180 says it returns.
- `gC2pKeyCount++` and `--` lose updates on two processors; the unload then
  returns too early, or never (`ctrl2cap.c:413`).
- The unload reads `NextDevice` of deleted devices (`ctrl2cap.c:255-261`).

**tdi_fw**
- `tdi_event_connect` queues the old entry and leaves its pointer, `add_tcp_conn`
  then refuses, and line 280 queues the entry again (`ev_conn.c:214, 280`; the
  comment of line 203 says the object can be reused): the chain is circular
  (`DeletedOnce`).
  Once it is circular the thread does not leave its loop, with the lock of the table
  held.
- The client's release is not checked against the state: of a connection it has
  released, or that is over, `new_state` is stored uninitialized
  (`disp_conn.c:437-440, 478-479`), and may close a live entry or open a dead one
  (`again`).
- The thread that frees closed entries waits for the entry with the longest time
  to go, where the comment says the shortest (`conn_state.c:671, 714`). Nothing
  comes of it but delay: `ClosedForgotten`.
- `conn_state_free` may set `g_conn_thread` to NULL between the scan and the test
  of the loop; the entries queued since are leaked (`overtaken`).
- `filter_free` runs over all slots and the pointers of a dropped entry are not
  cleared: the blocks that the last overflow dropped are freed again
  (`filter.c:192-197, 333-341`). `ot_free`, which runs after it, still logs
  disconnects (`tdi_fw.c:316-318`).
- `KeSetEvent` tests and uses `g_queue.event` after the unlock
  (`filter.c:375`), while `filter_free_2` closes it (163-176).
- Two threads of one process share one event in the process list: an answer to
  one, between the other's lookup and its event, is missed, and the open is
  refused although the name is known (`disp_obj.c:63-98`; `FirstAnswered`).
- Two of them may each find no entry and add one (`pid_pname.c:109-113`): the reset of
  the second thread (line 118) clears the first entry's event, and once the first
  entry is removed (266-284) the second is found, with an event on a stack that is
  gone (`doubled`).

**crypt_file**
- Two notepads that open a file at once both find it not in the list
  (`cf_create.c:271-278`); the second insertion meets `ASSERT(FALSE)` and
  returns with the spin lock held (`cf_list.c:97-99`; `InsertedOnce`).
- The windows (`Race`): the header is written after the size was checked on
  another file object; the file is in the list at the pre-open and not at the
  create; the header is overwritten before the insertion; the FCB is reused while
  its node is still listed; cached I/O between clearing the cache and taking the
  lock.

**ndisprot**
- `NdisProtRead` goes on to `ndisprotServiceReads` with an open context for which
  it has no reference, and which may be freed when its read was completed by
  another thread (`recv.c:94-99, 221`; `FreedUnlessLate`).
- What a cleanup's flush has taken out of the queue is counted nowhere, so an
  unbind may free the pool under it (`recv.c:1140`; `PoolOutlivesPackets`).
- An IRP that asks for the status after the unbind has serviced the last one waits
  until it is cancelled (`ndisbind.c:1807`; `StatusIrpEndsWithBinding`).
- A write is completed (`send.c:421`) before its count and its reference are let go
  (424-425): its file may be closed, and the driver unloaded, before that
  (`UnloadClean`).
- If NDIS unbinds while the bind is under way, both take the binding down
  (`EarlyUnbind`, `OneShutdown`).

**ndisedge**
- The work item may be asked for when it has left its loop and not yet cleared
  `IsReadWorkItemQueued`: with all RCBs free nobody posts a read again
  (`Receive.c:136-142`; `ReadPathGoes`, against `ndiswdm.htm:311`).
- A read that failed clears the flag that lets reads be posted, "to prevent any
  more reads" (`Receive.c:264-266`); a running item posts another
  (`NoReadAfterError`), and nothing sets the flag again, so the reads end.
- A read that the target refuses leaves its RCB in the busy list, and `MPHalt` waits
  for it without end (`unposted`).
- A packet that met a change of the media's state behind another in its array is
  tested with what the one before left: it is not completed, or a reference is
  dropped that is not its own (`Send.c:91, 144-156`; `dropped`, `stale`).
- `Flags` is written without interlock: the halt's bits can be undone.
- A second notification overwrites the pointer to the work item, and `MPHalt` flushes
  the wrong one or none (`Init.c:1124`). `ndisprotCallback` passes no adapter
  (`excallbk.c:225-243`).
- The packet filter and the multicast list are stored while the adapter is not ready
  and never forwarded (`Request.c:907, 975`).

**passthru**
- A bind that fails before it has a binding leaves its `ADAPT` and pools
  (`protocol.c:284-314`).
- `MPInitialize` sets an event in an `ADAPT` that it has let others free
  (`miniport.c:166-167`).
- `MPHalt` nulls `MiniportHandle` under a receive handler that is past its look: the
  packet counts as kept and is not returned until the pool goes
  (`protocol.c:1280-1299`; `KeptIsAbove`), or is indicated with a NULL handle
  (1240; 1282 and 1047, `late`).
- OID_PNP_CAPABILITIES or an initialisation sets `PTDeviceState` to D0 while the
  miniport below is told to sleep (`miniport.c:139, 830`), so that packets go to a
  miniport that sleeps.
- `PtRequestComplete` is called for a queued request that is not outstanding
  (`protocol.c:628`; `CompletesOutstanding`).
- `PtStatus` looks at the states of both edges and stores the status without a lock
  (`protocol.c:729-753`), and `MPProcessSetPowerOid` may run in between
  (`miniport.c:1084-1119`): the status is told late, twice or never. So it is if it
  comes in `MPInitialize` between the handle and the state (`miniport.c:128-138`), and
  power set from D0 to D0 tells an old one (`lost`).
- `AnalysisPacket` always lets packets pass (166); `PtReceive` would not drop one
  (961-1047). The test of `myAddDevice`'s result is inverted, so the hooked device is
  never made (`Hook.c:103`).

**sfilter**
- A device that `OnSfilterAttachPre` turned down is forgotten (`sfilter.c:5376`),
  and `DriverUnload` detaches it from NULL; so it does with one whose mount is
  under way, and one whose volume has been dismounted since the list was taken.
- A mount on its way when the filter attaches to the file system is missed.
- A recognizer that leaves while its device loads the file system has that device
  deleted under the load (5536-5563), which then attaches or deletes it once more.
- On Windows XP a recognizer's device is not detached before the load
  (3137, 3326, 3345).
- Unload waits five seconds for what is inside its devices, whatever is.

## 7. What is not modelled

- **DP**: power, volume geometry and pass-through requests (they forward). The
  state before `DPAddDevice` has succeeded, and its failure paths.
- **coworker2**: the contents of strings.
- **ctrl2cap**: the translation and printing of scan codes; attachment is the
  initial state.
- **tdi_fw**: listen entries, connection contexts, addresses and their lifetime,
  rules, datagrams and packets, failing allocations. In the log queue, an entry
  larger than the program's buffer, a failure to create the event, and what is
  overwritten by setting an event that is no longer there.
- **crypt_file**: sizes and positions in file information, the loop that acquires
  the two FCB resources, creates that overwrite, more than one file.
- **ndisprot**: the contents of packets, media and reset flags, what
  `ndisprotCallback` does. The 60 seconds for which an unbind waits are taken as
  enough.
- **ndisedge**: reset, which is not registered; statistics; requests that set what
  is only stored; the failure to make a work item (`ExCallbk.c:246`); the build
  without `EX_CALLBACK`.
- **passthru**: `MPSend`, which is not registered; transfer of data; the hooks of
  `Hook.c`; the NDIS 4 build; reset and unload.
- **sfilter**: the Windows 2000 paths, the error exits of `DriverEntry`, a mount
  for which no device can be made, the names for debug output.
- **comcap, WfpSample, minifilter, Callback, ramdisk_wdf, the hooks and samples**:
  no state of their own worth a model, or the framework serialises it; the reason
  for each is in `PROJECT.json`.
- **Throughout**: logging, formatting, IRP stack handling, and the memory model
  of the processor, except where `++`, `--` and `Flags` are split.

## 8. Plan

1. Done: the models of section 2, with every safety property of the runs proved:
   `DPVolume` with its contract, `DPBitmap` with `SectorMarks`, `DPPaging`,
   `Coworker`, `Ctrl2cap`, `TdiConn`, `TdiLog`, `CryptFile`, `NdisProtBind`,
   `NdisProtRecv`, `NdisEdgeSend`, `NdisEdgeRecv`, `NdisEdgeInit`, `PassthruAdapt`,
   `PassthruRecv`, `PassthruDevice`, `SFilter`.
2. Open for proofs: that the data paths compose, which needs a model of ndisprot as
   the target of ndisedge; and the binding of ndisprot without `~EarlyUnbind`, for
   which the code gives no guarantee.
3. Open for modelling: the tables of listen entries and connection contexts of
   tdi_fw, the rules of tdi_fw and WfpSample, comcap.
