------------------------------ MODULE SFilter ------------------------------
(***************************************************************************)
(* The file system filter library, sfilter.c, on Windows XP and later: how *)
(* its devices come to sit on file systems and on mounted volumes and      *)
(* leave them, and what happens to the requests that meet them.            *)
(*                                                                         *)
(* A file system announces itself (n: one notification at a time); the     *)
(* filter attaches a device to it and then to each volume it has already   *)
(* mounted.  Later mounts pass through that device (mount[v]), which       *)
(* attaches to the new volume when the mount comes back.  Both ends meet   *)
(* under gSfilterAttachLock.  Volumes are dismounted, file systems leave,  *)
(* a recognizer loads its file system, and the driver is unloaded (u),     *)
(* while requests (req[i]) are inside the devices.                         *)
(*                                                                         *)
(* The I/O manager and the file systems below are external.                *)
(***************************************************************************)
EXTENDS Naturals, Sequences, FiniteSets

CONSTANTS Fs,           \* control devices of the file systems
          Disks,        \* those of type FILE_DEVICE_DISK_FILE_SYSTEM
          Recognizers,  \* those that load another file system, not Fs_Rec
          Volumes, Shadows,
          FsOf,         \* the file system of a volume
          Devices,      \* what IoCreateDevice can return
          Requests,
          None

SFilterAssumption ==
    /\ Recognizers \subseteq Fs /\ FsOf \in [Volumes -> Fs] /\ Fs \cap Volumes = {}
    /\ None \notin Fs \cup Volumes \cup Devices /\ {"free", "n"} \cap Volumes = {}

ASSUME FilterAssumption == SFilterAssumption

VARIABLES fs,       \* fs[f]: registered with the I/O manager
          vol,      \* vol[v]: the file system's device of a volume
          stack,    \* stack[t]: our devices above t, lowest first
          dev,      \* dev[d]: existence and device extension
          lock,     \* owner of gSfilterAttachLock
          todo,     \* file systems still to be notified
          n,        \* the notification being served
          mount,    \* mount[v]: the mount request of a volume
          req,      \* req[i]: a request through SfPassThrough
          load,     \* the load request of a recognizer
          u,        \* DriverUnload
          excused,  \* ghost: volumes left alone for a stated reason
          refused,  \* ghost: devices whose attachment was turned down
          bypassed  \* ghost: fast calls that moved data below us

system == <<fs, vol>>
devices == <<stack, dev>>
ghosts == <<excused, refused, bypassed>>
vars == <<fs, vol, stack, dev, lock, todo, n, mount, req, load, u,
          excused, refused, bypassed>>

Targets == Fs \cup Volumes
DataCalls == {"read", "write", "mdlRead", "mdlWrite", "compressed",
              "compressedDone"}
OtherCalls == {"check", "queryInfo", "lock", "unlock", "control",
               "networkOpen", "queryOpen"}

NoDev == [st |-> "none", to |-> None, flag |-> FALSE, storage |-> FALSE]
NIdle == [pc |-> "idle", fs |-> None, dev |-> None, list |-> {},
          vol |-> None, new |-> None]
MIdle == [pc |-> "idle", via |-> None, dev |-> None, ok |-> FALSE]
UIdle == [pc |-> "idle", list |-> {}, work |-> {}]

Attached(d) == \E t \in Targets : \E k \in 1..Len(stack[t]) : stack[t][k] = d

\* A device that no stack and no thread remembers can be used again.
Remembered(d) ==
    \/ \E i \in Requests : req[i].dev = d
    \/ \E v \in Volumes : mount[v].via = d
    \/ \E f \in Recognizers : \E k \in 1..Len(stack[f]) : stack[f][k] = d
    \/ u.pc # "idle"
Gone(d) == IF Remembered(d) THEN [dev[d] EXCEPT !.st = "dead"] ELSE NoDev
Deletes(d) == dev' = [dev EXCEPT ![d] = Gone(d)]
Creates(d, storage) ==
    /\ dev[d].st = "none"
    /\ dev' = [dev EXCEPT ![d] = [st |-> "live", to |-> None, flag |-> storage,
                                  storage |-> storage]]

\* IoAttachDeviceToDeviceStackSafe goes above whatever is there; it fails on a
\* device that is still being initialised or already being deleted, and may fail
\* on any other.
SfAttachDeviceToDeviceStack(d, t) ==
    /\ t \in Volumes => vol[t] = "mounted"
    /\ stack' = [stack EXCEPT ![t] = Append(@, d)]
    /\ dev' = [dev EXCEPT ![d].to = t]

Top(t) == stack[t][Len(stack[t])]

SfIsShadowCopyVolume(v) == v \in Shadows

\* Some device of ours above t has its TypeFlag.
SfIsAttachedToDevice(t) ==
    \E k \in 1..Len(stack[t]) : dev[stack[t][k]].flag

Init ==
    /\ fs \in [Fs -> BOOLEAN]
    /\ \E m \in SUBSET Volumes :
          /\ \A v \in m : fs[FsOf[v]]
          /\ vol = [v \in Volumes |-> IF v \in m THEN "mounted" ELSE "none"]
    /\ stack = [t \in Targets |-> << >>]
    /\ dev = [d \in Devices |-> NoDev]
    /\ lock = "free" /\ n = NIdle /\ u = UIdle
    /\ todo = {f \in Fs : fs[f]}
    /\ mount = [v \in Volumes |-> MIdle]
    /\ req = [i \in Requests |-> [pc |-> "idle", dev |-> None, done |-> 0]]
    /\ load = [pc |-> "idle", dev |-> None]
    /\ excused = {} /\ refused = {} /\ bypassed = {}

-----------------------------------------------------------------------------
(* SfFsNotification, activation: SfAttachToFileSystemDevice.               *)

\* A recognizer does not register again once a file system was to be loaded.
FsRegisters(f) ==
    /\ ~fs[f] /\ u.pc = "idle"
    /\ f \in Recognizers => load.pc = "idle"
    /\ fs' = [fs EXCEPT ![f] = TRUE] /\ todo' = todo \cup {f}
    /\ UNCHANGED <<vol, devices, lock, n, mount, req, load, u, ghosts>>

Others == <<lock, mount, req, load, u>>

NotifyEnds == n' = NIdle /\ todo' = todo \ {n.fs}

NotifyCreates(f) ==
    /\ n.pc = "idle" /\ f \in todo
    /\ \E d \in Devices :
          /\ Creates(d, FALSE)
          /\ \/ /\ n' = [NIdle EXCEPT !.pc = "attach", !.fs = f, !.dev = d]
                /\ UNCHANGED <<todo, refused>>
             \/ \* OnSfilterAttachPre said no: the device is forgotten.
                /\ refused' = refused \cup {d} /\ todo' = todo \ {f}
                /\ UNCHANGED n
    /\ UNCHANGED <<system, stack, Others, excused, bypassed>>

NotifyCreateFails(f) ==
    /\ n.pc = "idle" /\ f \in todo
    /\ todo' = todo \ {f}
    /\ UNCHANGED <<system, devices, n, Others, ghosts>>

NotifyAttaches ==
    /\ n.pc = "attach"
    /\ SfAttachDeviceToDeviceStack(n.dev, n.fs)
    /\ n' = [n EXCEPT !.pc = "flag"]
    /\ UNCHANGED <<system, todo, Others, ghosts>>

NotifyAttachFails ==
    /\ n.pc = "attach"
    /\ Deletes(n.dev) /\ NotifyEnds
    /\ UNCHANGED <<system, stack, Others, ghosts>>

NotifyFlags ==
    /\ n.pc = "flag"
    /\ dev' = [dev EXCEPT ![n.dev].flag = TRUE]
    /\ n' = [n EXCEPT !.pc = "list"]
    /\ UNCHANGED <<system, stack, todo, Others, ghosts>>

\* SfEnumerateFileSystemVolumes takes the list of the devices there are now; when
\* it cannot, the new device is detached and deleted.
NotifyLists ==
    /\ n.pc = "list"
    /\ \/ /\ n' = [n EXCEPT !.pc = "each",
                     !.list = {v \in Volumes : FsOf[v] = n.fs /\ vol[v] # "none"}]
          /\ UNCHANGED <<devices, todo>>
       \/ /\ stack' = [stack EXCEPT ![n.fs] = << >>]
          /\ Deletes(n.dev) /\ NotifyEnds
    /\ UNCHANGED <<system, Others, ghosts>>

\* One volume of the list: skipped when attached already, a shadow copy or not yet
\* joined to its disk; otherwise a device is made for it.
EnumChecks(v) ==
    /\ n.pc = "each" /\ v \in n.list
    /\ \/ /\ \/ SfIsAttachedToDevice(v) \/ SfIsShadowCopyVolume(v)
             \/ vol[v] \in {"none", "made"}
          /\ n' = [n EXCEPT !.list = @ \ {v}]
          /\ UNCHANGED <<dev, excused>>
       \/ /\ ~SfIsAttachedToDevice(v) /\ ~SfIsShadowCopyVolume(v) /\ vol[v] # "none"
          /\ \/ \E d \in Devices :
                   /\ Creates(d, TRUE)
                   /\ n' = [n EXCEPT !.pc = "lock", !.list = @ \ {v},
                              !.vol = v, !.new = d]
                   /\ UNCHANGED excused
             \/ /\ excused' = excused \cup {v}
                /\ n' = [n EXCEPT !.list = @ \ {v}]
                /\ UNCHANGED dev
    /\ UNCHANGED <<system, stack, todo, Others, refused, bypassed>>

\* Mutant: the test is not made again under the lock.
EnumLocks_NoRecheck ==
    /\ n.pc = "lock" /\ lock = "free"
    /\ lock' = "n" /\ n' = [n EXCEPT !.pc = "attachVolume"]
    /\ UNCHANGED <<system, devices, todo, mount, req, load, u, ghosts>>

EnumLocks ==
    /\ n.pc = "lock" /\ lock = "free"
    /\ lock' = "n"
    /\ n' = [n EXCEPT !.pc = IF SfIsAttachedToDevice(n.vol) THEN "drop"
                             ELSE "attachVolume"]
    /\ UNCHANGED <<system, devices, todo, mount, req, load, u, ghosts>>

EnumNext == [n EXCEPT !.pc = "each", !.vol = None, !.new = None]

\* SfAttachToMountedDevice retries for four seconds, with the lock held.
EnumAttaches ==
    /\ n.pc = "attachVolume"
    /\ SfAttachDeviceToDeviceStack(n.new, n.vol)
    /\ lock' = "free" /\ n' = EnumNext
    /\ UNCHANGED <<system, todo, mount, req, load, u, ghosts>>

\* Mutant: the device that lost the race is not deleted.
EnumDrops_Leaks ==
    /\ n.pc \in {"attachVolume", "drop"}
    /\ IF n.pc = "drop" THEN UNCHANGED dev ELSE Deletes(n.new)
    /\ excused' = IF n.pc = "drop" \/ vol[n.vol] # "mounted" THEN excused
                  ELSE excused \cup {n.vol}
    /\ lock' = "free" /\ n' = EnumNext
    /\ UNCHANGED <<system, stack, todo, mount, req, load, u, refused, bypassed>>

\* Already attached, turned down by OnSfilterAttachPre, or not to be attached to.
EnumDrops ==
    /\ n.pc \in {"attachVolume", "drop"}
    /\ Deletes(n.new)
    /\ excused' = IF n.pc = "drop" \/ vol[n.vol] # "mounted" THEN excused
                  ELSE excused \cup {n.vol}
    /\ lock' = "free" /\ n' = EnumNext
    /\ UNCHANGED <<system, stack, todo, mount, req, load, u, refused, bypassed>>

EnumEnds ==
    /\ n.pc = "each" /\ n.list = {}
    /\ NotifyEnds
    /\ UNCHANGED <<system, devices, Others, ghosts>>

\* Deactivation: SfDetachFromFileSystemDevice, whoever is inside the device, also
\* that of a recognizer which loads its file system.  IoDetachDevice takes off what
\* is above it too.
Deactivates(f) ==
    /\ fs[f] /\ n.pc = "idle" /\ f \notin todo /\ u.pc = "idle"
    /\ \A v \in Volumes : FsOf[v] = f => vol[v] = "none"
    /\ fs' = [fs EXCEPT ![f] = FALSE]
    /\ \/ stack[f] = << >> /\ UNCHANGED devices
       \/ /\ stack[f] # << >>
          /\ Deletes(Head(stack[f]))
          /\ stack' = [stack EXCEPT ![f] = << >>]
    /\ UNCHANGED <<vol, lock, todo, n, mount, req, load, u, ghosts>>

-----------------------------------------------------------------------------
(* Mounting: SfFsControl, SfFsControlMountVolume, ...MountVolumeComplete.   *)

OthersOfMount == <<n, todo, req, load, u>>

CanMount(v) == /\ mount[v].pc = "idle" /\ fs[FsOf[v]]
               /\ vol[v] \in {"none", "mounted"}

\* The I/O manager sends a mount to the top of the file system's stack, for a new
\* volume or for one that the file system will find it has already.
MountStarts(v) ==
    LET f == FsOf[v] IN
    /\ CanMount(v)
    /\ \/ /\ stack[f] # << >> => dev[Top(f)].flag /\ SfIsShadowCopyVolume(v)
          /\ mount' = [mount EXCEPT ![v].pc = "below"]
          /\ UNCHANGED dev
       \/ /\ stack[f] # << >> /\ dev[Top(f)].flag /\ ~SfIsShadowCopyVolume(v)
          /\ \E d \in Devices :
                /\ Creates(d, TRUE)
                /\ mount' = [mount EXCEPT ![v] = [pc |-> "entered", via |-> Top(f),
                                                 dev |-> d, ok |-> FALSE]]
    /\ UNCHANGED <<system, stack, lock, OthersOfMount, ghosts>>

\* SfFsControl does not recognise its device: nobody passes the request on.
MountLost(v) ==
    /\ CanMount(v) /\ stack[FsOf[v]] # << >> /\ ~dev[Top(FsOf[v])].flag
    /\ mount' = [mount EXCEPT ![v].pc = "lost"]
    /\ UNCHANGED <<system, devices, lock, OthersOfMount, ghosts>>

MountPasses(v) ==
    /\ mount[v].pc = "entered"
    /\ mount' = [mount EXCEPT ![v].pc = "below", ![v].via = None]
    /\ UNCHANGED <<system, devices, lock, OthersOfMount, ghosts>>

FsMakes(v) ==
    /\ mount[v].pc = "below" /\ vol[v] = "none"
    /\ vol' = [vol EXCEPT ![v] = "made"]
    /\ UNCHANGED <<fs, devices, lock, mount, OthersOfMount, ghosts>>

\* The completion wakes SfFsControlMountVolume.  A volume whose mount never met us
\* although we sit on its file system now was on its way before we came.
FsReturns(v, ok) ==
    /\ mount[v].pc = "below"
    /\ ok => vol[v] \in {"made", "mounted"}
    /\ vol' = [vol EXCEPT ![v] = IF @ = "mounted" \/ ok THEN "mounted" ELSE "none"]
    /\ \/ /\ mount[v].dev = None
          /\ mount' = [mount EXCEPT ![v] = MIdle]
          /\ excused' = IF ok /\ stack[FsOf[v]] # << >> THEN excused \cup {v}
                        ELSE excused
       \/ /\ mount[v].dev # None
          /\ mount' = [mount EXCEPT ![v].pc = "returned", ![v].ok = ok]
          /\ UNCHANGED excused
    /\ UNCHANGED <<fs, devices, lock, OthersOfMount, refused, bypassed>>

MountLocks(v) ==
    /\ mount[v].pc = "returned" /\ mount[v].ok /\ lock = "free"
    /\ lock' = v
    /\ mount' = [mount EXCEPT ![v].pc = IF SfIsAttachedToDevice(v) THEN "drop"
                                       ELSE "attach"]
    /\ UNCHANGED <<system, devices, OthersOfMount, ghosts>>

MountAttaches(v) ==
    /\ mount[v].pc = "attach"
    /\ SfAttachDeviceToDeviceStack(mount[v].dev, v)
    /\ lock' = "free" /\ mount' = [mount EXCEPT ![v] = MIdle]
    /\ UNCHANGED <<system, OthersOfMount, ghosts>>

DropsDevice(v) == \/ mount[v].pc \in {"attach", "drop"}
                  \/ mount[v].pc = "returned" /\ ~mount[v].ok

\* Mutant: the device found attached is deleted, not the new one.
MountDrops_Found(v) ==
    /\ DropsDevice(v)
    /\ Deletes(IF mount[v].pc = "drop" THEN Head(stack[v]) ELSE mount[v].dev)
    /\ excused' = IF mount[v].pc = "attach" THEN excused \cup {v} ELSE excused
    /\ lock' = IF mount[v].ok THEN "free" ELSE lock
    /\ mount' = [mount EXCEPT ![v] = MIdle]
    /\ UNCHANGED <<system, stack, OthersOfMount, refused, bypassed>>

\* The mount failed, the volume is attached already or cannot be attached to.
MountDrops(v) ==
    /\ DropsDevice(v)
    /\ Deletes(mount[v].dev)
    /\ excused' = IF mount[v].pc = "attach" THEN excused \cup {v} ELSE excused
    /\ lock' = IF mount[v].ok THEN "free" ELSE lock
    /\ mount' = [mount EXCEPT ![v] = MIdle]
    /\ UNCHANGED <<system, stack, OthersOfMount, refused, bypassed>>

\* The file system lets go of a volume that nobody uses ...
DismountBegins(v) ==
    /\ vol[v] = "mounted" /\ mount[v].pc \in {"idle", "lost"}
    /\ \A i \in Requests : req[i].dev # None => dev[req[i].dev].to # v
    /\ vol' = [vol EXCEPT ![v] = "going"]
    /\ UNCHANGED <<fs, devices, lock, mount, OthersOfMount, ghosts>>

\* ... and the I/O manager calls SfFastIoDetachDevice for the device above it.
SfFastIoDetachDevice(v) ==
    /\ vol[v] = "going"
    /\ vol' = [vol EXCEPT ![v] = "none"] /\ excused' = excused \ {v}
    /\ \/ stack[v] = << >> /\ UNCHANGED devices
       \/ /\ stack[v] # << >>
          /\ Deletes(Head(stack[v]))
          /\ stack' = [stack EXCEPT ![v] = Tail(@)]
    /\ UNCHANGED <<fs, lock, mount, OthersOfMount, refused, bypassed>>

-----------------------------------------------------------------------------
(* SfFsControlLoadFileSystem: the request goes down, and our device goes   *)
(* away when the file system could be loaded.                              *)

LoadStarts(f) ==
    /\ load.pc = "idle" /\ fs[f] /\ stack[f] # << >> /\ dev[Head(stack[f])].flag
    /\ load' = [pc |-> "below", dev |-> Head(stack[f])]
    /\ UNCHANGED <<system, devices, lock, n, todo, mount, req, u, ghosts>>

\* Nothing has detached the device: a failed load attaches it once more.
LoadReturns(ok) ==
    /\ load.pc = "below"
    /\ load' = [pc |-> "done", dev |-> None]
    /\ \/ ok /\ Deletes(load.dev) /\ UNCHANGED stack
       \/ ~ok /\ SfAttachDeviceToDeviceStack(load.dev, dev[load.dev].to)
    /\ UNCHANGED <<system, lock, n, todo, mount, req, u, ghosts>>

-----------------------------------------------------------------------------
(* Requests: SfCreate, SfCleanupClose and SfPassThrough, which differ only *)
(* on the control device.                                                  *)

Idle(i) == req[i].pc \in {"idle", "done"}
Usable(t) == IF t \in Fs THEN fs[t] ELSE vol[t] = "mounted"
OthersOfRequest == <<system, devices, lock, n, todo, mount, load, u>>

\* A device without its flag is not ours: OnSfilterIrpPre is expected to complete the
\* request.  The callbacks of the two users of the library say SF_IRP_PASS, and then
\* nobody completes it or passes it on.
RequestLost(i, t) ==
    /\ Idle(i) /\ Usable(t) /\ stack[t] # << >> /\ ~dev[Top(t)].flag
    /\ req' = [req EXCEPT ![i] = [pc |-> "lost", dev |-> None, done |-> 0]]
    /\ UNCHANGED <<OthersOfRequest, ghosts>>

\* Passed on for good: what a control device of a disk file system gets, and what
\* OnSfilterIrpPre passes or completes.
RequestPassed(i, t) ==
    /\ Idle(i) /\ Usable(t) /\ stack[t] # << >> /\ dev[Top(t)].flag
    /\ req' = [req EXCEPT ![i] = [pc |-> "done", dev |-> None, done |-> 1]]
    /\ UNCHANGED <<OthersOfRequest, ghosts>>

\* SF_IRP_GO_ON: sent below, to come back.
RequestGoesOn(i, t) ==
    /\ Idle(i) /\ Usable(t) /\ stack[t] # << >> /\ dev[Top(t)].flag
    /\ t \in Disks => dev[Top(t)].storage
    /\ req' = [req EXCEPT ![i] = [pc |-> "below", dev |-> Top(t), done |-> 0]]
    /\ UNCHANGED <<OthersOfRequest, ghosts>>

SfCreateCompletion(i) ==
    /\ req[i].pc = "below"
    /\ req' = [req EXCEPT ![i].pc = "woken"]
    /\ UNCHANGED <<OthersOfRequest, ghosts>>

\* OnSfilterIrpPost, then IoCompleteRequest.
RequestPosts(i) ==
    /\ req[i].pc = "woken"
    /\ req' = [req EXCEPT ![i] = [pc |-> "done", dev |-> None, done |-> @.done + 1]]
    /\ UNCHANGED <<OthersOfRequest, ghosts>>

-----------------------------------------------------------------------------
(* Fast I/O.  All but two of the entries refuse before they look at the    *)
(* device, so that the caller falls back on a request; those two pass the  *)
(* call on from a device of ours.                                          *)

Refused == FALSE
SfFastIoCheckIfPossible(d) == dev[d].flag
SfFastIoRead == Refused
SfFastIoQueryInfo == Refused
SfFastIoLock == Refused
SfFastIoUnlock == Refused
SfFastIoDeviceControl(d) == dev[d].flag
SfFastIoQueryNetworkOpenInfo == Refused
SfFastIoMdlRead == Refused
SfFastIoMdlWrite == Refused
SfFastIoCompressed == Refused
SfFastIoCompressedComplete == Refused
SfFastIoQueryOpen == Refused

FastPasses(d, k) ==
    CASE k = "check" -> SfFastIoCheckIfPossible(d)
      [] k = "control" -> SfFastIoDeviceControl(d)
      [] k \in {"read", "write"} -> SfFastIoRead
      [] k = "queryInfo" -> SfFastIoQueryInfo
      [] k = "lock" -> SfFastIoLock
      [] k = "unlock" -> SfFastIoUnlock
      [] k = "networkOpen" -> SfFastIoQueryNetworkOpenInfo
      [] k = "queryOpen" -> SfFastIoQueryOpen
      [] k = "mdlRead" -> SfFastIoMdlRead
      [] k = "mdlWrite" -> SfFastIoMdlWrite
      [] k = "compressed" -> SfFastIoCompressed
      [] k = "compressedDone" -> SfFastIoCompressedComplete

FastIo(t, k) ==
    /\ Usable(t) /\ stack[t] # << >>
    /\ FastPasses(Top(t), k)
    /\ bypassed' = bypassed \cup ({k} \cap DataCalls)
    /\ UNCHANGED <<system, devices, lock, n, todo, mount, req, load, u,
                   excused, refused>>

-----------------------------------------------------------------------------
(* DriverUnload.                                                           *)

OthersOfUnload == <<system, lock, n, todo, mount, req, load, ghosts>>

\* IoUnregisterFsRegistrationChange: no notification is being served.
UnloadBegins ==
    /\ u.pc = "idle" /\ n.pc = "idle" /\ todo = {}
    /\ u' = [u EXCEPT !.pc = "list"]
    /\ UNCHANGED <<devices, OthersOfUnload>>

UnloadLists ==
    LET live == {d \in Devices : dev[d].st = "live"} IN
    /\ u.pc = "list"
    /\ u' = IF live = {} THEN [UIdle EXCEPT !.pc = "done"]
            ELSE [pc |-> "detach", list |-> live, work |-> live]
    /\ UNCHANGED <<devices, OthersOfUnload>>

\* What is left of a stack without d, in its order.
StackWithout(t, d) ==
    LET left   == {k \in DOMAIN stack[t] : stack[t][k] # d}
        nth(k) == CHOOSE i \in left : Cardinality({j \in left : j <= i}) = k
    IN  [k \in 1 .. Cardinality(left) |-> stack[t][nth(k)]]

UnloadDetaches(d) ==
    /\ u.pc = "detach" /\ d \in u.work
    /\ stack' = [t \in Targets |-> StackWithout(t, d)]
    /\ u' = [u EXCEPT !.work = @ \ {d}]
    /\ UNCHANGED <<dev, OthersOfUnload>>

\* Five seconds for the requests inside the devices.
UnloadWaits ==
    /\ u.pc = "detach" /\ u.work = {}
    /\ u' = [u EXCEPT !.pc = "delete", !.work = u.list]
    /\ UNCHANGED <<devices, OthersOfUnload>>

UnloadDeletes(d) ==
    /\ u.pc = "delete" /\ d \in u.work
    /\ dev' = [dev EXCEPT ![d].st = "dead"]
    /\ u' = IF u.work = {d} THEN [UIdle EXCEPT !.pc = "list"]
            ELSE [u EXCEPT !.work = @ \ {d}]
    /\ UNCHANGED <<stack, OthersOfUnload>>

-----------------------------------------------------------------------------
NotifyNext ==
    \/ \E f \in Fs : \/ FsRegisters(f) \/ NotifyCreates(f)
                     \/ NotifyCreateFails(f) \/ Deactivates(f)
    \/ NotifyAttaches \/ NotifyAttachFails \/ NotifyFlags \/ NotifyLists
    \/ \E v \in Volumes : EnumChecks(v)
    \/ EnumLocks \/ EnumAttaches \/ EnumDrops \/ EnumEnds

MountNext(v) ==
    \/ MountStarts(v) \/ MountLost(v) \/ MountPasses(v) \/ FsMakes(v)
    \/ \E ok \in BOOLEAN : FsReturns(v, ok)
    \/ MountLocks(v) \/ MountAttaches(v) \/ MountDrops(v)
    \/ DismountBegins(v) \/ SfFastIoDetachDevice(v)

RequestNext(i) ==
    \/ \E t \in Targets : RequestLost(i, t) \/ RequestPassed(i, t)
                         \/ RequestGoesOn(i, t)
    \/ SfCreateCompletion(i) \/ RequestPosts(i)

UnloadNext ==
    \/ UnloadBegins \/ UnloadLists \/ UnloadWaits
    \/ \E d \in Devices : UnloadDetaches(d) \/ UnloadDeletes(d)

Next ==
    \/ NotifyNext
    \/ \E v \in Volumes : MountNext(v)
    \/ \E f \in Recognizers : LoadStarts(f)
    \/ \E ok \in BOOLEAN : LoadReturns(ok)
    \/ \E i \in Requests : RequestNext(i)
    \/ \E t \in Targets, k \in DataCalls \cup OtherCalls : FastIo(t, k)
    \/ UnloadNext

Spec == Init /\ [][Next]_vars

-----------------------------------------------------------------------------
\* The types of the variables, and who owns gSfilterAttachLock.
TypeOK ==
    /\ fs \in [Fs -> BOOLEAN]
    /\ vol \in [Volumes -> {"none", "made", "mounted", "going"}]
    /\ stack \in [Targets -> Seq(Devices)]
    /\ dev \in [Devices -> [st : {"none", "live", "dead"}, to : Targets \cup {None},
                            flag : BOOLEAN, storage : BOOLEAN]]
    /\ lock \in {"free", "n"} \cup Volumes /\ todo \subseteq Fs
    /\ lock = "n" <=> n.pc \in {"attachVolume", "drop"}
    /\ \A v \in Volumes : lock = v <=> mount[v].pc \in {"attach", "drop"}
    /\ n \in [pc : {"idle", "attach", "flag", "list", "each", "lock", "attachVolume",
                    "drop"}, fs : Fs \cup {None}, dev : Devices \cup {None},
              list : SUBSET Volumes, vol : Volumes \cup {None},
              new : Devices \cup {None}]
    /\ mount \in [Volumes -> [pc : {"idle", "entered", "below", "returned", "attach",
                                   "drop", "lost"}, via : Devices \cup {None},
                              dev : Devices \cup {None}, ok : BOOLEAN]]
    /\ req \in [Requests -> [pc : {"idle", "below", "woken", "done", "lost"},
                             dev : Devices \cup {None}, done : Nat]]
    /\ load \in [pc : {"idle", "below", "done"}, dev : Devices \cup {None}]
    /\ u \in [pc : {"idle", "list", "detach", "delete", "done"},
              list : SUBSET Devices, work : SUBSET Devices]
    /\ excused \subseteq Volumes /\ refused \subseteq Devices
    /\ bypassed \subseteq DataCalls

\* Whether a mount finds the volume or the enumeration does, and whatever they find
\* under way, one device of ours ends up above it: gSfilterAttachLock is held from the
\* test to the attachment.
AttachedOnce == \A t \in Targets \ Recognizers : Len(stack[t]) <= 1

\* Once nothing is under way, a mounted volume of a file system we sit on has our
\* device, but for shadow copies, a volume turned down or left for want of memory, and
\* one whose mount was on its way before we came.
NothingMissed ==
    \A v \in Volumes :
      /\ vol[v] = "mounted" /\ SfIsAttachedToDevice(FsOf[v])
      /\ n.pc = "idle" /\ u.pc = "idle" /\ mount[v].pc = "idle"
      /\ FsOf[v] \notin Recognizers /\ v \notin Shadows \cup excused
      => SfIsAttachedToDevice(v)

\* Until DriverUnload, every device in a stack is a live one that knows where it is,
\* except above a recognizer, whose successful load deletes it where it stands.
StacksSound ==
    u.pc = "idle" =>
      \A t \in Targets \ Recognizers : \A k \in 1..Len(stack[t]) :
         dev[stack[t][k]].st = "live" /\ dev[stack[t][k]].to = t

\* Every device is in a stack or in the hands of the thread that made it, or
\* OnSfilterAttachPre turned it down for a file system: nothing else is forgotten.
NoneForgotten ==
    \A d \in Devices :
      dev[d].st = "live" =>
        \/ Attached(d) \/ d \in refused \/ d \in {n.dev, n.new} \/ d \in u.list
        \/ \E v \in Volumes : mount[v].dev = d

\* What DriverUnload is about to detach is attached, unless it was turned down, waits
\* for a mount to return, or has left with its volume since the list was taken: those
\* hand IoDetachDevice a pointer it cannot follow.
UnloadDetachable ==
    \A d \in u.work :
      u.pc = "detach" => \/ Attached(d) \/ d \in refused \/ dev[d].st = "dead"
                         \/ \E v \in Volumes : mount[v].dev = d

\* A request is completed once, by whoever has it last, and never while it is below.
CompletedOnce ==
    \A i \in Requests : req[i].done = IF req[i].pc = "done" THEN 1 ELSE 0

\* A request waits inside a device that was deleted under it only when DriverUnload
\* gave up waiting or the device sat on a file system that left.
FreedUnused ==
    u.pc = "idle" =>
      \A i \in Requests :
         req[i].dev # None /\ dev[req[i].dev].st # "live" =>
           dev[req[i].dev].to \in Fs

\* No data reaches a volume by a fast call: what OnSfilterIrpPre must see comes as a
\* request.
NoBypass == bypassed = {}

\* A request that meets a device of the filter is taken further by someone (the
\* assertions at sfilter.c:1969 and 2495 rely on it).
NoneLost ==
    /\ \A i \in Requests : req[i].pc # "lost"
    /\ \A v \in Volumes : mount[v].pc # "lost"

\* Every volume is covered by one device, however enumerations, mounts and
\* dismounts overlap, and no data passes beside it.
VolumesCovered == AttachedOnce /\ NothingMissed /\ StacksSound /\ NoBypass

\* No device is forgotten, and DriverUnload can detach what it finds.
DevicesAccounted == TypeOK /\ NoneForgotten /\ UnloadDetachable

\* A request is completed once and not left inside a device that is gone.
RequestsOutlived == CompletedOnce /\ FreedUnused

===============================================================================
