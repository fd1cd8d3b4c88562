--------------------------- MODULE SFilter_proof ---------------------------
(***************************************************************************)
(* Proofs about SFilter, for any number of file systems, volumes, devices  *)
(* and requests.                                                           *)
(***************************************************************************)
EXTENDS SFilter, CountingTheorems, FiniteSetTheorems, SequenceTheorems, TLAPS

-----------------------------------------------------------------------------
(* sfilter's devices and requests.                                         *)

Above(t) == Of(stack[t])
Serving  == n.pc \in {"lock", "attachVolume", "drop"}
Placed   == n.pc \notin {"idle", "attach"}

\* What the threads' places say of what they hold.
NotifyPlaces ==
    /\ n.pc = "idle" <=> n.fs = None
    /\ n.pc = "idle" => n.dev = None
    /\ n.pc # "idle" => u.pc = "idle" /\ n.fs \in todo /\ n.dev \in Devices
    /\ Serving <=> n.new # None
    /\ Serving <=> n.vol # None
    /\ \A f \in todo : fs[f]
    /\ u.pc # "idle" => todo = {}

MountPlaces ==
    \A v \in Volumes :
        /\ mount[v].pc \in {"idle", "lost"} => mount[v].dev = None
        /\ mount[v].pc \in {"entered", "returned", "attach", "drop"} => mount[v].dev # None
        /\ mount[v].pc \in {"attach", "drop"} => mount[v].ok
        /\ vol[v] = "going" => mount[v].pc \in {"idle", "lost"}
        /\ vol[v] \in {"none", "made"} => stack[v] = <<>>

UnloadPlaces ==
    /\ u.pc \in {"idle", "list", "done"} => u.list = {} /\ u.work = {}
    /\ u.work \subseteq u.list
    /\ \A d \in u.list : dev[d].st # "none"
    /\ u.pc = "delete" => \A d \in u.list \ u.work : dev[d].st = "dead"
    /\ load.pc = "below" => load.dev # None

FilterPlaces == NotifyPlaces /\ MountPlaces /\ UnloadPlaces

\* A device is above one target, which it knows, or not attached yet and in the hands
\* of one thread.
Sited ==
    /\ \A t \in Targets : \A d \in Above(t) : dev[d].to = t /\ dev[d].st # "none"
    /\ \A t \in Targets : \A d, e \in Above(t) : d = e

InHand(d) == dev[d].to = None /\ dev[d].st # "none" /\ (u.pc = "idle" => dev[d].st = "live")

Held ==
    /\ n.pc = "attach" => InHand(n.dev)
    /\ n.pc \in {"attach", "flag"} => ~dev[n.dev].flag
    /\ Placed => n.dev \in Above(n.fs)
    /\ Serving => InHand(n.new) /\ dev[n.new].flag
    /\ \A v \in Volumes : mount[v].dev # None =>
          /\ InHand(mount[v].dev) /\ dev[mount[v].dev].flag
          /\ mount[v].dev # n.new /\ mount[v].dev # n.dev
          /\ \A w \in Volumes \ {v} : mount[w].dev # mount[v].dev

\* Where a device is to be attached there is none.
StacksShort == \A t \in Targets \ Recognizers : Len(stack[t]) <= 1
VacantFs ==
    \A f \in Fs :
        \/ ~fs[f] /\ (f \in Recognizers => load.pc = "idle")
        \/ f \in todo /\ ~(n.fs = f /\ Placed)
        => stack[f] = <<>>
VacantVolumes ==
    /\ n.pc = "attachVolume" => stack[n.vol] = <<>>
    /\ \A v \in Volumes : mount[v].pc = "attach" => stack[v] = <<>>
VolumesFlagged == \A v \in Volumes : \A d \in Above(v) : dev[d].flag
Vacant == StacksShort /\ VacantFs /\ VacantVolumes /\ VolumesFlagged

\* The device of a recognizer that loads its file system.
Loading ==
    load.pc = "below" =>
        /\ dev[load.dev].st # "none" /\ dev[load.dev].to \in Recognizers
        /\ \A f \in Recognizers :
              dev[load.dev].to = f =>
                  /\ \A d \in Above(f) : d = load.dev
                  /\ f \in todo => n.fs = f /\ Placed

Alive ==
    u.pc = "idle" => \A t \in Targets \ Recognizers : \A d \in Above(t) : dev[d].st = "live"

\* A volume that ought to have our device has it, or the enumeration or its mount is
\* about to see to it.
Covered ==
    u.pc = "idle" =>
      \A v \in Volumes :
        /\ vol[v] = "mounted" /\ FsOf[v] \notin Recognizers
        /\ \E d \in Above(FsOf[v]) : dev[d].flag
        /\ v \notin Shadows \cup excused
        => \/ stack[v] # <<>>
           \/ n.fs = FsOf[v] /\ n.pc = "list"
           \/ n.fs = FsOf[v] /\ n.pc \in {"each", "lock", "attachVolume", "drop"} /\ v \in n.list
           \/ n.pc \in {"lock", "attachVolume"} /\ n.vol = v
           \/ mount[v].pc = "returned" /\ mount[v].ok
           \/ mount[v].pc = "attach"

\* The requests inside a device.
Waiting ==
    \A i \in Requests :
        /\ req[i].done = IF req[i].pc = "done" THEN 1 ELSE 0
        /\ req[i].dev # None =>
             LET to == dev[req[i].dev].to IN
              /\ to \in Targets /\ dev[req[i].dev].st # "none"
              /\ to \in Volumes =>
                  /\ vol[to] = "mounted"
                  /\ u.pc = "idle" => dev[req[i].dev].st = "live"

FilterInv ==
    /\ TypeOK /\ FilterPlaces /\ Sited /\ Held /\ Vacant /\ Loading /\ Alive
    /\ Covered /\ Waiting /\ NoneForgotten /\ UnloadDetachable /\ NoBypass

LEMMA FilterApart ==
  /\ Recognizers \subseteq Fs /\ FsOf \in [Volumes -> Fs]
  /\ \A v \in Volumes : v \notin Fs /\ v \notin Recognizers /\ FsOf[v] \in Fs
  /\ None \notin Fs /\ None \notin Volumes /\ None \notin Devices /\ None \notin Targets
  /\ "free" \notin Volumes /\ "n" \notin Volumes /\ Fs \subseteq Targets /\ Volumes \subseteq Targets
  /\ None \notin Recognizers
  BY FilterAssumption DEF SFilterAssumption, Targets

DevTypes == [Devices -> [st : {"none", "live", "dead"}, to : Targets \cup {None},
                         flag : BOOLEAN, storage : BOOLEAN]]

LEMMA DevicesTyped == TypeOK => dev \in DevTypes
  BY DEF TypeOK, DevTypes

LEMMA AttachedTo == \A d : Attached(d) <=> \E t \in Targets : d \in Above(t)
  BY DEF Attached, Above, Of

LEMMA FlaggedAt == \A t : SfIsAttachedToDevice(t) <=> \E d \in Above(t) : dev[d].flag
  BY DEF SfIsAttachedToDevice, Above, Of

\* The stacks, after an attachment, a detachment from one target and none.
LEMMA StacksSame ==
  ASSUME UNCHANGED stack
  PROVE  (\A t : Above(t)' = Above(t)) /\ (\A d : Attached(d)' <=> Attached(d))
  BY DEF Above, Attached

LEMMA OneLess == \A k \in Nat, l \in Nat : k > 0 /\ k <= 1 /\ l = k - 1 => l = 0
  OBVIOUS

LEMMA StackTop ==
  ASSUME TypeOK, NEW t \in Targets, stack[t] # <<>>
  PROVE  /\ Top(t) \in Above(t) /\ Head(stack[t]) \in Above(t) /\ Above(t) \subseteq Devices
         /\ Len(stack[t]) <= 1 => Tail(stack[t]) = <<>> /\ Above(t) = {Head(stack[t])}
  <1>1. /\ stack[t] \in Seq(Devices) /\ Len(stack[t]) \in Nat /\ Len(stack[t]) > 0
        /\ Head(stack[t]) = stack[t][1] /\ \A i \in 1 .. Len(stack[t]) : stack[t][i] \in Devices
    BY EmptySeq, HeadTailProperties, LenProperties, ElementOfSeq DEF TypeOK
  <1>2. Top(t) \in Above(t) /\ Head(stack[t]) \in Above(t) /\ Above(t) \subseteq Devices
    BY <1>1 DEF Top, Above, Of
  <1>3. Len(stack[t]) <= 1 => Behind(stack[t]) = {} /\ Above(t) = {Head(stack[t])}
    BY <1>1, TailOf DEF Above
  <1>4. Len(stack[t]) <= 1 => Tail(stack[t]) = <<>>
    <2>1. /\ Tail(stack[t]) \in Seq(Devices) /\ Len(Tail(stack[t])) = Len(stack[t]) - 1
          /\ Len(Tail(stack[t])) \in Nat
      BY <1>1, HeadTailProperties, LenProperties
    <2>2. Len(stack[t]) <= 1 => Len(Tail(stack[t])) = 0
      BY <1>1, <2>1, OneLess, Zenon
    <2> QED
      BY <2>1, <2>2, EmptySeq
  <1> QED
    BY <1>2, <1>3, <1>4

LEMMA StackNone ==
  ASSUME TypeOK, NEW t \in Targets
  PROVE  stack[t] = <<>> <=> Above(t) = {}
  <1>1. stack[t] \in Seq(Devices)
    BY DEF TypeOK
  <1>2. stack[t] # <<>> => Head(stack[t]) \in Above(t)
    BY StackTop
  <1> QED
    BY <1>2, NoneOf DEF Above

LEMMA AttachOf ==
  ASSUME TypeOK, NEW t \in Targets, NEW d \in Devices, SfAttachDeviceToDeviceStack(d, t)
  PROVE  /\ t \in Volumes => vol[t] = "mounted"
         /\ stack' \in [Targets -> Seq(Devices)]
         /\ dev' \in DevTypes
         /\ Above(t)' = Above(t) \cup {d} /\ stack'[t] # <<>>
         /\ stack[t] = <<>> => Len(stack'[t]) <= 1
         /\ \A s \in Targets \ {t} : stack'[s] = stack[s] /\ Above(s)' = Above(s)
         /\ \A e \in Devices : Attached(e)' <=> Attached(e) \/ e = d
         /\ dev'[d].to = t /\ dev'[d].st = dev[d].st /\ dev'[d].flag = dev[d].flag
         /\ \A e \in Devices \ {d} : dev'[e] = dev[e]
  <1> USE DEF SfAttachDeviceToDeviceStack
  <1>1. stack[t] \in Seq(Devices) /\ stack'[t] = Append(stack[t], d) /\ \A s \in Targets \ {t} : stack'[s] = stack[s]
    BY DEF TypeOK
  <1>2. stack'[t] \in Seq(Devices) /\ stack'[t] # <<>> /\ Of(stack'[t]) = Of(stack[t]) \cup {d}
    BY <1>1, AppendOf
  <1>3. stack[t] = <<>> => Len(stack'[t]) <= 1
    BY <1>1
  <1>4. stack' \in [Targets -> Seq(Devices)]
    BY <1>1, <1>2 DEF TypeOK
  <1>5. dev' \in DevTypes
    BY DevicesTyped DEF DevTypes
  <1>6. Above(t)' = Above(t) \cup {d} /\ \A s \in Targets \ {t} : Above(s)' = Above(s)
    BY <1>1, <1>2 DEF Above
  <1>7. \A e : Attached(e)' <=> \E s \in Targets : e \in Above(s)'
    BY DEF Attached, Above, Of
  <1>8. \A e \in Devices : Attached(e)' <=> Attached(e) \/ e = d
    BY <1>6, <1>7, AttachedTo
  <1>9. /\ dev'[d].to = t /\ dev'[d].st = dev[d].st /\ dev'[d].flag = dev[d].flag
        /\ \A e \in Devices \ {d} : dev'[e] = dev[e]
    BY DevicesTyped DEF DevTypes
  <1> QED
    BY <1>2, <1>3, <1>4, <1>5, <1>6, <1>8, <1>9, <1>1

\* The stack of t is emptied.
LEMMA DetachOf ==
  ASSUME TypeOK, NEW t \in Targets, stack' = [stack EXCEPT ![t] = <<>>]
  PROVE  /\ stack' \in [Targets -> Seq(Devices)] /\ stack'[t] = <<>> /\ Above(t)' = {}
         /\ \A s \in Targets \ {t} : stack'[s] = stack[s] /\ Above(s)' = Above(s)
         /\ \A e : Attached(e)' => Attached(e)
         /\ \A e : Attached(e) /\ e \notin Above(t) => Attached(e)'
  <1>1. stack'[t] = <<>> /\ \A s \in Targets \ {t} : stack'[s] = stack[s]
    BY DEF TypeOK
  <1>2. stack' \in [Targets -> Seq(Devices)]
    BY NoneOf DEF TypeOK
  <1>3. Above(t)' = {} /\ \A s \in Targets \ {t} : Above(s)' = Above(s)
    BY <1>1, NoneOf DEF Above
  <1>4. \A e : Attached(e)' <=> \E s \in Targets : e \in Above(s)'
    BY DEF Attached, Above, Of
  <1> QED
    BY <1>1, <1>2, <1>3, <1>4, AttachedTo

\* A device that is made or deleted.
LEMMA MadeOf ==
  ASSUME TypeOK, NEW d \in Devices, NEW storage \in BOOLEAN, Creates(d, storage)
  PROVE  /\ dev[d].st = "none" /\ dev'[d].st = "live" /\ dev'[d].to = None /\ dev'[d].flag = storage
         /\ dev' \in DevTypes
         /\ \A e \in Devices \ {d} : dev'[e] = dev[e]
  BY DevicesTyped, FilterApart DEF Creates, DevTypes

LEMMA GoneOf ==
  ASSUME TypeOK, NEW d \in Devices, Deletes(d)
  PROVE  /\ dev'[d].st # "live"
         /\ dev' \in DevTypes
         /\ Remembered(d) => dev'[d].st # "none" /\ dev'[d].to = dev[d].to /\ dev'[d].flag = dev[d].flag
         /\ \A e \in Devices \ {d} : dev'[e] = dev[e]
  <1>1. CASE Remembered(d)
    BY <1>1, DevicesTyped DEF Deletes, Gone, DevTypes
  <1>2. CASE ~Remembered(d)
    BY <1>2, DevicesTyped DEF Deletes, Gone, NoDev, DevTypes
  <1> QED
    BY <1>1, <1>2

LEMMA RememberedIn ==
  ASSUME NEW d
  PROVE  /\ \A i \in Requests : req[i].dev = d => Remembered(d)
         /\ \A f \in Recognizers : d \in Above(f) => Remembered(d)
         /\ u.pc # "idle" => Remembered(d)
  BY DEF Remembered, Above, Of

\* Which devices stand above a target and which are in hand, as types.
LEMMA PlacedWhere ==
  ASSUME FilterInv
  PROVE  /\ \A t \in Targets : Above(t) \subseteq Devices
         /\ n.pc # "idle" => n.fs \in Fs /\ n.dev \in Devices
         /\ Serving => n.new \in Devices /\ n.vol \in Volumes
         /\ \A v \in Volumes : mount[v].dev # None => mount[v].dev \in Devices
         /\ load.pc = "below" => load.dev \in Devices
         /\ \A i \in Requests : req[i].dev # None => req[i].dev \in Devices
  <1>1. \A t \in Targets : Above(t) \subseteq Devices
    <2> SUFFICES ASSUME NEW t \in Targets PROVE Above(t) \subseteq Devices
      OBVIOUS
    <2>1. stack[t] \in Seq(Devices)
      BY DEF FilterInv, TypeOK
    <2> QED
      BY <2>1, ElementOfSeq DEF Above, Of
  <1> QED
    BY <1>1 DEF FilterInv, TypeOK, FilterPlaces, NotifyPlaces, MountPlaces, UnloadPlaces-----------------------------------------------------------------------------
(* The types, one variable at a time.                                      *)

NTypes == [pc : {"idle", "attach", "flag", "list", "each", "lock", "attachVolume", "drop"},
           fs : Fs \cup {None}, dev : Devices \cup {None}, list : SUBSET Volumes,
           vol : Volumes \cup {None}, new : Devices \cup {None}]
MountTypes == [Volumes -> [pc : {"idle", "entered", "below", "returned", "attach", "drop", "lost"},
                           via : Devices \cup {None}, dev : Devices \cup {None}, ok : BOOLEAN]]
UTypes == [pc : {"idle", "list", "detach", "delete", "done"},
           list : SUBSET Devices, work : SUBSET Devices]
RestTyped ==
    /\ fs \in [Fs -> BOOLEAN]
    /\ vol \in [Volumes -> {"none", "made", "mounted", "going"}]
    /\ todo \subseteq Fs
    /\ req \in [Requests -> [pc : {"idle", "below", "woken", "done", "lost"},
                             dev : Devices \cup {None}, done : Nat]]
    /\ load \in [pc : {"idle", "below", "done"}, dev : Devices \cup {None}]
    /\ excused \subseteq Volumes /\ refused \subseteq Devices
    /\ bypassed \subseteq DataCalls

FilterTypes ==
    /\ RestTyped /\ stack \in [Targets -> Seq(Devices)] /\ dev \in DevTypes
    /\ n \in NTypes /\ mount \in MountTypes /\ u \in UTypes
    /\ lock \in {"free", "n"} \cup Volumes
    /\ lock = "n" <=> n.pc \in {"attachVolume", "drop"}
    /\ \A v \in Volumes : lock = v <=> mount[v].pc \in {"attach", "drop"}

LEMMA TypesAre == (TypeOK <=> FilterTypes) /\ (TypeOK' <=> FilterTypes')
  <1>1. TypeOK <=> FilterTypes
    BY Zenon DEF TypeOK, FilterTypes, RestTyped, DevTypes, NTypes, MountTypes, UTypes
  <1>2. TypeOK' <=> FilterTypes'
    BY Zenon DEF TypeOK, FilterTypes, RestTyped, DevTypes, NTypes, MountTypes, UTypes
  <1> QED
    BY <1>1, <1>2

LEMMA OneAbove ==
  ASSUME FilterInv
  PROVE  /\ n \in NTypes /\ mount \in MountTypes /\ u \in UTypes /\ RestTyped
         /\ \A t \in Targets : stack[t] = <<>> <=> Above(t) = {}
         /\ \A t : SfIsAttachedToDevice(t) <=> \E d \in Above(t) : dev[d].flag
  BY TypesAre, StackNone, FlaggedAt DEF FilterInv, FilterTypes

\* Two fields of one mount at once.
LEMMA PassedOn ==
  ASSUME mount \in MountTypes, NEW v \in Volumes, MountPasses(v)
  PROVE  /\ mount' \in MountTypes
         /\ mount'[v].pc = "below" /\ mount'[v].via = None /\ mount'[v].dev = mount[v].dev
         /\ mount'[v].ok = mount[v].ok /\ \A w \in Volumes \ {v} : mount'[w] = mount[w]
  <1> DEFINE r == [pc |-> "below", via |-> None, dev |-> mount[v].dev, ok |-> mount[v].ok]
  <1>1. mount'[v] = r
    BY DEF MountPasses, MountTypes
  <1>2. mount' = [w \in Volumes |-> IF w = v THEN r ELSE mount[w]]
    BY <1>1 DEF MountPasses, MountTypes
  <1>3. mount' \in MountTypes
    <2>1. r \in [pc : {"idle", "entered", "below", "returned", "attach", "drop", "lost"},
                 via : Devices \cup {None}, dev : Devices \cup {None}, ok : BOOLEAN]
      BY DEF MountTypes
    <2> HIDE DEF r
    <2> QED
      BY <1>2, <2>1 DEF MountTypes
  <1> QED
    BY <1>1, <1>2, <1>3

\* An attachment, by device and by target.
AboveGains(d, t) == \A s \in Targets : \A e : e \in Above(s)' <=> e \in Above(s) \/ (s = t /\ e = d)
Sits(d, t) ==
    /\ dev' \in DevTypes /\ dev'[d].to = t
    /\ \A e \in Devices : dev'[e].st = dev[e].st /\ dev'[e].flag = dev[e].flag
    /\ \A e \in Devices \ {d} : dev'[e].to = dev[e].to
StackGains(t) ==
    /\ stack' \in [Targets -> Seq(Devices)]
    /\ stack'[t] # <<>> /\ (stack[t] = <<>> => Len(stack'[t]) <= 1)
    /\ \A s \in Targets : s # t => stack'[s] = stack[s]
Attaches(d, t) ==
    /\ AboveGains(d, t) /\ Sits(d, t) /\ StackGains(t)
    /\ \A e \in Devices : Attached(e)' <=> Attached(e) \/ e = d

LEMMA AttachSteps ==
  ASSUME TypeOK, NEW t \in Targets, NEW d \in Devices, SfAttachDeviceToDeviceStack(d, t)
  PROVE  Attaches(d, t) /\ (t \in Volumes => vol[t] = "mounted")
  <1>1. AboveGains(d, t)
    BY AttachOf DEF AboveGains
  <1>2. Sits(d, t)
    BY AttachOf DEF Sits
  <1>3. StackGains(t)
    BY AttachOf DEF StackGains
  <1> QED
    BY <1>1, <1>2, <1>3, AttachOf DEF Attaches

\* The device that was attached is above its target alone, and the others are where
\* they were.
LEMMA AttachSited ==
  ASSUME FilterInv, NEW t \in Targets, NEW d \in Devices, Attaches(d, t), UNCHANGED u,
         Above(t) \subseteq {d}, dev[d].st # "none", dev[d].to \in {None, t}
  PROVE  /\ Sited'
         /\ (u.pc = "idle" /\ t \notin Recognizers => dev[d].st = "live") => Alive'
         /\ \A x \in Devices : x # d => (InHand(x)' <=> InHand(x))
         /\ \A s \in Targets : Above(s) \subseteq Devices /\ Above(s)' \subseteq Devices
  <1>1. \A s \in Targets : Above(s) \subseteq Devices
    BY PlacedWhere
  <1>2. \A s \in Targets : \A e : e \in Above(s)' => e \in Above(s) \/ (s = t /\ e = d)
    BY DEF Attaches, AboveGains
  <1>3. \A s \in Targets : Above(s)' \subseteq Devices
    BY <1>1, <1>2
  <1>4. /\ \A s \in Targets : \A e \in Above(s) : dev[e].to = s /\ dev[e].st # "none"
        /\ \A s \in Targets : \A e, f \in Above(s) : e = f
    BY DEF FilterInv, Sited
  <1>5. /\ dev'[d].to = t /\ \A e \in Devices : dev'[e].st = dev[e].st
        /\ \A e \in Devices \ {d} : dev'[e].to = dev[e].to
    BY DEF Attaches, Sits
  <1>6. \A s \in Targets : d \in Above(s) => s = t
    BY <1>4, FilterApart
  <1>7. \A s \in Targets : \A e \in Above(s)' : dev'[e].to = s /\ dev'[e].st # "none"
    <2> SUFFICES ASSUME NEW s \in Targets, NEW e \in Above(s)' PROVE dev'[e].to = s /\ dev'[e].st # "none"
      OBVIOUS
    <2>1. CASE e = d
      <3>1. s = t
        BY <1>2, <1>6, <2>1
      <3> QED
        BY <1>5, <2>1, <3>1
    <2>2. CASE e # d
      <3>1. e \in Above(s) /\ e \in Devices
        BY <1>1, <1>2, <2>2
      <3> QED
        BY <1>4, <1>5, <2>2, <3>1
    <2> QED
      BY <2>1, <2>2
  <1>8. \A s \in Targets : \A e, f \in Above(s)' : e = f
    <2> SUFFICES ASSUME NEW s \in Targets, NEW e \in Above(s)', NEW f \in Above(s)' PROVE e = f
      OBVIOUS
    <2>1. CASE s = t
      BY <1>2, <2>1
    <2>2. CASE s # t
      BY <1>2, <1>4, <2>2
    <2> QED
      BY <2>1, <2>2
  <1>9. Sited'
    BY <1>7, <1>8 DEF Sited
  <1>10. (u.pc = "idle" /\ t \notin Recognizers => dev[d].st = "live") => Alive'
    <2> SUFFICES ASSUME u.pc = "idle" /\ t \notin Recognizers => dev[d].st = "live", u.pc = "idle",
                        NEW s \in Targets \ Recognizers, NEW e \in Above(s)'
                 PROVE  dev'[e].st = "live"
      BY DEF Alive
    <2>1. e \in Devices /\ dev'[e].st = dev[e].st
      BY <1>3, <1>5
    <2>2. CASE e \in Above(s)
      BY <2>1, <2>2 DEF FilterInv, Alive
    <2>3. CASE s = t /\ e = d
      BY <2>1, <2>3
    <2> QED
      BY <1>2, <2>2, <2>3
  <1>11. \A x \in Devices : x # d => (InHand(x)' <=> InHand(x))
    BY <1>5 DEF InHand
  <1> QED
    BY <1>1, <1>3, <1>9, <1>10, <1>11

LEMMA Returned ==
  ASSUME mount \in MountTypes, NEW v \in Volumes, NEW b \in BOOLEAN,
         mount' = [mount EXCEPT ![v].pc = "returned", ![v].ok = b]
  PROVE  /\ mount' \in MountTypes
         /\ mount'[v].pc = "returned" /\ mount'[v].via = mount[v].via /\ mount'[v].dev = mount[v].dev
         /\ (mount'[v].ok <=> b) /\ \A w \in Volumes \ {v} : mount'[w] = mount[w]
  <1> DEFINE r == [pc |-> "returned", via |-> mount[v].via, dev |-> mount[v].dev, ok |-> b]
  <1>1. mount'[v] = r
    BY DEF MountTypes
  <1>2. mount' = [w \in Volumes |-> IF w = v THEN r ELSE mount[w]]
    BY <1>1 DEF MountTypes
  <1>3. mount' \in MountTypes
    <2>1. r \in [pc : {"idle", "entered", "below", "returned", "attach", "drop", "lost"},
                 via : Devices \cup {None}, dev : Devices \cup {None}, ok : BOOLEAN]
      BY DEF MountTypes
    <2> HIDE DEF r
    <2> QED
      BY <1>2, <2>1 DEF MountTypes
  <1> QED
    BY <1>1, <1>2, <1>3

-----------------------------------------------------------------------------
(* Steps that move no device.                                              *)

\* What holds of the rest when only requests move.
LEMMA RequestsMove ==
  ASSUME FilterInv, UNCHANGED <<fs, vol, stack, dev, lock, todo, n, mount, load, u, excused, refused, bypassed>>, req' \in [Requests -> [pc : {"idle", "below", "woken", "done", "lost"},
                                                dev : Devices \cup {None}, done : Nat]], Waiting'
  PROVE  FilterInv'
  <1>1. (\A t : Above(t)' = Above(t)) /\ (\A d : Attached(d)' <=> Attached(d))
    BY StacksSame
  <1>2. TypeOK'
    BY <1>1, FilterApart, PlacedWhere DEF FilterInv, TypeOK
  <1>3. FilterPlaces'
    BY <1>1, FilterApart, PlacedWhere DEF FilterInv, FilterPlaces, NotifyPlaces,
       MountPlaces, UnloadPlaces, Serving
  <1>4. Sited'
    BY <1>1, FilterApart, PlacedWhere DEF FilterInv, Sited
  <1>5. Held'
    BY <1>1, FilterApart, PlacedWhere DEF FilterInv, Held, InHand, Serving, Placed
  <1>6. Vacant'
    BY <1>1, FilterApart, PlacedWhere DEF FilterInv, Vacant, StacksShort, VacantFs,
       VacantVolumes, VolumesFlagged, Placed
  <1>7. Loading'
    BY <1>1, FilterApart, PlacedWhere DEF FilterInv, Loading, Placed
  <1>8. Alive'
    BY <1>1, FilterApart, PlacedWhere DEF FilterInv, Alive
  <1>9. Covered'
    BY <1>1, FilterApart, PlacedWhere DEF FilterInv, Covered
  <1>10. NoneForgotten'
    BY <1>1, FilterApart, PlacedWhere DEF FilterInv, NoneForgotten
  <1>11. UnloadDetachable'
    BY <1>1, FilterApart, PlacedWhere DEF FilterInv, UnloadDetachable
  <1>12. NoBypass'
    BY <1>1, FilterApart, PlacedWhere DEF FilterInv, NoBypass
  <1> QED
    BY <1>2, <1>3, <1>4, <1>5, <1>6, <1>7, <1>8, <1>9, <1>10, <1>11, <1>12 DEF FilterInv

LEMMA FastIoKeeps ==
  ASSUME FilterInv, NEW t \in Targets, NEW k \in DataCalls \cup OtherCalls, FastIo(t, k)
  PROVE  FilterInv'
  <1>1. /\ UNCHANGED <<fs, vol, stack, dev, lock, todo, n, mount, req, load, u, excused, refused>>
        /\ (\A s : Above(s)' = Above(s)) /\ (\A e : Attached(e)' <=> Attached(e))
        /\ bypassed' = bypassed
    BY StacksSame DEF FastIo, FastPasses, DataCalls, OtherCalls, SfFastIoRead, Refused,
       SfFastIoMdlRead, SfFastIoMdlWrite, SfFastIoCompressed, SfFastIoCompressedComplete,
       system, devices
  <1>2. TypeOK'
    <2>1. RestTyped'
      BY <1>1, OneAbove, FilterApart, PlacedWhere DEF RestTyped
    <2>2. /\ lock' = "n" <=> n'.pc \in {"attachVolume", "drop"}
          /\ \A w \in Volumes : lock' = w <=> mount'[w].pc \in {"attach", "drop"}
      BY <1>1, TypesAre, FilterApart DEF FilterInv, FilterTypes, FilterPlaces, NotifyPlaces,
         MountPlaces, UnloadPlaces
    <2> QED
      BY <1>1, <2>1, <2>2, TypesAre, FilterApart DEF FilterInv, FilterTypes
  <1>3. FilterPlaces'
    BY <1>1, FilterApart, PlacedWhere DEF FilterInv, FilterPlaces, NotifyPlaces,
       MountPlaces, UnloadPlaces, Serving
  <1>4. Sited'
    BY <1>1, FilterApart, PlacedWhere DEF FilterInv, Sited
  <1>5. Held'
    BY <1>1, FilterApart, PlacedWhere DEF FilterInv, Held, InHand, Serving, Placed, Sited,
       FilterPlaces, NotifyPlaces, MountPlaces, UnloadPlaces
  <1>6. Vacant'
    BY <1>1, FilterApart, PlacedWhere DEF FilterInv, Vacant, StacksShort, VacantFs,
       VacantVolumes, VolumesFlagged, Placed, FilterPlaces, NotifyPlaces, MountPlaces,
       UnloadPlaces, Sited, Held, InHand, Serving
  <1>7. Loading'
    BY <1>1, FilterApart, PlacedWhere DEF FilterInv, Loading, Placed, FilterPlaces,
       NotifyPlaces, MountPlaces, UnloadPlaces, Sited, Vacant, StacksShort, VacantFs,
       VacantVolumes, VolumesFlagged
  <1>8. Alive'
    BY <1>1, FilterApart, PlacedWhere DEF FilterInv, Alive, Held, InHand, Placed, Serving,
       FilterPlaces, NotifyPlaces, MountPlaces, UnloadPlaces
  <1>9. Covered'
    BY <1>1, FilterApart, PlacedWhere DEF FilterInv, Covered, FilterPlaces, NotifyPlaces,
       MountPlaces, UnloadPlaces
  <1>10. Waiting'
    BY <1>1, FilterApart, PlacedWhere DEF FilterInv, Waiting, FilterPlaces, NotifyPlaces,
       MountPlaces, UnloadPlaces, Sited
  <1>11. NoneForgotten'
    BY <1>1, FilterApart, PlacedWhere DEF FilterInv, NoneForgotten, FilterPlaces,
       NotifyPlaces, MountPlaces, UnloadPlaces
  <1>12. UnloadDetachable'
    BY <1>1, FilterApart, PlacedWhere DEF FilterInv, UnloadDetachable, FilterPlaces,
       NotifyPlaces, MountPlaces, UnloadPlaces, NoneForgotten
  <1>13. NoBypass'
    BY <1>1, FilterApart, PlacedWhere DEF FilterInv, NoBypass
  <1> QED
    BY <1>2, <1>3, <1>4, <1>5, <1>6, <1>7, <1>8, <1>9, <1>10, <1>11, <1>12, <1>13 DEF
       FilterInv

LEMMA LoadStartsKeeps ==
  ASSUME FilterInv, NEW f \in Recognizers, LoadStarts(f)
  PROVE  FilterInv'
  <1>1. /\ UNCHANGED <<fs, vol, stack, dev, lock, todo, n, mount, req, u, excused, refused, bypassed>>
        /\ (\A s : Above(s)' = Above(s)) /\ (\A e : Attached(e)' <=> Attached(e))
        /\ load.pc = "idle" /\ load' = [pc |-> "below", dev |-> Head(stack[f])]
        /\ fs[f] /\ stack[f] # <<>>
    BY StacksSame DEF LoadStarts, system, devices, ghosts
  <1>2. f \in Targets
        /\ f \in Fs
    BY FilterApart
  <1>3. load'.pc = "below"
        /\ load'.dev = Head(stack[f])
        /\ load'.dev \in Above(f)
        /\ load'.dev \in Devices
    BY <1>1, <1>2, StackTop DEF FilterInv
  <1>4. f \in todo => n.fs = f
        /\ Placed
    BY <1>1, <1>2 DEF FilterInv, Vacant, StacksShort, VacantFs, VacantVolumes,
       VolumesFlagged
  <1>5. TypeOK'
    <2>1. RestTyped'
      BY <1>1, <1>2, <1>3, <1>4, OneAbove, FilterApart, PlacedWhere DEF RestTyped
    <2>2. /\ lock' = "n" <=> n'.pc \in {"attachVolume", "drop"}
          /\ \A w \in Volumes : lock' = w <=> mount'[w].pc \in {"attach", "drop"}
      BY <1>1, <1>2, <1>3, <1>4, TypesAre, FilterApart DEF FilterInv, FilterTypes,
         FilterPlaces, NotifyPlaces, MountPlaces, UnloadPlaces
    <2> QED
      BY <1>1, <1>2, <1>3, <1>4, <2>1, <2>2, TypesAre, FilterApart DEF FilterInv,
         FilterTypes
  <1>6. FilterPlaces'
    BY <1>1, <1>2, <1>3, <1>4, FilterApart, PlacedWhere DEF FilterInv, FilterPlaces,
       NotifyPlaces, MountPlaces, UnloadPlaces, Serving
  <1>7. Sited'
    BY <1>1, <1>2, <1>3, <1>4, FilterApart, PlacedWhere DEF FilterInv, Sited
  <1>8. Held'
    BY <1>1, <1>2, <1>3, <1>4, FilterApart, PlacedWhere DEF FilterInv, Held, InHand,
       Serving, Placed, Sited, FilterPlaces, NotifyPlaces, MountPlaces, UnloadPlaces
  <1>9. Vacant'
    BY <1>1, <1>2, <1>3, <1>4, FilterApart, PlacedWhere DEF FilterInv, Vacant, StacksShort,
       VacantFs, VacantVolumes, VolumesFlagged, Placed, FilterPlaces, NotifyPlaces,
       MountPlaces, UnloadPlaces, Sited, Held, InHand, Serving
  <1>10. Loading'
    BY <1>1, <1>2, <1>3, <1>4, FilterApart, PlacedWhere DEF FilterInv, Loading, Placed,
       FilterPlaces, NotifyPlaces, MountPlaces, UnloadPlaces, Sited, Vacant, StacksShort,
       VacantFs, VacantVolumes, VolumesFlagged
  <1>11. Alive'
    BY <1>1, <1>2, <1>3, <1>4, FilterApart, PlacedWhere DEF FilterInv, Alive, Held, InHand,
       Placed, Serving, FilterPlaces, NotifyPlaces, MountPlaces, UnloadPlaces
  <1>12. Covered'
    BY <1>1, <1>2, <1>3, <1>4, FilterApart, PlacedWhere DEF FilterInv, Covered,
       FilterPlaces, NotifyPlaces, MountPlaces, UnloadPlaces
  <1>13. Waiting'
    BY <1>1, <1>2, <1>3, <1>4, FilterApart, PlacedWhere DEF FilterInv, Waiting,
       FilterPlaces, NotifyPlaces, MountPlaces, UnloadPlaces, Sited
  <1>14. NoneForgotten'
    BY <1>1, <1>2, <1>3, <1>4, FilterApart, PlacedWhere DEF FilterInv, NoneForgotten,
       FilterPlaces, NotifyPlaces, MountPlaces, UnloadPlaces
  <1>15. UnloadDetachable'
    BY <1>1, <1>2, <1>3, <1>4, FilterApart, PlacedWhere DEF FilterInv, UnloadDetachable,
       FilterPlaces, NotifyPlaces, MountPlaces, UnloadPlaces, NoneForgotten
  <1>16. NoBypass'
    BY <1>1, <1>2, <1>3, <1>4, FilterApart, PlacedWhere DEF FilterInv, NoBypass
  <1> QED
    BY <1>5, <1>6, <1>7, <1>8, <1>9, <1>10, <1>11, <1>12, <1>13, <1>14, <1>15, <1>16 DEF
       FilterInv

LEMMA MountLostKeeps ==
  ASSUME FilterInv, NEW v \in Volumes, MountLost(v)
  PROVE  FilterInv'
  <1>1. /\ UNCHANGED <<fs, vol, stack, dev, lock, todo, n, req, load, u, excused, refused, bypassed>>
        /\ (\A s : Above(s)' = Above(s)) /\ (\A e : Attached(e)' <=> Attached(e))
        /\ mount[v].pc = "idle" /\ mount' = [mount EXCEPT ![v].pc = "lost"]
    BY StacksSame DEF MountLost, CanMount, system, devices, OthersOfMount, ghosts
  <1>2. /\ mount' \in MountTypes
        /\ mount'[v].pc = "lost"
        /\ mount'[v].via = mount[v].via
        /\ mount'[v].dev = mount[v].dev
        /\ mount'[v].ok = mount[v].ok
        /\ \A w \in Volumes \ {v} : mount'[w] = mount[w]
    BY <1>1, OneAbove, FilterApart DEF MountTypes
  <1>3. TypeOK'
    <2>1. RestTyped'
      BY <1>1, <1>2, OneAbove, FilterApart, PlacedWhere DEF RestTyped
    <2>2. /\ lock' = "n" <=> n'.pc \in {"attachVolume", "drop"}
          /\ \A w \in Volumes : lock' = w <=> mount'[w].pc \in {"attach", "drop"}
      BY <1>1, <1>2, TypesAre, FilterApart DEF FilterInv, FilterTypes, FilterPlaces,
         NotifyPlaces, MountPlaces, UnloadPlaces
    <2> QED
      BY <1>1, <1>2, <2>1, <2>2, TypesAre, FilterApart DEF FilterInv, FilterTypes
  <1>4. FilterPlaces'
    BY <1>1, <1>2, FilterApart, PlacedWhere DEF FilterInv, FilterPlaces, NotifyPlaces,
       MountPlaces, UnloadPlaces, Serving
  <1>5. Sited'
    BY <1>1, <1>2, FilterApart, PlacedWhere DEF FilterInv, Sited
  <1>6. Held'
    BY <1>1, <1>2, FilterApart, PlacedWhere DEF FilterInv, Held, InHand, Serving, Placed,
       Sited, FilterPlaces, NotifyPlaces, MountPlaces, UnloadPlaces
  <1>7. Vacant'
    BY <1>1, <1>2, FilterApart, PlacedWhere DEF FilterInv, Vacant, StacksShort, VacantFs,
       VacantVolumes, VolumesFlagged, Placed, FilterPlaces, NotifyPlaces, MountPlaces,
       UnloadPlaces, Sited, Held, InHand, Serving
  <1>8. Loading'
    BY <1>1, <1>2, FilterApart, PlacedWhere DEF FilterInv, Loading, Placed, FilterPlaces,
       NotifyPlaces, MountPlaces, UnloadPlaces, Sited, Vacant, StacksShort, VacantFs,
       VacantVolumes, VolumesFlagged
  <1>9. Alive'
    BY <1>1, <1>2, FilterApart, PlacedWhere DEF FilterInv, Alive, Held, InHand, Placed,
       Serving, FilterPlaces, NotifyPlaces, MountPlaces, UnloadPlaces
  <1>10. Covered'
    BY <1>1, <1>2, FilterApart, PlacedWhere DEF FilterInv, Covered, FilterPlaces,
       NotifyPlaces, MountPlaces, UnloadPlaces
  <1>11. Waiting'
    BY <1>1, <1>2, FilterApart, PlacedWhere DEF FilterInv, Waiting, FilterPlaces,
       NotifyPlaces, MountPlaces, UnloadPlaces, Sited
  <1>12. NoneForgotten'
    BY <1>1, <1>2, FilterApart, PlacedWhere DEF FilterInv, NoneForgotten, FilterPlaces,
       NotifyPlaces, MountPlaces, UnloadPlaces
  <1>13. UnloadDetachable'
    BY <1>1, <1>2, FilterApart, PlacedWhere DEF FilterInv, UnloadDetachable, FilterPlaces,
       NotifyPlaces, MountPlaces, UnloadPlaces, NoneForgotten
  <1>14. NoBypass'
    BY <1>1, <1>2, FilterApart, PlacedWhere DEF FilterInv, NoBypass
  <1> QED
    BY <1>3, <1>4, <1>5, <1>6, <1>7, <1>8, <1>9, <1>10, <1>11, <1>12, <1>13, <1>14 DEF
       FilterInv

LEMMA MountPassesKeeps ==
  ASSUME FilterInv, NEW v \in Volumes, MountPasses(v)
  PROVE  FilterInv'
  <1>1. /\ UNCHANGED <<fs, vol, stack, dev, lock, todo, n, req, load, u, excused, refused, bypassed>>
        /\ (\A s : Above(s)' = Above(s)) /\ (\A e : Attached(e)' <=> Attached(e))
        /\ mount[v].pc = "entered"
    BY StacksSame DEF MountPasses, system, devices, OthersOfMount, ghosts
  <1>2. mount \in MountTypes
    BY OneAbove
  <1>3. /\ mount' \in MountTypes
        /\ mount'[v].pc = "below"
        /\ mount'[v].via = None
        /\ mount'[v].dev = mount[v].dev
        /\ mount'[v].ok = mount[v].ok
        /\ \A w \in Volumes \ {v} : mount'[w] = mount[w]
    BY <1>2, PassedOn
  <1>4. TypeOK'
    <2>1. RestTyped'
      BY <1>1, <1>2, <1>3, OneAbove, FilterApart, PlacedWhere DEF RestTyped
    <2>2. /\ lock' = "n" <=> n'.pc \in {"attachVolume", "drop"}
          /\ \A w \in Volumes : lock' = w <=> mount'[w].pc \in {"attach", "drop"}
      BY <1>1, <1>2, <1>3, TypesAre, FilterApart DEF FilterInv, FilterTypes, FilterPlaces,
         NotifyPlaces, MountPlaces, UnloadPlaces
    <2> QED
      BY <1>1, <1>2, <1>3, <2>1, <2>2, TypesAre, FilterApart DEF FilterInv, FilterTypes
  <1>5. FilterPlaces'
    BY <1>1, <1>2, <1>3, FilterApart, PlacedWhere DEF FilterInv, FilterPlaces, NotifyPlaces,
       MountPlaces, UnloadPlaces, Serving
  <1>6. Sited'
    BY <1>1, <1>2, <1>3, FilterApart, PlacedWhere DEF FilterInv, Sited
  <1>7. Held'
    BY <1>1, <1>2, <1>3, FilterApart, PlacedWhere DEF FilterInv, Held, InHand, Serving,
       Placed, Sited, FilterPlaces, NotifyPlaces, MountPlaces, UnloadPlaces
  <1>8. Vacant'
    BY <1>1, <1>2, <1>3, FilterApart, PlacedWhere DEF FilterInv, Vacant, StacksShort,
       VacantFs, VacantVolumes, VolumesFlagged, Placed, FilterPlaces, NotifyPlaces,
       MountPlaces, UnloadPlaces, Sited, Held, InHand, Serving
  <1>9. Loading'
    BY <1>1, <1>2, <1>3, FilterApart, PlacedWhere DEF FilterInv, Loading, Placed,
       FilterPlaces, NotifyPlaces, MountPlaces, UnloadPlaces, Sited, Vacant, StacksShort,
       VacantFs, VacantVolumes, VolumesFlagged
  <1>10. Alive'
    BY <1>1, <1>2, <1>3, FilterApart, PlacedWhere DEF FilterInv, Alive, Held, InHand,
       Placed, Serving, FilterPlaces, NotifyPlaces, MountPlaces, UnloadPlaces
  <1>11. Covered'
    BY <1>1, <1>2, <1>3, FilterApart, PlacedWhere DEF FilterInv, Covered, FilterPlaces,
       NotifyPlaces, MountPlaces, UnloadPlaces
  <1>12. Waiting'
    BY <1>1, <1>2, <1>3, FilterApart, PlacedWhere DEF FilterInv, Waiting, FilterPlaces,
       NotifyPlaces, MountPlaces, UnloadPlaces, Sited
  <1>13. NoneForgotten'
    BY <1>1, <1>2, <1>3, FilterApart, PlacedWhere DEF FilterInv, NoneForgotten,
       FilterPlaces, NotifyPlaces, MountPlaces, UnloadPlaces
  <1>14. UnloadDetachable'
    BY <1>1, <1>2, <1>3, FilterApart, PlacedWhere DEF FilterInv, UnloadDetachable,
       FilterPlaces, NotifyPlaces, MountPlaces, UnloadPlaces, NoneForgotten
  <1>15. NoBypass'
    BY <1>1, <1>2, <1>3, FilterApart, PlacedWhere DEF FilterInv, NoBypass
  <1> QED
    BY <1>4, <1>5, <1>6, <1>7, <1>8, <1>9, <1>10, <1>11, <1>12, <1>13, <1>14, <1>15 DEF
       FilterInv

LEMMA FsMakesKeeps ==
  ASSUME FilterInv, NEW v \in Volumes, FsMakes(v)
  PROVE  FilterInv'
  <1>1. /\ UNCHANGED <<fs, stack, dev, lock, todo, n, mount, req, load, u, excused, refused, bypassed>>
        /\ (\A s : Above(s)' = Above(s)) /\ (\A e : Attached(e)' <=> Attached(e))
        /\ mount[v].pc = "below" /\ vol[v] = "none" /\ vol' = [vol EXCEPT ![v] = "made"]
    BY StacksSame DEF FsMakes, devices, OthersOfMount, ghosts
  <1>2. vol'[v] = "made"
        /\ \A w \in Volumes \ {v} : vol'[w] = vol[w]
    BY <1>1, OneAbove DEF RestTyped
  <1>3. TypeOK'
    <2>1. RestTyped'
      BY <1>1, <1>2, OneAbove, FilterApart, PlacedWhere DEF RestTyped
    <2>2. /\ lock' = "n" <=> n'.pc \in {"attachVolume", "drop"}
          /\ \A w \in Volumes : lock' = w <=> mount'[w].pc \in {"attach", "drop"}
      BY <1>1, <1>2, TypesAre, FilterApart DEF FilterInv, FilterTypes, FilterPlaces,
         NotifyPlaces, MountPlaces, UnloadPlaces
    <2> QED
      BY <1>1, <1>2, <2>1, <2>2, TypesAre, FilterApart DEF FilterInv, FilterTypes
  <1>4. FilterPlaces'
    BY <1>1, <1>2, FilterApart, PlacedWhere DEF FilterInv, FilterPlaces, NotifyPlaces,
       MountPlaces, UnloadPlaces, Serving
  <1>5. Sited'
    BY <1>1, <1>2, FilterApart, PlacedWhere DEF FilterInv, Sited
  <1>6. Held'
    BY <1>1, <1>2, FilterApart, PlacedWhere DEF FilterInv, Held, InHand, Serving, Placed,
       Sited, FilterPlaces, NotifyPlaces, MountPlaces, UnloadPlaces
  <1>7. Vacant'
    BY <1>1, <1>2, FilterApart, PlacedWhere DEF FilterInv, Vacant, StacksShort, VacantFs,
       VacantVolumes, VolumesFlagged, Placed, FilterPlaces, NotifyPlaces, MountPlaces,
       UnloadPlaces, Sited, Held, InHand, Serving
  <1>8. Loading'
    BY <1>1, <1>2, FilterApart, PlacedWhere DEF FilterInv, Loading, Placed, FilterPlaces,
       NotifyPlaces, MountPlaces, UnloadPlaces, Sited, Vacant, StacksShort, VacantFs,
       VacantVolumes, VolumesFlagged
  <1>9. Alive'
    BY <1>1, <1>2, FilterApart, PlacedWhere DEF FilterInv, Alive, Held, InHand, Placed,
       Serving, FilterPlaces, NotifyPlaces, MountPlaces, UnloadPlaces
  <1>10. Covered'
    BY <1>1, <1>2, FilterApart, PlacedWhere DEF FilterInv, Covered, FilterPlaces,
       NotifyPlaces, MountPlaces, UnloadPlaces
  <1>11. Waiting'
    BY <1>1, <1>2, FilterApart, PlacedWhere DEF FilterInv, Waiting, FilterPlaces,
       NotifyPlaces, MountPlaces, UnloadPlaces, Sited
  <1>12. NoneForgotten'
    BY <1>1, <1>2, FilterApart, PlacedWhere DEF FilterInv, NoneForgotten, FilterPlaces,
       NotifyPlaces, MountPlaces, UnloadPlaces
  <1>13. UnloadDetachable'
    BY <1>1, <1>2, FilterApart, PlacedWhere DEF FilterInv, UnloadDetachable, FilterPlaces,
       NotifyPlaces, MountPlaces, UnloadPlaces, NoneForgotten
  <1>14. NoBypass'
    BY <1>1, <1>2, FilterApart, PlacedWhere DEF FilterInv, NoBypass
  <1> QED
    BY <1>3, <1>4, <1>5, <1>6, <1>7, <1>8, <1>9, <1>10, <1>11, <1>12, <1>13, <1>14 DEF
       FilterInv

LEMMA DismountBeginsKeeps ==
  ASSUME FilterInv, NEW v \in Volumes, DismountBegins(v)
  PROVE  FilterInv'
  <1>1. /\ UNCHANGED <<fs, stack, dev, lock, todo, n, mount, req, load, u, excused, refused, bypassed>>
        /\ (\A s : Above(s)' = Above(s)) /\ (\A e : Attached(e)' <=> Attached(e))
        /\ mount[v].pc \in {"idle", "lost"} /\ vol[v] = "mounted" /\ vol' = [vol EXCEPT ![v] = "going"]
        /\ \A i \in Requests : req[i].dev # None => dev[req[i].dev].to # v
    BY StacksSame DEF DismountBegins, devices, OthersOfMount, ghosts
  <1>2. vol'[v] = "going"
        /\ \A w \in Volumes \ {v} : vol'[w] = vol[w]
    BY <1>1, OneAbove DEF RestTyped
  <1>3. TypeOK'
    <2>1. RestTyped'
      BY <1>1, <1>2, OneAbove, FilterApart, PlacedWhere DEF RestTyped
    <2>2. /\ lock' = "n" <=> n'.pc \in {"attachVolume", "drop"}
          /\ \A w \in Volumes : lock' = w <=> mount'[w].pc \in {"attach", "drop"}
      BY <1>1, <1>2, TypesAre, FilterApart DEF FilterInv, FilterTypes, FilterPlaces,
         NotifyPlaces, MountPlaces, UnloadPlaces
    <2> QED
      BY <1>1, <1>2, <2>1, <2>2, TypesAre, FilterApart DEF FilterInv, FilterTypes
  <1>4. FilterPlaces'
    BY <1>1, <1>2, FilterApart, PlacedWhere DEF FilterInv, FilterPlaces, NotifyPlaces,
       MountPlaces, UnloadPlaces, Serving
  <1>5. Sited'
    BY <1>1, <1>2, FilterApart, PlacedWhere DEF FilterInv, Sited
  <1>6. Held'
    BY <1>1, <1>2, FilterApart, PlacedWhere DEF FilterInv, Held, InHand, Serving, Placed,
       Sited, FilterPlaces, NotifyPlaces, MountPlaces, UnloadPlaces
  <1>7. Vacant'
    BY <1>1, <1>2, FilterApart, PlacedWhere DEF FilterInv, Vacant, StacksShort, VacantFs,
       VacantVolumes, VolumesFlagged, Placed, FilterPlaces, NotifyPlaces, MountPlaces,
       UnloadPlaces, Sited, Held, InHand, Serving
  <1>8. Loading'
    BY <1>1, <1>2, FilterApart, PlacedWhere DEF FilterInv, Loading, Placed, FilterPlaces,
       NotifyPlaces, MountPlaces, UnloadPlaces, Sited, Vacant, StacksShort, VacantFs,
       VacantVolumes, VolumesFlagged
  <1>9. Alive'
    BY <1>1, <1>2, FilterApart, PlacedWhere DEF FilterInv, Alive, Held, InHand, Placed,
       Serving, FilterPlaces, NotifyPlaces, MountPlaces, UnloadPlaces
  <1>10. Covered'
    BY <1>1, <1>2, FilterApart, PlacedWhere DEF FilterInv, Covered, FilterPlaces,
       NotifyPlaces, MountPlaces, UnloadPlaces
  <1>11. Waiting'
    BY <1>1, <1>2, FilterApart, PlacedWhere DEF FilterInv, Waiting, FilterPlaces,
       NotifyPlaces, MountPlaces, UnloadPlaces, Sited
  <1>12. NoneForgotten'
    BY <1>1, <1>2, FilterApart, PlacedWhere DEF FilterInv, NoneForgotten, FilterPlaces,
       NotifyPlaces, MountPlaces, UnloadPlaces
  <1>13. UnloadDetachable'
    BY <1>1, <1>2, FilterApart, PlacedWhere DEF FilterInv, UnloadDetachable, FilterPlaces,
       NotifyPlaces, MountPlaces, UnloadPlaces, NoneForgotten
  <1>14. NoBypass'
    BY <1>1, <1>2, FilterApart, PlacedWhere DEF FilterInv, NoBypass
  <1> QED
    BY <1>3, <1>4, <1>5, <1>6, <1>7, <1>8, <1>9, <1>10, <1>11, <1>12, <1>13, <1>14 DEF
       FilterInv

LEMMA FsRegistersKeeps ==
  ASSUME FilterInv, NEW f \in Fs, FsRegisters(f)
  PROVE  FilterInv'
  <1>1. /\ UNCHANGED <<vol, stack, dev, lock, n, mount, req, load, u, excused, refused, bypassed>>
        /\ (\A s : Above(s)' = Above(s)) /\ (\A e : Attached(e)' <=> Attached(e))
        /\ ~fs[f] /\ u.pc = "idle" /\ fs' = [fs EXCEPT ![f] = TRUE] /\ todo' = todo \cup {f}
        /\ f \in Recognizers => load.pc = "idle"
    BY StacksSame DEF FsRegisters, devices, ghosts
  <1>2. fs'[f]
        /\ \A g \in Fs \ {f} : fs'[g] = fs[g]
    BY <1>1, OneAbove DEF RestTyped
  <1>3. TypeOK'
    <2>1. RestTyped'
      BY <1>1, <1>2, OneAbove, FilterApart, PlacedWhere DEF RestTyped
    <2>2. /\ lock' = "n" <=> n'.pc \in {"attachVolume", "drop"}
          /\ \A w \in Volumes : lock' = w <=> mount'[w].pc \in {"attach", "drop"}
      BY <1>1, <1>2, TypesAre, FilterApart DEF FilterInv, FilterTypes, FilterPlaces,
         NotifyPlaces, MountPlaces, UnloadPlaces
    <2> QED
      BY <1>1, <1>2, <2>1, <2>2, TypesAre, FilterApart DEF FilterInv, FilterTypes
  <1>4. FilterPlaces'
    BY <1>1, <1>2, FilterApart, PlacedWhere DEF FilterInv, FilterPlaces, NotifyPlaces,
       MountPlaces, UnloadPlaces, Serving
  <1>5. Sited'
    BY <1>1, <1>2, FilterApart, PlacedWhere DEF FilterInv, Sited
  <1>6. Held'
    BY <1>1, <1>2, FilterApart, PlacedWhere DEF FilterInv, Held, InHand, Serving, Placed,
       Sited, FilterPlaces, NotifyPlaces, MountPlaces, UnloadPlaces
  <1>7. Vacant'
    BY <1>1, <1>2, FilterApart, PlacedWhere DEF FilterInv, Vacant, StacksShort, VacantFs,
       VacantVolumes, VolumesFlagged, Placed, FilterPlaces, NotifyPlaces, MountPlaces,
       UnloadPlaces, Sited, Held, InHand, Serving
  <1>8. Loading'
    BY <1>1, <1>2, FilterApart, PlacedWhere DEF FilterInv, Loading, Placed, FilterPlaces,
       NotifyPlaces, MountPlaces, UnloadPlaces, Sited, Vacant, StacksShort, VacantFs,
       VacantVolumes, VolumesFlagged
  <1>9. Alive'
    BY <1>1, <1>2, FilterApart, PlacedWhere DEF FilterInv, Alive, Held, InHand, Placed,
       Serving, FilterPlaces, NotifyPlaces, MountPlaces, UnloadPlaces
  <1>10. Covered'
    BY <1>1, <1>2, FilterApart, PlacedWhere DEF FilterInv, Covered, FilterPlaces,
       NotifyPlaces, MountPlaces, UnloadPlaces
  <1>11. Waiting'
    BY <1>1, <1>2, FilterApart, PlacedWhere DEF FilterInv, Waiting, FilterPlaces,
       NotifyPlaces, MountPlaces, UnloadPlaces, Sited
  <1>12. NoneForgotten'
    BY <1>1, <1>2, FilterApart, PlacedWhere DEF FilterInv, NoneForgotten, FilterPlaces,
       NotifyPlaces, MountPlaces, UnloadPlaces
  <1>13. UnloadDetachable'
    BY <1>1, <1>2, FilterApart, PlacedWhere DEF FilterInv, UnloadDetachable, FilterPlaces,
       NotifyPlaces, MountPlaces, UnloadPlaces, NoneForgotten
  <1>14. NoBypass'
    BY <1>1, <1>2, FilterApart, PlacedWhere DEF FilterInv, NoBypass
  <1> QED
    BY <1>3, <1>4, <1>5, <1>6, <1>7, <1>8, <1>9, <1>10, <1>11, <1>12, <1>13, <1>14 DEF
       FilterInv

LEMMA NotifyCreateFailsKeeps ==
  ASSUME FilterInv, NEW f \in Fs, NotifyCreateFails(f)
  PROVE  FilterInv'
  <1>1. /\ UNCHANGED <<fs, vol, stack, dev, lock, n, mount, req, load, u, excused, refused, bypassed>>
        /\ (\A s : Above(s)' = Above(s)) /\ (\A e : Attached(e)' <=> Attached(e))
        /\ n.pc = "idle" /\ f \in todo /\ todo' = todo \ {f}
    BY StacksSame DEF NotifyCreateFails, system, devices, Others, ghosts
  <1>2. TypeOK'
    <2>1. RestTyped'
      BY <1>1, OneAbove, FilterApart, PlacedWhere DEF RestTyped
    <2>2. /\ lock' = "n" <=> n'.pc \in {"attachVolume", "drop"}
          /\ \A w \in Volumes : lock' = w <=> mount'[w].pc \in {"attach", "drop"}
      BY <1>1, TypesAre, FilterApart DEF FilterInv, FilterTypes, FilterPlaces, NotifyPlaces,
         MountPlaces, UnloadPlaces
    <2> QED
      BY <1>1, <2>1, <2>2, TypesAre, FilterApart DEF FilterInv, FilterTypes
  <1>3. FilterPlaces'
    BY <1>1, FilterApart, PlacedWhere DEF FilterInv, FilterPlaces, NotifyPlaces,
       MountPlaces, UnloadPlaces, Serving
  <1>4. Sited'
    BY <1>1, FilterApart, PlacedWhere DEF FilterInv, Sited
  <1>5. Held'
    BY <1>1, FilterApart, PlacedWhere DEF FilterInv, Held, InHand, Serving, Placed, Sited,
       FilterPlaces, NotifyPlaces, MountPlaces, UnloadPlaces
  <1>6. Vacant'
    BY <1>1, FilterApart, PlacedWhere DEF FilterInv, Vacant, StacksShort, VacantFs,
       VacantVolumes, VolumesFlagged, Placed, FilterPlaces, NotifyPlaces, MountPlaces,
       UnloadPlaces, Sited, Held, InHand, Serving
  <1>7. Loading'
    BY <1>1, FilterApart, PlacedWhere DEF FilterInv, Loading, Placed, FilterPlaces,
       NotifyPlaces, MountPlaces, UnloadPlaces, Sited, Vacant, StacksShort, VacantFs,
       VacantVolumes, VolumesFlagged
  <1>8. Alive'
    BY <1>1, FilterApart, PlacedWhere DEF FilterInv, Alive, Held, InHand, Placed, Serving,
       FilterPlaces, NotifyPlaces, MountPlaces, UnloadPlaces
  <1>9. Covered'
    BY <1>1, FilterApart, PlacedWhere DEF FilterInv, Covered, FilterPlaces, NotifyPlaces,
       MountPlaces, UnloadPlaces
  <1>10. Waiting'
    BY <1>1, FilterApart, PlacedWhere DEF FilterInv, Waiting, FilterPlaces, NotifyPlaces,
       MountPlaces, UnloadPlaces, Sited
  <1>11. NoneForgotten'
    BY <1>1, FilterApart, PlacedWhere DEF FilterInv, NoneForgotten, FilterPlaces,
       NotifyPlaces, MountPlaces, UnloadPlaces
  <1>12. UnloadDetachable'
    BY <1>1, FilterApart, PlacedWhere DEF FilterInv, UnloadDetachable, FilterPlaces,
       NotifyPlaces, MountPlaces, UnloadPlaces, NoneForgotten
  <1>13. NoBypass'
    BY <1>1, FilterApart, PlacedWhere DEF FilterInv, NoBypass
  <1> QED
    BY <1>2, <1>3, <1>4, <1>5, <1>6, <1>7, <1>8, <1>9, <1>10, <1>11, <1>12, <1>13 DEF
       FilterInv

LEMMA EnumEndsKeeps ==
  ASSUME FilterInv, EnumEnds
  PROVE  FilterInv'
  <1>1. /\ UNCHANGED <<fs, vol, stack, dev, lock, mount, req, load, u, excused, refused, bypassed>>
        /\ (\A s : Above(s)' = Above(s)) /\ (\A e : Attached(e)' <=> Attached(e))
        /\ n.pc = "each" /\ n.list = {} /\ n' = NIdle /\ todo' = todo \ {n.fs}
    BY StacksSame DEF EnumEnds, NotifyEnds, system, devices, Others, ghosts
  <1>2. /\ n' \in NTypes
        /\ n'.pc = "idle"
        /\ n'.fs = None
        /\ n'.dev = None
        /\ n'.list = {}
        /\ n'.vol = None
        /\ n'.new = None
    BY <1>1, OneAbove, FilterApart, PlacedWhere DEF NTypes, NIdle
  <1>3. TypeOK'
    <2>1. RestTyped'
      BY <1>1, <1>2, OneAbove, FilterApart, PlacedWhere DEF RestTyped
    <2>2. /\ lock' = "n" <=> n'.pc \in {"attachVolume", "drop"}
          /\ \A w \in Volumes : lock' = w <=> mount'[w].pc \in {"attach", "drop"}
      BY <1>1, <1>2, TypesAre, FilterApart DEF FilterInv, FilterTypes, FilterPlaces,
         NotifyPlaces, MountPlaces, UnloadPlaces
    <2> QED
      BY <1>1, <1>2, <2>1, <2>2, TypesAre, FilterApart DEF FilterInv, FilterTypes
  <1>4. FilterPlaces'
    BY <1>1, <1>2, FilterApart, PlacedWhere DEF FilterInv, FilterPlaces, NotifyPlaces,
       MountPlaces, UnloadPlaces, Serving
  <1>5. Sited'
    BY <1>1, <1>2, FilterApart, PlacedWhere DEF FilterInv, Sited
  <1>6. Held'
    BY <1>1, <1>2, FilterApart, PlacedWhere DEF FilterInv, Held, InHand, Serving, Placed,
       Sited, FilterPlaces, NotifyPlaces, MountPlaces, UnloadPlaces
  <1>7. Vacant'
    BY <1>1, <1>2, FilterApart, PlacedWhere DEF FilterInv, Vacant, StacksShort, VacantFs,
       VacantVolumes, VolumesFlagged, Placed, FilterPlaces, NotifyPlaces, MountPlaces,
       UnloadPlaces, Sited, Held, InHand, Serving
  <1>8. Loading'
    BY <1>1, <1>2, FilterApart, PlacedWhere DEF FilterInv, Loading, Placed, FilterPlaces,
       NotifyPlaces, MountPlaces, UnloadPlaces, Sited, Vacant, StacksShort, VacantFs,
       VacantVolumes, VolumesFlagged
  <1>9. Alive'
    BY <1>1, <1>2, FilterApart, PlacedWhere DEF FilterInv, Alive, Held, InHand, Placed,
       Serving, FilterPlaces, NotifyPlaces, MountPlaces, UnloadPlaces
  <1>10. Covered'
    BY <1>1, <1>2, FilterApart, PlacedWhere DEF FilterInv, Covered, FilterPlaces,
       NotifyPlaces, MountPlaces, UnloadPlaces
  <1>11. Waiting'
    BY <1>1, <1>2, FilterApart, PlacedWhere DEF FilterInv, Waiting, FilterPlaces,
       NotifyPlaces, MountPlaces, UnloadPlaces, Sited
  <1>12. NoneForgotten'
    BY <1>1, <1>2, AttachedTo, FilterApart, PlacedWhere DEF FilterInv, NoneForgotten,
       FilterPlaces, NotifyPlaces, MountPlaces, UnloadPlaces, Held, Placed, Serving
  <1>13. UnloadDetachable'
    BY <1>1, <1>2, FilterApart, PlacedWhere DEF FilterInv, UnloadDetachable, FilterPlaces,
       NotifyPlaces, MountPlaces, UnloadPlaces, NoneForgotten
  <1>14. NoBypass'
    BY <1>1, <1>2, FilterApart, PlacedWhere DEF FilterInv, NoBypass
  <1> QED
    BY <1>3, <1>4, <1>5, <1>6, <1>7, <1>8, <1>9, <1>10, <1>11, <1>12, <1>13, <1>14 DEF
       FilterInv

LEMMA EnumLocksKeeps ==
  ASSUME FilterInv, EnumLocks
  PROVE  FilterInv'
  <1>1. /\ UNCHANGED <<fs, vol, stack, dev, todo, mount, req, load, u, excused, refused, bypassed>>
        /\ (\A s : Above(s)' = Above(s)) /\ (\A e : Attached(e)' <=> Attached(e))
        /\ n.pc = "lock" /\ lock = "free" /\ lock' = "n"
        /\ n' = [n EXCEPT !.pc = IF SfIsAttachedToDevice(n.vol) THEN "drop" ELSE "attachVolume"]
    BY StacksSame DEF EnumLocks, system, devices, ghosts
  <1>2. n.vol \in Volumes
        /\ n.vol \in Targets
    BY <1>1, PlacedWhere, FilterApart DEF Serving
  <1>3. SfIsAttachedToDevice(n.vol) <=> stack[n.vol] # <<>>
    BY <1>2, OneAbove DEF FilterInv, Vacant, StacksShort, VacantFs, VacantVolumes,
       VolumesFlagged
  <1>4. /\ n' \in NTypes
        /\ n'.pc = (IF stack[n.vol] # <<>> THEN "drop" ELSE "attachVolume")
        /\ n'.fs = n.fs
        /\ n'.dev = n.dev
        /\ n'.list = n.list
        /\ n'.vol = n.vol
        /\ n'.new = n.new
    BY <1>1, <1>3, OneAbove, FilterApart, PlacedWhere DEF NTypes
  <1>5. TypeOK'
    <2>1. RestTyped'
      BY <1>1, <1>2, <1>3, <1>4, OneAbove, FilterApart, PlacedWhere DEF RestTyped
    <2>2. /\ lock' = "n" <=> n'.pc \in {"attachVolume", "drop"}
          /\ \A w \in Volumes : lock' = w <=> mount'[w].pc \in {"attach", "drop"}
      BY <1>1, <1>2, <1>3, <1>4, TypesAre, FilterApart DEF FilterInv, FilterTypes,
         FilterPlaces, NotifyPlaces, MountPlaces, UnloadPlaces
    <2> QED
      BY <1>1, <1>2, <1>3, <1>4, <2>1, <2>2, TypesAre, FilterApart DEF FilterInv,
         FilterTypes
  <1>6. FilterPlaces'
    BY <1>1, <1>2, <1>3, <1>4, FilterApart, PlacedWhere DEF FilterInv, FilterPlaces,
       NotifyPlaces, MountPlaces, UnloadPlaces, Serving
  <1>7. Sited'
    BY <1>1, <1>2, <1>3, <1>4, FilterApart, PlacedWhere DEF FilterInv, Sited
  <1>8. Held'
    BY <1>1, <1>2, <1>3, <1>4, FilterApart, PlacedWhere DEF FilterInv, Held, InHand,
       Serving, Placed, Sited, FilterPlaces, NotifyPlaces, MountPlaces, UnloadPlaces
  <1>9. Vacant'
    BY <1>1, <1>2, <1>3, <1>4, FilterApart, PlacedWhere DEF FilterInv, Vacant, StacksShort,
       VacantFs, VacantVolumes, VolumesFlagged, Placed, FilterPlaces, NotifyPlaces,
       MountPlaces, UnloadPlaces, Sited, Held, InHand, Serving
  <1>10. Loading'
    BY <1>1, <1>2, <1>3, <1>4, FilterApart, PlacedWhere DEF FilterInv, Loading, Placed,
       FilterPlaces, NotifyPlaces, MountPlaces, UnloadPlaces, Sited, Vacant, StacksShort,
       VacantFs, VacantVolumes, VolumesFlagged
  <1>11. Alive'
    BY <1>1, <1>2, <1>3, <1>4, FilterApart, PlacedWhere DEF FilterInv, Alive, Held, InHand,
       Placed, Serving, FilterPlaces, NotifyPlaces, MountPlaces, UnloadPlaces
  <1>12. Covered'
    BY <1>1, <1>2, <1>3, <1>4, FilterApart, PlacedWhere DEF FilterInv, Covered,
       FilterPlaces, NotifyPlaces, MountPlaces, UnloadPlaces
  <1>13. Waiting'
    BY <1>1, <1>2, <1>3, <1>4, FilterApart, PlacedWhere DEF FilterInv, Waiting,
       FilterPlaces, NotifyPlaces, MountPlaces, UnloadPlaces, Sited
  <1>14. NoneForgotten'
    BY <1>1, <1>2, <1>3, <1>4, FilterApart, PlacedWhere DEF FilterInv, NoneForgotten,
       FilterPlaces, NotifyPlaces, MountPlaces, UnloadPlaces
  <1>15. UnloadDetachable'
    BY <1>1, <1>2, <1>3, <1>4, FilterApart, PlacedWhere DEF FilterInv, UnloadDetachable,
       FilterPlaces, NotifyPlaces, MountPlaces, UnloadPlaces, NoneForgotten
  <1>16. NoBypass'
    BY <1>1, <1>2, <1>3, <1>4, FilterApart, PlacedWhere DEF FilterInv, NoBypass
  <1> QED
    BY <1>5, <1>6, <1>7, <1>8, <1>9, <1>10, <1>11, <1>12, <1>13, <1>14, <1>15, <1>16 DEF
       FilterInv

LEMMA MountLocksKeeps ==
  ASSUME FilterInv, NEW v \in Volumes, MountLocks(v)
  PROVE  FilterInv'
  <1>1. /\ UNCHANGED <<fs, vol, stack, dev, todo, n, req, load, u, excused, refused, bypassed>>
        /\ (\A s : Above(s)' = Above(s)) /\ (\A e : Attached(e)' <=> Attached(e))
        /\ mount[v].pc = "returned" /\ mount[v].ok /\ lock = "free" /\ lock' = v
        /\ mount' = [mount EXCEPT ![v].pc = IF SfIsAttachedToDevice(v) THEN "drop" ELSE "attach"]
    BY StacksSame DEF MountLocks, system, devices, OthersOfMount, ghosts
  <1>2. SfIsAttachedToDevice(v) <=> stack[v] # <<>>
    BY OneAbove, FilterApart DEF FilterInv, Vacant, StacksShort, VacantFs, VacantVolumes,
       VolumesFlagged
  <1>3. PICK c \in {"drop", "attach"} : c = (IF stack[v] # <<>> THEN "drop" ELSE "attach")
        /\ mount' = [mount EXCEPT ![v].pc = c]
    BY <1>1, <1>2
  <1>4. /\ mount' \in MountTypes
        /\ mount'[v].pc = c
        /\ mount'[v].via = mount[v].via
        /\ mount'[v].dev = mount[v].dev
        /\ mount'[v].ok = mount[v].ok
        /\ \A w \in Volumes \ {v} : mount'[w] = mount[w]
    BY <1>3, OneAbove, FilterApart DEF MountTypes
  <1>5. TypeOK'
    <2>1. RestTyped'
      BY <1>1, <1>2, <1>3, <1>4, OneAbove, FilterApart, PlacedWhere DEF RestTyped
    <2>2. /\ lock' = "n" <=> n'.pc \in {"attachVolume", "drop"}
          /\ \A w \in Volumes : lock' = w <=> mount'[w].pc \in {"attach", "drop"}
      BY <1>1, <1>2, <1>3, <1>4, TypesAre, FilterApart DEF FilterInv, FilterTypes,
         FilterPlaces, NotifyPlaces, MountPlaces, UnloadPlaces
    <2> QED
      BY <1>1, <1>2, <1>3, <1>4, <2>1, <2>2, TypesAre, FilterApart DEF FilterInv,
         FilterTypes
  <1>6. FilterPlaces'
    BY <1>1, <1>2, <1>3, <1>4, FilterApart, PlacedWhere DEF FilterInv, FilterPlaces,
       NotifyPlaces, MountPlaces, UnloadPlaces, Serving
  <1>7. Sited'
    BY <1>1, <1>2, <1>3, <1>4, FilterApart, PlacedWhere DEF FilterInv, Sited
  <1>8. Held'
    BY <1>1, <1>2, <1>3, <1>4, FilterApart, PlacedWhere DEF FilterInv, Held, InHand,
       Serving, Placed, Sited, FilterPlaces, NotifyPlaces, MountPlaces, UnloadPlaces
  <1>9. Vacant'
    BY <1>1, <1>2, <1>3, <1>4, FilterApart, PlacedWhere DEF FilterInv, Vacant, StacksShort,
       VacantFs, VacantVolumes, VolumesFlagged, Placed, FilterPlaces, NotifyPlaces,
       MountPlaces, UnloadPlaces, Sited, Held, InHand, Serving
  <1>10. Loading'
    BY <1>1, <1>2, <1>3, <1>4, FilterApart, PlacedWhere DEF FilterInv, Loading, Placed,
       FilterPlaces, NotifyPlaces, MountPlaces, UnloadPlaces, Sited, Vacant, StacksShort,
       VacantFs, VacantVolumes, VolumesFlagged
  <1>11. Alive'
    BY <1>1, <1>2, <1>3, <1>4, FilterApart, PlacedWhere DEF FilterInv, Alive, Held, InHand,
       Placed, Serving, FilterPlaces, NotifyPlaces, MountPlaces, UnloadPlaces
  <1>12. Covered'
    BY <1>1, <1>2, <1>3, <1>4, FilterApart, PlacedWhere DEF FilterInv, Covered,
       FilterPlaces, NotifyPlaces, MountPlaces, UnloadPlaces
  <1>13. Waiting'
    BY <1>1, <1>2, <1>3, <1>4, FilterApart, PlacedWhere DEF FilterInv, Waiting,
       FilterPlaces, NotifyPlaces, MountPlaces, UnloadPlaces, Sited
  <1>14. NoneForgotten'
    BY <1>1, <1>2, <1>3, <1>4, FilterApart, PlacedWhere DEF FilterInv, NoneForgotten,
       FilterPlaces, NotifyPlaces, MountPlaces, UnloadPlaces
  <1>15. UnloadDetachable'
    BY <1>1, <1>2, <1>3, <1>4, FilterApart, PlacedWhere DEF FilterInv, UnloadDetachable,
       FilterPlaces, NotifyPlaces, MountPlaces, UnloadPlaces, NoneForgotten
  <1>16. NoBypass'
    BY <1>1, <1>2, <1>3, <1>4, FilterApart, PlacedWhere DEF FilterInv, NoBypass
  <1> QED
    BY <1>5, <1>6, <1>7, <1>8, <1>9, <1>10, <1>11, <1>12, <1>13, <1>14, <1>15, <1>16 DEF
       FilterInv

LEMMA UnloadBeginsKeeps ==
  ASSUME FilterInv, UnloadBegins
  PROVE  FilterInv'
  <1>1. /\ UNCHANGED <<fs, vol, stack, dev, lock, todo, n, mount, req, load, excused, refused, bypassed>>
        /\ (\A s : Above(s)' = Above(s)) /\ (\A e : Attached(e)' <=> Attached(e))
        /\ u.pc = "idle" /\ n.pc = "idle" /\ todo = {} /\ u' = [u EXCEPT !.pc = "list"]
    BY StacksSame DEF UnloadBegins, devices, OthersOfUnload, system, ghosts
  <1>2. /\ u' \in UTypes
        /\ u'.pc = "list"
        /\ u'.list = u.list
        /\ u'.work = u.work
    BY <1>1, OneAbove DEF UTypes
  <1>3. TypeOK'
    <2>1. RestTyped'
      BY <1>1, <1>2, OneAbove, FilterApart, PlacedWhere DEF RestTyped
    <2>2. /\ lock' = "n" <=> n'.pc \in {"attachVolume", "drop"}
          /\ \A w \in Volumes : lock' = w <=> mount'[w].pc \in {"attach", "drop"}
      BY <1>1, <1>2, TypesAre, FilterApart DEF FilterInv, FilterTypes, FilterPlaces,
         NotifyPlaces, MountPlaces, UnloadPlaces
    <2> QED
      BY <1>1, <1>2, <2>1, <2>2, TypesAre, FilterApart DEF FilterInv, FilterTypes
  <1>4. FilterPlaces'
    BY <1>1, <1>2, FilterApart, PlacedWhere DEF FilterInv, FilterPlaces, NotifyPlaces,
       MountPlaces, UnloadPlaces, Serving
  <1>5. Sited'
    BY <1>1, <1>2, FilterApart, PlacedWhere DEF FilterInv, Sited
  <1>6. Held'
    BY <1>1, <1>2, FilterApart, PlacedWhere DEF FilterInv, Held, InHand, Serving, Placed,
       Sited, FilterPlaces, NotifyPlaces, MountPlaces, UnloadPlaces
  <1>7. Vacant'
    BY <1>1, <1>2, FilterApart, PlacedWhere DEF FilterInv, Vacant, StacksShort, VacantFs,
       VacantVolumes, VolumesFlagged, Placed, FilterPlaces, NotifyPlaces, MountPlaces,
       UnloadPlaces, Sited, Held, InHand, Serving
  <1>8. Loading'
    BY <1>1, <1>2, FilterApart, PlacedWhere DEF FilterInv, Loading, Placed, FilterPlaces,
       NotifyPlaces, MountPlaces, UnloadPlaces, Sited, Vacant, StacksShort, VacantFs,
       VacantVolumes, VolumesFlagged
  <1>9. Alive'
    BY <1>1, <1>2, FilterApart, PlacedWhere DEF FilterInv, Alive, Held, InHand, Placed,
       Serving, FilterPlaces, NotifyPlaces, MountPlaces, UnloadPlaces
  <1>10. Covered'
    BY <1>1, <1>2, FilterApart, PlacedWhere DEF FilterInv, Covered, FilterPlaces,
       NotifyPlaces, MountPlaces, UnloadPlaces
  <1>11. Waiting'
    BY <1>1, <1>2, FilterApart, PlacedWhere DEF FilterInv, Waiting, FilterPlaces,
       NotifyPlaces, MountPlaces, UnloadPlaces, Sited
  <1>12. NoneForgotten'
    BY <1>1, <1>2, FilterApart, PlacedWhere DEF FilterInv, NoneForgotten, FilterPlaces,
       NotifyPlaces, MountPlaces, UnloadPlaces
  <1>13. UnloadDetachable'
    BY <1>1, <1>2, FilterApart, PlacedWhere DEF FilterInv, UnloadDetachable, FilterPlaces,
       NotifyPlaces, MountPlaces, UnloadPlaces, NoneForgotten
  <1>14. NoBypass'
    BY <1>1, <1>2, FilterApart, PlacedWhere DEF FilterInv, NoBypass
  <1> QED
    BY <1>3, <1>4, <1>5, <1>6, <1>7, <1>8, <1>9, <1>10, <1>11, <1>12, <1>13, <1>14 DEF
       FilterInv

LEMMA UnloadWaitsKeeps ==
  ASSUME FilterInv, UnloadWaits
  PROVE  FilterInv'
  <1>1. /\ UNCHANGED <<fs, vol, stack, dev, lock, todo, n, mount, req, load, excused, refused, bypassed>>
        /\ (\A s : Above(s)' = Above(s)) /\ (\A e : Attached(e)' <=> Attached(e))
        /\ u.pc = "detach" /\ u.work = {} /\ u' = [u EXCEPT !.pc = "delete", !.work = u.list]
    BY StacksSame DEF UnloadWaits, devices, OthersOfUnload, system, ghosts
  <1>2. /\ u' \in UTypes
        /\ u'.pc = "delete"
        /\ u'.list = u.list
        /\ u'.work = u.list
    BY <1>1, OneAbove DEF UTypes
  <1>3. TypeOK'
    <2>1. RestTyped'
      BY <1>1, <1>2, OneAbove, FilterApart, PlacedWhere DEF RestTyped
    <2>2. /\ lock' = "n" <=> n'.pc \in {"attachVolume", "drop"}
          /\ \A w \in Volumes : lock' = w <=> mount'[w].pc \in {"attach", "drop"}
      BY <1>1, <1>2, TypesAre, FilterApart DEF FilterInv, FilterTypes, FilterPlaces,
         NotifyPlaces, MountPlaces, UnloadPlaces
    <2> QED
      BY <1>1, <1>2, <2>1, <2>2, TypesAre, FilterApart DEF FilterInv, FilterTypes
  <1>4. FilterPlaces'
    BY <1>1, <1>2, FilterApart, PlacedWhere DEF FilterInv, FilterPlaces, NotifyPlaces,
       MountPlaces, UnloadPlaces, Serving
  <1>5. Sited'
    BY <1>1, <1>2, FilterApart, PlacedWhere DEF FilterInv, Sited
  <1>6. Held'
    BY <1>1, <1>2, FilterApart, PlacedWhere DEF FilterInv, Held, InHand, Serving, Placed,
       Sited, FilterPlaces, NotifyPlaces, MountPlaces, UnloadPlaces
  <1>7. Vacant'
    BY <1>1, <1>2, FilterApart, PlacedWhere DEF FilterInv, Vacant, StacksShort, VacantFs,
       VacantVolumes, VolumesFlagged, Placed, FilterPlaces, NotifyPlaces, MountPlaces,
       UnloadPlaces, Sited, Held, InHand, Serving
  <1>8. Loading'
    BY <1>1, <1>2, FilterApart, PlacedWhere DEF FilterInv, Loading, Placed, FilterPlaces,
       NotifyPlaces, MountPlaces, UnloadPlaces, Sited, Vacant, StacksShort, VacantFs,
       VacantVolumes, VolumesFlagged
  <1>9. Alive'
    BY <1>1, <1>2, FilterApart, PlacedWhere DEF FilterInv, Alive, Held, InHand, Placed,
       Serving, FilterPlaces, NotifyPlaces, MountPlaces, UnloadPlaces
  <1>10. Covered'
    BY <1>1, <1>2, FilterApart, PlacedWhere DEF FilterInv, Covered, FilterPlaces,
       NotifyPlaces, MountPlaces, UnloadPlaces
  <1>11. Waiting'
    BY <1>1, <1>2, FilterApart, PlacedWhere DEF FilterInv, Waiting, FilterPlaces,
       NotifyPlaces, MountPlaces, UnloadPlaces, Sited
  <1>12. NoneForgotten'
    BY <1>1, <1>2, FilterApart, PlacedWhere DEF FilterInv, NoneForgotten, FilterPlaces,
       NotifyPlaces, MountPlaces, UnloadPlaces
  <1>13. UnloadDetachable'
    BY <1>1, <1>2, FilterApart, PlacedWhere DEF FilterInv, UnloadDetachable, FilterPlaces,
       NotifyPlaces, MountPlaces, UnloadPlaces, NoneForgotten
  <1>14. NoBypass'
    BY <1>1, <1>2, FilterApart, PlacedWhere DEF FilterInv, NoBypass
  <1> QED
    BY <1>3, <1>4, <1>5, <1>6, <1>7, <1>8, <1>9, <1>10, <1>11, <1>12, <1>13, <1>14 DEF
       FilterInv

-----------------------------------------------------------------------------
(* Steps that make, attach and delete devices.                             *)

LEMMA NotifyMakesKeeps ==
  ASSUME FilterInv, NEW f \in Fs, NEW d \in Devices, n.pc = "idle", f \in todo, Creates(d, FALSE),
         n' = [NIdle EXCEPT !.pc = "attach", !.fs = f, !.dev = d],
         UNCHANGED <<todo, refused, system, stack, Others, excused, bypassed>>
  PROVE  FilterInv'
  <1>1. /\ UNCHANGED <<fs, vol, stack, lock, todo, mount, req, load, u, excused, refused, bypassed>>
        /\ (\A s : Above(s)' = Above(s)) /\ (\A e : Attached(e)' <=> Attached(e))
        /\ n.pc = "idle" /\ u.pc = "idle" /\ f \in todo
    BY StacksSame DEF system, Others, FilterInv, FilterPlaces, NotifyPlaces, MountPlaces,
       UnloadPlaces
  <1>2. /\ n' \in NTypes
        /\ n'.pc = "attach"
        /\ n'.fs = f
        /\ n'.dev = d
        /\ n'.list = {}
        /\ n'.vol = None
        /\ n'.new = None
    BY OneAbove, FilterApart, PlacedWhere DEF NTypes, NIdle
  <1>3. dev[d].st = "none"
        /\ dev' \in DevTypes
        /\ dev'[d].st = "live"
        /\ dev'[d].to = None
        /\ dev'[d].flag = FALSE
        /\ (\A e \in Devices \ {d} : dev'[e] = dev[e])
    BY MadeOf DEF FilterInv
  <1>4. TypeOK'
    <2>1. RestTyped'
      BY <1>1, <1>2, <1>3, OneAbove, FilterApart, PlacedWhere DEF RestTyped, Sited,
         FilterPlaces, NotifyPlaces, MountPlaces, UnloadPlaces, Held, InHand, Serving,
         Placed, Waiting, Loading
    <2>2. /\ lock' = "n" <=> n'.pc \in {"attachVolume", "drop"}
          /\ \A w \in Volumes : lock' = w <=> mount'[w].pc \in {"attach", "drop"}
      BY <1>1, <1>2, <1>3, TypesAre, FilterApart DEF FilterInv, FilterTypes, FilterPlaces,
         NotifyPlaces, MountPlaces, UnloadPlaces, Sited, Held, InHand, Serving, Placed,
         Waiting, Loading
    <2> QED
      BY <1>1, <1>2, <1>3, <2>1, <2>2, TypesAre, FilterApart DEF FilterInv, FilterTypes,
         Sited, FilterPlaces, NotifyPlaces, MountPlaces, UnloadPlaces, Held, InHand,
         Serving, Placed, Waiting, Loading
  <1>5. FilterPlaces'
    BY <1>1, <1>2, <1>3, FilterApart, PlacedWhere DEF FilterInv, FilterPlaces, NotifyPlaces,
       MountPlaces, UnloadPlaces, Serving, Sited, Held, InHand, Placed, Waiting, Loading
  <1>6. Sited'
    BY <1>1, <1>2, <1>3, FilterApart, PlacedWhere DEF FilterInv, Sited, FilterPlaces,
       NotifyPlaces, MountPlaces, UnloadPlaces, Held, InHand, Serving, Placed, Waiting,
       Loading
  <1>7. Held'
    BY <1>1, <1>2, <1>3, FilterApart, PlacedWhere DEF FilterInv, Held, InHand, Serving,
       Placed, Sited, FilterPlaces, NotifyPlaces, MountPlaces, UnloadPlaces, Waiting,
       Loading
  <1>8. Vacant'
    BY <1>1, <1>2, <1>3, FilterApart, PlacedWhere DEF FilterInv, Vacant, StacksShort,
       VacantFs, VacantVolumes, VolumesFlagged, Placed, Sited, FilterPlaces, NotifyPlaces,
       MountPlaces, UnloadPlaces, Held, InHand, Serving, Waiting, Loading
  <1>9. Loading'
    BY <1>1, <1>2, <1>3, FilterApart, PlacedWhere DEF FilterInv, Loading, Placed, Sited,
       FilterPlaces, NotifyPlaces, MountPlaces, UnloadPlaces, Held, InHand, Serving, Waiting
  <1>10. Alive'
    BY <1>1, <1>2, <1>3, FilterApart, PlacedWhere DEF FilterInv, Alive, Sited, FilterPlaces,
       NotifyPlaces, MountPlaces, UnloadPlaces, Held, InHand, Serving, Placed, Waiting,
       Loading
  <1>11. Covered'
    BY <1>1, <1>2, <1>3, FilterApart, PlacedWhere DEF FilterInv, Covered, Sited,
       FilterPlaces, NotifyPlaces, MountPlaces, UnloadPlaces, Held, InHand, Serving, Placed,
       Waiting, Loading
  <1>12. Waiting'
    BY <1>1, <1>2, <1>3, FilterApart, PlacedWhere DEF FilterInv, Waiting, Sited,
       FilterPlaces, NotifyPlaces, MountPlaces, UnloadPlaces, Held, InHand, Serving, Placed,
       Loading
  <1>13. NoneForgotten'
    BY <1>1, <1>2, <1>3, FilterApart, PlacedWhere DEF FilterInv, NoneForgotten, Sited,
       FilterPlaces, NotifyPlaces, MountPlaces, UnloadPlaces, Held, InHand, Serving, Placed,
       Waiting, Loading
  <1>14. UnloadDetachable'
    BY <1>1, <1>2, <1>3, FilterApart, PlacedWhere DEF FilterInv, UnloadDetachable, Sited,
       FilterPlaces, NotifyPlaces, MountPlaces, UnloadPlaces, Held, InHand, Serving, Placed,
       Waiting, Loading
  <1>15. NoBypass'
    BY <1>1, <1>2, <1>3, FilterApart, PlacedWhere DEF FilterInv, NoBypass, Sited,
       FilterPlaces, NotifyPlaces, MountPlaces, UnloadPlaces, Held, InHand, Serving, Placed,
       Waiting, Loading
  <1> QED
    BY <1>4, <1>5, <1>6, <1>7, <1>8, <1>9, <1>10, <1>11, <1>12, <1>13, <1>14, <1>15 DEF
       FilterInv

LEMMA NotifyRefusesKeeps ==
  ASSUME FilterInv, NEW f \in Fs, NEW d \in Devices, n.pc = "idle", f \in todo, Creates(d, FALSE),
         refused' = refused \cup {d}, todo' = todo \ {f},
         UNCHANGED <<n, system, stack, Others, excused, bypassed>>
  PROVE  FilterInv'
  <1>1. /\ UNCHANGED <<fs, vol, stack, lock, n, mount, req, load, u, excused, bypassed>>
        /\ (\A s : Above(s)' = Above(s)) /\ (\A e : Attached(e)' <=> Attached(e))
        /\ n.pc = "idle" /\ u.pc = "idle" /\ f \in todo
        /\ refused' = refused \cup {d} /\ todo' = todo \ {f}
    BY StacksSame DEF system, Others, FilterInv, FilterPlaces, NotifyPlaces, MountPlaces,
       UnloadPlaces
  <1>2. dev[d].st = "none"
        /\ dev' \in DevTypes
        /\ dev'[d].st = "live"
        /\ dev'[d].to = None
        /\ dev'[d].flag = FALSE
        /\ (\A e \in Devices \ {d} : dev'[e] = dev[e])
    BY MadeOf DEF FilterInv
  <1>3. TypeOK'
    <2>1. RestTyped'
      BY <1>1, <1>2, OneAbove, FilterApart, PlacedWhere DEF RestTyped, Sited, FilterPlaces,
         NotifyPlaces, MountPlaces, UnloadPlaces, Held, InHand, Serving, Placed, Waiting,
         Loading
    <2>2. /\ lock' = "n" <=> n'.pc \in {"attachVolume", "drop"}
          /\ \A w \in Volumes : lock' = w <=> mount'[w].pc \in {"attach", "drop"}
      BY <1>1, <1>2, TypesAre, FilterApart DEF FilterInv, FilterTypes, FilterPlaces,
         NotifyPlaces, MountPlaces, UnloadPlaces, Sited, Held, InHand, Serving, Placed,
         Waiting, Loading
    <2> QED
      BY <1>1, <1>2, <2>1, <2>2, TypesAre, FilterApart DEF FilterInv, FilterTypes, Sited,
         FilterPlaces, NotifyPlaces, MountPlaces, UnloadPlaces, Held, InHand, Serving,
         Placed, Waiting, Loading
  <1>4. FilterPlaces'
    BY <1>1, <1>2, FilterApart, PlacedWhere DEF FilterInv, FilterPlaces, NotifyPlaces,
       MountPlaces, UnloadPlaces, Serving, Sited, Held, InHand, Placed, Waiting, Loading
  <1>5. Sited'
    BY <1>1, <1>2, FilterApart, PlacedWhere DEF FilterInv, Sited, FilterPlaces,
       NotifyPlaces, MountPlaces, UnloadPlaces, Held, InHand, Serving, Placed, Waiting,
       Loading
  <1>6. Held'
    BY <1>1, <1>2, FilterApart, PlacedWhere DEF FilterInv, Held, InHand, Serving, Placed,
       Sited, FilterPlaces, NotifyPlaces, MountPlaces, UnloadPlaces, Waiting, Loading
  <1>7. Vacant'
    BY <1>1, <1>2, FilterApart, PlacedWhere DEF FilterInv, Vacant, StacksShort, VacantFs,
       VacantVolumes, VolumesFlagged, Placed, Sited, FilterPlaces, NotifyPlaces,
       MountPlaces, UnloadPlaces, Held, InHand, Serving, Waiting, Loading
  <1>8. Loading'
    BY <1>1, <1>2, FilterApart, PlacedWhere DEF FilterInv, Loading, Placed, Sited,
       FilterPlaces, NotifyPlaces, MountPlaces, UnloadPlaces, Held, InHand, Serving, Waiting
  <1>9. Alive'
    BY <1>1, <1>2, FilterApart, PlacedWhere DEF FilterInv, Alive, Sited, FilterPlaces,
       NotifyPlaces, MountPlaces, UnloadPlaces, Held, InHand, Serving, Placed, Waiting,
       Loading
  <1>10. Covered'
    BY <1>1, <1>2, FilterApart, PlacedWhere DEF FilterInv, Covered, Sited, FilterPlaces,
       NotifyPlaces, MountPlaces, UnloadPlaces, Held, InHand, Serving, Placed, Waiting,
       Loading
  <1>11. Waiting'
    BY <1>1, <1>2, FilterApart, PlacedWhere DEF FilterInv, Waiting, Sited, FilterPlaces,
       NotifyPlaces, MountPlaces, UnloadPlaces, Held, InHand, Serving, Placed, Loading
  <1>12. NoneForgotten'
    BY <1>1, <1>2, FilterApart, PlacedWhere DEF FilterInv, NoneForgotten, Sited,
       FilterPlaces, NotifyPlaces, MountPlaces, UnloadPlaces, Held, InHand, Serving, Placed,
       Waiting, Loading
  <1>13. UnloadDetachable'
    BY <1>1, <1>2, FilterApart, PlacedWhere DEF FilterInv, UnloadDetachable, Sited,
       FilterPlaces, NotifyPlaces, MountPlaces, UnloadPlaces, Held, InHand, Serving, Placed,
       Waiting, Loading
  <1>14. NoBypass'
    BY <1>1, <1>2, FilterApart, PlacedWhere DEF FilterInv, NoBypass, Sited, FilterPlaces,
       NotifyPlaces, MountPlaces, UnloadPlaces, Held, InHand, Serving, Placed, Waiting,
       Loading
  <1> QED
    BY <1>3, <1>4, <1>5, <1>6, <1>7, <1>8, <1>9, <1>10, <1>11, <1>12, <1>13, <1>14 DEF
       FilterInv

LEMMA NotifyCreatesKeeps ==
  ASSUME FilterInv, NEW f \in Fs, NotifyCreates(f)
  PROVE  FilterInv'
  BY NotifyMakesKeeps, NotifyRefusesKeeps DEF NotifyCreates

LEMMA NotifyAttachesKeeps ==
  ASSUME FilterInv, NotifyAttaches
  PROVE  FilterInv'
  <1>1. /\ UNCHANGED <<fs, vol, lock, todo, mount, req, load, u, excused, refused, bypassed>>
        /\ n.pc = "attach" /\ n.fs \in Fs /\ n.fs \in todo /\ u.pc = "idle"
        /\ n' = [n EXCEPT !.pc = "flag"]
    BY DEF NotifyAttaches, system, Others, ghosts, FilterInv, FilterPlaces, NotifyPlaces,
       MountPlaces, UnloadPlaces, TypeOK
  <1>2. n.dev \in Devices
        /\ n.fs \in Targets
        /\ n.dev # None
    BY <1>1, PlacedWhere, FilterApart
  <1>3. Attaches(n.dev, n.fs)
        /\ (n.fs \in Volumes => vol[n.fs] = "mounted")
    BY <1>2, AttachSteps DEF NotifyAttaches, FilterInv
  <1>4. dev[n.dev].to = None
        /\ dev[n.dev].st # "none"
        /\ (u.pc = "idle" => dev[n.dev].st = "live")
    BY <1>1, <1>2, FilterApart DEF FilterInv, Held, Serving, InHand
  <1>5. stack[n.fs] = <<>>
        /\ Above(n.fs) = {}
        /\ (\A s \in Targets : n.dev \notin Above(s))
    BY <1>1, <1>2, <1>4, OneAbove, FilterApart DEF FilterInv, Vacant, StacksShort, VacantFs,
       VacantVolumes, VolumesFlagged, FilterPlaces, NotifyPlaces, MountPlaces, UnloadPlaces,
       Placed, Sited
  <1>6. Sited'
        /\ Alive'
        /\ (\A x \in Devices : x # n.dev => (InHand(x)' <=> InHand(x)))
        /\ (\A s \in Targets : Above(s) \subseteq Devices
        /\ Above(s)' \subseteq Devices)
    BY <1>1, <1>2, <1>3, <1>4, <1>5, AttachSited
  <1>7. /\ n' \in NTypes
        /\ n'.pc = "flag"
        /\ n'.fs = n.fs
        /\ n'.dev = n.dev
        /\ n'.list = n.list
        /\ n'.vol = n.vol
        /\ n'.new = n.new
    BY <1>1, OneAbove, FilterApart, PlacedWhere DEF NTypes
  <1>8. TypeOK'
    <2>1. RestTyped'
      BY <1>1, <1>2, <1>3, <1>4, <1>5, <1>6, <1>7, OneAbove, FilterApart, PlacedWhere DEF
         RestTyped, Attaches, Sits, StackGains
    <2>2. /\ lock' = "n" <=> n'.pc \in {"attachVolume", "drop"}
          /\ \A w \in Volumes : lock' = w <=> mount'[w].pc \in {"attach", "drop"}
      BY <1>1, <1>2, <1>3, <1>4, <1>5, <1>6, <1>7, TypesAre, FilterApart DEF FilterInv,
         FilterTypes, FilterPlaces, NotifyPlaces, MountPlaces, UnloadPlaces, Attaches, Sits,
         StackGains
    <2> QED
      BY <1>1, <1>2, <1>3, <1>4, <1>5, <1>6, <1>7, <2>1, <2>2, TypesAre, FilterApart DEF
         FilterInv, FilterTypes, Attaches, Sits, StackGains
  <1>9. FilterPlaces'
    <2>1. NotifyPlaces'
      BY <1>1, <1>2, <1>3, <1>4, <1>5, <1>6, <1>7 DEF FilterInv, FilterPlaces, NotifyPlaces,
         Serving
    <2>2. MountPlaces'
      <3>1. \A w \in Volumes : w # n.fs => stack'[w] = stack[w]
        BY <1>3, FilterApart DEF Attaches, StackGains
      <3> QED
        BY <1>1, <1>2, <1>3, <1>4, <1>5, <1>6, <1>7, <3>1 DEF FilterInv, FilterPlaces,
           MountPlaces
    <2>3. UnloadPlaces'
      <3>1. u.list \subseteq Devices
        BY OneAbove DEF UTypes
      <3> QED
        BY <1>1, <1>2, <1>3, <1>4, <1>5, <1>6, <1>7, <3>1 DEF FilterInv, FilterPlaces,
           UnloadPlaces, Attaches, Sits
    <2> QED
      BY <2>1, <2>2, <2>3 DEF FilterPlaces, NotifyPlaces, MountPlaces, UnloadPlaces
  <1>10. Sited'
    BY <1>1, <1>2, <1>3, <1>4, <1>6
  <1>11. Held'
    BY <1>1, <1>2, <1>3, <1>4, <1>5, <1>6, <1>7, FilterApart, PlacedWhere DEF FilterInv,
       Held, InHand, Serving, Placed, Attaches, AboveGains, Sits, FilterPlaces,
       NotifyPlaces, MountPlaces, UnloadPlaces
  <1>12. Vacant'
    <2>1. StacksShort'
      BY <1>1, <1>2, <1>3, <1>4, <1>5, <1>6, <1>7 DEF FilterInv, Vacant, StacksShort,
         Attaches, StackGains
    <2>2. VacantFs'
      <3>1. \A f \in Fs : f # n.fs => stack'[f] = stack[f]
        BY <1>3, FilterApart DEF Attaches, StackGains
      <3> QED
        BY <1>1, <1>2, <1>3, <1>4, <1>5, <1>6, <1>7, <3>1, FilterApart DEF FilterInv,
           Vacant, VacantFs, Placed, FilterPlaces, NotifyPlaces
    <2>3. VacantVolumes'
      <3>1. n.pc = "attachVolume" => lock = "n" /\ n.vol \in Volumes
        BY PlacedWhere, TypesAre DEF FilterInv, FilterTypes, Serving
      <3>2. \A w \in Volumes : mount[w].pc = "attach" => lock = w
        BY TypesAre DEF FilterInv, FilterTypes
      <3> QED
        BY <1>1, <1>2, <1>3, <1>4, <1>5, <1>6, <1>7, <3>1, <3>2, FilterApart DEF FilterInv,
           Vacant, VacantVolumes, Attaches, StackGains
    <2>4. VolumesFlagged'
      BY <1>1, <1>2, <1>3, <1>4, <1>5, <1>6, <1>7, FilterApart DEF FilterInv, Vacant,
         VolumesFlagged, Attaches, AboveGains, Sits
    <2> QED
      BY <2>1, <2>2, <2>3, <2>4 DEF Vacant, StacksShort, VacantFs, VacantVolumes,
         VolumesFlagged
  <1>13. Loading'
    <2>1. load.pc = "below" => load.dev \in Devices /\ load.dev # n.dev /\ dev[load.dev].to # n.fs
      BY <1>1, <1>2, <1>3, <1>4, <1>5, <1>6, <1>7, PlacedWhere, FilterApart DEF FilterInv,
         Loading, Placed
    <2>2. load.pc = "below" => dev'[load.dev].st = dev[load.dev].st /\ dev'[load.dev].to = dev[load.dev].to
      BY <1>3, <2>1 DEF Attaches, Sits
    <2>3. \A f \in Recognizers : f # n.fs => \A e : e \in Above(f)' => e \in Above(f)
      BY <1>3, FilterApart DEF Attaches, AboveGains
    <2> QED
      BY <1>1, <1>2, <1>3, <1>4, <1>5, <1>6, <1>7, <2>1, <2>2, <2>3, FilterApart DEF
         FilterInv, Loading, Placed
  <1>14. Alive'
    BY <1>1, <1>2, <1>3, <1>4, <1>6
  <1>15. Covered'
    <2>1. \A w \in Volumes : FsOf[w] \notin Recognizers /\ (\E e \in Above(FsOf[w])' : dev'[e].flag)
                             => \E e \in Above(FsOf[w]) : dev[e].flag
      <3>1. \A w \in Volumes : FsOf[w] \in Targets
        BY FilterApart
      <3>2. \A e \in Devices : dev'[e].flag = dev[e].flag
        BY <1>3 DEF Attaches, Sits
      <3>3. \A s \in Targets, e \in Devices : e \in Above(s)' => e \in Above(s) \/ (s = n.fs /\ e = n.dev)
        BY <1>3 DEF Attaches, AboveGains
      <3> QED
        BY <1>1, <1>2, <1>3, <1>4, <1>5, <1>6, <1>7, <3>1, <3>2, <3>3, FilterApart DEF
           FilterInv, Held
    <2>2. \A s \in Targets : stack[s] # <<>> => stack'[s] # <<>>
      BY <1>3 DEF Attaches, StackGains
    <2>3. stack'[n.fs] # <<>>
      BY <1>3 DEF Attaches, StackGains
    <2> QED
      BY <1>1, <1>2, <1>3, <1>4, <1>5, <1>6, <1>7, <2>1, <2>2, <2>3, FilterApart DEF
         FilterInv, Covered
  <1>16. Waiting'
    BY <1>1, <1>2, <1>3, <1>4, <1>5, <1>6, <1>7, FilterApart, PlacedWhere DEF FilterInv,
       Waiting, Attaches, Sits
  <1>17. NoneForgotten'
    BY <1>1, <1>2, <1>3, <1>4, <1>5, <1>6, <1>7, FilterApart, PlacedWhere DEF FilterInv,
       NoneForgotten, Attaches, Sits
  <1>18. UnloadDetachable'
    <2>1. \A e \in Devices : dev'[e].st = dev[e].st /\ (Attached(e)' <=> Attached(e) \/ e = n.dev)
      BY <1>3 DEF Attaches, Sits
    <2>2. u.work \subseteq Devices
      BY OneAbove DEF UTypes
    <2> QED
      BY <1>1, <1>2, <1>3, <1>4, <1>5, <1>6, <1>7, <2>1, <2>2 DEF FilterInv,
         UnloadDetachable
  <1>19. NoBypass'
    BY <1>1, <1>2, <1>3, <1>4, <1>5, <1>6, <1>7, FilterApart, PlacedWhere DEF FilterInv,
       NoBypass
  <1> QED
    BY <1>8, <1>9, <1>10, <1>11, <1>12, <1>13, <1>14, <1>15, <1>16, <1>17, <1>18, <1>19 DEF
       FilterInv

LEMMA EnumAttachesKeeps ==
  ASSUME FilterInv, EnumAttaches
  PROVE  FilterInv'
  <1>1. /\ UNCHANGED <<fs, vol, todo, mount, req, load, u, excused, refused, bypassed>>
        /\ n.pc = "attachVolume" /\ lock' = "free"
        /\ n' = EnumNext
    BY DEF EnumAttaches, system, ghosts
  <1>2. n.new \in Devices
        /\ n.vol \in Targets
        /\ n.new # None
    BY <1>1, PlacedWhere, FilterApart DEF Serving
  <1>3. Attaches(n.new, n.vol)
        /\ (n.vol \in Volumes => vol[n.vol] = "mounted")
    BY <1>2, AttachSteps DEF EnumAttaches, FilterInv
  <1>4. dev[n.new].to = None
        /\ dev[n.new].st # "none"
        /\ (u.pc = "idle" => dev[n.new].st = "live")
    BY <1>1, <1>2, FilterApart DEF FilterInv, Held, Serving, InHand
  <1>5. stack[n.vol] = <<>>
        /\ Above(n.vol) = {}
        /\ (\A s \in Targets : n.new \notin Above(s))
    BY <1>1, <1>2, <1>4, OneAbove, FilterApart DEF FilterInv, Vacant, StacksShort, VacantFs,
       VacantVolumes, VolumesFlagged, FilterPlaces, NotifyPlaces, MountPlaces, UnloadPlaces,
       Placed, Sited
  <1>6. Sited'
        /\ Alive'
        /\ (\A x \in Devices : x # n.new => (InHand(x)' <=> InHand(x)))
        /\ (\A s \in Targets : Above(s) \subseteq Devices
        /\ Above(s)' \subseteq Devices)
    BY <1>1, <1>2, <1>3, <1>4, <1>5, AttachSited
  <1>7. n.vol \in Volumes
        /\ n.vol \notin Fs
        /\ n.fs # n.vol
        /\ n.fs \in Fs
        /\ dev[n.new].flag
        /\ u.pc = "idle"
    BY <1>1, PlacedWhere, FilterApart DEF FilterInv, FilterPlaces, NotifyPlaces,
       MountPlaces, UnloadPlaces, Held, Serving
  <1>8. /\ n' \in NTypes
        /\ n'.pc = "each"
        /\ n'.fs = n.fs
        /\ n'.dev = n.dev
        /\ n'.list = n.list
        /\ n'.vol = None
        /\ n'.new = None
    BY <1>1, OneAbove, FilterApart, PlacedWhere DEF NTypes, EnumNext
  <1>9. TypeOK'
    <2>1. RestTyped'
      BY <1>1, <1>2, <1>3, <1>4, <1>5, <1>6, <1>7, <1>8, OneAbove, FilterApart, PlacedWhere
         DEF RestTyped, Attaches, Sits, StackGains
    <2>2. /\ lock' = "n" <=> n'.pc \in {"attachVolume", "drop"}
          /\ \A w \in Volumes : lock' = w <=> mount'[w].pc \in {"attach", "drop"}
      BY <1>1, <1>2, <1>3, <1>4, <1>5, <1>6, <1>7, <1>8, TypesAre, FilterApart DEF
         FilterInv, FilterTypes, FilterPlaces, NotifyPlaces, MountPlaces, UnloadPlaces,
         Attaches, Sits, StackGains
    <2> QED
      BY <1>1, <1>2, <1>3, <1>4, <1>5, <1>6, <1>7, <1>8, <2>1, <2>2, TypesAre, FilterApart
         DEF FilterInv, FilterTypes, Attaches, Sits, StackGains
  <1>10. FilterPlaces'
    <2>1. NotifyPlaces'
      BY <1>1, <1>2, <1>3, <1>4, <1>5, <1>6, <1>7, <1>8 DEF FilterInv, FilterPlaces,
         NotifyPlaces, Serving
    <2>2. MountPlaces'
      <3>1. \A w \in Volumes : w # n.vol => stack'[w] = stack[w]
        BY <1>3, FilterApart DEF Attaches, StackGains
      <3> QED
        BY <1>1, <1>2, <1>3, <1>4, <1>5, <1>6, <1>7, <1>8, <3>1 DEF FilterInv, FilterPlaces,
           MountPlaces
    <2>3. UnloadPlaces'
      <3>1. u.list \subseteq Devices
        BY OneAbove DEF UTypes
      <3> QED
        BY <1>1, <1>2, <1>3, <1>4, <1>5, <1>6, <1>7, <1>8, <3>1 DEF FilterInv, FilterPlaces,
           UnloadPlaces, Attaches, Sits
    <2> QED
      BY <2>1, <2>2, <2>3 DEF FilterPlaces, NotifyPlaces, MountPlaces, UnloadPlaces
  <1>11. Sited'
    BY <1>1, <1>2, <1>3, <1>4, <1>6
  <1>12. Held'
    BY <1>1, <1>2, <1>3, <1>4, <1>5, <1>6, <1>7, <1>8, FilterApart, PlacedWhere DEF
       FilterInv, Held, InHand, Serving, Placed, Attaches, AboveGains, Sits, FilterPlaces,
       NotifyPlaces, MountPlaces, UnloadPlaces
  <1>13. Vacant'
    <2>1. StacksShort'
      BY <1>1, <1>2, <1>3, <1>4, <1>5, <1>6, <1>7, <1>8 DEF FilterInv, Vacant, StacksShort,
         Attaches, StackGains
    <2>2. VacantFs'
      <3>1. \A f \in Fs : f # n.vol => stack'[f] = stack[f]
        BY <1>3, FilterApart DEF Attaches, StackGains
      <3> QED
        BY <1>1, <1>2, <1>3, <1>4, <1>5, <1>6, <1>7, <1>8, <3>1, FilterApart DEF FilterInv,
           Vacant, VacantFs, Placed, FilterPlaces, NotifyPlaces
    <2>3. VacantVolumes'
      <3>1. n.pc = "attachVolume" => lock = "n" /\ n.vol \in Volumes
        BY PlacedWhere, TypesAre DEF FilterInv, FilterTypes, Serving
      <3>2. \A w \in Volumes : mount[w].pc = "attach" => lock = w
        BY TypesAre DEF FilterInv, FilterTypes
      <3> QED
        BY <1>1, <1>2, <1>3, <1>4, <1>5, <1>6, <1>7, <1>8, <3>1, <3>2, FilterApart DEF
           FilterInv, Vacant, VacantVolumes, Attaches, StackGains
    <2>4. VolumesFlagged'
      BY <1>1, <1>2, <1>3, <1>4, <1>5, <1>6, <1>7, <1>8, FilterApart DEF FilterInv, Vacant,
         VolumesFlagged, Attaches, AboveGains, Sits
    <2> QED
      BY <2>1, <2>2, <2>3, <2>4 DEF Vacant, StacksShort, VacantFs, VacantVolumes,
         VolumesFlagged
  <1>14. Loading'
    <2>1. load.pc = "below" => load.dev \in Devices /\ load.dev # n.new /\ dev[load.dev].to # n.vol
      BY <1>1, <1>2, <1>3, <1>4, <1>5, <1>6, <1>7, <1>8, PlacedWhere, FilterApart DEF
         FilterInv, Loading, Placed
    <2>2. load.pc = "below" => dev'[load.dev].st = dev[load.dev].st /\ dev'[load.dev].to = dev[load.dev].to
      BY <1>3, <2>1 DEF Attaches, Sits
    <2>3. \A f \in Recognizers : f # n.vol => \A e : e \in Above(f)' => e \in Above(f)
      BY <1>3, FilterApart DEF Attaches, AboveGains
    <2> QED
      BY <1>1, <1>2, <1>3, <1>4, <1>5, <1>6, <1>7, <1>8, <2>1, <2>2, <2>3, FilterApart DEF
         FilterInv, Loading, Placed
  <1>15. Alive'
    BY <1>1, <1>2, <1>3, <1>4, <1>6
  <1>16. Covered'
    <2>1. \A w \in Volumes : FsOf[w] \notin Recognizers /\ (\E e \in Above(FsOf[w])' : dev'[e].flag)
                             => \E e \in Above(FsOf[w]) : dev[e].flag
      <3>1. \A w \in Volumes : FsOf[w] \in Targets
        BY FilterApart
      <3>2. \A e \in Devices : dev'[e].flag = dev[e].flag
        BY <1>3 DEF Attaches, Sits
      <3>3. \A s \in Targets, e \in Devices : e \in Above(s)' => e \in Above(s) \/ (s = n.vol /\ e = n.new)
        BY <1>3 DEF Attaches, AboveGains
      <3> QED
        BY <1>1, <1>2, <1>3, <1>4, <1>5, <1>6, <1>7, <1>8, <3>1, <3>2, <3>3, FilterApart DEF
           FilterInv, Held
    <2>2. \A s \in Targets : stack[s] # <<>> => stack'[s] # <<>>
      BY <1>3 DEF Attaches, StackGains
    <2>3. stack'[n.vol] # <<>>
      BY <1>3 DEF Attaches, StackGains
    <2> QED
      BY <1>1, <1>2, <1>3, <1>4, <1>5, <1>6, <1>7, <1>8, <2>1, <2>2, <2>3, FilterApart DEF
         FilterInv, Covered
  <1>17. Waiting'
    BY <1>1, <1>2, <1>3, <1>4, <1>5, <1>6, <1>7, <1>8, FilterApart, PlacedWhere DEF
       FilterInv, Waiting, Attaches, Sits
  <1>18. NoneForgotten'
    BY <1>1, <1>2, <1>3, <1>4, <1>5, <1>6, <1>7, <1>8, FilterApart, PlacedWhere DEF
       FilterInv, NoneForgotten, Attaches, Sits
  <1>19. UnloadDetachable'
    <2>1. \A e \in Devices : dev'[e].st = dev[e].st /\ (Attached(e)' <=> Attached(e) \/ e = n.new)
      BY <1>3 DEF Attaches, Sits
    <2>2. u.work \subseteq Devices
      BY OneAbove DEF UTypes
    <2> QED
      BY <1>1, <1>2, <1>3, <1>4, <1>5, <1>6, <1>7, <1>8, <2>1, <2>2 DEF FilterInv,
         UnloadDetachable
  <1>20. NoBypass'
    BY <1>1, <1>2, <1>3, <1>4, <1>5, <1>6, <1>7, <1>8, FilterApart, PlacedWhere DEF
       FilterInv, NoBypass
  <1> QED
    BY <1>9, <1>10, <1>11, <1>12, <1>13, <1>14, <1>15, <1>16, <1>17, <1>18, <1>19, <1>20 DEF
       FilterInv

LEMMA MountAttachesKeeps ==
  ASSUME FilterInv, NEW v \in Volumes, MountAttaches(v)
  PROVE  FilterInv'
  <1>1. /\ UNCHANGED <<fs, vol, todo, n, req, load, u, excused, refused, bypassed>>
        /\ mount[v].pc = "attach" /\ lock' = "free"
        /\ mount' = [mount EXCEPT ![v] = MIdle]
    BY DEF MountAttaches, system, OthersOfMount, ghosts
  <1>2. mount[v].dev \in Devices
        /\ v \in Targets
        /\ mount[v].dev # None
    BY <1>1, PlacedWhere, FilterApart DEF FilterInv, FilterPlaces, NotifyPlaces,
       MountPlaces, UnloadPlaces
  <1>3. Attaches(mount[v].dev, v)
        /\ (v \in Volumes => vol[v] = "mounted")
    BY <1>2, AttachSteps DEF MountAttaches, FilterInv
  <1>4. dev[mount[v].dev].to = None
        /\ dev[mount[v].dev].st # "none"
        /\ (u.pc = "idle" => dev[mount[v].dev].st = "live")
    BY <1>1, <1>2, FilterApart DEF FilterInv, Held, Serving, InHand
  <1>5. stack[v] = <<>>
        /\ Above(v) = {}
        /\ (\A s \in Targets : mount[v].dev \notin Above(s))
    BY <1>1, <1>2, <1>4, OneAbove, FilterApart DEF FilterInv, Vacant, StacksShort, VacantFs,
       VacantVolumes, VolumesFlagged, FilterPlaces, NotifyPlaces, MountPlaces, UnloadPlaces,
       Placed, Sited
  <1>6. Sited'
        /\ Alive'
        /\ (\A x \in Devices : x # mount[v].dev => (InHand(x)' <=> InHand(x)))
        /\ (\A s \in Targets : Above(s) \subseteq Devices
        /\ Above(s)' \subseteq Devices)
    BY <1>1, <1>2, <1>3, <1>4, <1>5, AttachSited
  <1>7. v \notin Fs
        /\ dev[mount[v].dev].flag
        /\ mount[v].dev # n.new
        /\ mount[v].dev # n.dev
    BY <1>2, FilterApart DEF FilterInv, Held
  <1>8. /\ mount' \in MountTypes
        /\ mount'[v].pc = "idle"
        /\ mount'[v].via = None
        /\ mount'[v].dev = None
        /\ mount'[v].ok = FALSE
        /\ \A w \in Volumes \ {v} : mount'[w] = mount[w]
    BY <1>1, OneAbove, FilterApart DEF MountTypes, MIdle
  <1>9. TypeOK'
    <2>1. RestTyped'
      BY <1>1, <1>2, <1>3, <1>4, <1>5, <1>6, <1>7, <1>8, OneAbove, FilterApart, PlacedWhere
         DEF RestTyped, Attaches, Sits, StackGains
    <2>2. /\ lock' = "n" <=> n'.pc \in {"attachVolume", "drop"}
          /\ \A w \in Volumes : lock' = w <=> mount'[w].pc \in {"attach", "drop"}
      BY <1>1, <1>2, <1>3, <1>4, <1>5, <1>6, <1>7, <1>8, TypesAre, FilterApart DEF
         FilterInv, FilterTypes, FilterPlaces, NotifyPlaces, MountPlaces, UnloadPlaces,
         Attaches, Sits, StackGains
    <2> QED
      BY <1>1, <1>2, <1>3, <1>4, <1>5, <1>6, <1>7, <1>8, <2>1, <2>2, TypesAre, FilterApart
         DEF FilterInv, FilterTypes, Attaches, Sits, StackGains
  <1>10. FilterPlaces'
    <2>1. NotifyPlaces'
      BY <1>1, <1>2, <1>3, <1>4, <1>5, <1>6, <1>7, <1>8 DEF FilterInv, FilterPlaces,
         NotifyPlaces, Serving
    <2>2. MountPlaces'
      <3>1. \A w \in Volumes : w # v => stack'[w] = stack[w]
        BY <1>3, FilterApart DEF Attaches, StackGains
      <3> QED
        BY <1>1, <1>2, <1>3, <1>4, <1>5, <1>6, <1>7, <1>8, <3>1 DEF FilterInv, FilterPlaces,
           MountPlaces
    <2>3. UnloadPlaces'
      <3>1. u.list \subseteq Devices
        BY OneAbove DEF UTypes
      <3> QED
        BY <1>1, <1>2, <1>3, <1>4, <1>5, <1>6, <1>7, <1>8, <3>1 DEF FilterInv, FilterPlaces,
           UnloadPlaces, Attaches, Sits
    <2> QED
      BY <2>1, <2>2, <2>3 DEF FilterPlaces, NotifyPlaces, MountPlaces, UnloadPlaces
  <1>11. Sited'
    BY <1>1, <1>2, <1>3, <1>4, <1>6
  <1>12. Held'
    BY <1>1, <1>2, <1>3, <1>4, <1>5, <1>6, <1>7, <1>8, FilterApart, PlacedWhere DEF
       FilterInv, Held, InHand, Serving, Placed, Attaches, AboveGains, Sits, FilterPlaces,
       NotifyPlaces, MountPlaces, UnloadPlaces
  <1>13. Vacant'
    <2>1. StacksShort'
      BY <1>1, <1>2, <1>3, <1>4, <1>5, <1>6, <1>7, <1>8 DEF FilterInv, Vacant, StacksShort,
         Attaches, StackGains
    <2>2. VacantFs'
      <3>1. \A f \in Fs : f # v => stack'[f] = stack[f]
        BY <1>3, FilterApart DEF Attaches, StackGains
      <3> QED
        BY <1>1, <1>2, <1>3, <1>4, <1>5, <1>6, <1>7, <1>8, <3>1, FilterApart DEF FilterInv,
           Vacant, VacantFs, Placed, FilterPlaces, NotifyPlaces
    <2>3. VacantVolumes'
      <3>1. n.pc = "attachVolume" => lock = "n" /\ n.vol \in Volumes
        BY PlacedWhere, TypesAre DEF FilterInv, FilterTypes, Serving
      <3>2. \A w \in Volumes : mount[w].pc = "attach" => lock = w
        BY TypesAre DEF FilterInv, FilterTypes
      <3> QED
        BY <1>1, <1>2, <1>3, <1>4, <1>5, <1>6, <1>7, <1>8, <3>1, <3>2, FilterApart DEF
           FilterInv, Vacant, VacantVolumes, Attaches, StackGains
    <2>4. VolumesFlagged'
      BY <1>1, <1>2, <1>3, <1>4, <1>5, <1>6, <1>7, <1>8, FilterApart DEF FilterInv, Vacant,
         VolumesFlagged, Attaches, AboveGains, Sits
    <2> QED
      BY <2>1, <2>2, <2>3, <2>4 DEF Vacant, StacksShort, VacantFs, VacantVolumes,
         VolumesFlagged
  <1>14. Loading'
    <2>1. load.pc = "below" => load.dev \in Devices /\ load.dev # mount[v].dev /\ dev[load.dev].to # v
      BY <1>1, <1>2, <1>3, <1>4, <1>5, <1>6, <1>7, <1>8, PlacedWhere, FilterApart DEF
         FilterInv, Loading, Placed
    <2>2. load.pc = "below" => dev'[load.dev].st = dev[load.dev].st /\ dev'[load.dev].to = dev[load.dev].to
      BY <1>3, <2>1 DEF Attaches, Sits
    <2>3. \A f \in Recognizers : f # v => \A e : e \in Above(f)' => e \in Above(f)
      BY <1>3, FilterApart DEF Attaches, AboveGains
    <2> QED
      BY <1>1, <1>2, <1>3, <1>4, <1>5, <1>6, <1>7, <1>8, <2>1, <2>2, <2>3, FilterApart DEF
         FilterInv, Loading, Placed
  <1>15. Alive'
    BY <1>1, <1>2, <1>3, <1>4, <1>6
  <1>16. Covered'
    <2>1. \A w \in Volumes : FsOf[w] \notin Recognizers /\ (\E e \in Above(FsOf[w])' : dev'[e].flag)
                             => \E e \in Above(FsOf[w]) : dev[e].flag
      <3>1. \A w \in Volumes : FsOf[w] \in Targets
        BY FilterApart
      <3>2. \A e \in Devices : dev'[e].flag = dev[e].flag
        BY <1>3 DEF Attaches, Sits
      <3>3. \A s \in Targets, e \in Devices : e \in Above(s)' => e \in Above(s) \/ (s = v /\ e = mount[v].dev)
        BY <1>3 DEF Attaches, AboveGains
      <3> QED
        BY <1>1, <1>2, <1>3, <1>4, <1>5, <1>6, <1>7, <1>8, <3>1, <3>2, <3>3, FilterApart DEF
           FilterInv, Held
    <2>2. \A s \in Targets : stack[s] # <<>> => stack'[s] # <<>>
      BY <1>3 DEF Attaches, StackGains
    <2>3. stack'[v] # <<>>
      BY <1>3 DEF Attaches, StackGains
    <2> QED
      BY <1>1, <1>2, <1>3, <1>4, <1>5, <1>6, <1>7, <1>8, <2>1, <2>2, <2>3, FilterApart DEF
         FilterInv, Covered
  <1>17. Waiting'
    BY <1>1, <1>2, <1>3, <1>4, <1>5, <1>6, <1>7, <1>8, FilterApart, PlacedWhere DEF
       FilterInv, Waiting, Attaches, Sits
  <1>18. NoneForgotten'
    BY <1>1, <1>2, <1>3, <1>4, <1>5, <1>6, <1>7, <1>8, FilterApart, PlacedWhere DEF
       FilterInv, NoneForgotten, Attaches, Sits
  <1>19. UnloadDetachable'
    <2>1. \A e \in Devices : dev'[e].st = dev[e].st /\ (Attached(e)' <=> Attached(e) \/ e = mount[v].dev)
      BY <1>3 DEF Attaches, Sits
    <2>2. u.work \subseteq Devices
      BY OneAbove DEF UTypes
    <2> QED
      BY <1>1, <1>2, <1>3, <1>4, <1>5, <1>6, <1>7, <1>8, <2>1, <2>2 DEF FilterInv,
         UnloadDetachable
  <1>20. NoBypass'
    BY <1>1, <1>2, <1>3, <1>4, <1>5, <1>6, <1>7, <1>8, FilterApart, PlacedWhere DEF
       FilterInv, NoBypass
  <1> QED
    BY <1>9, <1>10, <1>11, <1>12, <1>13, <1>14, <1>15, <1>16, <1>17, <1>18, <1>19, <1>20 DEF
       FilterInv

LEMMA LoadFailsKeeps ==
  ASSUME FilterInv, LoadReturns(FALSE)
  PROVE  FilterInv'
  <1>1. /\ UNCHANGED <<fs, vol, lock, todo, n, mount, req, u, excused, refused, bypassed>>
        /\ load.pc = "below"
        /\ load' = [pc |-> "done", dev |-> None]
    BY DEF LoadReturns, system, ghosts
  <1>2. load.dev \in Devices
        /\ dev[load.dev].to \in Targets
        /\ load.dev # None
    BY <1>1, PlacedWhere, FilterApart DEF FilterInv, FilterPlaces, NotifyPlaces,
       MountPlaces, UnloadPlaces, Loading
  <1>3. Attaches(load.dev, dev[load.dev].to)
        /\ (dev[load.dev].to \in Volumes => vol[dev[load.dev].to] = "mounted")
    BY <1>2, AttachSteps DEF LoadReturns, FilterInv
  <1>4. dev[load.dev].to \in Recognizers
        /\ Above(dev[load.dev].to) \subseteq {load.dev}
        /\ dev[load.dev].st # "none"
    BY <1>1 DEF FilterInv, Loading
  <1>5. Sited'
        /\ Alive'
        /\ (\A x \in Devices : x # load.dev => (InHand(x)' <=> InHand(x)))
        /\ (\A s \in Targets : Above(s) \subseteq Devices
        /\ Above(s)' \subseteq Devices)
    BY <1>1, <1>2, <1>3, <1>4, AttachSited
  <1>6. TypeOK'
    <2>1. RestTyped'
      BY <1>1, <1>2, <1>3, <1>4, <1>5, OneAbove, FilterApart, PlacedWhere DEF RestTyped,
         Attaches, Sits, StackGains
    <2>2. /\ lock' = "n" <=> n'.pc \in {"attachVolume", "drop"}
          /\ \A w \in Volumes : lock' = w <=> mount'[w].pc \in {"attach", "drop"}
      BY <1>1, <1>2, <1>3, <1>4, <1>5, TypesAre, FilterApart DEF FilterInv, FilterTypes,
         FilterPlaces, NotifyPlaces, MountPlaces, UnloadPlaces, Attaches, Sits, StackGains
    <2> QED
      BY <1>1, <1>2, <1>3, <1>4, <1>5, <2>1, <2>2, TypesAre, FilterApart DEF FilterInv,
         FilterTypes, Attaches, Sits, StackGains
  <1>7. FilterPlaces'
    <2>1. NotifyPlaces'
      BY <1>1, <1>2, <1>3, <1>4, <1>5 DEF FilterInv, FilterPlaces, NotifyPlaces, Serving
    <2>2. MountPlaces'
      <3>1. \A w \in Volumes : w # dev[load.dev].to => stack'[w] = stack[w]
        BY <1>3, FilterApart DEF Attaches, StackGains
      <3> QED
        BY <1>1, <1>2, <1>3, <1>4, <1>5, <3>1 DEF FilterInv, FilterPlaces, MountPlaces
    <2>3. UnloadPlaces'
      <3>1. u.list \subseteq Devices
        BY OneAbove DEF UTypes
      <3> QED
        BY <1>1, <1>2, <1>3, <1>4, <1>5, <3>1 DEF FilterInv, FilterPlaces, UnloadPlaces,
           Attaches, Sits
    <2> QED
      BY <2>1, <2>2, <2>3 DEF FilterPlaces, NotifyPlaces, MountPlaces, UnloadPlaces
  <1>8. Sited'
    BY <1>1, <1>2, <1>3, <1>4, <1>5
  <1>9. Held'
    BY <1>1, <1>2, <1>3, <1>4, <1>5, FilterApart, PlacedWhere DEF FilterInv, Held, InHand,
       Serving, Placed, Attaches, AboveGains, Sits, FilterPlaces, NotifyPlaces, MountPlaces,
       UnloadPlaces
  <1>10. Vacant'
    <2>1. StacksShort'
      BY <1>1, <1>2, <1>3, <1>4, <1>5 DEF FilterInv, Vacant, StacksShort, Attaches,
         StackGains
    <2>2. VacantFs'
      <3>1. \A f \in Fs : f # dev[load.dev].to => stack'[f] = stack[f]
        BY <1>3, FilterApart DEF Attaches, StackGains
      <3> QED
        BY <1>1, <1>2, <1>3, <1>4, <1>5, <3>1, FilterApart DEF FilterInv, Vacant, VacantFs,
           Placed, Loading
    <2>3. VacantVolumes'
      <3>1. n.pc = "attachVolume" => lock = "n" /\ n.vol \in Volumes
        BY PlacedWhere, TypesAre DEF FilterInv, FilterTypes, Serving
      <3>2. \A w \in Volumes : mount[w].pc = "attach" => lock = w
        BY TypesAre DEF FilterInv, FilterTypes
      <3> QED
        BY <1>1, <1>2, <1>3, <1>4, <1>5, <3>1, <3>2, FilterApart DEF FilterInv, Vacant,
           VacantVolumes, Attaches, StackGains
    <2>4. VolumesFlagged'
      BY <1>1, <1>2, <1>3, <1>4, <1>5, FilterApart DEF FilterInv, Vacant, VolumesFlagged,
         Attaches, AboveGains, Sits
    <2> QED
      BY <2>1, <2>2, <2>3, <2>4 DEF Vacant, StacksShort, VacantFs, VacantVolumes,
         VolumesFlagged
  <1>11. Loading'
    BY <1>1, <1>2, <1>3, <1>4, <1>5, FilterApart, PlacedWhere DEF FilterInv, Loading,
       Placed, Attaches, AboveGains, Sits, Sited
  <1>12. Alive'
    BY <1>1, <1>2, <1>3, <1>4, <1>5
  <1>13. Covered'
    <2>1. \A w \in Volumes : FsOf[w] \notin Recognizers /\ (\E e \in Above(FsOf[w])' : dev'[e].flag)
                             => \E e \in Above(FsOf[w]) : dev[e].flag
      <3>1. \A w \in Volumes : FsOf[w] \in Targets
        BY FilterApart
      <3>2. \A e \in Devices : dev'[e].flag = dev[e].flag
        BY <1>3 DEF Attaches, Sits
      <3>3. \A s \in Targets, e \in Devices : e \in Above(s)' => e \in Above(s) \/ (s = dev[load.dev].to /\ e = load.dev)
        BY <1>3 DEF Attaches, AboveGains
      <3> QED
        BY <1>1, <1>2, <1>3, <1>4, <1>5, <3>1, <3>2, <3>3, FilterApart DEF FilterInv, Held
    <2>2. \A s \in Targets : stack[s] # <<>> => stack'[s] # <<>>
      BY <1>3 DEF Attaches, StackGains
    <2>3. stack'[dev[load.dev].to] # <<>>
      BY <1>3 DEF Attaches, StackGains
    <2> QED
      BY <1>1, <1>2, <1>3, <1>4, <1>5, <2>1, <2>2, <2>3, FilterApart DEF FilterInv, Covered
  <1>14. Waiting'
    BY <1>1, <1>2, <1>3, <1>4, <1>5, FilterApart, PlacedWhere DEF FilterInv, Waiting,
       Attaches, Sits
  <1>15. NoneForgotten'
    BY <1>1, <1>2, <1>3, <1>4, <1>5, FilterApart, PlacedWhere DEF FilterInv, NoneForgotten,
       Attaches, Sits
  <1>16. UnloadDetachable'
    <2>1. \A e \in Devices : dev'[e].st = dev[e].st /\ (Attached(e)' <=> Attached(e) \/ e = load.dev)
      BY <1>3 DEF Attaches, Sits
    <2>2. u.work \subseteq Devices
      BY OneAbove DEF UTypes
    <2> QED
      BY <1>1, <1>2, <1>3, <1>4, <1>5, <2>1, <2>2 DEF FilterInv, UnloadDetachable
  <1>17. NoBypass'
    BY <1>1, <1>2, <1>3, <1>4, <1>5, FilterApart, PlacedWhere DEF FilterInv, NoBypass
  <1> QED
    BY <1>6, <1>7, <1>8, <1>9, <1>10, <1>11, <1>12, <1>13, <1>14, <1>15, <1>16, <1>17 DEF
       FilterInv

\* A device is deleted, above no target or above the one it is detached from, and the
\* others are where they were.
Drops(d) ==
    /\ dev' \in DevTypes /\ (dev'[d].st = "dead" \/ (dev'[d].st = "none" /\ u.pc = "idle"))
    /\ \A e \in Devices \ {d} : dev'[e] = dev[e]
    /\ \A x \in Devices : x # d => (InHand(x)' <=> InHand(x))

LEMMA DropSteps ==
  ASSUME FilterInv, NEW d \in Devices, Deletes(d), UNCHANGED u
  PROVE  Drops(d)
  <1>1. dev'[d].st = "dead" \/ (dev'[d].st = "none" /\ u.pc = "idle")
    BY GoneOf, RememberedIn DEF FilterInv, DevTypes
  <1> QED
    BY <1>1, GoneOf DEF FilterInv, InHand, Drops

LEMMA DropUnattached ==
  ASSUME FilterInv, NEW d \in Devices, Drops(d), UNCHANGED <<stack, u>>,
         \A s \in Targets : d \notin Above(s)
  PROVE  Sited' /\ Alive'
  <1>1. \A s : Above(s)' = Above(s)
    BY StacksSame
  <1>2. \A s \in Targets : \A e \in Above(s) : e \in Devices /\ e # d /\ dev'[e] = dev[e]
    BY PlacedWhere DEF Drops
  <1>3. Sited'
    BY <1>1, <1>2 DEF FilterInv, Sited
  <1> QED
    BY <1>1, <1>2, <1>3 DEF FilterInv, Alive

AboveLoses(t) ==
    /\ \A s \in Targets : \A e : e \in Above(s)' <=> e \in Above(s) /\ s # t
    /\ \A s \in Targets : s # t => stack'[s] = stack[s]
    /\ stack'[t] = <<>> /\ stack' \in [Targets -> Seq(Devices)]

LEMMA DropDetached ==
  ASSUME FilterInv, NEW d \in Devices, NEW t \in Targets, Deletes(d), UNCHANGED u,
         stack' = [stack EXCEPT ![t] = <<>>], d \in Above(t)
  PROVE  /\ AboveLoses(t) /\ Drops(d) /\ Sited' /\ Alive'
         /\ \A e \in Devices \ {d} : Attached(e)' <=> Attached(e)
         /\ \A s \in Targets : s # t => \A e \in Above(s) : e # d
  <1>1. AboveLoses(t)
    BY DetachOf DEF FilterInv, AboveLoses
  <1>2. Drops(d)
    BY DropSteps
  <1>3. \A s \in Targets : s # t => \A e \in Above(s) : e # d
    BY DEF FilterInv, Sited
  <1>4. \A s \in Targets : s # t => \A e \in Above(s) : e \in Devices /\ dev'[e] = dev[e]
    BY <1>2, <1>3, PlacedWhere DEF Drops
  <1>5. Sited'
    BY <1>1, <1>4 DEF FilterInv, Sited, AboveLoses
  <1>6. Alive'
    BY <1>1, <1>4 DEF FilterInv, Alive, AboveLoses
  <1>7. Above(t) \subseteq {d}
    BY DEF FilterInv, Sited
  <1>8. \A e \in Devices \ {d} : Attached(e)' <=> Attached(e)
    BY <1>7, DetachOf DEF FilterInv
  <1> QED
    BY <1>1, <1>2, <1>3, <1>5, <1>6, <1>8

LEMMA EnumDropsKeeps ==
  ASSUME FilterInv, EnumDrops
  PROVE  FilterInv'
  <1>1. /\ UNCHANGED <<fs, vol, stack, todo, mount, req, load, u, refused, bypassed>>
        /\ (\A s : Above(s)' = Above(s)) /\ (\A e : Attached(e)' <=> Attached(e))
        /\ n.pc \in {"attachVolume", "drop"}
        /\ lock' = "free" /\ n' = EnumNext
        /\ excused' = IF n.pc = "drop" \/ vol[n.vol] # "mounted" THEN excused ELSE excused \cup {n.vol}
    BY StacksSame DEF EnumDrops, system, ghosts
  <1>2. n.new \in Devices
        /\ n.new # None
    BY <1>1, PlacedWhere, FilterApart DEF Serving
  <1>3. dev[n.new].to = None
        /\ dev[n.new].st # "none"
        /\ (\A s \in Targets : n.new \notin Above(s))
    BY <1>1, <1>2, FilterApart DEF FilterInv, Held, Serving, InHand, Sited
  <1>4. Drops(n.new)
    BY <1>1, <1>2, DropSteps DEF EnumDrops
  <1>5. Sited'
        /\ Alive'
    BY <1>1, <1>2, <1>3, <1>4, DropUnattached
  <1>6. \A s \in Targets : \A e \in Above(s) : e \in Devices
        /\ e # n.new
        /\ dev'[e] = dev[e]
    BY <1>3, <1>4, PlacedWhere DEF Drops
  <1>7. n.vol \in Volumes
        /\ u.pc = "idle"
        /\ n.fs \in Targets
    BY <1>1, PlacedWhere, FilterApart DEF FilterInv, FilterPlaces, NotifyPlaces, Serving
  <1>8. (\A v \in Volumes : mount[v].dev # None => mount[v].dev # n.new)
        /\ n.dev \in Above(n.fs)
    BY <1>1, PlacedWhere DEF FilterInv, Held, Placed
  <1>9. n.new # n.dev
    BY <1>3, <1>7, <1>8
  <1>10. /\ n' \in NTypes
        /\ n'.pc = "each"
        /\ n'.fs = n.fs
        /\ n'.dev = n.dev
        /\ n'.list = n.list
        /\ n'.vol = None
        /\ n'.new = None
    BY <1>1, OneAbove, FilterApart, PlacedWhere DEF NTypes, EnumNext
  <1>11. TypeOK'
    <2>1. RestTyped'
      BY <1>1, <1>2, <1>3, <1>4, <1>5, <1>6, <1>7, <1>8, <1>9, <1>10, OneAbove, FilterApart,
         PlacedWhere DEF RestTyped, Drops
    <2>2. /\ lock' = "n" <=> n'.pc \in {"attachVolume", "drop"}
          /\ \A w \in Volumes : lock' = w <=> mount'[w].pc \in {"attach", "drop"}
      BY <1>1, <1>2, <1>3, <1>4, <1>5, <1>6, <1>7, <1>8, <1>9, <1>10, TypesAre, FilterApart
         DEF FilterInv, FilterTypes, FilterPlaces, NotifyPlaces, MountPlaces, UnloadPlaces,
         Drops
    <2> QED
      BY <1>1, <1>2, <1>3, <1>4, <1>5, <1>6, <1>7, <1>8, <1>9, <1>10, <2>1, <2>2, TypesAre,
         FilterApart DEF FilterInv, FilterTypes, Drops
  <1>12. FilterPlaces'
    <2>1. NotifyPlaces'
      BY <1>1, <1>2, <1>3, <1>4, <1>5, <1>6, <1>7, <1>8, <1>9, <1>10 DEF FilterInv,
         FilterPlaces, NotifyPlaces, Serving
    <2>2. MountPlaces'
      BY <1>1, <1>2, <1>3, <1>4, <1>5, <1>6, <1>7, <1>8, <1>9, <1>10 DEF FilterInv,
         FilterPlaces, MountPlaces
    <2>3. UnloadPlaces'
      <3>1. u.list \subseteq Devices
        BY OneAbove DEF UTypes
      <3> QED
        BY <1>1, <1>2, <1>3, <1>4, <1>5, <1>6, <1>7, <1>8, <1>9, <1>10, <3>1 DEF FilterInv,
           FilterPlaces, UnloadPlaces, Drops
    <2> QED
      BY <2>1, <2>2, <2>3 DEF FilterPlaces, NotifyPlaces, MountPlaces, UnloadPlaces
  <1>13. Sited'
    BY <1>5
  <1>14. Held'
    BY <1>1, <1>2, <1>3, <1>4, <1>5, <1>6, <1>7, <1>8, <1>9, <1>10, FilterApart, PlacedWhere
       DEF FilterInv, Held, Serving, Placed, Drops, FilterPlaces, NotifyPlaces
  <1>15. Vacant'
    <2>1. StacksShort' /\ VacantFs' /\ VacantVolumes'
      BY <1>1, <1>2, <1>3, <1>4, <1>5, <1>6, <1>7, <1>8, <1>9, <1>10 DEF FilterInv, Vacant,
         StacksShort, VacantFs, VacantVolumes, Placed
    <2>2. VolumesFlagged'
      BY <1>1, <1>2, <1>3, <1>4, <1>5, <1>6, <1>7, <1>8, <1>9, <1>10, FilterApart DEF
         FilterInv, Vacant, VolumesFlagged
    <2> QED
      BY <2>1, <2>2 DEF Vacant, StacksShort, VacantFs, VacantVolumes, VolumesFlagged
  <1>16. Loading'
    <2>1. load.pc = "below" => load.dev \in Devices /\ load.dev # n.new /\ dev'[load.dev] = dev[load.dev]
      BY <1>1, <1>2, <1>3, <1>4, <1>5, <1>6, <1>7, <1>8, <1>9, <1>10, PlacedWhere,
         FilterApart DEF FilterInv, Loading, Drops
    <2> QED
      BY <1>1, <1>2, <1>3, <1>4, <1>5, <1>6, <1>7, <1>8, <1>9, <1>10, <2>1 DEF FilterInv,
         Loading, Placed
  <1>17. Alive'
    BY <1>5
  <1>18. Covered'
    <2>1. \A w \in Volumes : \A e \in Above(FsOf[w]) : dev'[e] = dev[e]
      BY <1>1, <1>2, <1>3, <1>4, <1>5, <1>6, <1>7, <1>8, <1>9, <1>10, FilterApart
    <2> QED
      BY <1>1, <1>2, <1>3, <1>4, <1>5, <1>6, <1>7, <1>8, <1>9, <1>10, <2>1, FilterApart DEF
         FilterInv, Covered
  <1>19. Waiting'
    <2>1. \A i \in Requests : req[i].dev # None => req[i].dev \in Devices /\ dev'[req[i].dev] = dev[req[i].dev]
      BY <1>1, <1>2, <1>3, <1>4, <1>5, <1>6, <1>7, <1>8, <1>9, <1>10, PlacedWhere,
         FilterApart DEF FilterInv, Waiting, Drops
    <2> QED
      BY <1>1, <1>2, <1>3, <1>4, <1>5, <1>6, <1>7, <1>8, <1>9, <1>10, <2>1 DEF FilterInv,
         Waiting
  <1>20. NoneForgotten'
    <2>1. \A e \in Devices : dev'[e].st = "live" => e # n.new /\ dev'[e] = dev[e]
      BY <1>1, <1>2, <1>3, <1>4, <1>5, <1>6, <1>7, <1>8, <1>9, <1>10 DEF Drops
    <2> QED
      BY <1>1, <1>2, <1>3, <1>4, <1>5, <1>6, <1>7, <1>8, <1>9, <1>10, <2>1 DEF FilterInv,
         NoneForgotten
  <1>21. UnloadDetachable'
    <2>1. \A e \in Devices : e # n.new => dev'[e] = dev[e]
      BY <1>1, <1>2, <1>3, <1>4, <1>5, <1>6, <1>7, <1>8, <1>9, <1>10 DEF Drops
    <2>2. u.work \subseteq Devices
      BY OneAbove DEF UTypes
    <2>3. u.pc = "detach" => dev'[n.new].st = "dead"
      BY <1>1, <1>2, <1>3, <1>4, <1>5, <1>6, <1>7, <1>8, <1>9, <1>10 DEF Drops
    <2> QED
      BY <1>1, <1>2, <1>3, <1>4, <1>5, <1>6, <1>7, <1>8, <1>9, <1>10, <2>1, <2>2, <2>3 DEF
         FilterInv, UnloadDetachable
  <1>22. NoBypass'
    BY <1>1, <1>2, <1>3, <1>4, <1>5, <1>6, <1>7, <1>8, <1>9, <1>10, FilterApart, PlacedWhere
       DEF FilterInv, NoBypass
  <1> QED
    BY <1>11, <1>12, <1>13, <1>14, <1>15, <1>16, <1>17, <1>18, <1>19, <1>20, <1>21, <1>22
       DEF FilterInv

LEMMA MountDropsKeeps ==
  ASSUME FilterInv, NEW v \in Volumes, MountDrops(v)
  PROVE  FilterInv'
  <1>1. /\ UNCHANGED <<fs, vol, stack, todo, n, req, load, u, refused, bypassed>>
        /\ (\A s : Above(s)' = Above(s)) /\ (\A e : Attached(e)' <=> Attached(e))
        /\ mount[v].pc \in {"attach", "drop"} \/ (mount[v].pc = "returned" /\ ~mount[v].ok)
        /\ lock' = IF mount[v].ok THEN "free" ELSE lock
        /\ mount' = [mount EXCEPT ![v] = MIdle]
        /\ excused' = IF mount[v].pc = "attach" THEN excused \cup {v} ELSE excused
    BY StacksSame DEF MountDrops, DropsDevice, system, OthersOfMount, ghosts
  <1>2. mount[v].dev \in Devices
        /\ mount[v].dev # None
    BY <1>1, PlacedWhere, FilterApart DEF FilterInv, FilterPlaces, MountPlaces
  <1>3. dev[mount[v].dev].to = None
        /\ dev[mount[v].dev].st # "none"
        /\ (\A s \in Targets : mount[v].dev \notin Above(s))
    BY <1>1, <1>2, FilterApart DEF FilterInv, Held, Serving, InHand, Sited
  <1>4. Drops(mount[v].dev)
    BY <1>1, <1>2, DropSteps DEF MountDrops
  <1>5. Sited'
        /\ Alive'
    BY <1>1, <1>2, <1>3, <1>4, DropUnattached
  <1>6. \A s \in Targets : \A e \in Above(s) : e \in Devices
        /\ e # mount[v].dev
        /\ dev'[e] = dev[e]
    BY <1>3, <1>4, PlacedWhere DEF Drops
  <1>7. (mount[v].pc \in {"attach", "drop"} => mount[v].ok)
        /\ mount[v].dev # n.new
        /\ mount[v].dev # n.dev
        /\ (\A w \in Volumes \ {v} : mount[w].dev # mount[v].dev)
    BY <1>1, <1>2 DEF FilterInv, Held, FilterPlaces, MountPlaces
  <1>8. /\ mount' \in MountTypes
        /\ mount'[v].pc = "idle"
        /\ mount'[v].via = None
        /\ mount'[v].dev = None
        /\ mount'[v].ok = FALSE
        /\ \A w \in Volumes \ {v} : mount'[w] = mount[w]
    BY <1>1, OneAbove, FilterApart DEF MountTypes, MIdle
  <1>9. TypeOK'
    <2>1. RestTyped'
      BY <1>1, <1>2, <1>3, <1>4, <1>5, <1>6, <1>7, <1>8, OneAbove, FilterApart, PlacedWhere
         DEF RestTyped, Drops
    <2>2. /\ lock' = "n" <=> n'.pc \in {"attachVolume", "drop"}
          /\ \A w \in Volumes : lock' = w <=> mount'[w].pc \in {"attach", "drop"}
      BY <1>1, <1>2, <1>3, <1>4, <1>5, <1>6, <1>7, <1>8, TypesAre, FilterApart DEF
         FilterInv, FilterTypes, FilterPlaces, NotifyPlaces, MountPlaces, UnloadPlaces,
         Drops
    <2> QED
      BY <1>1, <1>2, <1>3, <1>4, <1>5, <1>6, <1>7, <1>8, <2>1, <2>2, TypesAre, FilterApart
         DEF FilterInv, FilterTypes, Drops
  <1>10. FilterPlaces'
    <2>1. NotifyPlaces'
      BY <1>1, <1>2, <1>3, <1>4, <1>5, <1>6, <1>7, <1>8 DEF FilterInv, FilterPlaces,
         NotifyPlaces, Serving
    <2>2. MountPlaces'
      BY <1>1, <1>2, <1>3, <1>4, <1>5, <1>6, <1>7, <1>8 DEF FilterInv, FilterPlaces,
         MountPlaces
    <2>3. UnloadPlaces'
      <3>1. u.list \subseteq Devices
        BY OneAbove DEF UTypes
      <3> QED
        BY <1>1, <1>2, <1>3, <1>4, <1>5, <1>6, <1>7, <1>8, <3>1 DEF FilterInv, FilterPlaces,
           UnloadPlaces, Drops
    <2> QED
      BY <2>1, <2>2, <2>3 DEF FilterPlaces, NotifyPlaces, MountPlaces, UnloadPlaces
  <1>11. Sited'
    BY <1>5
  <1>12. Held'
    BY <1>1, <1>2, <1>3, <1>4, <1>5, <1>6, <1>7, <1>8, FilterApart, PlacedWhere DEF
       FilterInv, Held, Serving, Placed, Drops, FilterPlaces, NotifyPlaces
  <1>13. Vacant'
    <2>1. StacksShort' /\ VacantFs' /\ VacantVolumes'
      BY <1>1, <1>2, <1>3, <1>4, <1>5, <1>6, <1>7, <1>8 DEF FilterInv, Vacant, StacksShort,
         VacantFs, VacantVolumes, Placed
    <2>2. VolumesFlagged'
      BY <1>1, <1>2, <1>3, <1>4, <1>5, <1>6, <1>7, <1>8, FilterApart DEF FilterInv, Vacant,
         VolumesFlagged
    <2> QED
      BY <2>1, <2>2 DEF Vacant, StacksShort, VacantFs, VacantVolumes, VolumesFlagged
  <1>14. Loading'
    <2>1. load.pc = "below" => load.dev \in Devices /\ load.dev # mount[v].dev /\ dev'[load.dev] = dev[load.dev]
      BY <1>1, <1>2, <1>3, <1>4, <1>5, <1>6, <1>7, <1>8, PlacedWhere, FilterApart DEF
         FilterInv, Loading, Drops
    <2> QED
      BY <1>1, <1>2, <1>3, <1>4, <1>5, <1>6, <1>7, <1>8, <2>1 DEF FilterInv, Loading, Placed
  <1>15. Alive'
    BY <1>5
  <1>16. Covered'
    <2>1. \A w \in Volumes : \A e \in Above(FsOf[w]) : dev'[e] = dev[e]
      BY <1>1, <1>2, <1>3, <1>4, <1>5, <1>6, <1>7, <1>8, FilterApart
    <2> QED
      BY <1>1, <1>2, <1>3, <1>4, <1>5, <1>6, <1>7, <1>8, <2>1, FilterApart DEF FilterInv,
         Covered
  <1>17. Waiting'
    <2>1. \A i \in Requests : req[i].dev # None => req[i].dev \in Devices /\ dev'[req[i].dev] = dev[req[i].dev]
      BY <1>1, <1>2, <1>3, <1>4, <1>5, <1>6, <1>7, <1>8, PlacedWhere, FilterApart DEF
         FilterInv, Waiting, Drops
    <2> QED
      BY <1>1, <1>2, <1>3, <1>4, <1>5, <1>6, <1>7, <1>8, <2>1 DEF FilterInv, Waiting
  <1>18. NoneForgotten'
    <2>1. \A e \in Devices : dev'[e].st = "live" => e # mount[v].dev /\ dev'[e] = dev[e]
      BY <1>1, <1>2, <1>3, <1>4, <1>5, <1>6, <1>7, <1>8 DEF Drops
    <2> QED
      BY <1>1, <1>2, <1>3, <1>4, <1>5, <1>6, <1>7, <1>8, <2>1 DEF FilterInv, NoneForgotten
  <1>19. UnloadDetachable'
    <2>1. \A e \in Devices : e # mount[v].dev => dev'[e] = dev[e]
      BY <1>1, <1>2, <1>3, <1>4, <1>5, <1>6, <1>7, <1>8 DEF Drops
    <2>2. u.work \subseteq Devices
      BY OneAbove DEF UTypes
    <2>3. u.pc = "detach" => dev'[mount[v].dev].st = "dead"
      BY <1>1, <1>2, <1>3, <1>4, <1>5, <1>6, <1>7, <1>8 DEF Drops
    <2> QED
      BY <1>1, <1>2, <1>3, <1>4, <1>5, <1>6, <1>7, <1>8, <2>1, <2>2, <2>3 DEF FilterInv,
         UnloadDetachable
  <1>20. NoBypass'
    BY <1>1, <1>2, <1>3, <1>4, <1>5, <1>6, <1>7, <1>8, FilterApart, PlacedWhere DEF
       FilterInv, NoBypass
  <1> QED
    BY <1>9, <1>10, <1>11, <1>12, <1>13, <1>14, <1>15, <1>16, <1>17, <1>18, <1>19, <1>20 DEF
       FilterInv

-----------------------------------------------------------------------------
(* The rest of the steps.                                                  *)

LEMMA RequestLostKeeps ==
  ASSUME FilterInv, NEW i \in Requests, NEW t \in Targets, RequestLost(i, t)
  PROVE  FilterInv'
  <1>1. UNCHANGED <<fs, vol, stack, dev, lock, todo, n, mount, load, u, excused, refused, bypassed>>
    BY DEF RequestLost, OthersOfRequest, system, devices, ghosts
  <1>2. req' \in [Requests -> [pc : {"idle", "below", "woken", "done", "lost"},
                              dev : Devices \cup {None}, done : Nat]]
    BY OneAbove DEF RequestLost, RestTyped
  <1>3. Waiting'
    <2>1. req'[i].pc = "lost" /\ req'[i].dev = None /\ req'[i].done = 0 /\ \A j \in Requests \ {i} : req'[j] = req[j]
      BY OneAbove DEF RequestLost, RestTyped
    <2> QED
      BY <1>1, <2>1, FilterApart DEF FilterInv, Waiting
  <1> QED
    BY <1>1, <1>2, <1>3, RequestsMove

LEMMA RequestPassedKeeps ==
  ASSUME FilterInv, NEW i \in Requests, NEW t \in Targets, RequestPassed(i, t)
  PROVE  FilterInv'
  <1>1. UNCHANGED <<fs, vol, stack, dev, lock, todo, n, mount, load, u, excused, refused, bypassed>>
    BY DEF RequestPassed, OthersOfRequest, system, devices, ghosts
  <1>2. req' \in [Requests -> [pc : {"idle", "below", "woken", "done", "lost"},
                              dev : Devices \cup {None}, done : Nat]]
    BY OneAbove DEF RequestPassed, RestTyped
  <1>3. Waiting'
    <2>1. req'[i].pc = "done" /\ req'[i].dev = None /\ req'[i].done = 1 /\ \A j \in Requests \ {i} : req'[j] = req[j]
      BY OneAbove DEF RequestPassed, RestTyped
    <2> QED
      BY <1>1, <2>1, FilterApart DEF FilterInv, Waiting
  <1> QED
    BY <1>1, <1>2, <1>3, RequestsMove

LEMMA RequestGoesOnKeeps ==
  ASSUME FilterInv, NEW i \in Requests, NEW t \in Targets, RequestGoesOn(i, t)
  PROVE  FilterInv'
  <1>1. UNCHANGED <<fs, vol, stack, dev, lock, todo, n, mount, load, u, excused, refused, bypassed>>
    BY DEF RequestGoesOn, OthersOfRequest, system, devices, ghosts
  <1>4. /\ Top(t) \in Devices /\ Top(t) \in Above(t) /\ dev[Top(t)].to = t /\ dev[Top(t)].st # "none"
        /\ t \in Volumes => vol[t] = "mounted" /\ (u.pc = "idle" => dev[Top(t)].st = "live")
    <2>1. Top(t) \in Devices /\ Top(t) \in Above(t)
      BY StackTop DEF FilterInv, RequestGoesOn
    <2>2. dev[Top(t)].to = t /\ dev[Top(t)].st # "none"
      BY <2>1 DEF FilterInv, Sited
    <2>3. t \in Volumes => vol[t] = "mounted"
      BY FilterApart DEF RequestGoesOn, Usable
    <2> QED
      BY <2>1, <2>2, <2>3, FilterApart DEF FilterInv, Alive
  <1>2. req' \in [Requests -> [pc : {"idle", "below", "woken", "done", "lost"},
                              dev : Devices \cup {None}, done : Nat]]
    BY <1>4, OneAbove DEF RequestGoesOn, RestTyped
  <1>3. Waiting'
    <2>1. req'[i].pc = "below" /\ req'[i].dev = Top(t) /\ req'[i].done = 0 /\ \A j \in Requests \ {i} : req'[j] = req[j]
      BY <1>4, OneAbove DEF RequestGoesOn, RestTyped
    <2> QED
      BY <1>1, <2>1, <1>4, FilterApart DEF FilterInv, Waiting
  <1> QED
    BY <1>1, <1>2, <1>3, RequestsMove

LEMMA SfCreateCompletionKeeps ==
  ASSUME FilterInv, NEW i \in Requests, SfCreateCompletion(i)
  PROVE  FilterInv'
  <1>1. UNCHANGED <<fs, vol, stack, dev, lock, todo, n, mount, load, u, excused, refused, bypassed>>
    BY DEF SfCreateCompletion, OthersOfRequest, system, devices, ghosts
  <1>2. req' \in [Requests -> [pc : {"idle", "below", "woken", "done", "lost"},
                              dev : Devices \cup {None}, done : Nat]]
    <2> DEFINE R == [pc : {"idle", "below", "woken", "done", "lost"}, dev : Devices \cup {None}, done : Nat]
               r == [pc |-> "woken", dev |-> req[i].dev, done |-> req[i].done]
    <2>1. req \in [Requests -> R]
      BY OneAbove DEF RestTyped
    <2>2. r \in R /\ [req[i] EXCEPT !.pc = "woken"] = r
      BY <2>1
    <2>3. req' = [req EXCEPT ![i] = r]
      BY <2>2 DEF SfCreateCompletion
    <2> HIDE DEF R, r
    <2>4. req' \in [Requests -> R]
      BY <2>1, <2>2, <2>3
    <2> QED
      BY <2>4 DEF R
  <1>3. Waiting'
    <2>1. req'[i].pc = "woken" /\ req'[i].dev = req[i].dev /\ req[i].pc = "below" /\ req'[i].done = req[i].done /\ \A j \in Requests \ {i} : req'[j] = req[j]
      BY OneAbove DEF SfCreateCompletion, RestTyped
    <2> QED
      BY <1>1, <2>1, FilterApart DEF FilterInv, Waiting
  <1> QED
    BY <1>1, <1>2, <1>3, RequestsMove

LEMMA RequestPostsKeeps ==
  ASSUME FilterInv, NEW i \in Requests, RequestPosts(i)
  PROVE  FilterInv'
  <1>1. UNCHANGED <<fs, vol, stack, dev, lock, todo, n, mount, load, u, excused, refused, bypassed>>
    BY DEF RequestPosts, OthersOfRequest, system, devices, ghosts
  <1>2. req' \in [Requests -> [pc : {"idle", "below", "woken", "done", "lost"},
                              dev : Devices \cup {None}, done : Nat]]
    BY OneAbove DEF RequestPosts, RestTyped
  <1>3. Waiting'
    <2>1. req'[i].pc = "done" /\ req'[i].dev = None /\ req'[i].done = 1 /\ \A j \in Requests \ {i} : req'[j] = req[j]
      BY OneAbove DEF RequestPosts, RestTyped, FilterInv, Waiting
    <2> QED
      BY <1>1, <2>1, FilterApart DEF FilterInv, Waiting
  <1> QED
    BY <1>1, <1>2, <1>3, RequestsMove

LEMMA EnumSkipsKeeps ==
  ASSUME FilterInv, NEW v \in Volumes, n.pc = "each", v \in n.list,
         SfIsAttachedToDevice(v) \/ SfIsShadowCopyVolume(v) \/ vol[v] \in {"none", "made"},
         n' = [n EXCEPT !.list = @ \ {v}], UNCHANGED <<dev, excused, system, stack, todo, Others, refused, bypassed>>
  PROVE  FilterInv'
  <1>1. /\ UNCHANGED <<fs, vol, stack, dev, lock, todo, mount, req, load, u, excused, refused, bypassed>>
        /\ (\A s : Above(s)' = Above(s)) /\ (\A e : Attached(e)' <=> Attached(e))
        /\ n.pc = "each"
    BY StacksSame DEF system, Others
  <1>2. /\ n' \in NTypes
        /\ n'.pc = n.pc
        /\ n'.fs = n.fs
        /\ n'.dev = n.dev
        /\ n'.list = n.list \ {v}
        /\ n'.vol = n.vol
        /\ n'.new = n.new
    BY <1>1, OneAbove, FilterApart, PlacedWhere DEF NTypes
  <1>3. stack[v] # <<>> \/ v \in Shadows \/ vol[v] # "mounted"
    BY FilterApart, OneAbove DEF SfIsShadowCopyVolume
  <1>4. TypeOK'
    <2>1. RestTyped'
      BY <1>1, <1>2, <1>3, OneAbove, FilterApart, PlacedWhere DEF RestTyped
    <2>2. /\ lock' = "n" <=> n'.pc \in {"attachVolume", "drop"}
          /\ \A w \in Volumes : lock' = w <=> mount'[w].pc \in {"attach", "drop"}
      BY <1>1, <1>2, <1>3, TypesAre, FilterApart DEF FilterInv, FilterTypes, FilterPlaces,
         NotifyPlaces, MountPlaces, UnloadPlaces
    <2> QED
      BY <1>1, <1>2, <1>3, <2>1, <2>2, TypesAre, FilterApart DEF FilterInv, FilterTypes
  <1>5. FilterPlaces'
    BY <1>1, <1>2, <1>3, FilterApart, PlacedWhere DEF FilterInv, FilterPlaces, NotifyPlaces,
       MountPlaces, UnloadPlaces, Serving
  <1>6. Sited'
    BY <1>1, <1>2, <1>3, FilterApart, PlacedWhere DEF FilterInv, Sited
  <1>7. Held'
    BY <1>1, <1>2, <1>3, FilterApart, PlacedWhere DEF FilterInv, Held, InHand, Serving,
       Placed, Sited, FilterPlaces, NotifyPlaces, MountPlaces, UnloadPlaces
  <1>8. Vacant'
    BY <1>1, <1>2, <1>3, FilterApart, PlacedWhere DEF FilterInv, Vacant, StacksShort,
       VacantFs, VacantVolumes, VolumesFlagged, Placed, FilterPlaces, NotifyPlaces,
       MountPlaces, UnloadPlaces, Sited, Held, InHand, Serving
  <1>9. Loading'
    BY <1>1, <1>2, <1>3, FilterApart, PlacedWhere DEF FilterInv, Loading, Placed,
       FilterPlaces, NotifyPlaces, MountPlaces, UnloadPlaces, Sited, Vacant, StacksShort,
       VacantFs, VacantVolumes, VolumesFlagged
  <1>10. Alive'
    BY <1>1, <1>2, <1>3, FilterApart, PlacedWhere DEF FilterInv, Alive, Held, InHand,
       Placed, Serving, FilterPlaces, NotifyPlaces, MountPlaces, UnloadPlaces
  <1>11. Covered'
    BY <1>1, <1>2, <1>3, FilterApart, PlacedWhere DEF FilterInv, Covered, FilterPlaces,
       NotifyPlaces, MountPlaces, UnloadPlaces
  <1>12. Waiting'
    BY <1>1, <1>2, <1>3, FilterApart, PlacedWhere DEF FilterInv, Waiting, FilterPlaces,
       NotifyPlaces, MountPlaces, UnloadPlaces, Sited
  <1>13. NoneForgotten'
    BY <1>1, <1>2, <1>3, FilterApart, PlacedWhere DEF FilterInv, NoneForgotten,
       FilterPlaces, NotifyPlaces, MountPlaces, UnloadPlaces
  <1>14. UnloadDetachable'
    BY <1>1, <1>2, <1>3, FilterApart, PlacedWhere DEF FilterInv, UnloadDetachable,
       FilterPlaces, NotifyPlaces, MountPlaces, UnloadPlaces, NoneForgotten
  <1>15. NoBypass'
    BY <1>1, <1>2, <1>3, FilterApart, PlacedWhere DEF FilterInv, NoBypass
  <1> QED
    BY <1>4, <1>5, <1>6, <1>7, <1>8, <1>9, <1>10, <1>11, <1>12, <1>13, <1>14, <1>15 DEF
       FilterInv

LEMMA EnumExcusesKeeps ==
  ASSUME FilterInv, NEW v \in Volumes, n.pc = "each", v \in n.list,
         excused' = excused \cup {v}, n' = [n EXCEPT !.list = @ \ {v}],
         UNCHANGED <<dev, system, stack, todo, Others, refused, bypassed>>
  PROVE  FilterInv'
  <1>1. /\ UNCHANGED <<fs, vol, stack, dev, lock, todo, mount, req, load, u, refused, bypassed>>
        /\ (\A s : Above(s)' = Above(s)) /\ (\A e : Attached(e)' <=> Attached(e))
        /\ n.pc = "each" /\ excused' = excused \cup {v}
    BY StacksSame DEF system, Others
  <1>2. /\ n' \in NTypes
        /\ n'.pc = n.pc
        /\ n'.fs = n.fs
        /\ n'.dev = n.dev
        /\ n'.list = n.list \ {v}
        /\ n'.vol = n.vol
        /\ n'.new = n.new
    BY <1>1, OneAbove, FilterApart, PlacedWhere DEF NTypes
  <1>3. TypeOK'
    <2>1. RestTyped'
      BY <1>1, <1>2, OneAbove, FilterApart, PlacedWhere DEF RestTyped
    <2>2. /\ lock' = "n" <=> n'.pc \in {"attachVolume", "drop"}
          /\ \A w \in Volumes : lock' = w <=> mount'[w].pc \in {"attach", "drop"}
      BY <1>1, <1>2, TypesAre, FilterApart DEF FilterInv, FilterTypes, FilterPlaces,
         NotifyPlaces, MountPlaces, UnloadPlaces
    <2> QED
      BY <1>1, <1>2, <2>1, <2>2, TypesAre, FilterApart DEF FilterInv, FilterTypes
  <1>4. FilterPlaces'
    BY <1>1, <1>2, FilterApart, PlacedWhere DEF FilterInv, FilterPlaces, NotifyPlaces,
       MountPlaces, UnloadPlaces, Serving
  <1>5. Sited'
    BY <1>1, <1>2, FilterApart, PlacedWhere DEF FilterInv, Sited
  <1>6. Held'
    BY <1>1, <1>2, FilterApart, PlacedWhere DEF FilterInv, Held, InHand, Serving, Placed,
       Sited, FilterPlaces, NotifyPlaces, MountPlaces, UnloadPlaces
  <1>7. Vacant'
    BY <1>1, <1>2, FilterApart, PlacedWhere DEF FilterInv, Vacant, StacksShort, VacantFs,
       VacantVolumes, VolumesFlagged, Placed, FilterPlaces, NotifyPlaces, MountPlaces,
       UnloadPlaces, Sited, Held, InHand, Serving
  <1>8. Loading'
    BY <1>1, <1>2, FilterApart, PlacedWhere DEF FilterInv, Loading, Placed, FilterPlaces,
       NotifyPlaces, MountPlaces, UnloadPlaces, Sited, Vacant, StacksShort, VacantFs,
       VacantVolumes, VolumesFlagged
  <1>9. Alive'
    BY <1>1, <1>2, FilterApart, PlacedWhere DEF FilterInv, Alive, Held, InHand, Placed,
       Serving, FilterPlaces, NotifyPlaces, MountPlaces, UnloadPlaces
  <1>10. Covered'
    BY <1>1, <1>2, FilterApart, PlacedWhere DEF FilterInv, Covered, FilterPlaces,
       NotifyPlaces, MountPlaces, UnloadPlaces
  <1>11. Waiting'
    BY <1>1, <1>2, FilterApart, PlacedWhere DEF FilterInv, Waiting, FilterPlaces,
       NotifyPlaces, MountPlaces, UnloadPlaces, Sited
  <1>12. NoneForgotten'
    BY <1>1, <1>2, FilterApart, PlacedWhere DEF FilterInv, NoneForgotten, FilterPlaces,
       NotifyPlaces, MountPlaces, UnloadPlaces
  <1>13. UnloadDetachable'
    BY <1>1, <1>2, FilterApart, PlacedWhere DEF FilterInv, UnloadDetachable, FilterPlaces,
       NotifyPlaces, MountPlaces, UnloadPlaces, NoneForgotten
  <1>14. NoBypass'
    BY <1>1, <1>2, FilterApart, PlacedWhere DEF FilterInv, NoBypass
  <1> QED
    BY <1>3, <1>4, <1>5, <1>6, <1>7, <1>8, <1>9, <1>10, <1>11, <1>12, <1>13, <1>14 DEF
       FilterInv

LEMMA EnumMakesKeeps ==
  ASSUME FilterInv, NEW v \in Volumes, NEW d \in Devices, n.pc = "each", v \in n.list, Creates(d, TRUE),
         n' = [n EXCEPT !.pc = "lock", !.list = @ \ {v}, !.vol = v, !.new = d],
         UNCHANGED <<excused, system, stack, todo, Others, refused, bypassed>>
  PROVE  FilterInv'
  <1>1. /\ UNCHANGED <<fs, vol, stack, lock, todo, mount, req, load, u, excused, refused, bypassed>>
        /\ (\A s : Above(s)' = Above(s)) /\ (\A e : Attached(e)' <=> Attached(e))
        /\ n.pc = "each" /\ u.pc = "idle"
    BY StacksSame DEF system, Others, FilterInv, FilterPlaces, NotifyPlaces
  <1>2. /\ n' \in NTypes
        /\ n'.pc = "lock"
        /\ n'.fs = n.fs
        /\ n'.dev = n.dev
        /\ n'.list = n.list \ {v}
        /\ n'.vol = v
        /\ n'.new = d
    BY <1>1, OneAbove, FilterApart, PlacedWhere DEF NTypes
  <1>3. dev[d].st = "none"
        /\ dev' \in DevTypes
        /\ dev'[d].st = "live"
        /\ dev'[d].to = None
        /\ dev'[d].flag = TRUE
        /\ (\A e \in Devices \ {d} : dev'[e] = dev[e])
    BY MadeOf DEF FilterInv
  <1>4. n.dev \in Above(n.fs)
        /\ n.fs \in Targets
        /\ n.dev # d
        /\ (\A w \in Volumes : mount[w].dev # d)
    BY <1>1, <1>3, PlacedWhere, FilterApart DEF FilterInv, Held, Placed, Sited, InHand
  <1>5. TypeOK'
    <2>1. RestTyped'
      BY <1>1, <1>2, <1>3, <1>4, OneAbove, FilterApart, PlacedWhere DEF RestTyped, Sited,
         FilterPlaces, NotifyPlaces, MountPlaces, UnloadPlaces, Held, InHand, Serving,
         Placed, Waiting, Loading
    <2>2. /\ lock' = "n" <=> n'.pc \in {"attachVolume", "drop"}
          /\ \A w \in Volumes : lock' = w <=> mount'[w].pc \in {"attach", "drop"}
      BY <1>1, <1>2, <1>3, <1>4, TypesAre, FilterApart DEF FilterInv, FilterTypes,
         FilterPlaces, NotifyPlaces, MountPlaces, UnloadPlaces, Sited, Held, InHand,
         Serving, Placed, Waiting, Loading
    <2> QED
      BY <1>1, <1>2, <1>3, <1>4, <2>1, <2>2, TypesAre, FilterApart DEF FilterInv,
         FilterTypes, Sited, FilterPlaces, NotifyPlaces, MountPlaces, UnloadPlaces, Held,
         InHand, Serving, Placed, Waiting, Loading
  <1>6. FilterPlaces'
    BY <1>1, <1>2, <1>3, <1>4, FilterApart, PlacedWhere DEF FilterInv, FilterPlaces,
       NotifyPlaces, MountPlaces, UnloadPlaces, Serving, Sited, Held, InHand, Placed,
       Waiting, Loading
  <1>7. Sited'
    BY <1>1, <1>2, <1>3, <1>4, FilterApart, PlacedWhere DEF FilterInv, Sited, FilterPlaces,
       NotifyPlaces, MountPlaces, UnloadPlaces, Held, InHand, Serving, Placed, Waiting,
       Loading
  <1>8. Held'
    BY <1>1, <1>2, <1>3, <1>4, FilterApart, PlacedWhere DEF FilterInv, Held, InHand,
       Serving, Placed, Sited, FilterPlaces, NotifyPlaces, MountPlaces, UnloadPlaces,
       Waiting, Loading
  <1>9. Vacant'
    BY <1>1, <1>2, <1>3, <1>4, FilterApart, PlacedWhere DEF FilterInv, Vacant, StacksShort,
       VacantFs, VacantVolumes, VolumesFlagged, Placed, Sited, FilterPlaces, NotifyPlaces,
       MountPlaces, UnloadPlaces, Held, InHand, Serving, Waiting, Loading
  <1>10. Loading'
    BY <1>1, <1>2, <1>3, <1>4, FilterApart, PlacedWhere DEF FilterInv, Loading, Placed,
       Sited, FilterPlaces, NotifyPlaces, MountPlaces, UnloadPlaces, Held, InHand, Serving,
       Waiting
  <1>11. Alive'
    BY <1>1, <1>2, <1>3, <1>4, FilterApart, PlacedWhere DEF FilterInv, Alive, Sited,
       FilterPlaces, NotifyPlaces, MountPlaces, UnloadPlaces, Held, InHand, Serving, Placed,
       Waiting, Loading
  <1>12. Covered'
    BY <1>1, <1>2, <1>3, <1>4, FilterApart, PlacedWhere DEF FilterInv, Covered, Sited,
       FilterPlaces, NotifyPlaces, MountPlaces, UnloadPlaces, Held, InHand, Serving, Placed,
       Waiting, Loading
  <1>13. Waiting'
    BY <1>1, <1>2, <1>3, <1>4, FilterApart, PlacedWhere DEF FilterInv, Waiting, Sited,
       FilterPlaces, NotifyPlaces, MountPlaces, UnloadPlaces, Held, InHand, Serving, Placed,
       Loading
  <1>14. NoneForgotten'
    BY <1>1, <1>2, <1>3, <1>4, FilterApart, PlacedWhere DEF FilterInv, NoneForgotten, Sited,
       FilterPlaces, NotifyPlaces, MountPlaces, UnloadPlaces, Held, InHand, Serving, Placed,
       Waiting, Loading
  <1>15. UnloadDetachable'
    BY <1>1, <1>2, <1>3, <1>4, FilterApart, PlacedWhere DEF FilterInv, UnloadDetachable,
       Sited, FilterPlaces, NotifyPlaces, MountPlaces, UnloadPlaces, Held, InHand, Serving,
       Placed, Waiting, Loading
  <1>16. NoBypass'
    BY <1>1, <1>2, <1>3, <1>4, FilterApart, PlacedWhere DEF FilterInv, NoBypass, Sited,
       FilterPlaces, NotifyPlaces, MountPlaces, UnloadPlaces, Held, InHand, Serving, Placed,
       Waiting, Loading
  <1> QED
    BY <1>5, <1>6, <1>7, <1>8, <1>9, <1>10, <1>11, <1>12, <1>13, <1>14, <1>15, <1>16 DEF
       FilterInv

LEMMA EnumChecksKeeps ==
  ASSUME FilterInv, NEW v \in Volumes, EnumChecks(v)
  PROVE  FilterInv'
  BY EnumSkipsKeeps, EnumExcusesKeeps, EnumMakesKeeps DEF EnumChecks

LEMMA ListTakenKeeps ==
  ASSUME FilterInv, n.pc = "list",
         n' = [n EXCEPT !.pc = "each", !.list = {v \in Volumes : FsOf[v] = n.fs /\ vol[v] # "none"}],
         UNCHANGED <<devices, todo, system, Others, ghosts>>
  PROVE  FilterInv'
  <1>1. /\ UNCHANGED <<fs, vol, stack, dev, lock, todo, mount, req, load, u, excused, refused, bypassed>>
        /\ (\A s : Above(s)' = Above(s)) /\ (\A e : Attached(e)' <=> Attached(e))
        /\ n.pc = "list"
    BY StacksSame DEF system, Others, devices, ghosts
  <1>2. /\ n' \in NTypes
        /\ n'.pc = "each"
        /\ n'.fs = n.fs
        /\ n'.dev = n.dev
        /\ n'.list = {v \in Volumes : FsOf[v] = n.fs /\(vol[v] # "none")}
        /\ n'.vol = n.vol
        /\ n'.new = n.new
    BY <1>1, OneAbove, FilterApart, PlacedWhere DEF NTypes
  <1>3. TypeOK'
    <2>1. RestTyped'
      BY <1>1, <1>2, OneAbove, FilterApart, PlacedWhere DEF RestTyped
    <2>2. /\ lock' = "n" <=> n'.pc \in {"attachVolume", "drop"}
          /\ \A w \in Volumes : lock' = w <=> mount'[w].pc \in {"attach", "drop"}
      BY <1>1, <1>2, TypesAre, FilterApart DEF FilterInv, FilterTypes, FilterPlaces,
         NotifyPlaces, MountPlaces, UnloadPlaces
    <2> QED
      BY <1>1, <1>2, <2>1, <2>2, TypesAre, FilterApart DEF FilterInv, FilterTypes
  <1>4. FilterPlaces'
    BY <1>1, <1>2, FilterApart, PlacedWhere DEF FilterInv, FilterPlaces, NotifyPlaces,
       MountPlaces, UnloadPlaces, Serving
  <1>5. Sited'
    BY <1>1, <1>2, FilterApart, PlacedWhere DEF FilterInv, Sited
  <1>6. Held'
    BY <1>1, <1>2, FilterApart, PlacedWhere DEF FilterInv, Held, InHand, Serving, Placed,
       Sited, FilterPlaces, NotifyPlaces, MountPlaces, UnloadPlaces
  <1>7. Vacant'
    BY <1>1, <1>2, FilterApart, PlacedWhere DEF FilterInv, Vacant, StacksShort, VacantFs,
       VacantVolumes, VolumesFlagged, Placed, FilterPlaces, NotifyPlaces, MountPlaces,
       UnloadPlaces, Sited, Held, InHand, Serving
  <1>8. Loading'
    BY <1>1, <1>2, FilterApart, PlacedWhere DEF FilterInv, Loading, Placed, FilterPlaces,
       NotifyPlaces, MountPlaces, UnloadPlaces, Sited, Vacant, StacksShort, VacantFs,
       VacantVolumes, VolumesFlagged
  <1>9. Alive'
    BY <1>1, <1>2, FilterApart, PlacedWhere DEF FilterInv, Alive, Held, InHand, Placed,
       Serving, FilterPlaces, NotifyPlaces, MountPlaces, UnloadPlaces
  <1>10. Covered'
    BY <1>1, <1>2, FilterApart, PlacedWhere DEF FilterInv, Covered, FilterPlaces,
       NotifyPlaces, MountPlaces, UnloadPlaces
  <1>11. Waiting'
    BY <1>1, <1>2, FilterApart, PlacedWhere DEF FilterInv, Waiting, FilterPlaces,
       NotifyPlaces, MountPlaces, UnloadPlaces, Sited
  <1>12. NoneForgotten'
    BY <1>1, <1>2, FilterApart, PlacedWhere DEF FilterInv, NoneForgotten, FilterPlaces,
       NotifyPlaces, MountPlaces, UnloadPlaces
  <1>13. UnloadDetachable'
    BY <1>1, <1>2, FilterApart, PlacedWhere DEF FilterInv, UnloadDetachable, FilterPlaces,
       NotifyPlaces, MountPlaces, UnloadPlaces, NoneForgotten
  <1>14. NoBypass'
    BY <1>1, <1>2, FilterApart, PlacedWhere DEF FilterInv, NoBypass
  <1> QED
    BY <1>3, <1>4, <1>5, <1>6, <1>7, <1>8, <1>9, <1>10, <1>11, <1>12, <1>13, <1>14 DEF
       FilterInv

LEMMA MountIgnoredKeeps ==
  ASSUME FilterInv, NEW v \in Volumes, CanMount(v), mount' = [mount EXCEPT ![v].pc = "below"],
         UNCHANGED <<dev, system, stack, lock, OthersOfMount, ghosts>>
  PROVE  FilterInv'
  <1>1. /\ UNCHANGED <<fs, vol, stack, dev, lock, todo, n, req, load, u, excused, refused, bypassed>>
        /\ (\A s : Above(s)' = Above(s)) /\ (\A e : Attached(e)' <=> Attached(e))
        /\ mount[v].pc = "idle"
    BY StacksSame DEF CanMount, system, OthersOfMount, ghosts
  <1>2. vol[v] # "going"
    BY DEF CanMount
  <1>3. /\ mount' \in MountTypes
        /\ mount'[v].pc = "below"
        /\ mount'[v].via = mount[v].via
        /\ mount'[v].dev = mount[v].dev
        /\ mount'[v].ok = mount[v].ok
        /\ \A w \in Volumes \ {v} : mount'[w] = mount[w]
    BY <1>1, OneAbove, FilterApart DEF MountTypes
  <1>4. TypeOK'
    <2>1. RestTyped'
      BY <1>1, <1>2, <1>3, OneAbove, FilterApart, PlacedWhere DEF RestTyped
    <2>2. /\ lock' = "n" <=> n'.pc \in {"attachVolume", "drop"}
          /\ \A w \in Volumes : lock' = w <=> mount'[w].pc \in {"attach", "drop"}
      BY <1>1, <1>2, <1>3, TypesAre, FilterApart DEF FilterInv, FilterTypes, FilterPlaces,
         NotifyPlaces, MountPlaces, UnloadPlaces
    <2> QED
      BY <1>1, <1>2, <1>3, <2>1, <2>2, TypesAre, FilterApart DEF FilterInv, FilterTypes
  <1>5. FilterPlaces'
    BY <1>1, <1>2, <1>3, FilterApart, PlacedWhere DEF FilterInv, FilterPlaces, NotifyPlaces,
       MountPlaces, UnloadPlaces, Serving
  <1>6. Sited'
    BY <1>1, <1>2, <1>3, FilterApart, PlacedWhere DEF FilterInv, Sited
  <1>7. Held'
    BY <1>1, <1>2, <1>3, FilterApart, PlacedWhere DEF FilterInv, Held, InHand, Serving,
       Placed, Sited, FilterPlaces, NotifyPlaces, MountPlaces, UnloadPlaces
  <1>8. Vacant'
    BY <1>1, <1>2, <1>3, FilterApart, PlacedWhere DEF FilterInv, Vacant, StacksShort,
       VacantFs, VacantVolumes, VolumesFlagged, Placed, FilterPlaces, NotifyPlaces,
       MountPlaces, UnloadPlaces, Sited, Held, InHand, Serving
  <1>9. Loading'
    BY <1>1, <1>2, <1>3, FilterApart, PlacedWhere DEF FilterInv, Loading, Placed,
       FilterPlaces, NotifyPlaces, MountPlaces, UnloadPlaces, Sited, Vacant, StacksShort,
       VacantFs, VacantVolumes, VolumesFlagged
  <1>10. Alive'
    BY <1>1, <1>2, <1>3, FilterApart, PlacedWhere DEF FilterInv, Alive, Held, InHand,
       Placed, Serving, FilterPlaces, NotifyPlaces, MountPlaces, UnloadPlaces
  <1>11. Covered'
    BY <1>1, <1>2, <1>3, FilterApart, PlacedWhere DEF FilterInv, Covered, FilterPlaces,
       NotifyPlaces, MountPlaces, UnloadPlaces
  <1>12. Waiting'
    BY <1>1, <1>2, <1>3, FilterApart, PlacedWhere DEF FilterInv, Waiting, FilterPlaces,
       NotifyPlaces, MountPlaces, UnloadPlaces, Sited
  <1>13. NoneForgotten'
    BY <1>1, <1>2, <1>3, FilterApart, PlacedWhere DEF FilterInv, NoneForgotten,
       FilterPlaces, NotifyPlaces, MountPlaces, UnloadPlaces
  <1>14. UnloadDetachable'
    BY <1>1, <1>2, <1>3, FilterApart, PlacedWhere DEF FilterInv, UnloadDetachable,
       FilterPlaces, NotifyPlaces, MountPlaces, UnloadPlaces, NoneForgotten
  <1>15. NoBypass'
    BY <1>1, <1>2, <1>3, FilterApart, PlacedWhere DEF FilterInv, NoBypass
  <1> QED
    BY <1>4, <1>5, <1>6, <1>7, <1>8, <1>9, <1>10, <1>11, <1>12, <1>13, <1>14, <1>15 DEF
       FilterInv

LEMMA MountMakesKeeps ==
  ASSUME FilterInv, NEW v \in Volumes, NEW d \in Devices, CanMount(v), stack[FsOf[v]] # <<>>, Creates(d, TRUE),
         mount' = [mount EXCEPT ![v] = [pc |-> "entered", via |-> Top(FsOf[v]), dev |-> d, ok |-> FALSE]],
         UNCHANGED <<system, stack, lock, OthersOfMount, ghosts>>
  PROVE  FilterInv'
  <1>1. /\ UNCHANGED <<fs, vol, stack, lock, todo, n, req, load, u, excused, refused, bypassed>>
        /\ (\A s : Above(s)' = Above(s)) /\ (\A e : Attached(e)' <=> Attached(e))
        /\ mount[v].pc = "idle" /\ vol[v] # "going"
    BY StacksSame DEF CanMount, system, OthersOfMount, ghosts
  <1>2. Top(FsOf[v]) \in Devices
    BY StackTop, FilterApart DEF FilterInv
  <1>3. /\ mount' \in MountTypes
        /\ mount'[v].pc = "entered"
        /\ mount'[v].via = Top(FsOf[v])
        /\ mount'[v].dev = d
        /\ mount'[v].ok = FALSE
        /\ \A w \in Volumes \ {v} : mount'[w] = mount[w]
    BY <1>1, <1>2, OneAbove, FilterApart DEF MountTypes
  <1>4. dev[d].st = "none"
        /\ dev' \in DevTypes
        /\ dev'[d].st = "live"
        /\ dev'[d].to = None
        /\ dev'[d].flag = TRUE
        /\ (\A e \in Devices \ {d} : dev'[e] = dev[e])
    BY MadeOf DEF FilterInv
  <1>5. d # n.new
        /\ d # n.dev
        /\ (\A w \in Volumes : mount[w].dev # d)
        /\ d # None
    BY <1>1, <1>4, PlacedWhere, FilterApart DEF FilterInv, Held, Placed, Sited, InHand,
       FilterPlaces, NotifyPlaces, Serving
  <1>6. TypeOK'
    <2>1. RestTyped'
      BY <1>1, <1>2, <1>3, <1>4, <1>5, OneAbove, FilterApart, PlacedWhere DEF RestTyped,
         Sited, FilterPlaces, NotifyPlaces, MountPlaces, UnloadPlaces, Held, InHand,
         Serving, Placed, Waiting, Loading
    <2>2. /\ lock' = "n" <=> n'.pc \in {"attachVolume", "drop"}
          /\ \A w \in Volumes : lock' = w <=> mount'[w].pc \in {"attach", "drop"}
      BY <1>1, <1>2, <1>3, <1>4, <1>5, TypesAre, FilterApart DEF FilterInv, FilterTypes,
         FilterPlaces, NotifyPlaces, MountPlaces, UnloadPlaces, Sited, Held, InHand,
         Serving, Placed, Waiting, Loading
    <2> QED
      BY <1>1, <1>2, <1>3, <1>4, <1>5, <2>1, <2>2, TypesAre, FilterApart DEF FilterInv,
         FilterTypes, Sited, FilterPlaces, NotifyPlaces, MountPlaces, UnloadPlaces, Held,
         InHand, Serving, Placed, Waiting, Loading
  <1>7. FilterPlaces'
    <2>1. NotifyPlaces'
      BY <1>1, <1>2, <1>3, <1>4, <1>5 DEF FilterInv, FilterPlaces, NotifyPlaces, Serving
    <2>2. MountPlaces'
      BY <1>1, <1>2, <1>3, <1>4, <1>5 DEF FilterInv, FilterPlaces, MountPlaces
    <2>3. UnloadPlaces'
      <3>1. u.list \subseteq Devices
        BY OneAbove DEF UTypes
      <3> QED
        BY <1>1, <1>2, <1>3, <1>4, <1>5, <3>1 DEF FilterInv, FilterPlaces, UnloadPlaces
    <2> QED
      BY <2>1, <2>2, <2>3 DEF FilterPlaces, NotifyPlaces, MountPlaces, UnloadPlaces
  <1>8. Sited'
    BY <1>1, <1>2, <1>3, <1>4, <1>5, FilterApart, PlacedWhere DEF FilterInv, Sited,
       FilterPlaces, NotifyPlaces, MountPlaces, UnloadPlaces, Held, InHand, Serving, Placed,
       Waiting, Loading
  <1>9. Held'
    <2>1. \A e \in Devices : e # d => (InHand(e)' <=> InHand(e))
      BY <1>1, <1>2, <1>3, <1>4, <1>5 DEF InHand
    <2>2. n.pc \in {"attach", "flag"} => n.dev \in Devices /\ ~dev'[n.dev].flag
      BY <1>1, <1>2, <1>3, <1>4, <1>5, PlacedWhere DEF FilterInv, Held
    <2>3. n.pc = "attach" => InHand(n.dev)'
      BY <1>1, <1>2, <1>3, <1>4, <1>5, <2>1, PlacedWhere DEF FilterInv, Held
    <2>4. Placed => n.dev \in Above(n.fs)
      BY DEF FilterInv, Held
    <2>5. Serving => InHand(n.new)' /\ dev'[n.new].flag
      BY <1>1, <1>2, <1>3, <1>4, <1>5, <2>1, PlacedWhere DEF FilterInv, Held, Serving
    <2>6. InHand(d)' /\ dev'[d].flag
      BY <1>1, <1>2, <1>3, <1>4, <1>5 DEF InHand
    <2>7. \A w \in Volumes \ {v} : mount[w].dev # None =>
            /\ InHand(mount[w].dev)' /\ dev'[mount[w].dev].flag
            /\ mount[w].dev # n.new /\ mount[w].dev # n.dev
            /\ \A x \in Volumes \ {w} : mount'[x].dev # mount[w].dev
      BY <1>1, <1>2, <1>3, <1>4, <1>5, <2>1, PlacedWhere DEF FilterInv, Held
    <2> QED
      BY <1>1, <1>2, <1>3, <1>4, <1>5, <2>2, <2>3, <2>4, <2>5, <2>6, <2>7 DEF Held, Serving,
         Placed
  <1>10. Vacant'
    BY <1>1, <1>2, <1>3, <1>4, <1>5, FilterApart, PlacedWhere DEF FilterInv, Vacant,
       StacksShort, VacantFs, VacantVolumes, VolumesFlagged, Placed, Sited, FilterPlaces,
       NotifyPlaces, MountPlaces, UnloadPlaces, Held, InHand, Serving, Waiting, Loading
  <1>11. Loading'
    BY <1>1, <1>2, <1>3, <1>4, <1>5, FilterApart, PlacedWhere DEF FilterInv, Loading,
       Placed, Sited, FilterPlaces, NotifyPlaces, MountPlaces, UnloadPlaces, Held, InHand,
       Serving, Waiting
  <1>12. Alive'
    BY <1>1, <1>2, <1>3, <1>4, <1>5, FilterApart, PlacedWhere DEF FilterInv, Alive, Sited,
       FilterPlaces, NotifyPlaces, MountPlaces, UnloadPlaces, Held, InHand, Serving, Placed,
       Waiting, Loading
  <1>13. Covered'
    BY <1>1, <1>2, <1>3, <1>4, <1>5, FilterApart, PlacedWhere DEF FilterInv, Covered, Sited,
       FilterPlaces, NotifyPlaces, MountPlaces, UnloadPlaces, Held, InHand, Serving, Placed,
       Waiting, Loading
  <1>14. Waiting'
    BY <1>1, <1>2, <1>3, <1>4, <1>5, FilterApart, PlacedWhere DEF FilterInv, Waiting, Sited,
       FilterPlaces, NotifyPlaces, MountPlaces, UnloadPlaces, Held, InHand, Serving, Placed,
       Loading
  <1>15. NoneForgotten'
    BY <1>1, <1>2, <1>3, <1>4, <1>5, FilterApart, PlacedWhere DEF FilterInv, NoneForgotten,
       Sited, FilterPlaces, NotifyPlaces, MountPlaces, UnloadPlaces, Held, InHand, Serving,
       Placed, Waiting, Loading
  <1>16. UnloadDetachable'
    <2>1. u.work \subseteq Devices
      BY OneAbove DEF UTypes
    <2>2. d \notin u.work
      BY <1>1, <1>2, <1>3, <1>4, <1>5 DEF FilterInv, FilterPlaces, UnloadPlaces
    <2> QED
      BY <1>1, <1>2, <1>3, <1>4, <1>5, <2>1, <2>2, FilterApart DEF FilterInv,
         UnloadDetachable, FilterPlaces, MountPlaces
  <1>17. NoBypass'
    BY <1>1, <1>2, <1>3, <1>4, <1>5, FilterApart, PlacedWhere DEF FilterInv, NoBypass,
       Sited, FilterPlaces, NotifyPlaces, MountPlaces, UnloadPlaces, Held, InHand, Serving,
       Placed, Waiting, Loading
  <1> QED
    BY <1>6, <1>7, <1>8, <1>9, <1>10, <1>11, <1>12, <1>13, <1>14, <1>15, <1>16, <1>17 DEF
       FilterInv

LEMMA MountStartsKeeps ==
  ASSUME FilterInv, NEW v \in Volumes, MountStarts(v)
  PROVE  FilterInv'
  BY MountIgnoredKeeps, MountMakesKeeps DEF MountStarts

LEMMA MountUnseenKeeps ==
  ASSUME FilterInv, NEW v \in Volumes, NEW ok \in BOOLEAN, mount[v].pc = "below",
         vol' = [vol EXCEPT ![v] = IF @ = "mounted" \/ ok THEN "mounted" ELSE "none"],
         mount[v].dev = None, mount' = [mount EXCEPT ![v] = MIdle],
         excused' = IF ok /\ stack[FsOf[v]] # <<>> THEN excused \cup {v} ELSE excused,
         UNCHANGED <<fs, devices, lock, OthersOfMount, refused, bypassed>>
  PROVE  FilterInv'
  <1>1. /\ UNCHANGED <<fs, stack, dev, lock, todo, n, req, load, u, refused, bypassed>>
        /\ (\A s : Above(s)' = Above(s)) /\ (\A e : Attached(e)' <=> Attached(e))
        /\ mount[v].pc = "below" /\ mount[v].dev = None
        /\ excused' = IF ok /\ stack[FsOf[v]] # <<>> THEN excused \cup {v} ELSE excused
    BY StacksSame DEF devices, OthersOfMount
  <1>2. vol'[v] \in {"mounted", "none"}
        /\ (vol'[v] = "mounted" <=> vol[v] = "mounted" \/ ok)
        /\ (\A w \in Volumes \ {v} : vol'[w] = vol[w])
        /\ vol' \in [Volumes -> {"none", "made", "mounted", "going"}]
    BY <1>1, OneAbove DEF RestTyped
  <1>3. (vol'[v] = "none" => stack[v] = <<>>)
        /\ vol'[v] # "going"
        /\ vol[v] # "going"
        /\ (vol[v] = "mounted" => vol'[v] = "mounted")
    BY <1>1, <1>2, OneAbove DEF FilterInv, FilterPlaces, MountPlaces, RestTyped
  <1>4. /\ mount' \in MountTypes
        /\ mount'[v].pc = "idle"
        /\ mount'[v].via = None
        /\ mount'[v].dev = None
        /\ mount'[v].ok = FALSE
        /\ \A w \in Volumes \ {v} : mount'[w] = mount[w]
    BY <1>1, OneAbove, FilterApart DEF MountTypes, MIdle
  <1>5. TypeOK'
    <2>1. RestTyped'
      BY <1>1, <1>2, <1>3, <1>4, OneAbove, FilterApart, PlacedWhere DEF RestTyped
    <2>2. /\ lock' = "n" <=> n'.pc \in {"attachVolume", "drop"}
          /\ \A w \in Volumes : lock' = w <=> mount'[w].pc \in {"attach", "drop"}
      BY <1>1, <1>2, <1>3, <1>4, TypesAre, FilterApart DEF FilterInv, FilterTypes,
         FilterPlaces, NotifyPlaces, MountPlaces, UnloadPlaces
    <2> QED
      BY <1>1, <1>2, <1>3, <1>4, <2>1, <2>2, TypesAre, FilterApart DEF FilterInv,
         FilterTypes
  <1>6. FilterPlaces'
    <2>1. NotifyPlaces'
      BY <1>1, <1>2, <1>3, <1>4 DEF FilterInv, FilterPlaces, NotifyPlaces, Serving
    <2>2. MountPlaces'
      BY <1>1, <1>2, <1>3, <1>4 DEF FilterInv, FilterPlaces, MountPlaces
    <2>3. UnloadPlaces'
      <3>1. u.list \subseteq Devices
        BY OneAbove DEF UTypes
      <3> QED
        BY <1>1, <1>2, <1>3, <1>4, <3>1 DEF FilterInv, FilterPlaces, UnloadPlaces
    <2> QED
      BY <2>1, <2>2, <2>3 DEF FilterPlaces, NotifyPlaces, MountPlaces, UnloadPlaces
  <1>7. Sited'
    BY <1>1, <1>2, <1>3, <1>4, FilterApart, PlacedWhere DEF FilterInv, Sited
  <1>8. Held'
    BY <1>1, <1>2, <1>3, <1>4, FilterApart, PlacedWhere DEF FilterInv, Held, InHand,
       Serving, Placed, Sited, FilterPlaces, NotifyPlaces, MountPlaces, UnloadPlaces
  <1>9. Vacant'
    BY <1>1, <1>2, <1>3, <1>4, FilterApart, PlacedWhere DEF FilterInv, Vacant, StacksShort,
       VacantFs, VacantVolumes, VolumesFlagged, Placed, FilterPlaces, NotifyPlaces,
       MountPlaces, UnloadPlaces, Sited, Held, InHand, Serving
  <1>10. Loading'
    BY <1>1, <1>2, <1>3, <1>4, FilterApart, PlacedWhere DEF FilterInv, Loading, Placed,
       FilterPlaces, NotifyPlaces, MountPlaces, UnloadPlaces, Sited, Vacant, StacksShort,
       VacantFs, VacantVolumes, VolumesFlagged
  <1>11. Alive'
    BY <1>1, <1>2, <1>3, <1>4, FilterApart, PlacedWhere DEF FilterInv, Alive, Held, InHand,
       Placed, Serving, FilterPlaces, NotifyPlaces, MountPlaces, UnloadPlaces
  <1>12. Covered'
    <2> SUFFICES ASSUME u.pc = "idle", NEW w \in Volumes, vol'[w] = "mounted", FsOf[w] \notin Recognizers,
                        \E e \in Above(FsOf[w]) : dev[e].flag, w \notin Shadows \cup excused'
                 PROVE  \/ stack[w] # <<>>
                        \/ n.fs = FsOf[w] /\ n.pc = "list"
                        \/ n.fs = FsOf[w] /\ n.pc \in {"each", "lock", "attachVolume", "drop"} /\ w \in n.list
                        \/ n.pc \in {"lock", "attachVolume"} /\ n.vol = w
                        \/ mount'[w].pc = "returned" /\ mount'[w].ok
                        \/ mount'[w].pc = "attach"
      BY <1>1, <1>2, <1>3, <1>4 DEF Covered
    <2>1. stack[FsOf[w]] # <<>>
      BY OneAbove, FilterApart
    <2>2. CASE w = v
      BY <1>1, <1>2, <1>3, <1>4, <2>1, <2>2 DEF FilterInv, Covered
    <2>3. CASE w # v
      BY <1>1, <1>2, <1>3, <1>4, <2>3 DEF FilterInv, Covered
    <2> QED
      BY <2>2, <2>3
  <1>13. Waiting'
    BY <1>1, <1>2, <1>3, <1>4, FilterApart, PlacedWhere DEF FilterInv, Waiting,
       FilterPlaces, NotifyPlaces, MountPlaces, UnloadPlaces, Sited
  <1>14. NoneForgotten'
    BY <1>1, <1>2, <1>3, <1>4, FilterApart, PlacedWhere DEF FilterInv, NoneForgotten,
       FilterPlaces, NotifyPlaces, MountPlaces, UnloadPlaces
  <1>15. UnloadDetachable'
    BY <1>1, <1>2, <1>3, <1>4, FilterApart, PlacedWhere DEF FilterInv, UnloadDetachable,
       FilterPlaces, NotifyPlaces, MountPlaces, UnloadPlaces, NoneForgotten
  <1>16. NoBypass'
    BY <1>1, <1>2, <1>3, <1>4, FilterApart, PlacedWhere DEF FilterInv, NoBypass
  <1> QED
    BY <1>5, <1>6, <1>7, <1>8, <1>9, <1>10, <1>11, <1>12, <1>13, <1>14, <1>15, <1>16 DEF
       FilterInv

LEMMA MountSeenKeeps ==
  ASSUME FilterInv, NEW v \in Volumes, NEW ok \in BOOLEAN, mount[v].pc = "below",
         vol' = [vol EXCEPT ![v] = IF @ = "mounted" \/ ok THEN "mounted" ELSE "none"],
         mount[v].dev # None, mount' \in MountTypes, mount'[v].pc = "returned",
         mount'[v].via = mount[v].via, mount'[v].dev = mount[v].dev, mount'[v].ok <=> ok,
         \A w \in Volumes \ {v} : mount'[w] = mount[w],
         UNCHANGED <<excused, fs, devices, lock, OthersOfMount, refused, bypassed>>
  PROVE  FilterInv'
  <1>1. /\ UNCHANGED <<fs, stack, dev, lock, todo, n, req, load, u, excused, refused, bypassed>>
        /\ (\A s : Above(s)' = Above(s)) /\ (\A e : Attached(e)' <=> Attached(e))
        /\ mount[v].pc = "below" /\ mount[v].dev # None
    BY StacksSame DEF devices, OthersOfMount
  <1>2. vol'[v] \in {"mounted", "none"}
        /\ (vol'[v] = "mounted" <=> vol[v] = "mounted" \/ ok)
        /\ (\A w \in Volumes \ {v} : vol'[w] = vol[w])
        /\ vol' \in [Volumes -> {"none", "made", "mounted", "going"}]
    BY <1>1, OneAbove DEF RestTyped
  <1>3. (vol'[v] = "none" => stack[v] = <<>>)
        /\ vol'[v] # "going"
        /\ vol[v] # "going"
        /\ (vol[v] = "mounted" => vol'[v] = "mounted")
    BY <1>1, <1>2, OneAbove DEF FilterInv, FilterPlaces, MountPlaces, RestTyped
  <1>4. TypeOK'
    <2>1. RestTyped'
      BY <1>1, <1>2, <1>3, OneAbove, FilterApart, PlacedWhere DEF RestTyped
    <2>2. /\ lock' = "n" <=> n'.pc \in {"attachVolume", "drop"}
          /\ \A w \in Volumes : lock' = w <=> mount'[w].pc \in {"attach", "drop"}
      BY <1>1, <1>2, <1>3, TypesAre, FilterApart DEF FilterInv, FilterTypes, FilterPlaces,
         NotifyPlaces, MountPlaces, UnloadPlaces
    <2> QED
      BY <1>1, <1>2, <1>3, <2>1, <2>2, TypesAre, FilterApart DEF FilterInv, FilterTypes
  <1>5. FilterPlaces'
    <2>1. NotifyPlaces'
      BY <1>1, <1>2, <1>3 DEF FilterInv, FilterPlaces, NotifyPlaces, Serving
    <2>2. MountPlaces'
      BY <1>1, <1>2, <1>3 DEF FilterInv, FilterPlaces, MountPlaces
    <2>3. UnloadPlaces'
      <3>1. u.list \subseteq Devices
        BY OneAbove DEF UTypes
      <3> QED
        BY <1>1, <1>2, <1>3, <3>1 DEF FilterInv, FilterPlaces, UnloadPlaces
    <2> QED
      BY <2>1, <2>2, <2>3 DEF FilterPlaces, NotifyPlaces, MountPlaces, UnloadPlaces
  <1>6. Sited'
    BY <1>1, <1>2, <1>3, FilterApart, PlacedWhere DEF FilterInv, Sited
  <1>7. Held'
    BY <1>1, <1>2, <1>3, FilterApart, PlacedWhere DEF FilterInv, Held, InHand, Serving,
       Placed, Sited, FilterPlaces, NotifyPlaces, MountPlaces, UnloadPlaces
  <1>8. Vacant'
    BY <1>1, <1>2, <1>3, FilterApart, PlacedWhere DEF FilterInv, Vacant, StacksShort,
       VacantFs, VacantVolumes, VolumesFlagged, Placed, FilterPlaces, NotifyPlaces,
       MountPlaces, UnloadPlaces, Sited, Held, InHand, Serving
  <1>9. Loading'
    BY <1>1, <1>2, <1>3, FilterApart, PlacedWhere DEF FilterInv, Loading, Placed,
       FilterPlaces, NotifyPlaces, MountPlaces, UnloadPlaces, Sited, Vacant, StacksShort,
       VacantFs, VacantVolumes, VolumesFlagged
  <1>10. Alive'
    BY <1>1, <1>2, <1>3, FilterApart, PlacedWhere DEF FilterInv, Alive, Held, InHand,
       Placed, Serving, FilterPlaces, NotifyPlaces, MountPlaces, UnloadPlaces
  <1>11. Covered'
    <2> SUFFICES ASSUME u.pc = "idle", NEW w \in Volumes, vol'[w] = "mounted", FsOf[w] \notin Recognizers,
                        \E e \in Above(FsOf[w]) : dev[e].flag, w \notin Shadows \cup excused'
                 PROVE  \/ stack[w] # <<>>
                        \/ n.fs = FsOf[w] /\ n.pc = "list"
                        \/ n.fs = FsOf[w] /\ n.pc \in {"each", "lock", "attachVolume", "drop"} /\ w \in n.list
                        \/ n.pc \in {"lock", "attachVolume"} /\ n.vol = w
                        \/ mount'[w].pc = "returned" /\ mount'[w].ok
                        \/ mount'[w].pc = "attach"
      BY <1>1, <1>2, <1>3 DEF Covered
    <2>1. stack[FsOf[w]] # <<>>
      BY OneAbove, FilterApart
    <2>2. CASE w = v
      BY <1>1, <1>2, <1>3, <2>1, <2>2 DEF FilterInv, Covered
    <2>3. CASE w # v
      BY <1>1, <1>2, <1>3, <2>3 DEF FilterInv, Covered
    <2> QED
      BY <2>2, <2>3
  <1>12. Waiting'
    BY <1>1, <1>2, <1>3, FilterApart, PlacedWhere DEF FilterInv, Waiting, FilterPlaces,
       NotifyPlaces, MountPlaces, UnloadPlaces, Sited
  <1>13. NoneForgotten'
    BY <1>1, <1>2, <1>3, FilterApart, PlacedWhere DEF FilterInv, NoneForgotten,
       FilterPlaces, NotifyPlaces, MountPlaces, UnloadPlaces
  <1>14. UnloadDetachable'
    BY <1>1, <1>2, <1>3, FilterApart, PlacedWhere DEF FilterInv, UnloadDetachable,
       FilterPlaces, NotifyPlaces, MountPlaces, UnloadPlaces, NoneForgotten
  <1>15. NoBypass'
    BY <1>1, <1>2, <1>3, FilterApart, PlacedWhere DEF FilterInv, NoBypass
  <1> QED
    BY <1>4, <1>5, <1>6, <1>7, <1>8, <1>9, <1>10, <1>11, <1>12, <1>13, <1>14, <1>15 DEF
       FilterInv

LEMMA FsReturnsKeeps ==
  ASSUME FilterInv, NEW v \in Volumes, NEW ok \in BOOLEAN, FsReturns(v, ok)
  PROVE  FilterInv'
  <1>1. CASE mount[v].dev = None
    BY <1>1, MountUnseenKeeps DEF FsReturns
  <1>2. CASE mount[v].dev # None
    <2>1. mount' = [mount EXCEPT ![v].pc = "returned", ![v].ok = ok]
      BY <1>2 DEF FsReturns
    <2>2. /\ mount' \in MountTypes /\ mount'[v].pc = "returned"
          /\ mount'[v].via = mount[v].via /\ mount'[v].dev = mount[v].dev /\ (mount'[v].ok <=> ok)
          /\ \A w \in Volumes \ {v} : mount'[w] = mount[w]
      BY <2>1, OneAbove, Returned
    <2> QED
      BY <1>2, <2>2, MountSeenKeeps DEF FsReturns
  <1> QED
    BY <1>1, <1>2

LEMMA UnloadListsKeeps ==
  ASSUME FilterInv, UnloadLists
  PROVE  FilterInv'
  <1>1. /\ UNCHANGED <<fs, vol, stack, dev, lock, todo, n, mount, req, load, excused, refused, bypassed>>
        /\ (\A s : Above(s)' = Above(s)) /\ (\A e : Attached(e)' <=> Attached(e))
        /\ u.pc = "list"
        /\ u' \in UTypes /\ u'.list = {d \in Devices : dev[d].st = "live"} /\ u'.work = u'.list
        /\ u'.pc = (IF u'.list = {} THEN "done" ELSE "detach")
    BY StacksSame DEF UnloadLists, UIdle, UTypes, devices, OthersOfUnload, system, ghosts
  <1>2. TypeOK'
    <2>1. RestTyped'
      BY <1>1, OneAbove, FilterApart, PlacedWhere DEF RestTyped
    <2>2. /\ lock' = "n" <=> n'.pc \in {"attachVolume", "drop"}
          /\ \A w \in Volumes : lock' = w <=> mount'[w].pc \in {"attach", "drop"}
      BY <1>1, TypesAre, FilterApart DEF FilterInv, FilterTypes, FilterPlaces, NotifyPlaces,
         MountPlaces, UnloadPlaces
    <2> QED
      BY <1>1, <2>1, <2>2, TypesAre, FilterApart DEF FilterInv, FilterTypes
  <1>3. FilterPlaces'
    BY <1>1, FilterApart, PlacedWhere DEF FilterInv, FilterPlaces, NotifyPlaces,
       MountPlaces, UnloadPlaces, Serving
  <1>4. Sited'
    BY <1>1, FilterApart, PlacedWhere DEF FilterInv, Sited
  <1>5. Held'
    BY <1>1, FilterApart, PlacedWhere DEF FilterInv, Held, InHand, Serving, Placed, Sited,
       FilterPlaces, NotifyPlaces, MountPlaces, UnloadPlaces
  <1>6. Vacant'
    BY <1>1, FilterApart, PlacedWhere DEF FilterInv, Vacant, StacksShort, VacantFs,
       VacantVolumes, VolumesFlagged, Placed, FilterPlaces, NotifyPlaces, MountPlaces,
       UnloadPlaces, Sited, Held, InHand, Serving
  <1>7. Loading'
    BY <1>1, FilterApart, PlacedWhere DEF FilterInv, Loading, Placed, FilterPlaces,
       NotifyPlaces, MountPlaces, UnloadPlaces, Sited, Vacant, StacksShort, VacantFs,
       VacantVolumes, VolumesFlagged
  <1>8. Alive'
    BY <1>1, FilterApart, PlacedWhere DEF FilterInv, Alive, Held, InHand, Placed, Serving,
       FilterPlaces, NotifyPlaces, MountPlaces, UnloadPlaces
  <1>9. Covered'
    BY <1>1, FilterApart, PlacedWhere DEF FilterInv, Covered, FilterPlaces, NotifyPlaces,
       MountPlaces, UnloadPlaces
  <1>10. Waiting'
    BY <1>1, FilterApart, PlacedWhere DEF FilterInv, Waiting, FilterPlaces, NotifyPlaces,
       MountPlaces, UnloadPlaces, Sited
  <1>11. NoneForgotten'
    BY <1>1, FilterApart, PlacedWhere DEF FilterInv, NoneForgotten, FilterPlaces,
       NotifyPlaces, MountPlaces, UnloadPlaces
  <1>12. UnloadDetachable'
    BY <1>1, FilterApart, PlacedWhere DEF FilterInv, UnloadDetachable, NoneForgotten,
       FilterPlaces, NotifyPlaces, MountPlaces, UnloadPlaces, Serving
  <1>13. NoBypass'
    BY <1>1, FilterApart, PlacedWhere DEF FilterInv, NoBypass
  <1> QED
    BY <1>2, <1>3, <1>4, <1>5, <1>6, <1>7, <1>8, <1>9, <1>10, <1>11, <1>12, <1>13 DEF
       FilterInv

-----------------------------------------------------------------------------
(* The steps that detach a device, and those that delete one elsewhere.    *)

LEMMA FlagSet ==
  ASSUME FilterInv, NotifyFlags
  PROVE  /\ dev' \in DevTypes /\ dev'[n.dev].flag
         /\ \A e \in Devices : dev'[e].st = dev[e].st /\ dev'[e].to = dev[e].to
         /\ \A e \in Devices \ {n.dev} : dev'[e] = dev[e]
  <1>1. dev \in DevTypes /\ n.dev \in Devices
    BY DevicesTyped, PlacedWhere DEF FilterInv, NotifyFlags
  <1> QED
    BY <1>1 DEF NotifyFlags, DevTypes

LEMMA NotifyFlagsKeeps ==
  ASSUME FilterInv, NotifyFlags
  PROVE  FilterInv'
  <1>1. /\ UNCHANGED <<fs, vol, stack, lock, todo, mount, req, load, u, excused, refused, bypassed>>
        /\ (\A s : Above(s)' = Above(s)) /\ (\A e : Attached(e)' <=> Attached(e))
        /\ n.pc = "flag" /\ u.pc = "idle" /\ n.fs \in Fs /\ n.dev \in Devices
    BY StacksSame, PlacedWhere DEF NotifyFlags, system, Others, ghosts, FilterInv,
       FilterPlaces, NotifyPlaces
  <1>2. /\ n' \in NTypes
        /\ n'.pc = "list"
        /\ n'.fs = n.fs
        /\ n'.dev = n.dev
        /\ n'.list = n.list
        /\ n'.vol = n.vol
        /\ n'.new = n.new
    BY OneAbove, FilterApart, PlacedWhere DEF NTypes, NotifyFlags
  <1>3. dev' \in DevTypes
        /\ dev'[n.dev].flag
        /\ (\A e \in Devices : dev'[e].st = dev[e].st
        /\ dev'[e].to = dev[e].to)
        /\ (\A e \in Devices \ {n.dev} : dev'[e] = dev[e])
    BY FlagSet
  <1>4. n.dev \in Above(n.fs)
        /\ n.fs \in Targets
        /\ (\A v \in Volumes : n.dev \notin Above(v))
        /\ (\A v \in Volumes : mount[v].dev # None => mount[v].dev # n.dev)
    BY <1>1, FilterApart, PlacedWhere DEF FilterInv, Held, Placed, Sited
  <1>5. TypeOK'
    <2>1. RestTyped'
      BY <1>1, <1>2, <1>3, <1>4, OneAbove, FilterApart, PlacedWhere DEF RestTyped
    <2>2. /\ lock' = "n" <=> n'.pc \in {"attachVolume", "drop"}
          /\ \A w \in Volumes : lock' = w <=> mount'[w].pc \in {"attach", "drop"}
      BY <1>1, <1>2, <1>3, <1>4, TypesAre, FilterApart DEF FilterInv, FilterTypes,
         FilterPlaces, NotifyPlaces, MountPlaces, UnloadPlaces
    <2> QED
      BY <1>1, <1>2, <1>3, <1>4, <2>1, <2>2, TypesAre, FilterApart DEF FilterInv,
         FilterTypes
  <1>6. FilterPlaces'
    <2>1. NotifyPlaces'
      BY <1>1, <1>2, <1>3, <1>4 DEF FilterInv, FilterPlaces, NotifyPlaces, Serving
    <2>2. MountPlaces'
      BY <1>1, <1>2, <1>3, <1>4 DEF FilterInv, FilterPlaces, MountPlaces
    <2>3. UnloadPlaces'
      <3>1. u.list \subseteq Devices
        BY OneAbove DEF UTypes
      <3> QED
        BY <1>1, <1>2, <1>3, <1>4, <3>1 DEF FilterInv, FilterPlaces, UnloadPlaces
    <2> QED
      BY <2>1, <2>2, <2>3 DEF FilterPlaces, NotifyPlaces, MountPlaces, UnloadPlaces
  <1>7. Sited'
    BY <1>1, <1>2, <1>3, <1>4, FilterApart, PlacedWhere DEF FilterInv, Sited
  <1>8. Held'
    <2>1. \A e \in Devices : InHand(e)' <=> InHand(e)
      BY <1>1, <1>3 DEF InHand
    <2>2. \A e \in Devices : dev[e].flag => dev'[e].flag
      BY <1>3
    <2> QED
      BY <1>1, <1>2, <1>3, <1>4, <2>1, <2>2, PlacedWhere DEF FilterInv, Held, Serving,
         Placed
  <1>9. Vacant'
    BY <1>1, <1>2, <1>3, <1>4, FilterApart, PlacedWhere DEF FilterInv, Vacant, StacksShort,
       VacantFs, VacantVolumes, VolumesFlagged, Placed, FilterPlaces, NotifyPlaces,
       MountPlaces, UnloadPlaces, Sited, Held, InHand, Serving
  <1>10. Loading'
    <2>1. load.pc = "below" => load.dev \in Devices /\ dev'[load.dev].st = dev[load.dev].st /\ dev'[load.dev].to = dev[load.dev].to
      BY <1>3, PlacedWhere
    <2> QED
      BY <1>1, <1>2, <2>1 DEF FilterInv, Loading, Placed
  <1>11. Alive'
    BY <1>1, <1>2, <1>3, <1>4, FilterApart, PlacedWhere DEF FilterInv, Alive, Held, InHand,
       Placed, Serving, FilterPlaces, NotifyPlaces, MountPlaces, UnloadPlaces
  <1>12. Covered'
    <2>1. \A w \in Volumes : FsOf[w] # n.fs => \A e \in Above(FsOf[w]) : e \in Devices /\ e # n.dev
      BY <1>4, FilterApart, PlacedWhere DEF FilterInv, Sited
    <2> QED
      BY <1>1, <1>2, <1>3, <1>4, <2>1, FilterApart DEF FilterInv, Covered
  <1>13. Waiting'
    BY <1>1, <1>2, <1>3, <1>4, FilterApart, PlacedWhere DEF FilterInv, Waiting,
       FilterPlaces, NotifyPlaces, MountPlaces, UnloadPlaces, Sited
  <1>14. NoneForgotten'
    BY <1>1, <1>2, <1>3, <1>4, FilterApart, PlacedWhere DEF FilterInv, NoneForgotten,
       FilterPlaces, NotifyPlaces, MountPlaces, UnloadPlaces
  <1>15. UnloadDetachable'
    BY <1>1, <1>2, <1>3, <1>4, FilterApart, PlacedWhere DEF FilterInv, UnloadDetachable,
       FilterPlaces, NotifyPlaces, MountPlaces, UnloadPlaces, NoneForgotten
  <1>16. NoBypass'
    BY <1>1, <1>2, <1>3, <1>4, FilterApart, PlacedWhere DEF FilterInv, NoBypass
  <1> QED
    BY <1>5, <1>6, <1>7, <1>8, <1>9, <1>10, <1>11, <1>12, <1>13, <1>14, <1>15, <1>16 DEF
       FilterInv

LEMMA ListFailsKeeps ==
  ASSUME FilterInv, NEW d \in Devices, NEW t \in Fs, n.pc = "list", n.fs = t, n.dev = d,
         stack' = [stack EXCEPT ![t] = << >>], Deletes(d), NotifyEnds,
         UNCHANGED <<system, Others, ghosts>>
  PROVE  FilterInv'
  <1>1. /\ UNCHANGED <<fs, vol, lock, mount, req, load, u, excused, refused, bypassed>>
        /\ n.pc = "list" /\ u.pc = "idle" /\ n.fs = t /\ n.dev = d
        /\ n' = NIdle /\ todo' = todo \ {t}
    BY DEF NotifyEnds, system, Others, ghosts, FilterInv, FilterPlaces, NotifyPlaces
  <1>2. d \in Devices
        /\ t \in Targets
        /\ d # None
        /\ d \in Above(t)
        /\ Deletes(d)
        /\ stack' = [stack EXCEPT ![t] = <<>>]
    BY <1>1, FilterApart DEF FilterInv, Held, Placed
  <1>3. AboveLoses(t)
        /\ Drops(d)
        /\ Sited'
        /\ Alive'
        /\ (\A e \in Devices \ {d} : Attached(e)' <=> Attached(e))
        /\ (\A s \in Targets : s # t => \A e \in Above(s) : e # d)
    BY <1>1, <1>2, DropDetached
  <1>4. dev[d].to = t
        /\ dev[d].st # "none"
        /\ (Remembered(d) => dev'[d].st # "none"
        /\ dev'[d].to = dev[d].to
        /\ dev'[d].flag = dev[d].flag)
    BY <1>2, GoneOf DEF FilterInv, Sited
  <1>5. stack'[t] = <<>>
        /\ (\A s \in Targets : s # t => stack'[s] = stack[s])
        /\ (\A s \in Targets : \A e : e \in Above(s)' <=> e \in Above(s)
        /\ s # t)
        /\ stack' \in [Targets -> Seq(Devices)]
        /\ dev' \in DevTypes
    BY <1>3 DEF AboveLoses, Drops
  <1>6. \A s \in Targets : s # t => \A e \in Above(s) : e \in Devices
        /\ e # d
        /\ dev'[e] = dev[e]
    BY <1>3, PlacedWhere DEF Drops
  <1>7. \A w \in Volumes : mount[w].dev # None => mount[w].dev \in Devices
        /\ mount[w].dev # d
        /\ dev'[mount[w].dev] = dev[mount[w].dev]
    BY <1>2, <1>3, <1>4, PlacedWhere, FilterApart DEF FilterInv, Held, InHand, Drops
  <1>8. /\ n' \in NTypes
        /\ n'.pc = "idle"
        /\ n'.fs = None
        /\ n'.dev = None
        /\ n'.list = {}
        /\ n'.vol = None
        /\ n'.new = None
    BY <1>1, OneAbove, FilterApart, PlacedWhere DEF NTypes, NIdle
  <1>9. TypeOK'
    <2>1. RestTyped'
      BY <1>1, <1>2, <1>4, <1>5, <1>6, <1>7, <1>8, OneAbove, FilterApart, PlacedWhere DEF
         RestTyped
    <2>2. /\ lock' = "n" <=> n'.pc \in {"attachVolume", "drop"}
          /\ \A w \in Volumes : lock' = w <=> mount'[w].pc \in {"attach", "drop"}
      BY <1>1, <1>8, TypesAre, FilterApart DEF FilterInv, FilterTypes
    <2> QED
      BY <1>1, <1>2, <1>4, <1>5, <1>6, <1>7, <1>8, <2>1, <2>2, OneAbove, TypesAre,
         FilterApart DEF FilterInv, FilterTypes
  <1>10. FilterPlaces'
    <2>1. NotifyPlaces'
      BY <1>1, <1>2, <1>4, <1>5, <1>6, <1>7, <1>8, PlacedWhere DEF FilterInv, FilterPlaces,
         NotifyPlaces, Serving
    <2>2. MountPlaces'
      BY <1>1, <1>2, <1>4, <1>5, <1>6, <1>7, <1>8, FilterApart DEF FilterInv, FilterPlaces,
         MountPlaces
    <2>3. UnloadPlaces'
      <3>1. u.list \subseteq Devices
        BY OneAbove DEF UTypes
      <3> QED
        BY <1>1, <1>2, <1>4, <1>5, <1>6, <1>7, <1>8, <1>3, <3>1 DEF FilterInv, FilterPlaces,
           UnloadPlaces, Drops
    <2> QED
      BY <2>1, <2>2, <2>3 DEF FilterPlaces, NotifyPlaces, MountPlaces, UnloadPlaces
  <1>11. Sited'
    BY <1>3
  <1>12. Held'
    <2>1. \A e \in Devices : e # d => dev'[e] = dev[e] /\ (InHand(e)' <=> InHand(e))
      BY <1>3 DEF Drops
    <2>2. \A w \in Volumes : mount[w].dev # None =>
            /\ dev'[mount[w].dev].to = None /\ dev'[mount[w].dev].st # "none"
            /\ dev'[mount[w].dev].flag /\ (u.pc = "idle" => dev'[mount[w].dev].st = "live")
            /\ mount[w].dev # n.new /\ mount[w].dev # n.dev
            /\ \A x \in Volumes \ {w} : mount[x].dev # mount[w].dev
      BY <1>7 DEF FilterInv, Held, InHand
    <2> QED
      BY <1>1, <1>8, <2>2 DEF Held, InHand, Serving, Placed
  <1>13. Vacant'
    <2>1. StacksShort'
      BY <1>1, <1>2, <1>4, <1>5, <1>6, <1>7, <1>8, NoneOf, FilterApart DEF FilterInv,
         Vacant, StacksShort
    <2>2. VacantFs'
      BY <1>1, <1>2, <1>4, <1>5, <1>6, <1>7, <1>8, FilterApart, PlacedWhere DEF FilterInv,
         Vacant, VacantFs, Placed
    <2>3. VacantVolumes'
      BY <1>1, <1>2, <1>4, <1>5, <1>6, <1>7, <1>8, FilterApart, PlacedWhere DEF FilterInv,
         Vacant, VacantVolumes, Serving
    <2>4. VolumesFlagged'
      BY <1>5, <1>6, FilterApart DEF FilterInv, Vacant, VolumesFlagged
    <2> QED
      BY <2>1, <2>2, <2>3, <2>4 DEF Vacant, StacksShort, VacantFs, VacantVolumes,
         VolumesFlagged
  <1>14. Loading'
    <2>1. load.pc = "below" => load.dev \in Devices /\ dev'[load.dev].st # "none" /\ dev'[load.dev].to = dev[load.dev].to
      <3>1. CASE load.dev = d
        <4>1. load.pc = "below" => t \in Recognizers
          BY <1>4, <3>1 DEF FilterInv, Loading
        <4> QED
          BY <1>2, <1>4, <3>1, <4>1, RememberedIn
      <3>2. CASE load.dev # d
        BY <1>3, <3>2, PlacedWhere DEF FilterInv, Loading, Drops
      <3> QED
        BY <3>1, <3>2
    <2>2. \A r \in Recognizers : Above(r)' \subseteq Above(r)
      BY <1>3, FilterApart DEF AboveLoses
    <2> QED
      BY <1>1, <1>8, <2>1, <2>2, FilterApart DEF FilterInv, Loading, Placed
  <1>15. Alive'
    BY <1>3
  <1>16. Covered'
    <2>1. \A w \in Volumes : \A e \in Above(FsOf[w])' : e \in Above(FsOf[w]) /\ FsOf[w] # t /\ dev'[e] = dev[e]
      BY <1>5, <1>6, FilterApart
    <2> QED
      BY <1>1, <1>2, <1>4, <1>5, <1>6, <1>7, <1>8, <2>1, FilterApart DEF FilterInv, Covered
  <1>17. Waiting'
    <2>1. \A i \in Requests : req[i].dev = d => Remembered(d)
      BY RememberedIn
    <2>2. \A i \in Requests : req[i].dev # None /\ req[i].dev # d => dev'[req[i].dev] = dev[req[i].dev]
      BY <1>3, PlacedWhere DEF Drops
    <2>3. \A i \in Requests : req[i].dev = d => dev'[d].to = t /\ dev'[d].st # "none" /\ t \in Targets /\ t \notin Volumes
      BY <1>1, <1>2, <1>4, <2>1, FilterApart
    <2> QED
      BY <1>1, <2>2, <2>3 DEF FilterInv, Waiting
  <1>18. NoneForgotten'
    <2>1. \A e \in Devices : dev'[e].st = "live" => e # d /\ dev'[e] = dev[e] /\ (Attached(e)' <=> Attached(e))
      BY <1>3 DEF Drops
    <2> QED
      BY <1>1, <1>2, <1>4, <1>5, <1>6, <1>7, <1>8, <2>1 DEF FilterInv, NoneForgotten,
         FilterPlaces, NotifyPlaces, Serving
  <1>19. UnloadDetachable'
    <2>1. \A e \in Devices : e # d => dev'[e] = dev[e] /\ (Attached(e)' <=> Attached(e))
      BY <1>3 DEF Drops
    <2>2. u.work \subseteq Devices
      BY OneAbove DEF UTypes
    <2>3. u.pc = "detach" => dev'[d].st = "dead"
      BY <1>1, <1>3 DEF Drops
    <2> QED
      BY <1>1, <1>2, <1>4, <1>5, <1>6, <1>7, <1>8, <2>1, <2>2, <2>3 DEF FilterInv,
         UnloadDetachable
  <1>20. NoBypass'
    BY <1>1, <1>2, <1>3, <1>4, <1>5, <1>6, <1>7, <1>8, FilterApart, PlacedWhere DEF
       FilterInv, NoBypass
  <1> QED
    BY <1>9, <1>10, <1>11, <1>12, <1>13, <1>14, <1>15, <1>16, <1>17, <1>18, <1>19, <1>20 DEF
       FilterInv

\* The attachment to a file system fails: the new device is deleted.
LEMMA NotifyAttachFailsKeeps ==
  ASSUME FilterInv, NotifyAttachFails
  PROVE  FilterInv'
  <1>1. /\ UNCHANGED <<fs, vol, stack, lock, mount, req, load, u, excused, refused, bypassed>>
        /\ (\A s : Above(s)' = Above(s)) /\ (\A e : Attached(e)' <=> Attached(e))
        /\ n.pc = "attach" /\ u.pc = "idle" /\ n' = NIdle /\ todo' = todo \ {n.fs}
    BY StacksSame DEF NotifyAttachFails, NotifyEnds, system, Others, ghosts, FilterInv,
       FilterPlaces, NotifyPlaces
  <1>2. n.dev \in Devices
        /\ n.dev # None
        /\ n.new = None
        /\ n.fs \in Fs
    BY <1>1, PlacedWhere, FilterApart DEF FilterInv, FilterPlaces, NotifyPlaces, Serving
  <1>3. dev[n.dev].to = None
        /\ dev[n.dev].st # "none"
        /\ (\A s \in Targets : n.dev \notin Above(s))
    BY <1>1, <1>2, FilterApart DEF FilterInv, Held, InHand, Sited
  <1>4. Drops(n.dev)
    BY <1>1, <1>2, DropSteps DEF NotifyAttachFails
  <1>5. Sited'
        /\ Alive'
    BY <1>1, <1>2, <1>3, <1>4, DropUnattached
  <1>6. \A s \in Targets : \A e \in Above(s) : e \in Devices
        /\ e # n.dev
        /\ dev'[e] = dev[e]
    BY <1>3, <1>4, PlacedWhere DEF Drops
  <1>7. \A w \in Volumes : mount[w].dev # None => mount[w].dev \in Devices
        /\ mount[w].dev # n.dev
        /\ dev'[mount[w].dev] = dev[mount[w].dev]
    BY <1>2, <1>4, PlacedWhere DEF FilterInv, Held, Drops
  <1>8. /\ n' \in NTypes
        /\ n'.pc = "idle"
        /\ n'.fs = None
        /\ n'.dev = None
        /\ n'.list = {}
        /\ n'.vol = None
        /\ n'.new = None
    BY <1>1, OneAbove, FilterApart, PlacedWhere DEF NTypes, NIdle
  <1>9. TypeOK'
    <2>1. RestTyped'
      BY <1>1, <1>2, <1>3, <1>4, <1>5, <1>6, <1>7, <1>8, OneAbove, FilterApart, PlacedWhere
         DEF RestTyped, Drops
    <2>2. /\ lock' = "n" <=> n'.pc \in {"attachVolume", "drop"}
          /\ \A w \in Volumes : lock' = w <=> mount'[w].pc \in {"attach", "drop"}
      BY <1>1, <1>2, <1>3, <1>4, <1>5, <1>6, <1>7, <1>8, TypesAre, FilterApart DEF
         FilterInv, FilterTypes, FilterPlaces, NotifyPlaces, MountPlaces, UnloadPlaces,
         Drops
    <2> QED
      BY <1>1, <1>2, <1>3, <1>4, <1>5, <1>6, <1>7, <1>8, <2>1, <2>2, TypesAre, FilterApart
         DEF FilterInv, FilterTypes, Drops
  <1>10. FilterPlaces'
    <2>1. NotifyPlaces'
      BY <1>1, <1>2, <1>3, <1>4, <1>5, <1>6, <1>7, <1>8 DEF FilterInv, FilterPlaces,
         NotifyPlaces, Serving
    <2>2. MountPlaces'
      BY <1>1, <1>2, <1>3, <1>4, <1>5, <1>6, <1>7, <1>8 DEF FilterInv, FilterPlaces,
         MountPlaces
    <2>3. UnloadPlaces'
      <3>1. u.list \subseteq Devices
        BY OneAbove DEF UTypes
      <3> QED
        BY <1>1, <1>2, <1>3, <1>4, <1>5, <1>6, <1>7, <1>8, <3>1 DEF FilterInv, FilterPlaces,
           UnloadPlaces, Drops
    <2> QED
      BY <2>1, <2>2, <2>3 DEF FilterPlaces, NotifyPlaces, MountPlaces, UnloadPlaces
  <1>11. Sited'
    BY <1>5
  <1>12. Held'
    <2>1. \A w \in Volumes : mount[w].dev # None =>
            /\ dev'[mount[w].dev].to = None /\ dev'[mount[w].dev].st # "none"
            /\ dev'[mount[w].dev].flag /\ (u.pc = "idle" => dev'[mount[w].dev].st = "live")
            /\ \A x \in Volumes \ {w} : mount[x].dev # mount[w].dev
      BY <1>7 DEF FilterInv, Held, InHand
    <2> QED
      BY <1>1, <1>8, <2>1 DEF Held, InHand, Serving, Placed
  <1>13. Vacant'
    <2>1. StacksShort' /\ VacantFs' /\ VacantVolumes'
      BY <1>1, <1>2, <1>3, <1>4, <1>5, <1>6, <1>7, <1>8 DEF FilterInv, Vacant, StacksShort,
         VacantFs, VacantVolumes, Placed
    <2>2. VolumesFlagged'
      BY <1>1, <1>2, <1>3, <1>4, <1>5, <1>6, <1>7, <1>8, FilterApart DEF FilterInv, Vacant,
         VolumesFlagged
    <2> QED
      BY <2>1, <2>2 DEF Vacant, StacksShort, VacantFs, VacantVolumes, VolumesFlagged
  <1>14. Loading'
    <2>1. load.pc = "below" => load.dev \in Devices /\ load.dev # n.dev /\ dev'[load.dev] = dev[load.dev]
      BY <1>1, <1>2, <1>3, <1>4, <1>5, <1>6, <1>7, <1>8, PlacedWhere, FilterApart DEF
         FilterInv, Loading, Drops
    <2> QED
      BY <1>1, <1>2, <1>3, <1>4, <1>5, <1>6, <1>7, <1>8, <2>1 DEF FilterInv, Loading, Placed
  <1>15. Alive'
    BY <1>5
  <1>16. Covered'
    <2>1. \A w \in Volumes : \A e \in Above(FsOf[w]) : dev'[e] = dev[e]
      BY <1>1, <1>2, <1>3, <1>4, <1>5, <1>6, <1>7, <1>8, FilterApart
    <2> QED
      BY <1>1, <1>2, <1>3, <1>4, <1>5, <1>6, <1>7, <1>8, <2>1, FilterApart DEF FilterInv,
         Covered
  <1>17. Waiting'
    <2>1. \A i \in Requests : req[i].dev # None => req[i].dev \in Devices /\ dev'[req[i].dev] = dev[req[i].dev]
      BY <1>1, <1>2, <1>3, <1>4, <1>5, <1>6, <1>7, <1>8, PlacedWhere, FilterApart DEF
         FilterInv, Waiting, Drops
    <2> QED
      BY <1>1, <1>2, <1>3, <1>4, <1>5, <1>6, <1>7, <1>8, <2>1 DEF FilterInv, Waiting
  <1>18. NoneForgotten'
    <2>1. \A e \in Devices : dev'[e].st = "live" => e # n.dev /\ dev'[e] = dev[e]
      BY <1>1, <1>2, <1>3, <1>4, <1>5, <1>6, <1>7, <1>8 DEF Drops
    <2> QED
      BY <1>1, <1>2, <1>3, <1>4, <1>5, <1>6, <1>7, <1>8, <2>1 DEF FilterInv, NoneForgotten
  <1>19. UnloadDetachable'
    <2>1. \A e \in Devices : e # n.dev => dev'[e] = dev[e]
      BY <1>1, <1>2, <1>3, <1>4, <1>5, <1>6, <1>7, <1>8 DEF Drops
    <2>2. u.work \subseteq Devices
      BY OneAbove DEF UTypes
    <2>3. u.pc = "detach" => dev'[n.dev].st = "dead"
      BY <1>1, <1>2, <1>3, <1>4, <1>5, <1>6, <1>7, <1>8 DEF Drops
    <2> QED
      BY <1>1, <1>2, <1>3, <1>4, <1>5, <1>6, <1>7, <1>8, <2>1, <2>2, <2>3 DEF FilterInv,
         UnloadDetachable
  <1>20. NoBypass'
    BY <1>1, <1>2, <1>3, <1>4, <1>5, <1>6, <1>7, <1>8, FilterApart, PlacedWhere DEF
       FilterInv, NoBypass
  <1> QED
    BY <1>9, <1>10, <1>11, <1>12, <1>13, <1>14, <1>15, <1>16, <1>17, <1>18, <1>19, <1>20 DEF
       FilterInv

LEMMA NotifyListsKeeps ==
  ASSUME FilterInv, NotifyLists
  PROVE  FilterInv'
  BY ListTakenKeeps, ListFailsKeeps, PlacedWhere DEF NotifyLists

LEMMA LeavesUnfilteredKeeps ==
  ASSUME FilterInv, NEW f \in Fs, fs[f], n.pc = "idle", f \notin todo, u.pc = "idle",
         fs' = [fs EXCEPT ![f] = FALSE], stack[f] = <<>>, UNCHANGED devices,
         UNCHANGED <<vol, lock, todo, n, mount, req, load, u, ghosts>>
  PROVE  FilterInv'
  <1>1. /\ UNCHANGED <<vol, stack, dev, lock, todo, n, mount, req, load, u, excused, refused, bypassed>>
        /\ (\A s : Above(s)' = Above(s)) /\ (\A e : Attached(e)' <=> Attached(e))
        /\ n.pc = "idle" /\ u.pc = "idle"
    BY StacksSame DEF devices, ghosts
  <1>2. ~fs'[f]
        /\ fs' \in [Fs -> BOOLEAN]
        /\ (\A g \in Fs \ {f} : fs'[g] = fs[g])
    BY <1>1, OneAbove DEF RestTyped
  <1>3. TypeOK'
    <2>1. RestTyped'
      BY <1>1, <1>2, OneAbove, FilterApart, PlacedWhere DEF RestTyped
    <2>2. /\ lock' = "n" <=> n'.pc \in {"attachVolume", "drop"}
          /\ \A w \in Volumes : lock' = w <=> mount'[w].pc \in {"attach", "drop"}
      BY <1>1, <1>2, TypesAre, FilterApart DEF FilterInv, FilterTypes, FilterPlaces,
         NotifyPlaces, MountPlaces, UnloadPlaces
    <2> QED
      BY <1>1, <1>2, <2>1, <2>2, TypesAre, FilterApart DEF FilterInv, FilterTypes
  <1>4. FilterPlaces'
    BY <1>1, <1>2, FilterApart, PlacedWhere DEF FilterInv, FilterPlaces, NotifyPlaces,
       MountPlaces, UnloadPlaces, Serving
  <1>5. Sited'
    BY <1>1, <1>2, FilterApart, PlacedWhere DEF FilterInv, Sited
  <1>6. Held'
    BY <1>1, <1>2, FilterApart, PlacedWhere DEF FilterInv, Held, InHand, Serving, Placed,
       Sited, FilterPlaces, NotifyPlaces, MountPlaces, UnloadPlaces
  <1>7. Vacant'
    BY <1>1, <1>2, FilterApart, PlacedWhere DEF FilterInv, Vacant, StacksShort, VacantFs,
       VacantVolumes, VolumesFlagged, Placed, FilterPlaces, NotifyPlaces, MountPlaces,
       UnloadPlaces, Sited, Held, InHand, Serving
  <1>8. Loading'
    BY <1>1, <1>2, FilterApart, PlacedWhere DEF FilterInv, Loading, Placed, FilterPlaces,
       NotifyPlaces, MountPlaces, UnloadPlaces, Sited, Vacant, StacksShort, VacantFs,
       VacantVolumes, VolumesFlagged
  <1>9. Alive'
    BY <1>1, <1>2, FilterApart, PlacedWhere DEF FilterInv, Alive, Held, InHand, Placed,
       Serving, FilterPlaces, NotifyPlaces, MountPlaces, UnloadPlaces
  <1>10. Covered'
    BY <1>1, <1>2, FilterApart, PlacedWhere DEF FilterInv, Covered, FilterPlaces,
       NotifyPlaces, MountPlaces, UnloadPlaces
  <1>11. Waiting'
    BY <1>1, <1>2, FilterApart, PlacedWhere DEF FilterInv, Waiting, FilterPlaces,
       NotifyPlaces, MountPlaces, UnloadPlaces, Sited
  <1>12. NoneForgotten'
    BY <1>1, <1>2, FilterApart, PlacedWhere DEF FilterInv, NoneForgotten, FilterPlaces,
       NotifyPlaces, MountPlaces, UnloadPlaces
  <1>13. UnloadDetachable'
    BY <1>1, <1>2, FilterApart, PlacedWhere DEF FilterInv, UnloadDetachable, FilterPlaces,
       NotifyPlaces, MountPlaces, UnloadPlaces, NoneForgotten
  <1>14. NoBypass'
    BY <1>1, <1>2, FilterApart, PlacedWhere DEF FilterInv, NoBypass
  <1> QED
    BY <1>3, <1>4, <1>5, <1>6, <1>7, <1>8, <1>9, <1>10, <1>11, <1>12, <1>13, <1>14 DEF
       FilterInv

LEMMA LeavesFilteredKeeps ==
  ASSUME FilterInv, NEW f \in Fs, fs[f], n.pc = "idle", f \notin todo, u.pc = "idle",
         fs' = [fs EXCEPT ![f] = FALSE], stack[f] # <<>>, Deletes(Head(stack[f])),
         stack' = [stack EXCEPT ![f] = << >>],
         UNCHANGED <<vol, lock, todo, n, mount, req, load, u, ghosts>>
  PROVE  FilterInv'
  <1>1. /\ UNCHANGED <<vol, lock, todo, n, mount, req, load, u, excused, refused, bypassed>>
        /\ n.pc = "idle" /\ u.pc = "idle" /\ n.fs = None
    BY DEF ghosts, FilterInv, FilterPlaces, NotifyPlaces
  <1>2. Head(stack[f]) \in Devices
        /\ f \in Targets
        /\ Head(stack[f]) # None
        /\ Head(stack[f]) \in Above(f)
        /\ Deletes(Head(stack[f]))
        /\ stack' = [stack EXCEPT ![f] = <<>>]
    BY StackTop, FilterApart DEF FilterInv, TypeOK
  <1>3. AboveLoses(f)
        /\ Drops(Head(stack[f]))
        /\ Sited'
        /\ Alive'
        /\ (\A e \in Devices \ {Head(stack[f])} : Attached(e)' <=> Attached(e))
        /\ (\A s \in Targets : s # f => \A e \in Above(s) : e # Head(stack[f]))
    BY <1>1, <1>2, DropDetached
  <1>4. dev[Head(stack[f])].to = f
        /\ dev[Head(stack[f])].st # "none"
        /\ (Remembered(Head(stack[f])) => dev'[Head(stack[f])].st # "none"
        /\ dev'[Head(stack[f])].to = dev[Head(stack[f])].to
        /\ dev'[Head(stack[f])].flag = dev[Head(stack[f])].flag)
    BY <1>2, GoneOf DEF FilterInv, Sited
  <1>5. stack'[f] = <<>>
        /\ (\A s \in Targets : s # f => stack'[s] = stack[s])
        /\ (\A s \in Targets : \A e : e \in Above(s)' <=> e \in Above(s)
        /\ s # f)
        /\ stack' \in [Targets -> Seq(Devices)]
        /\ dev' \in DevTypes
    BY <1>3 DEF AboveLoses, Drops
  <1>6. \A s \in Targets : s # f => \A e \in Above(s) : e \in Devices
        /\ e # Head(stack[f])
        /\ dev'[e] = dev[e]
    BY <1>3, PlacedWhere DEF Drops
  <1>7. \A w \in Volumes : mount[w].dev # None => mount[w].dev \in Devices
        /\ mount[w].dev # Head(stack[f])
        /\ dev'[mount[w].dev] = dev[mount[w].dev]
    BY <1>2, <1>3, <1>4, PlacedWhere, FilterApart DEF FilterInv, Held, InHand, Drops
  <1>8. ~fs'[f]
        /\ fs' \in [Fs -> BOOLEAN]
        /\ (\A g \in Fs \ {f} : fs'[g] = fs[g])
    BY <1>1, OneAbove DEF RestTyped
  <1>9. TypeOK'
    <2>1. RestTyped'
      BY <1>1, <1>2, <1>4, <1>5, <1>6, <1>7, <1>8, OneAbove, FilterApart, PlacedWhere DEF
         RestTyped
    <2>2. /\ lock' = "n" <=> n'.pc \in {"attachVolume", "drop"}
          /\ \A w \in Volumes : lock' = w <=> mount'[w].pc \in {"attach", "drop"}
      BY <1>1, <1>8, TypesAre, FilterApart DEF FilterInv, FilterTypes
    <2> QED
      BY <1>1, <1>2, <1>4, <1>5, <1>6, <1>7, <1>8, <2>1, <2>2, OneAbove, TypesAre,
         FilterApart DEF FilterInv, FilterTypes
  <1>10. FilterPlaces'
    <2>1. NotifyPlaces'
      BY <1>1, <1>2, <1>4, <1>5, <1>6, <1>7, <1>8, PlacedWhere DEF FilterInv, FilterPlaces,
         NotifyPlaces, Serving
    <2>2. MountPlaces'
      BY <1>1, <1>2, <1>4, <1>5, <1>6, <1>7, <1>8, FilterApart DEF FilterInv, FilterPlaces,
         MountPlaces
    <2>3. UnloadPlaces'
      <3>1. u.list \subseteq Devices
        BY OneAbove DEF UTypes
      <3> QED
        BY <1>1, <1>2, <1>4, <1>5, <1>6, <1>7, <1>8, <1>3, <3>1 DEF FilterInv, FilterPlaces,
           UnloadPlaces, Drops
    <2> QED
      BY <2>1, <2>2, <2>3 DEF FilterPlaces, NotifyPlaces, MountPlaces, UnloadPlaces
  <1>11. Sited'
    BY <1>3
  <1>12. Held'
    <2>1. \A e \in Devices : e # Head(stack[f]) => dev'[e] = dev[e] /\ (InHand(e)' <=> InHand(e))
      BY <1>3 DEF Drops
    <2>2. \A w \in Volumes : mount[w].dev # None =>
            /\ dev'[mount[w].dev].to = None /\ dev'[mount[w].dev].st # "none"
            /\ dev'[mount[w].dev].flag /\ (u.pc = "idle" => dev'[mount[w].dev].st = "live")
            /\ mount[w].dev # n.new /\ mount[w].dev # n.dev
            /\ \A x \in Volumes \ {w} : mount[x].dev # mount[w].dev
      BY <1>7 DEF FilterInv, Held, InHand
    <2> QED
      BY <1>1, <2>2, PlacedWhere DEF FilterInv, Held, InHand, Serving, Placed, FilterPlaces,
         NotifyPlaces
  <1>13. Vacant'
    <2>1. StacksShort'
      BY <1>1, <1>2, <1>4, <1>5, <1>6, <1>7, <1>8, NoneOf, FilterApart DEF FilterInv,
         Vacant, StacksShort
    <2>2. VacantFs'
      BY <1>1, <1>2, <1>4, <1>5, <1>6, <1>7, <1>8, FilterApart, PlacedWhere DEF FilterInv,
         Vacant, VacantFs, Placed
    <2>3. VacantVolumes'
      BY <1>1, <1>2, <1>4, <1>5, <1>6, <1>7, <1>8, FilterApart, PlacedWhere DEF FilterInv,
         Vacant, VacantVolumes, Serving
    <2>4. VolumesFlagged'
      BY <1>5, <1>6, FilterApart DEF FilterInv, Vacant, VolumesFlagged
    <2> QED
      BY <2>1, <2>2, <2>3, <2>4 DEF Vacant, StacksShort, VacantFs, VacantVolumes,
         VolumesFlagged
  <1>14. Loading'
    <2>1. load.pc = "below" => load.dev \in Devices /\ dev'[load.dev].st # "none" /\ dev'[load.dev].to = dev[load.dev].to
      <3>1. CASE load.dev = Head(stack[f])
        <4>1. load.pc = "below" => f \in Recognizers
          BY <1>4, <3>1 DEF FilterInv, Loading
        <4> QED
          BY <1>2, <1>4, <3>1, <4>1, RememberedIn
      <3>2. CASE load.dev # Head(stack[f])
        BY <1>3, <3>2, PlacedWhere DEF FilterInv, Loading, Drops
      <3> QED
        BY <3>1, <3>2
    <2>2. \A r \in Recognizers : Above(r)' \subseteq Above(r)
      BY <1>3, FilterApart DEF AboveLoses
    <2> QED
      BY <1>1, <1>8, <2>1, <2>2, FilterApart DEF FilterInv, Loading, Placed
  <1>15. Alive'
    BY <1>3
  <1>16. Covered'
    <2>1. \A w \in Volumes : \A e \in Above(FsOf[w])' : e \in Above(FsOf[w]) /\ FsOf[w] # f /\ dev'[e] = dev[e]
      BY <1>5, <1>6, FilterApart
    <2> QED
      BY <1>1, <1>2, <1>4, <1>5, <1>6, <1>7, <1>8, <2>1, FilterApart DEF FilterInv, Covered
  <1>17. Waiting'
    <2>1. \A i \in Requests : req[i].dev = Head(stack[f]) => Remembered(Head(stack[f]))
      BY RememberedIn
    <2>2. \A i \in Requests : req[i].dev # None /\ req[i].dev # Head(stack[f]) => dev'[req[i].dev] = dev[req[i].dev]
      BY <1>3, PlacedWhere DEF Drops
    <2>3. \A i \in Requests : req[i].dev = Head(stack[f]) => dev'[Head(stack[f])].to = f /\ dev'[Head(stack[f])].st # "none" /\ f \in Targets /\ f \notin Volumes
      BY <1>1, <1>2, <1>4, <2>1, FilterApart
    <2> QED
      BY <1>1, <2>2, <2>3 DEF FilterInv, Waiting
  <1>18. NoneForgotten'
    <2>1. \A e \in Devices : dev'[e].st = "live" => e # Head(stack[f]) /\ dev'[e] = dev[e] /\ (Attached(e)' <=> Attached(e))
      BY <1>3 DEF Drops
    <2> QED
      BY <1>1, <1>2, <1>4, <1>5, <1>6, <1>7, <1>8, <2>1 DEF FilterInv, NoneForgotten
  <1>19. UnloadDetachable'
    <2>1. \A e \in Devices : e # Head(stack[f]) => dev'[e] = dev[e] /\ (Attached(e)' <=> Attached(e))
      BY <1>3 DEF Drops
    <2>2. u.work \subseteq Devices
      BY OneAbove DEF UTypes
    <2>3. u.pc = "detach" => dev'[Head(stack[f])].st = "dead"
      BY <1>1, <1>3 DEF Drops
    <2> QED
      BY <1>1, <1>2, <1>4, <1>5, <1>6, <1>7, <1>8, <2>1, <2>2, <2>3 DEF FilterInv,
         UnloadDetachable
  <1>20. NoBypass'
    BY <1>1, <1>2, <1>3, <1>4, <1>5, <1>6, <1>7, <1>8, FilterApart, PlacedWhere DEF
       FilterInv, NoBypass
  <1> QED
    BY <1>9, <1>10, <1>11, <1>12, <1>13, <1>14, <1>15, <1>16, <1>17, <1>18, <1>19, <1>20 DEF
       FilterInv

LEMMA DeactivatesKeeps ==
  ASSUME FilterInv, NEW f \in Fs, Deactivates(f)
  PROVE  FilterInv'
  BY LeavesUnfilteredKeeps, LeavesFilteredKeeps DEF Deactivates

LEMMA GoesUnfilteredKeeps ==
  ASSUME FilterInv, NEW v \in Volumes, vol[v] = "going", vol' = [vol EXCEPT ![v] = "none"], excused' = excused \ {v},
         stack[v] = <<>>, UNCHANGED devices,
         UNCHANGED <<fs, lock, mount, OthersOfMount, refused, bypassed>>
  PROVE  FilterInv'
  <1>1. /\ UNCHANGED <<fs, stack, dev, lock, todo, n, mount, req, load, u, refused, bypassed>>
        /\ (\A s : Above(s)' = Above(s)) /\ (\A e : Attached(e)' <=> Attached(e))
        /\ excused' = excused \ {v} /\ vol[v] = "going"
    BY StacksSame DEF devices, OthersOfMount
  <1>2. vol'[v] = "none"
        /\ vol' \in [Volumes -> {"none", "made", "mounted", "going"}]
        /\ (\A w \in Volumes \ {v} : vol'[w] = vol[w])
    BY OneAbove DEF RestTyped
  <1>3. TypeOK'
    <2>1. RestTyped'
      BY <1>1, <1>2, OneAbove, FilterApart, PlacedWhere DEF RestTyped
    <2>2. /\ lock' = "n" <=> n'.pc \in {"attachVolume", "drop"}
          /\ \A w \in Volumes : lock' = w <=> mount'[w].pc \in {"attach", "drop"}
      BY <1>1, <1>2, TypesAre, FilterApart DEF FilterInv, FilterTypes, FilterPlaces,
         NotifyPlaces, MountPlaces, UnloadPlaces
    <2> QED
      BY <1>1, <1>2, <2>1, <2>2, TypesAre, FilterApart DEF FilterInv, FilterTypes
  <1>4. FilterPlaces'
    BY <1>1, <1>2, FilterApart, PlacedWhere DEF FilterInv, FilterPlaces, NotifyPlaces,
       MountPlaces, UnloadPlaces, Serving
  <1>5. Sited'
    BY <1>1, <1>2, FilterApart, PlacedWhere DEF FilterInv, Sited
  <1>6. Held'
    BY <1>1, <1>2, FilterApart, PlacedWhere DEF FilterInv, Held, InHand, Serving, Placed,
       Sited, FilterPlaces, NotifyPlaces, MountPlaces, UnloadPlaces
  <1>7. Vacant'
    BY <1>1, <1>2, FilterApart, PlacedWhere DEF FilterInv, Vacant, StacksShort, VacantFs,
       VacantVolumes, VolumesFlagged, Placed, FilterPlaces, NotifyPlaces, MountPlaces,
       UnloadPlaces, Sited, Held, InHand, Serving
  <1>8. Loading'
    BY <1>1, <1>2, FilterApart, PlacedWhere DEF FilterInv, Loading, Placed, FilterPlaces,
       NotifyPlaces, MountPlaces, UnloadPlaces, Sited, Vacant, StacksShort, VacantFs,
       VacantVolumes, VolumesFlagged
  <1>9. Alive'
    BY <1>1, <1>2, FilterApart, PlacedWhere DEF FilterInv, Alive, Held, InHand, Placed,
       Serving, FilterPlaces, NotifyPlaces, MountPlaces, UnloadPlaces
  <1>10. Covered'
    BY <1>1, <1>2, FilterApart, PlacedWhere DEF FilterInv, Covered, FilterPlaces,
       NotifyPlaces, MountPlaces, UnloadPlaces
  <1>11. Waiting'
    BY <1>1, <1>2, FilterApart, PlacedWhere DEF FilterInv, Waiting, FilterPlaces,
       NotifyPlaces, MountPlaces, UnloadPlaces, Sited
  <1>12. NoneForgotten'
    BY <1>1, <1>2, FilterApart, PlacedWhere DEF FilterInv, NoneForgotten, FilterPlaces,
       NotifyPlaces, MountPlaces, UnloadPlaces
  <1>13. UnloadDetachable'
    BY <1>1, <1>2, FilterApart, PlacedWhere DEF FilterInv, UnloadDetachable, FilterPlaces,
       NotifyPlaces, MountPlaces, UnloadPlaces, NoneForgotten
  <1>14. NoBypass'
    BY <1>1, <1>2, FilterApart, PlacedWhere DEF FilterInv, NoBypass
  <1> QED
    BY <1>3, <1>4, <1>5, <1>6, <1>7, <1>8, <1>9, <1>10, <1>11, <1>12, <1>13, <1>14 DEF
       FilterInv

LEMMA GoesFilteredKeeps ==
  ASSUME FilterInv, NEW v \in Volumes, vol[v] = "going", vol' = [vol EXCEPT ![v] = "none"], excused' = excused \ {v},
         stack[v] # <<>>, Deletes(Head(stack[v])),
         stack' = [stack EXCEPT ![v] = Tail(@)],
         UNCHANGED <<fs, lock, mount, OthersOfMount, refused, bypassed>>
  PROVE  FilterInv'
  <1>1. /\ UNCHANGED <<fs, lock, todo, n, mount, req, load, u, refused, bypassed>>
        /\ excused' = excused \ {v} /\ vol[v] = "going"
    BY DEF OthersOfMount
  <1>2. Head(stack[v]) \in Devices
        /\ v \in Targets
        /\ Head(stack[v]) # None
        /\ Head(stack[v]) \in Above(v)
        /\ Deletes(Head(stack[v]))
        /\ stack' = [stack EXCEPT ![v] = <<>>]
    BY StackTop, FilterApart DEF FilterInv, Vacant, StacksShort, TypeOK
  <1>3. AboveLoses(v)
        /\ Drops(Head(stack[v]))
        /\ Sited'
        /\ Alive'
        /\ (\A e \in Devices \ {Head(stack[v])} : Attached(e)' <=> Attached(e))
        /\ (\A s \in Targets : s # v => \A e \in Above(s) : e # Head(stack[v]))
    BY <1>1, <1>2, DropDetached
  <1>4. dev[Head(stack[v])].to = v
        /\ dev[Head(stack[v])].st # "none"
        /\ (Remembered(Head(stack[v])) => dev'[Head(stack[v])].st # "none"
        /\ dev'[Head(stack[v])].to = dev[Head(stack[v])].to
        /\ dev'[Head(stack[v])].flag = dev[Head(stack[v])].flag)
    BY <1>2, GoneOf DEF FilterInv, Sited
  <1>5. stack'[v] = <<>>
        /\ (\A s \in Targets : s # v => stack'[s] = stack[s])
        /\ (\A s \in Targets : \A e : e \in Above(s)' <=> e \in Above(s)
        /\ s # v)
        /\ stack' \in [Targets -> Seq(Devices)]
        /\ dev' \in DevTypes
    BY <1>3 DEF AboveLoses, Drops
  <1>6. \A s \in Targets : s # v => \A e \in Above(s) : e \in Devices
        /\ e # Head(stack[v])
        /\ dev'[e] = dev[e]
    BY <1>3, PlacedWhere DEF Drops
  <1>7. \A w \in Volumes : mount[w].dev # None => mount[w].dev \in Devices
        /\ mount[w].dev # Head(stack[v])
        /\ dev'[mount[w].dev] = dev[mount[w].dev]
    BY <1>2, <1>3, <1>4, PlacedWhere, FilterApart DEF FilterInv, Held, InHand, Drops
  <1>8. vol'[v] = "none"
        /\ vol' \in [Volumes -> {"none", "made", "mounted", "going"}]
        /\ (\A w \in Volumes \ {v} : vol'[w] = vol[w])
    BY OneAbove DEF RestTyped
  <1>9. TypeOK'
    <2>1. RestTyped'
      BY <1>1, <1>2, <1>4, <1>5, <1>6, <1>7, <1>8, OneAbove, FilterApart, PlacedWhere DEF
         RestTyped
    <2>2. /\ lock' = "n" <=> n'.pc \in {"attachVolume", "drop"}
          /\ \A w \in Volumes : lock' = w <=> mount'[w].pc \in {"attach", "drop"}
      BY <1>1, <1>8, TypesAre, FilterApart DEF FilterInv, FilterTypes
    <2> QED
      BY <1>1, <1>2, <1>4, <1>5, <1>6, <1>7, <1>8, <2>1, <2>2, OneAbove, TypesAre,
         FilterApart DEF FilterInv, FilterTypes
  <1>10. FilterPlaces'
    <2>1. NotifyPlaces'
      BY <1>1, <1>2, <1>4, <1>5, <1>6, <1>7, <1>8, PlacedWhere DEF FilterInv, FilterPlaces,
         NotifyPlaces, Serving
    <2>2. MountPlaces'
      BY <1>1, <1>2, <1>4, <1>5, <1>6, <1>7, <1>8, FilterApart DEF FilterInv, FilterPlaces,
         MountPlaces
    <2>3. UnloadPlaces'
      <3>1. u.list \subseteq Devices
        BY OneAbove DEF UTypes
      <3> QED
        BY <1>1, <1>2, <1>4, <1>5, <1>6, <1>7, <1>8, <1>3, <3>1 DEF FilterInv, FilterPlaces,
           UnloadPlaces, Drops
    <2> QED
      BY <2>1, <2>2, <2>3 DEF FilterPlaces, NotifyPlaces, MountPlaces, UnloadPlaces
  <1>11. Sited'
    BY <1>3
  <1>12. Held'
    <2>1. \A e \in Devices : e # Head(stack[v]) => dev'[e] = dev[e] /\ (InHand(e)' <=> InHand(e))
      BY <1>3 DEF Drops
    <2>2. \A w \in Volumes : mount[w].dev # None =>
            /\ dev'[mount[w].dev].to = None /\ dev'[mount[w].dev].st # "none"
            /\ dev'[mount[w].dev].flag /\ (u.pc = "idle" => dev'[mount[w].dev].st = "live")
            /\ mount[w].dev # n.new /\ mount[w].dev # n.dev
            /\ \A x \in Volumes \ {w} : mount[x].dev # mount[w].dev
      BY <1>7 DEF FilterInv, Held, InHand
    <2>3. n.pc # "idle" => n.fs # v /\ n.fs \in Targets /\ n.dev \in Devices
      BY PlacedWhere, FilterApart
    <2>4. Placed => n.dev # Head(stack[v]) /\ \A s \in Targets : s = n.fs => n.dev \in Above(s)'
      BY <1>3, <1>5, <2>3 DEF FilterInv, Held, Placed
    <2>5. n.pc = "attach" => n.dev # Head(stack[v])
      BY <1>2, <1>4, <2>3, FilterApart DEF FilterInv, Held, InHand
    <2>6. Serving => n.new \in Devices /\ n.new # Head(stack[v])
      BY <1>2, <1>4, PlacedWhere, FilterApart DEF FilterInv, Held, InHand
    <2>7. \A s : s = n.fs => Above(s)' = Above(n.fs)'
      BY <1>1
    <2>8. /\ n.pc = "attach" => InHand(n.dev)'
          /\ n.pc \in {"attach", "flag"} => ~dev'[n.dev].flag
          /\ Serving => InHand(n.new)' /\ dev'[n.new].flag
      BY <1>1, <2>1, <2>3, <2>4, <2>5, <2>6 DEF FilterInv, Held, InHand, Placed
    <2>9. Placed => n.dev \in Above(n.fs)'
      BY <2>3, <2>4, <2>7 DEF Placed
    <2> QED
      BY <1>1, <2>2, <2>8, <2>9 DEF Held, InHand, Serving, Placed
  <1>13. Vacant'
    <2>1. StacksShort'
      BY <1>1, <1>2, <1>4, <1>5, <1>6, <1>7, <1>8, NoneOf, FilterApart DEF FilterInv,
         Vacant, StacksShort
    <2>2. VacantFs'
      BY <1>1, <1>2, <1>4, <1>5, <1>6, <1>7, <1>8, FilterApart, PlacedWhere DEF FilterInv,
         Vacant, VacantFs, Placed
    <2>3. VacantVolumes'
      BY <1>1, <1>2, <1>4, <1>5, <1>6, <1>7, <1>8, FilterApart, PlacedWhere DEF FilterInv,
         Vacant, VacantVolumes, Serving
    <2>4. VolumesFlagged'
      BY <1>5, <1>6, FilterApart DEF FilterInv, Vacant, VolumesFlagged
    <2> QED
      BY <2>1, <2>2, <2>3, <2>4 DEF Vacant, StacksShort, VacantFs, VacantVolumes,
         VolumesFlagged
  <1>14. Loading'
    <2>1. load.pc = "below" => load.dev \in Devices /\ load.dev # Head(stack[v]) /\ dev'[load.dev] = dev[load.dev]
      BY <1>2, <1>3, <1>4, PlacedWhere, FilterApart DEF FilterInv, Loading, Drops
    <2>2. \A r \in Recognizers : Above(r)' \subseteq Above(r)
      BY <1>3, FilterApart DEF AboveLoses
    <2> QED
      BY <1>1, <2>1, <2>2, FilterApart DEF FilterInv, Loading, Placed
  <1>15. Alive'
    BY <1>3
  <1>16. Covered'
    <2>1. \A w \in Volumes : \A e \in Above(FsOf[w])' : e \in Above(FsOf[w]) /\ FsOf[w] # v /\ dev'[e] = dev[e]
      BY <1>5, <1>6, FilterApart
    <2> QED
      BY <1>1, <1>2, <1>4, <1>5, <1>6, <1>7, <1>8, <2>1, FilterApart DEF FilterInv, Covered
  <1>17. Waiting'
    <2>1. \A i \in Requests : req[i].dev # None => req[i].dev # Head(stack[v]) /\ dev'[req[i].dev] = dev[req[i].dev]
      BY <1>1, <1>2, <1>3, <1>4, PlacedWhere DEF FilterInv, Waiting, Drops
    <2>2. \A i \in Requests : req[i].dev # None => dev[req[i].dev].to # v
      BY <1>1 DEF FilterInv, Waiting
    <2> QED
      BY <1>1, <1>8, <2>1, <2>2 DEF FilterInv, Waiting
  <1>18. NoneForgotten'
    <2>1. \A e \in Devices : dev'[e].st = "live" => e # Head(stack[v]) /\ dev'[e] = dev[e] /\ (Attached(e)' <=> Attached(e))
      BY <1>3 DEF Drops
    <2> QED
      BY <1>1, <1>2, <1>4, <1>5, <1>6, <1>7, <1>8, <2>1 DEF FilterInv, NoneForgotten
  <1>19. UnloadDetachable'
    <2>1. \A e \in Devices : e # Head(stack[v]) => dev'[e] = dev[e] /\ (Attached(e)' <=> Attached(e))
      BY <1>3 DEF Drops
    <2>2. u.work \subseteq Devices
      BY OneAbove DEF UTypes
    <2>3. u.pc = "detach" => dev'[Head(stack[v])].st = "dead"
      BY <1>1, <1>3 DEF Drops
    <2> QED
      BY <1>1, <1>2, <1>4, <1>5, <1>6, <1>7, <1>8, <2>1, <2>2, <2>3 DEF FilterInv,
         UnloadDetachable
  <1>20. NoBypass'
    BY <1>1, <1>2, <1>3, <1>4, <1>5, <1>6, <1>7, <1>8, FilterApart, PlacedWhere DEF
       FilterInv, NoBypass
  <1> QED
    BY <1>9, <1>10, <1>11, <1>12, <1>13, <1>14, <1>15, <1>16, <1>17, <1>18, <1>19, <1>20 DEF
       FilterInv

LEMMA SfFastIoDetachDeviceKeeps ==
  ASSUME FilterInv, NEW v \in Volumes, SfFastIoDetachDevice(v)
  PROVE  FilterInv'
  BY GoesUnfilteredKeeps, GoesFilteredKeeps DEF SfFastIoDetachDevice

-----------------------------------------------------------------------------
(* A stack without one device, and the end of DriverUnload.                *)

LEMMA FilterCardinality == \A S : Cardinality(S) = Cardinality(S)
  OBVIOUS

LEMMA StackWithoutOf ==
  ASSUME TypeOK, NEW t \in Targets, NEW d
  PROVE  /\ StackWithout(t, d) \in Seq(Devices)
         /\ Len(StackWithout(t, d)) \in Nat /\ Len(StackWithout(t, d)) <= Len(stack[t])
         /\ stack[t] = <<>> => StackWithout(t, d) = <<>>
         /\ Of(StackWithout(t, d)) = Above(t) \ {d}
  <1> DEFINE left == {i \in DOMAIN stack[t] : stack[t][i] # d}
             m == Cardinality(left)
             upto(i) == {j \in left : j <= i}
             nth(k) == CHOOSE i \in left : Cardinality(upto(i)) = k
             w == [k \in 1 .. m |-> stack[t][nth(k)]]
  <1>1. w = StackWithout(t, d)
    BY Zenon DEF StackWithout
  <1>2. /\ stack[t] \in Seq(Devices)
        /\ DOMAIN stack[t] = 1 .. Len(stack[t]) /\ Len(stack[t]) \in Nat
        /\ \A i \in 1 .. Len(stack[t]) : stack[t][i] \in Devices
    <2>1. stack[t] \in Seq(Devices)
      BY DEF TypeOK
    <2> QED
      BY <2>1, LenProperties, ElementOfSeq
  <1>3. left \subseteq 1 .. Len(stack[t]) /\ left \subseteq Nat
    BY <1>2
  <1>4. /\ IsFiniteSet(left) /\ Cardinality(left) <= Len(stack[t])
        /\ Len(stack[t]) = 0 => Cardinality(left) = 0
    <2>1. IsFiniteSet(1 .. Len(stack[t])) /\ Cardinality(1 .. Len(stack[t])) = Len(stack[t])
      <3> DEFINE l == Len(stack[t])
      <3>1. l \in Nat
        BY <1>2
      <3> HIDE DEF l
      <3>2. 1 \in Int /\ l \in Int /\ ~(1 > l) => l - 1 + 1 = l
        BY <3>1
      <3>3. IsFiniteSet(1 .. l) /\ Cardinality(1 .. l) = l
        BY <3>1, <3>2, FS_Interval
      <3> QED
        BY <3>3 DEF l
    <2> HIDE DEF left
    <2>2. IsFiniteSet(left) /\ Cardinality(left) <= Len(stack[t])
      BY <1>3, <2>1, FS_Subset
    <2> QED
      BY <1>2, <2>2, FS_CardinalityType
  <1>5. m = Cardinality(left) /\ \A i : Cardinality(upto(i)) = Cardinality(upto(i))
    BY FilterCardinality
  <1>6. /\ m \in Nat
        /\ \A i \in left : Cardinality(upto(i)) \in 1 .. m
        /\ \A k \in 1 .. m : \E i \in left : Cardinality(upto(i)) = k
        /\ \A i, l \in left : Cardinality(upto(i)) = Cardinality(upto(l)) => i = l
    <2>1. /\ Cardinality(left) \in Nat
          /\ \A i \in left : Cardinality(upto(i)) \in 1 .. Cardinality(left)
          /\ \A i, l \in left : Cardinality(upto(i)) = Cardinality(upto(l)) => i = l
          /\ \A k \in 1 .. Cardinality(left) : \E i \in left : Cardinality(upto(i)) = k
      <3> HIDE DEF left
      <3> QED
        BY <1>3, <1>4, RanksOf
    <2> HIDE DEF left, upto, m
    <2> QED
      BY <1>5, <2>1
  <1>7. m <= Len(stack[t]) /\ (Len(stack[t]) = 0 => m = 0)
    <2> HIDE DEF left, m
    <2> QED
      BY <1>4, <1>5
  <1> HIDE DEF upto, m
  <1>8. \A k \in 1 .. m : nth(k) \in left /\ Cardinality(upto(nth(k))) = k
    BY <1>5, <1>6
  <1>9. \A i \in left : i = nth(Cardinality(upto(i)))
    BY <1>6, <1>8
  <1> HIDE DEF nth
  <1>10. w \in [1 .. m -> Devices]
    BY <1>2, <1>3, <1>8
  <1>11. {w[i] : i \in 1 .. m} = Of(stack[t]) \ {d}
    <2>1. \A i \in 1 .. m : w[i] \in Of(stack[t]) \ {d}
      BY <1>3, <1>8 DEF Of
    <2>2. ASSUME NEW x \in Of(stack[t]) \ {d} PROVE \E i \in 1 .. m : w[i] = x
      <3>1. PICK l \in left : stack[t][l] = x
        BY <1>2 DEF Of
      <3>2. Cardinality(upto(l)) \in 1 .. m /\ nth(Cardinality(upto(l))) = l
        BY <1>6, <1>9
      <3> QED
        BY <3>1, <3>2
    <2> HIDE DEF w
    <2> QED
      BY <2>1, <2>2
  <1> HIDE DEF w
  <1>12. w \in Seq(Devices) /\ Len(w) = m
    <2>1. CASE m = 0
      <3>1. w = <<>>
        BY <1>10, <2>1
      <3> QED
        BY <2>1, <3>1, EmptySeq
    <2>2. CASE m > 0
      <3>1. w \in Seq(Devices) /\ DOMAIN w = 1 .. m
        BY <1>6, <1>10, <2>2, ArrayOf
      <3> QED
        BY <1>6, <2>2, <3>1, LenProperties
    <2> QED
      BY <1>6, <2>1, <2>2
  <1>13. stack[t] = <<>> => w = <<>>
    BY <1>2, <1>7, <1>12, EmptySeq
  <1>14. Of(w) = Of(stack[t]) \ {d}
    BY <1>11, <1>12 DEF Of
  <1> QED
    BY <1>1, <1>6, <1>7, <1>12, <1>13, <1>14 DEF Above

LEMMA LoadSucceedsKeeps ==
  ASSUME FilterInv, NEW d \in Devices, load.dev = d, LoadReturns(TRUE)
  PROVE  FilterInv'
  <1>1. /\ UNCHANGED <<fs, vol, stack, lock, todo, n, mount, req, u, excused, refused, bypassed>>
        /\ (\A s : Above(s)' = Above(s)) /\ (\A e : Attached(e)' <=> Attached(e))
        /\ load.pc = "below" /\ load' = [pc |-> "done", dev |-> None]
    BY StacksSame DEF LoadReturns, system, ghosts
  <1>2. Deletes(d)
        /\ Drops(d)
    BY <1>1, DropSteps DEF LoadReturns
  <1>3. dev[d].to \in Recognizers
        /\ dev[d].st # "none"
        /\ (\A t \in Targets : d \in Above(t) => dev[d].to = t
        /\ t \in Recognizers)
    BY <1>1 DEF FilterInv, Loading, Sited
  <1>4. Remembered(d) => dev'[d].st # "none"
        /\ dev'[d].to = dev[d].to
        /\ dev'[d].flag = dev[d].flag
    BY <1>2, GoneOf DEF FilterInv
  <1>5. (\A e \in Devices \ {d} : dev'[e] = dev[e]
        /\ (InHand(e)' <=> InHand(e)))
        /\ dev'[d].st # "live"
        /\ dev' \in DevTypes
    BY <1>2 DEF Drops
  <1>6. (\A t \in Targets : d \in Above(t) => Remembered(d))
        /\ (\A i \in Requests : req[i].dev = d => Remembered(d))
        /\ (u.pc # "idle" => dev'[d].st = "dead")
    BY <1>2, <1>3, RememberedIn DEF Drops
  <1>7. TypeOK'
    <2>1. RestTyped'
      BY <1>1, <1>2, <1>3, <1>4, <1>5, <1>6, OneAbove, FilterApart, PlacedWhere DEF
         RestTyped
    <2>2. /\ lock' = "n" <=> n'.pc \in {"attachVolume", "drop"}
          /\ \A w \in Volumes : lock' = w <=> mount'[w].pc \in {"attach", "drop"}
      BY <1>1, <1>2, <1>3, <1>4, <1>5, <1>6, TypesAre, FilterApart DEF FilterInv,
         FilterTypes, FilterPlaces, NotifyPlaces, MountPlaces, UnloadPlaces
    <2> QED
      BY <1>1, <1>2, <1>3, <1>4, <1>5, <1>6, <2>1, <2>2, TypesAre, FilterApart DEF
         FilterInv, FilterTypes
  <1>8. FilterPlaces'
    <2>1. NotifyPlaces'
      BY <1>1 DEF FilterInv, FilterPlaces, NotifyPlaces, Serving
    <2>2. MountPlaces'
      BY <1>1 DEF FilterInv, FilterPlaces, MountPlaces
    <2>3. UnloadPlaces'
      <3>1. u.list \subseteq Devices
        BY OneAbove DEF UTypes
      <3> QED
        BY <1>1, <1>2, <1>3, <1>4, <1>5, <1>6, <3>1 DEF FilterInv, FilterPlaces,
           UnloadPlaces
    <2> QED
      BY <2>1, <2>2, <2>3 DEF FilterPlaces, NotifyPlaces, MountPlaces, UnloadPlaces
  <1>9. Sited'
    <2>1. \A t \in Targets : \A e \in Above(t) : dev'[e].to = dev[e].to /\ dev'[e].st # "none"
      BY <1>3, <1>4, <1>5, <1>6, PlacedWhere DEF FilterInv, Sited
    <2> QED
      BY <1>1, <2>1 DEF FilterInv, Sited
  <1>10. Held'
    <2>1. \A e \in Devices : InHand(e) => e # d /\ dev'[e] = dev[e] /\ InHand(e)'
      BY <1>3, <1>5, FilterApart DEF InHand
    <2>2. Placed => n.dev \in Above(n.fs) /\ n.fs \in Targets /\ n.dev \in Devices
      BY PlacedWhere, FilterApart DEF FilterInv, Held, Placed
    <2>3. Placed => dev'[n.dev].flag = dev[n.dev].flag
      BY <1>4, <1>5, <1>6, <2>2
    <2>4. n.pc = "attach" => n.dev \in Devices /\ InHand(n.dev)
      BY PlacedWhere DEF FilterInv, Held
    <2>5. n.pc \in {"attach", "flag"} => ~dev'[n.dev].flag
      BY <2>1, <2>3, <2>4 DEF FilterInv, Held, Placed
    <2>6. Serving => InHand(n.new)' /\ dev'[n.new].flag
      BY <1>1, <2>1, PlacedWhere DEF FilterInv, Held
    <2>7. \A v \in Volumes : mount[v].dev # None =>
            /\ InHand(mount[v].dev)' /\ dev'[mount[v].dev].flag
            /\ mount[v].dev # n.new /\ mount[v].dev # n.dev
            /\ \A w \in Volumes \ {v} : mount[w].dev # mount[v].dev
      BY <1>1, <2>1, PlacedWhere DEF FilterInv, Held
    <2>8. n.pc = "attach" => InHand(n.dev)'
      BY <1>1, <2>1, <2>4
    <2> QED
      BY <1>1, <2>2, <2>5, <2>6, <2>7, <2>8 DEF Held, Serving, Placed
  <1>11. Vacant'
    <2>1. StacksShort' /\ VacantFs' /\ VacantVolumes'
      BY <1>1 DEF FilterInv, Vacant, StacksShort, VacantFs, VacantVolumes, Placed
    <2>2. \A v \in Volumes : \A e \in Above(v) : e \in Devices /\ e # d
      BY <1>3, PlacedWhere, FilterApart
    <2>3. VolumesFlagged'
      BY <1>1, <1>5, <2>2 DEF FilterInv, Vacant, VolumesFlagged
    <2> QED
      BY <2>1, <2>3 DEF Vacant, StacksShort, VacantFs, VacantVolumes, VolumesFlagged
  <1>12. Loading'
    BY <1>1 DEF Loading
  <1>13. Alive'
    <2>1. \A t \in Targets \ Recognizers : \A e \in Above(t) : e \in Devices /\ dev'[e] = dev[e]
      BY <1>3, <1>5, PlacedWhere
    <2> QED
      BY <1>1, <2>1 DEF FilterInv, Alive
  <1>14. Covered'
    <2>1. \A v \in Volumes : FsOf[v] \notin Recognizers => \A e \in Above(FsOf[v]) : dev'[e] = dev[e]
      BY <1>3, <1>5, PlacedWhere, FilterApart
    <2> QED
      BY <1>1, <2>1 DEF FilterInv, Covered
  <1>15. Waiting'
    <2>1. \A i \in Requests : req[i].dev # None /\ req[i].dev # d => dev'[req[i].dev] = dev[req[i].dev]
      BY <1>5, PlacedWhere
    <2>2. \A i \in Requests : req[i].dev = d => dev'[d].to \in Targets /\ dev'[d].st # "none" /\ dev'[d].to \notin Volumes
      BY <1>3, <1>4, <1>6, FilterApart
    <2> QED
      BY <1>1, <2>1, <2>2 DEF FilterInv, Waiting
  <1>16. NoneForgotten'
    <2>1. \A e \in Devices : dev'[e].st = "live" => dev[e].st = "live"
      BY <1>5
    <2> QED
      BY <1>1, <2>1 DEF FilterInv, NoneForgotten
  <1>17. UnloadDetachable'
    <2>1. u.work \subseteq Devices
      BY OneAbove DEF UTypes
    <2> QED
      BY <1>1, <1>5, <1>6, <2>1 DEF FilterInv, UnloadDetachable
  <1>18. NoBypass'
    BY <1>1, <1>2, <1>3, <1>4, <1>5, <1>6, FilterApart, PlacedWhere DEF FilterInv, NoBypass
  <1> QED
    BY <1>7, <1>8, <1>9, <1>10, <1>11, <1>12, <1>13, <1>14, <1>15, <1>16, <1>17, <1>18 DEF
       FilterInv

LEMMA LoadReturnsKeeps ==
  ASSUME FilterInv, NEW ok \in BOOLEAN, LoadReturns(ok)
  PROVE  FilterInv'
  <1>1. CASE ok = TRUE
    BY <1>1, LoadSucceedsKeeps, PlacedWhere DEF LoadReturns
  <1>2. CASE ok = FALSE
    BY <1>2, LoadFailsKeeps
  <1> QED
    BY <1>1, <1>2

LEMMA UnloadDetachesKeeps ==
  ASSUME FilterInv, NEW d \in Devices, UnloadDetaches(d)
  PROVE  FilterInv'
  <1>1. /\ UNCHANGED <<fs, vol, dev, lock, todo, n, mount, req, load, excused, refused, bypassed>>
        /\ u.pc = "detach" /\ d \in u.work
    BY DEF UnloadDetaches, OthersOfUnload, system, ghosts
  <1>2. /\ u' \in UTypes
        /\ u'.pc = "detach"
        /\ u'.list = u.list
        /\ u'.work = u.work \ {d}
    BY <1>1, OneAbove DEF UTypes, UnloadDetaches
  <1>3. stack' \in [Targets -> Seq(Devices)]
        /\ (\A t \in Targets : Above(t)' = Above(t) \ {d})
        /\ (\A t \in Targets : Len(stack'[t]) \in Nat
        /\ Len(stack'[t]) <= Len(stack[t])
        /\ (stack[t] = <<>> => stack'[t] = <<>>))
    BY StackWithoutOf DEF FilterInv, UnloadDetaches, Above
  <1>4. (\A e : Attached(e)' <=> \E t \in Targets : e \in Above(t)')
        /\ n.pc = "idle"
        /\ n.dev = None
        /\ n.new = None
        /\ todo = {}
    BY <1>1, AttachedTo DEF Attached, Above, Of, FilterInv, FilterPlaces, NotifyPlaces,
       Serving
  <1>5. \A e : e # d => (Attached(e)' <=> Attached(e))
    BY <1>3, <1>4, AttachedTo
  <1>6. TypeOK'
    <2>1. RestTyped'
      BY <1>1, <1>2, <1>3, <1>4, <1>5, OneAbove, FilterApart, PlacedWhere DEF RestTyped
    <2>2. /\ lock' = "n" <=> n'.pc \in {"attachVolume", "drop"}
          /\ \A w \in Volumes : lock' = w <=> mount'[w].pc \in {"attach", "drop"}
      BY <1>1, <1>2, <1>3, <1>4, <1>5, TypesAre, FilterApart DEF FilterInv, FilterTypes,
         FilterPlaces, NotifyPlaces, MountPlaces, UnloadPlaces
    <2> QED
      BY <1>1, <1>2, <1>3, <1>4, <1>5, <2>1, <2>2, TypesAre, FilterApart DEF FilterInv,
         FilterTypes
  <1>7. FilterPlaces'
    <2>1. NotifyPlaces'
      BY <1>1, <1>2, <1>4 DEF FilterInv, FilterPlaces, NotifyPlaces, Serving
    <2>2. MountPlaces'
      BY <1>1, <1>3, FilterApart DEF FilterInv, FilterPlaces, MountPlaces
    <2>3. UnloadPlaces'
      BY <1>1, <1>2 DEF FilterInv, FilterPlaces, UnloadPlaces
    <2> QED
      BY <2>1, <2>2, <2>3 DEF FilterPlaces, NotifyPlaces, MountPlaces, UnloadPlaces
  <1>8. Sited'
    BY <1>1, <1>3 DEF FilterInv, Sited
  <1>9. Held'
    BY <1>1, <1>2, <1>4 DEF FilterInv, Held, InHand, Serving, Placed
  <1>10. Vacant'
    <2>1. StacksShort'
      <3>1. \A t \in Targets : Len(stack[t]) \in Nat
        BY LenProperties DEF FilterInv, TypeOK
      <3> QED
        BY <1>3, <3>1 DEF FilterInv, Vacant, StacksShort
    <2>2. VacantFs'
      BY <1>1, <1>3, <1>4, FilterApart DEF FilterInv, Vacant, VacantFs
    <2>3. VacantVolumes'
      BY <1>1, <1>3, <1>4, FilterApart DEF FilterInv, Vacant, VacantVolumes
    <2>4. VolumesFlagged'
      BY <1>1, <1>3, FilterApart DEF FilterInv, Vacant, VolumesFlagged
    <2> QED
      BY <2>1, <2>2, <2>3, <2>4 DEF Vacant, StacksShort, VacantFs, VacantVolumes,
         VolumesFlagged
  <1>11. Loading'
    BY <1>1, <1>3, <1>4, FilterApart DEF FilterInv, Loading, Placed
  <1>12. Alive'
    BY <1>2 DEF Alive
  <1>13. Covered'
    BY <1>2 DEF Covered
  <1>14. Waiting'
    BY <1>1, <1>2 DEF FilterInv, Waiting
  <1>15. NoneForgotten'
    <2>1. d \in u.list
      BY <1>1 DEF FilterInv, FilterPlaces, UnloadPlaces
    <2> QED
      BY <1>1, <1>2, <1>5, <2>1 DEF FilterInv, NoneForgotten
  <1>16. UnloadDetachable'
    BY <1>1, <1>2, <1>5 DEF FilterInv, UnloadDetachable
  <1>17. NoBypass'
    BY <1>1, <1>2, <1>3, <1>4, <1>5, FilterApart, PlacedWhere DEF FilterInv, NoBypass
  <1> QED
    BY <1>6, <1>7, <1>8, <1>9, <1>10, <1>11, <1>12, <1>13, <1>14, <1>15, <1>16, <1>17 DEF
       FilterInv

LEMMA UnloadDeletesKeeps ==
  ASSUME FilterInv, NEW d \in Devices, UnloadDeletes(d)
  PROVE  FilterInv'
  <1>1. /\ UNCHANGED <<fs, vol, stack, lock, todo, n, mount, req, load, excused, refused, bypassed>>
        /\ (\A s : Above(s)' = Above(s)) /\ (\A e : Attached(e)' <=> Attached(e))
        /\ u.pc = "delete" /\ d \in u.work
    BY StacksSame DEF UnloadDeletes, OthersOfUnload, system, ghosts
  <1>2. /\ u' \in UTypes
        /\ u'.pc \in {"list", "delete"}
        /\ (u'.pc = "list" => u'.list = {})
        /\ (u'.pc = "list" => u'.work = {})
        /\ (u'.pc = "list" => u.work = {d})
        /\ (u'.pc = "delete" => u'.list = u.list)
        /\ (u'.pc = "delete" => u'.work = u.work \ {d})
    BY <1>1, OneAbove DEF UTypes, UnloadDeletes, UIdle
  <1>3. dev' \in DevTypes
        /\ dev'[d].st = "dead"
        /\ dev'[d].to = dev[d].to
        /\ dev'[d].flag = dev[d].flag
        /\ (\A e \in Devices \ {d} : dev'[e] = dev[e])
    BY DevicesTyped DEF FilterInv, UnloadDeletes, DevTypes
  <1>4. n.pc = "idle"
        /\ n.dev = None
        /\ n.new = None
        /\ todo = {}
    BY <1>1 DEF FilterInv, FilterPlaces, NotifyPlaces, Serving
  <1>5. \A e \in Devices : dev'[e].to = dev[e].to
        /\ dev'[e].flag = dev[e].flag
        /\ (dev[e].st # "none" => dev'[e].st # "none")
        /\ (dev'[e].st = "live" => e # d
        /\ dev[e].st = "live")
    BY <1>3
  <1>6. TypeOK'
    <2>1. RestTyped'
      BY <1>1, <1>2, <1>3, <1>4, <1>5, OneAbove, FilterApart, PlacedWhere DEF RestTyped
    <2>2. /\ lock' = "n" <=> n'.pc \in {"attachVolume", "drop"}
          /\ \A w \in Volumes : lock' = w <=> mount'[w].pc \in {"attach", "drop"}
      BY <1>1, <1>2, <1>3, <1>4, <1>5, TypesAre, FilterApart DEF FilterInv, FilterTypes,
         FilterPlaces, NotifyPlaces, MountPlaces, UnloadPlaces
    <2> QED
      BY <1>1, <1>2, <1>3, <1>4, <1>5, <2>1, <2>2, TypesAre, FilterApart DEF FilterInv,
         FilterTypes
  <1>7. FilterPlaces'
    <2>1. NotifyPlaces'
      BY <1>1, <1>2, <1>4 DEF FilterInv, FilterPlaces, NotifyPlaces, Serving
    <2>2. MountPlaces'
      BY <1>1 DEF FilterInv, FilterPlaces, MountPlaces
    <2>3. UnloadPlaces'
      <3>1. u.list \subseteq Devices
        BY OneAbove DEF UTypes
      <3> QED
        BY <1>1, <1>2, <1>3, <3>1 DEF FilterInv, FilterPlaces, UnloadPlaces
    <2> QED
      BY <2>1, <2>2, <2>3 DEF FilterPlaces, NotifyPlaces, MountPlaces, UnloadPlaces
  <1>8. Sited'
    BY <1>1, <1>5, PlacedWhere DEF FilterInv, Sited
  <1>9. Held'
    <2>1. \A e \in Devices : InHand(e) => InHand(e)'
      BY <1>1, <1>2, <1>5 DEF InHand
    <2>2. \A v \in Volumes : mount[v].dev # None =>
            /\ InHand(mount[v].dev)' /\ dev'[mount[v].dev].flag
            /\ mount[v].dev # n.new /\ mount[v].dev # n.dev
            /\ \A w \in Volumes \ {v} : mount[w].dev # mount[v].dev
      BY <1>1, <1>5, <2>1, PlacedWhere DEF FilterInv, Held
    <2> QED
      BY <1>1, <1>4, <2>2 DEF Held, Serving, Placed
  <1>10. Vacant'
    <2>1. StacksShort' /\ VacantFs' /\ VacantVolumes'
      BY <1>1 DEF FilterInv, Vacant, StacksShort, VacantFs, VacantVolumes, Placed
    <2>2. \A v \in Volumes : \A e \in Above(v) : e \in Devices
      BY PlacedWhere, FilterApart
    <2>3. VolumesFlagged'
      BY <1>1, <1>5, <2>2 DEF FilterInv, Vacant, VolumesFlagged
    <2> QED
      BY <2>1, <2>3 DEF Vacant, StacksShort, VacantFs, VacantVolumes, VolumesFlagged
  <1>11. Loading'
    BY <1>1, <1>5, PlacedWhere DEF FilterInv, Loading, Placed
  <1>12. Alive'
    BY <1>2 DEF Alive
  <1>13. Covered'
    BY <1>2 DEF Covered
  <1>14. Waiting'
    BY <1>1, <1>2, <1>5, PlacedWhere DEF FilterInv, Waiting
  <1>15. NoneForgotten'
    <2>1. \A e \in Devices : dev'[e].st = "live" /\ e \in u.list => e \in u'.list
      BY <1>1, <1>2, <1>5 DEF FilterInv, FilterPlaces, UnloadPlaces
    <2> QED
      BY <1>1, <1>5, <2>1 DEF FilterInv, NoneForgotten
  <1>16. UnloadDetachable'
    BY <1>2 DEF UnloadDetachable
  <1>17. NoBypass'
    BY <1>1, <1>2, <1>3, <1>4, <1>5, FilterApart, PlacedWhere DEF FilterInv, NoBypass
  <1> QED
    BY <1>6, <1>7, <1>8, <1>9, <1>10, <1>11, <1>12, <1>13, <1>14, <1>15, <1>16, <1>17 DEF
       FilterInv

-----------------------------------------------------------------------------
(* The theorems about sfilter.                                             *)

LEMMA FilterInitially == Init => FilterInv
  <1> SUFFICES ASSUME Init PROVE FilterInv
    OBVIOUS
  <1>1. /\ \A t \in Targets : stack[t] = <<>> /\ Above(t) = {}
        /\ \A d \in Devices : dev[d] = NoDev
        /\ \A v \in Volumes : mount[v] = MIdle
        /\ \A i \in Requests : req[i] = [pc |-> "idle", dev |-> None, done |-> 0]
        /\ n = NIdle /\ u = UIdle /\ lock = "free" /\ load = [pc |-> "idle", dev |-> None]
        /\ todo = {f \in Fs : fs[f]} /\ excused = {} /\ refused = {} /\ bypassed = {}
        /\ \A t \in Targets : Len(stack[t]) = 0
    BY NoneOf DEF Init, Above
  <1>2. TypeOK
    <2>1. RestTyped
      BY FilterApart DEF Init, RestTyped
    <2>2. stack \in [Targets -> Seq(Devices)] /\ dev \in DevTypes
      BY EmptySeq DEF Init, DevTypes, NoDev
    <2>3. n \in NTypes /\ mount \in MountTypes /\ u \in UTypes
      BY DEF Init, NTypes, MountTypes, UTypes, NIdle, MIdle, UIdle
    <2>4. /\ lock \in {"free", "n"} \cup Volumes
          /\ lock = "n" <=> n.pc \in {"attachVolume", "drop"}
          /\ \A v \in Volumes : lock = v <=> mount[v].pc \in {"attach", "drop"}
      BY <1>1, FilterApart DEF NIdle, MIdle
    <2> QED
      BY <2>1, <2>2, <2>3, <2>4, TypesAre DEF FilterTypes
  <1>3. FilterPlaces
    <2>1. NotifyPlaces
      BY <1>1, FilterApart DEF NotifyPlaces, Serving, NIdle, UIdle
    <2>2. MountPlaces
      <3>1. \A v \in Volumes : v \in Targets /\ vol[v] # "going"
        BY FilterApart DEF Init
      <3> QED
        BY <1>1, <3>1 DEF MountPlaces, MIdle
    <2>3. UnloadPlaces
      BY <1>1 DEF UnloadPlaces, UIdle
    <2> QED
      BY <2>1, <2>2, <2>3 DEF FilterPlaces, NotifyPlaces, MountPlaces, UnloadPlaces
  <1>4. Sited /\ Loading /\ Alive
    BY <1>1 DEF Sited, Loading, Alive
  <1>5. Held
    BY <1>1 DEF Held, Serving, Placed, NIdle, MIdle
  <1>6. Vacant
    <2>1. StacksShort /\ VacantFs
      BY <1>1, FilterApart DEF StacksShort, VacantFs
    <2>2. VacantVolumes /\ VolumesFlagged
      BY <1>1, FilterApart DEF VacantVolumes, VolumesFlagged, NIdle, MIdle
    <2> QED
      BY <2>1, <2>2 DEF Vacant, StacksShort, VacantFs, VacantVolumes, VolumesFlagged
  <1>7. Covered
    BY <1>1, FilterApart DEF Covered
  <1>8. Waiting
    BY <1>1 DEF Waiting
  <1>9. NoneForgotten /\ UnloadDetachable /\ NoBypass
    BY <1>1 DEF NoneForgotten, UnloadDetachable, NoBypass, NoDev, UIdle
  <1> QED
    BY <1>2, <1>3, <1>4, <1>5, <1>6, <1>7, <1>8, <1>9 DEF FilterInv

LEMMA FilterStutters ==
  ASSUME FilterInv, UNCHANGED vars
  PROVE  FilterInv'
  <1>1. UNCHANGED <<fs, vol, stack, dev, lock, todo, n, mount, load, u, excused, refused, bypassed, req>>
    BY DEF vars
  <1>2. Waiting'
    BY <1>1 DEF FilterInv, Waiting
  <1>3. req' \in [Requests -> [pc : {"idle", "below", "woken", "done", "lost"},
                              dev : Devices \cup {None}, done : Nat]]
    BY <1>1, OneAbove DEF RestTyped
  <1> QED
    BY <1>1, <1>2, <1>3, RequestsMove

LEMMA FilterStep ==
  ASSUME FilterInv, [Next]_vars
  PROVE  FilterInv'
  <1>1. CASE NotifyNext
    BY <1>1, FsRegistersKeeps, NotifyCreatesKeeps, NotifyCreateFailsKeeps, DeactivatesKeeps,
       NotifyAttachesKeeps, NotifyAttachFailsKeeps, NotifyFlagsKeeps, NotifyListsKeeps,
       EnumChecksKeeps, EnumLocksKeeps, EnumAttachesKeeps, EnumDropsKeeps, EnumEndsKeeps, Zenon DEF
       NotifyNext
  <1>2. ASSUME NEW v \in Volumes, MountNext(v) PROVE FilterInv'
    BY <1>2, MountStartsKeeps, MountLostKeeps, MountPassesKeeps, FsMakesKeeps,
       FsReturnsKeeps, MountLocksKeeps, MountAttachesKeeps, MountDropsKeeps,
       DismountBeginsKeeps, SfFastIoDetachDeviceKeeps, Zenon DEF MountNext
  <1>3. ASSUME NEW f \in Recognizers, LoadStarts(f) PROVE FilterInv'
    BY <1>3, LoadStartsKeeps
  <1>4. ASSUME NEW ok \in BOOLEAN, LoadReturns(ok) PROVE FilterInv'
    BY <1>4, LoadReturnsKeeps
  <1>5. ASSUME NEW i \in Requests, RequestNext(i) PROVE FilterInv'
    BY <1>5, RequestLostKeeps, RequestPassedKeeps, RequestGoesOnKeeps,
       SfCreateCompletionKeeps, RequestPostsKeeps, Zenon DEF RequestNext
  <1>6. ASSUME NEW t \in Targets, NEW k \in DataCalls \cup OtherCalls, FastIo(t, k) PROVE FilterInv'
    BY <1>6, FastIoKeeps
  <1>7. CASE UnloadNext
    BY <1>7, UnloadBeginsKeeps, UnloadListsKeeps, UnloadWaitsKeeps, UnloadDetachesKeeps,
       UnloadDeletesKeeps, Zenon DEF UnloadNext
  <1>8. CASE UNCHANGED vars
    BY <1>8, FilterStutters
  <1> QED
    BY <1>1, <1>2, <1>3, <1>4, <1>5, <1>6, <1>7, <1>8, Zenon DEF Next

\* What the invariant says of the devices above a target, index by index.
LEMMA FilterAttachedOnce == FilterInv => AttachedOnce
  BY DEF FilterInv, Vacant, StacksShort, AttachedOnce

LEMMA FilterNothingMissed == FilterInv => NothingMissed
  <1> SUFFICES ASSUME FilterInv, NEW v \in Volumes,
                      vol[v] = "mounted", SfIsAttachedToDevice(FsOf[v]),
                      n.pc = "idle", u.pc = "idle", mount[v].pc = "idle",
                      FsOf[v] \notin Recognizers, v \notin Shadows \cup excused
               PROVE  SfIsAttachedToDevice(v)
    BY DEF NothingMissed
  <1>1. \E d \in Above(FsOf[v]) : dev[d].flag
    BY FlaggedAt
  <1>2. stack[v] # <<>>
    BY <1>1 DEF FilterInv, Covered
  <1>3. \E d \in Above(v) : dev[d].flag
    BY <1>2, OneAbove, FilterApart DEF FilterInv, Vacant, VolumesFlagged
  <1> QED
    BY <1>3, FlaggedAt

LEMMA FilterStacksSound == FilterInv => StacksSound
  <1> SUFFICES ASSUME FilterInv, u.pc = "idle", NEW t \in Targets \ Recognizers, NEW k \in 1..Len(stack[t])
               PROVE  dev[stack[t][k]].st = "live" /\ dev[stack[t][k]].to = t
    BY DEF StacksSound
  <1>1. stack[t][k] \in Above(t)
    BY DEF Above, Of
  <1> QED
    BY <1>1 DEF FilterInv, Alive, Sited

\* Every mounted volume of a file system the filter sits on is covered by one live
\* device, whichever of SfEnumerateFileSystemVolumes and the mount completion got
\* there first, and no data passes beside it: for any number of file systems,
\* volumes, devices and requests.
THEOREM VolumesAlwaysCovered == Spec => []VolumesCovered
  <1>1. FilterInv => VolumesCovered
    BY FilterAttachedOnce, FilterNothingMissed, FilterStacksSound DEF VolumesCovered,
       FilterInv
  <1> QED
    BY <1>1, FilterInitially, FilterStep, PTL DEF Spec

\* No device is forgotten, whoever fails to attach it, and what DriverUnload takes
\* into its list it can detach.
THEOREM DevicesAlwaysAccounted == Spec => []DevicesAccounted
  <1>1. FilterInv => DevicesAccounted
    BY DEF FilterInv, DevicesAccounted
  <1> QED
    BY <1>1, FilterInitially, FilterStep, PTL DEF Spec

\* A request is completed once by whoever has it last, and waits inside no deleted
\* device but in the two cases the property names.
THEOREM RequestsAlwaysOutlived == Spec => []RequestsOutlived
  <1>1. FilterInv => CompletedOnce
    BY DEF FilterInv, Waiting, CompletedOnce
  <1>2. FilterInv => FreedUnused
    <2> SUFFICES ASSUME FilterInv, u.pc = "idle", NEW i \in Requests,
                        req[i].dev # None, dev[req[i].dev].st # "live"
                 PROVE  dev[req[i].dev].to \in Fs
      BY DEF FreedUnused
    <2>1. dev[req[i].dev].to \in Targets /\ dev[req[i].dev].to \notin Volumes
      BY DEF FilterInv, Waiting
    <2> QED
      BY <2>1 DEF Targets
  <1>3. FilterInv => RequestsOutlived
    BY <1>1, <1>2 DEF RequestsOutlived
  <1> QED
    BY <1>3, FilterInitially, FilterStep, PTL DEF Spec

=============================================================================
