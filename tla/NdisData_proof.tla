---------------------------- MODULE NdisData_proof ----------------------------
(***************************************************************************)
(* Proofs about the data paths of the two drivers: NdisProtRecv, for any   *)
(* number of read IRPs and packets, any length of the queue and any number *)
(* of losses of power; NdisEdgeRecv, for any number of RCBs, threads,      *)
(* errors and changes of the media's state; and NdisEdgeSend, for any      *)
(* number of packets, TCBs and threads.                                    *)
(***************************************************************************)
EXTENDS MCNdis, CountingTheorems, FiniteSetTheorems, SequenceTheorems, TLAPS

-----------------------------------------------------------------------------
(* Threads by place.  Each term of the two counts is one of these numbers. *)

CopyPlaces   == {"copy", "cancel_took"}
FlushPlaces  == {"flush_took"}
LoopPlaces   == {"loop", "copy", "again", "cancel_loop", "cancel_took", "cancel_again",
                 "flush_loop", "flush_took"}
SettlePlaces == {"copy", "again", "cancel_took", "cancel_again"}

Copying  == InState(CopyPlaces)
Flushing == InState(FlushPlaces)
Looping  == InState(LoopPlaces)
Settling == InState(SettlePlaces)
Found    == Cardinality({i \in Irps : cancel[i] = "found"})

LEMMA ThreadsFinite == IsFiniteSet(Threads)
  <1>1. IsFiniteSet(System)
    <2>1. System = (({} \cup {"cleanup"}) \cup {"unbind"}) \cup {"power"}
      BY DEF System
    <2> QED
      BY <2>1, FS_EmptySet, FS_AddElement
  <1> QED
    BY <1>1, RecvAssumption, FS_Union DEF Threads

LEMMA Move ==
  ASSUME TypeOK, NEW t \in Threads, NEW w, Goto(t, w)
  PROVE  /\ Moved(Copying, Copying', CopyPlaces, pc[t], w)
         /\ Moved(Flushing, Flushing', FlushPlaces, pc[t], w)
         /\ Moved(Looping, Looping', LoopPlaces, pc[t], w)
         /\ Moved(Settling, Settling', SettlePlaces, pc[t], w)
  <1>1. \A S : Moved(InState(S), InState(S)', S, pc[t], w)
    <2> TAKE S
    <2>1. \A u \in Threads : pc'[u] = IF u = t THEN w ELSE pc[u]
      BY DEF TypeOK, Goto
    <2>2. Moved(Cardinality(Where(pc, Threads, S)), Cardinality(Where(pc', Threads, S)), S, pc[t], w)
      BY <2>1, ThreadsFinite, CountMove
    <2> QED
      BY <2>2, Zenon DEF InState, Where
  <1> QED
    BY <1>1, Zenon DEF Copying, Flushing, Looping, Settling

-----------------------------------------------------------------------------
(* The inductive invariant.                                                *)

Cancels == {"cancel", "cancel_loop", "cancel_took", "cancel_again"}
Flushes == {"flush", "flush_loop", "flush_took"}

\* Where the threads of each kind can be.
Places ==
    /\ \A i \in Irps : pc[i] \in {"out", "read"} \cup Servicing
    /\ \A p \in Packets : pc[p] \in {"out", "transfer", "queue"} \cup Servicing
    /\ pc["cleanup"] \in {"out", "done"} \cup Cancels \cup Flushes
    /\ pc["unbind"] \in {"out", "wait", "close", "free", "deref", "done"} \cup Cancels \cup Flushes
    /\ pc["power"] \in {"out"} \cup Flushes

\* How far the unbind and the cleanup have come, and what is over by then.
Phases ==
    /\ bind = "ACTIVE" <=> At("unbind", "out")
    /\ bind = "IDLE" <=> pc["unbind"] \in {"free", "deref", "done"}
    /\ bind # "ACTIVE" => At("power", "out")
    /\ file = "open" <=> At("cleanup", "out")
    /\ file = "closed" => At("cleanup", "done") /\ \A i \in Irps : irp[i] = "idle"
    /\ RecvPacketPool <=> pc["unbind"] \notin {"deref", "done"}
    /\ pc["unbind"] \in Flushes \cup {"close", "free", "deref", "done"} => PendedReadCount = 0
    /\ pc["unbind"] \in {"close", "free", "deref", "done"} => RecvPktQueue = <<>>
    /\ pc["unbind"] \in {"free", "deref", "done"} => \A p \in Packets : At(p, "out")

\* What a thread has in its hands shows where it is.
Holding ==
    \A t \in Threads :
        /\ has[t].irp \in Irps <=> pc[t] \in {"copy", "cancel_took"}
        /\ has[t].packet \in Packets <=> pc[t] \in {"copy", "flush_took"}

Pended(i) == \E k \in 1 .. Len(PendedReads) : PendedReads[k] = i

\* Who has a read: the list once, one thread, or its cancel routine.
ListedOnce == \A k, l \in 1 .. Len(PendedReads) : PendedReads[k] = PendedReads[l] => k = l
OneTaker   == \A t, u \in Threads : has[t].irp \in Irps /\ has[t].irp = has[u].irp => t = u

ReadOwned(i) ==
    /\ irp[i] = "dispatched" <=> At(i, "read")
    /\ irp[i] = "pended" <=> Pended(i) \/ cancel[i] = "found"
    /\ irp[i] = "taken" <=> \E t \in Threads : has[t].irp = i
    /\ cancel[i] = "found" => ~Pended(i)
    /\ Pended(i) <=> routine[i] \/ cancel[i] = "called"
    /\ routine[i] => cancel[i] = "no"

ReadsOwned == ListedOnce /\ OneTaker /\ \A i \in Irps : ReadOwned(i)

\* Who has a packet in use: the thread that indicates it, the queue, or a thread that took it.
Queued(p) == \E k \in 1 .. Len(RecvPktQueue) : RecvPktQueue[k] = p
Held(p)   == \E t \in Threads : has[t].packet = p

PacketsOwned ==
    \A p \in Packets :
        packet[p] # "free" => pc[p] \in {"transfer", "queue"} \/ Queued(p) \/ Held(p)

Bound == IF At("unbind", "done") THEN 0 ELSE 1
Handle  == IF file = "closed" THEN 0 ELSE 1

Counts ==
    /\ RefCount = Bound + Handle + Len(PendedReads) + Found + Copying
                   + Len(RecvPktQueue) + Flushing + Looping
    /\ PendedReadCount = Len(PendedReads) + Settling

Base == TypeOK /\ Places /\ Phases /\ Holding /\ ReadsOwned

IInv == Base /\ PacketsOwned /\ Counts /\ NoStrandedRead

-----------------------------------------------------------------------------
(* Sequences.                                                              *)

\* A sequence without its k-th element.
LEMMA Unlink ==
  ASSUME NEW S, NEW s \in Seq(S), NEW k \in 1 .. Len(s)
  PROVE  /\ RemoveAt(s, k) \in Seq(S)
         /\ Len(RemoveAt(s, k)) = Len(s) - 1
         /\ \A j \in 1 .. Len(s) - 1 : (j < k => RemoveAt(s, k)[j] = s[j]) /\ (j >= k => RemoveAt(s, k)[j] = s[j + 1])
  <1> DEFINE a == SubSeq(s, 1, k - 1)
             b == SubSeq(s, k + 1, Len(s))
  <1>0. Len(s) \in Nat /\ k \in Nat /\ RemoveAt(s, k) = a \o b
    BY LenProperties DEF RemoveAt
  <1>1. a \in Seq(S) /\ Len(a) = k - 1 /\ \A j \in 1 .. k - 1 : a[j] = s[j]
    <2>1. \A j \in 1 .. k - 1 : s[j] \in S
      BY <1>0, ElementOfSeq
    <2> QED
      BY <1>0, <2>1, SubSeqProperties
  <1>2. b \in Seq(S) /\ Len(b) = Len(s) - k /\ \A j \in 1 .. Len(s) - k : b[j] = s[k + j]
    <2>1. \A j \in k + 1 .. Len(s) : s[j] \in S
      BY <1>0, ElementOfSeq
    <2> QED
      BY <1>0, <2>1, SubSeqProperties
  <1> HIDE DEF a, b
  <1>3. /\ a \o b \in Seq(S) /\ Len(a \o b) = Len(s) - 1
        /\ \A j \in 1 .. Len(s) - 1 : (a \o b)[j] = IF j <= k - 1 THEN a[j] ELSE b[j - (k - 1)]
    <2>1. /\ a \o b \in Seq(S) /\ Len(a \o b) = Len(a) + Len(b)
          /\ \A j \in 1 .. Len(a) + Len(b) : (a \o b)[j] = IF j <= Len(a) THEN a[j] ELSE b[j - Len(a)]
      BY <1>1, <1>2, ConcatProperties, Zenon
    <2>2. Len(a) + Len(b) = Len(s) - 1
      BY <1>0, <1>1, <1>2
    <2> QED
      BY <1>1, <2>1, <2>2, Zenon
  <1>4. ASSUME NEW j \in 1 .. Len(s) - 1 PROVE (j < k => (a \o b)[j] = s[j]) /\ (j >= k => (a \o b)[j] = s[j + 1])
    <2>1. CASE j < k
      BY <1>0, <1>1, <1>3, <2>1
    <2>2. CASE j >= k
      <3>1. j - (k - 1) \in 1 .. Len(s) - k /\ k + (j - (k - 1)) = j + 1
        BY <1>0, <2>2
      <3>2. (a \o b)[j] = b[j - (k - 1)]
        BY <1>0, <1>3, <2>2
      <3>3. b[j - (k - 1)] = s[k + (j - (k - 1))]
        BY <1>2, <3>1, Zenon
      <3>4. (a \o b)[j] = s[j + 1]
        BY <3>1, <3>2, <3>3, Zenon
      <3>5. ~(j < k)
        BY <1>0, <2>2
      <3> QED
        BY <3>4, <3>5, Zenon
    <2> QED
      BY <1>0, <2>1, <2>2
  <1> QED
    BY <1>0, <1>3, <1>4

\* The list of reads without its k-th entry.
WithoutAt(k) ==
    /\ Len(PendedReads') = Len(PendedReads) - 1
    /\ \A j \in 1 .. Len(PendedReads') :
          /\ j < k => PendedReads'[j] = PendedReads[j]
          /\ j >= k => PendedReads'[j] = PendedReads[j + 1]

LEMMA UnlinkedType ==
  ASSUME TypeOK, NEW k \in DOMAIN PendedReads, UnlinkedAt(k)
  PROVE  /\ k \in 1 .. Len(PendedReads) /\ PendedReads[k] \in Irps
         /\ PendedReads' \in Seq(Irps)
         /\ Len(PendedReads') = Len(PendedReads) - 1
         /\ WithoutAt(k)
  <1>1. PendedReads \in Seq(Irps) /\ k \in 1 .. Len(PendedReads)
    BY LenProperties DEF TypeOK
  <1>2. Len(PendedReads) \in Nat /\ PendedReads[k] \in Irps
    BY <1>1, LenProperties, ElementOfSeq
  <1>3. /\ PendedReads' \in Seq(Irps)
        /\ Len(PendedReads') = Len(PendedReads) - 1
        /\ \A j \in 1 .. Len(PendedReads) - 1 :
              /\ j < k => PendedReads'[j] = PendedReads[j]
              /\ j >= k => PendedReads'[j] = PendedReads[j + 1]
    BY <1>1, Unlink DEF UnlinkedAt
  <1>4. WithoutAt(k)
    BY <1>3 DEF WithoutAt
  <1> QED
    BY <1>1, <1>2, <1>3, <1>4

-----------------------------------------------------------------------------
(* Type correctness.                                                       *)

LEMMA ThreadKinds ==
  /\ Irps \subseteq Threads /\ Packets \subseteq Threads
  /\ "cleanup" \in Threads /\ "unbind" \in Threads /\ "power" \in Threads
  /\ Irps \cap Packets = {} /\ (Irps \cup Packets) \cap {"cleanup", "unbind", "power"} = {}
  BY RecvAssumption DEF Threads, System

LEMMA InitType == Init => TypeOK
  BY EmptySeq, RecvAssumption DEF Init, TypeOK, Pcs, Nothing

\* The numbers of Counts are natural, and a thread that is counted makes one positive.
LEMMA CountsType ==
  ASSUME TypeOK
  PROVE  /\ Copying \in Nat /\ Flushing \in Nat /\ Looping \in Nat /\ Settling \in Nat
         /\ Found \in Nat
         /\ \A t \in Threads :
               /\ pc[t] \in CopyPlaces => Copying > 0
               /\ pc[t] \in FlushPlaces => Flushing > 0
               /\ pc[t] \in LoopPlaces => Looping > 0
               /\ pc[t] \in SettlePlaces => Settling > 0
         /\ \A i \in Irps : cancel[i] = "found" => Found > 0
  <1>1. \A S : /\ InState(S) \in Nat
               /\ \A t \in Threads : pc[t] \in S => InState(S) > 0
    <2> TAKE S
    <2>1. IsFiniteSet({t \in Threads : pc[t] \in S})
      BY ThreadsFinite, FS_Subset
    <2> QED
      BY <2>1, FS_CardinalityType, FS_EmptySet DEF InState
  <1>2. IsFiniteSet({i \in Irps : cancel[i] = "found"})
    BY RecvAssumption, FS_Subset
  <1>3. Found \in Nat /\ \A i \in Irps : cancel[i] = "found" => Found > 0
    <2>1. \A i \in Irps : cancel[i] = "found" => {j \in Irps : cancel[j] = "found"} # {}
      OBVIOUS
    <2>2. Found \in Nat /\ (Found = 0 => {j \in Irps : cancel[j] = "found"} = {})
      BY <1>2, FS_CardinalityType, FS_EmptySet DEF Found
    <2> QED
      BY <2>1, <2>2
  <1> QED
    BY <1>1, <1>3, Zenon DEF Copying, Flushing, Looping, Settling

\* The queue of packets with one more, and with the first one dropped.
LEMMA AppendedQueue ==
  ASSUME TypeOK, NEW p \in Packets
  PROVE  /\ Append(RecvPktQueue, p) \in Seq(Packets)
         /\ Len(Append(RecvPktQueue, p)) = Len(RecvPktQueue) + 1
         /\ Head(Append(RecvPktQueue, p)) \in Packets
         /\ Tail(Append(RecvPktQueue, p)) \in Seq(Packets)
         /\ Len(Tail(Append(RecvPktQueue, p))) = Len(RecvPktQueue)
  <1> DEFINE q == Append(RecvPktQueue, p)
  <1>1. q \in Seq(Packets) /\ q # <<>> /\ Len(q) = Len(RecvPktQueue) + 1 /\ Len(RecvPktQueue) \in Nat
    BY AppendProperties, LenProperties DEF TypeOK
  <1> HIDE DEF q
  <1>2. Head(q) \in Packets /\ Tail(q) \in Seq(Packets) /\ Len(Tail(q)) = Len(q) - 1
    BY <1>1, HeadTailProperties
  <1>3. Len(Tail(q)) = Len(RecvPktQueue)
    BY <1>1, <1>2
  <1> QED
    BY <1>1, <1>2, <1>3, Zenon DEF q

Hands == [irp : Irps \cup {NoIrp}, packet : Packets \cup {NoPacket}]

\* A thread goes to a place, or has something else in its hands.
LEMMA MoveType ==
  ASSUME TypeOK, NEW t, NEW w \in Pcs, Goto(t, w)
  PROVE  pc' \in [Threads -> Pcs]
  BY DEF TypeOK, Goto

LEMMA HandsType ==
  ASSUME TypeOK, NEW t, NEW h \in Hands, has' = [has EXCEPT ![t] = h]
  PROVE  has' \in [Threads -> Hands]
  BY DEF TypeOK, Hands

\* What a service loop does with the read it takes out of the list.
TakesAt(t, k) ==
    /\ FirstCancelable(k)
    /\ UnlinkedAt(k)
    /\ routine' = [routine EXCEPT ![PendedReads[k]] = FALSE]
    /\ irp' = [irp EXCEPT ![PendedReads[k]] = "taken"]
    /\ has' = [has EXCEPT ![t] = [irp |-> PendedReads[k], packet |-> Head(RecvPktQueue)]]

LEMMA TakesOne ==
  ASSUME NEW t, ServiceTakes(t)
  PROVE  \E k \in DOMAIN PendedReads : TakesAt(t, k)
  BY DEF ServiceTakes, TakesAt

LEMMA ReceiveMoves ==
  ASSUME NEW p \in Packets, NdisProtReceive(p)
  PROVE  Goto(p, "queue") \/ Goto(p, "transfer")
  BY DEF NdisProtReceive, Goto

LEMMA StepType == Base /\ Counts /\ [Next]_vars => TypeOK'
  <1> SUFFICES ASSUME Base, Counts, [Next]_vars PROVE TypeOK'
    OBVIOUS
  <1> USE DEF context, reads, rcvs
  <1>0. TypeOK /\ Len(PendedReads) \in Nat /\ Len(RecvPktQueue) \in Nat
    BY LenProperties DEF Base, TypeOK
  <1>a. PendedReadCount = Len(PendedReads) + Settling /\ Settling \in Nat
    BY <1>0, CountsType, Zenon DEF Counts
  <1>1. ASSUME NEW t \in Threads, Settle(t) PROVE PendedReadCount' \in Nat
    <2>1. PendedReadCount \in Nat
      BY <1>0 DEF TypeOK
    <2>2. At(t, "again") \/ At(t, "cancel_again") => Settling > 0
      BY <1>0, CountsType DEF At, SettlePlaces
    <2> QED
      BY <1>0, <1>a, <1>1, <2>1, <2>2 DEF Settle
  <1>2. ASSUME NEW i \in Irps, Read(i) \/ Pending(i) \/ CancelCalled(i) \/ Cancelling(i) PROVE TypeOK'
    <2> i \in Threads
      BY ThreadKinds DEF System
    <2>1. CASE Read(i)
      <3>1. "read" \in Pcs
        BY DEF Pcs
      <3>2. pc' \in [Threads -> Pcs]
        BY <1>0, <2>1, <3>1, MoveType DEF Read
      <3> QED
        BY <1>0, <2>1, <3>1, <3>2
           DEF Read, TypeOK
    <2>2. CASE ReadRefused(i)
      <3>1. "out" \in Pcs
        BY DEF Pcs
      <3>2. pc' \in [Threads -> Pcs]
        BY <1>0, <2>2, <3>1, MoveType DEF ReadRefused
      <3> QED
        BY <1>0, <2>2, <3>1, <3>2
           DEF ReadRefused, TypeOK
    <2>3. CASE ReadPends(i)
      <3>1. "service" \in Pcs
        BY DEF Pcs
      <3>2. pc' \in [Threads -> Pcs]
        BY <1>0, <2>3, <3>1, MoveType DEF ReadPends
      <3> QED
        BY <1>0, <2>3, <3>1, <3>2, AppendProperties
           DEF ReadPends, ndisprotRefOpen, TypeOK
    <2>4. CASE CancelCalled(i)
      BY <1>0, <2>4
         DEF CancelCalled, TypeOK
    <2>5. CASE CancelRemoves(i)
      <3>1. Unlinked(i) => PendedReads' \in Seq(Irps) /\ Len(PendedReads) > 0
        BY <1>0, UnlinkedType, LenProperties DEF Unlinked
      <3>2. Unlinked(i) => PendedReadCount - 1 \in Nat
        BY <1>0, <1>a, <3>1
      <3> QED
        BY <1>0, <2>5, <3>1, <3>2
           DEF CancelRemoves, TypeOK
    <2>6. CASE CancelCompletes(i)
      BY <1>0, <2>6
         DEF CancelCompletes, ndisprotDerefOpen, TypeOK
    <2> QED
      BY <1>2, <2>1, <2>2, <2>3, <2>4, <2>5, <2>6 DEF Pending, Cancelling
  <1>3. ASSUME NEW p \in Packets, NdisProtReceive(p) \/ NdisProtReceivePacket(p) \/ Queueing(p) PROVE TypeOK'
    <2> p \in Threads
      BY ThreadKinds DEF System
    <2>1. CASE NdisProtReceive(p)
      <3>1. "queue" \in Pcs /\ "transfer" \in Pcs
        BY DEF Pcs
      <3>2. pc' \in [Threads -> Pcs]
        BY <1>0, <2>1, <3>1, MoveType DEF NdisProtReceive, Goto
      <3> QED
        BY <1>0, <2>1, <3>1, <3>2
           DEF NdisProtReceive, Goto, TypeOK
    <2>2. CASE NdisProtReceivePacket(p)
      <3>1. "queue" \in Pcs
        BY DEF Pcs
      <3>2. pc' \in [Threads -> Pcs]
        BY <1>0, <2>2, <3>1, MoveType DEF NdisProtReceivePacket
      <3> QED
        BY <1>0, <2>2, <3>1, <3>2
           DEF NdisProtReceivePacket, TypeOK
    <2>3. CASE NdisProtTransferDataComplete(p)
      <3>1. "queue" \in Pcs /\ "out" \in Pcs
        BY DEF Pcs
      <3>2. pc' \in [Threads -> Pcs]
        BY <1>0, <2>3, <3>1, MoveType DEF NdisProtTransferDataComplete
      <3> QED
        BY <1>0, <2>3, <3>1, <3>2
           DEF NdisProtTransferDataComplete, ndisprotFreeReceivePacket, TypeOK
    <2>4. CASE QueueDrops(p)
      <3>1. "out" \in Pcs
        BY DEF Pcs
      <3>2. pc' \in [Threads -> Pcs]
        BY <1>0, <2>4, <3>1, MoveType DEF QueueDrops
      <3> QED
        BY <1>0, <2>4, <3>1, <3>2
           DEF QueueDrops, ndisprotFreeReceivePacket, TypeOK
    <2>5. CASE QueueInserts(p)
      <3>1. "service" \in Pcs
        BY DEF Pcs
      <3>2. pc' \in [Threads -> Pcs]
        BY <1>0, <2>5, <3>1, MoveType DEF QueueInserts
      <3>3. \/ /\ RecvPktQueue' = Tail(Append(RecvPktQueue, p)) /\ RefCount' = RefCount
               /\ packet' = [packet EXCEPT ![Head(Append(RecvPktQueue, p))] = "free"]
            \/ /\ RecvPktQueue' = Append(RecvPktQueue, p) /\ RefCount' = RefCount + 1
               /\ Len(RecvPktQueue) + 1 <= MAX_RECV_QUEUE_SIZE /\ packet' = packet
        BY <1>0, <2>5, RecvAssumption
           DEF QueueInserts, ndisprotRefOpen, ndisprotFreeReceivePacket
      <3>4. RecvPktQueue' \in Seq(Packets) /\ Len(RecvPktQueue') <= MAX_RECV_QUEUE_SIZE
        BY <1>0, <3>3, AppendedQueue DEF TypeOK
      <3>5. packet' \in [Packets -> {"free", "own", "miniport"}] /\ RefCount' \in Nat
        <4>1. (RefCount' = RefCount \/ RefCount' = RefCount + 1)
              /\ (packet' = packet \/ \E q : packet' = [packet EXCEPT ![q] = "free"])
          BY <3>3, Zenon
        <4>2. packet' \in [Packets -> {"free", "own", "miniport"}]
          <5>1. packet \in [Packets -> {"free", "own", "miniport"}]
            BY <1>0 DEF TypeOK
          <5> QED
            BY <4>1, <5>1
        <4>3. RefCount' \in Nat
          BY <1>0, <4>1 DEF TypeOK
        <4> QED
          BY <4>2, <4>3
      <3>6. UNCHANGED <<context, reads, has>>
        BY <2>5 DEF QueueInserts
      <3> QED
        BY <1>0, <3>2, <3>4, <3>5, <3>6 DEF TypeOK
    <2> QED
      BY <1>3, <2>1, <2>2, <2>3, <2>4, <2>5 DEF Queueing
  <1>4. ASSUME NEW t \in Threads, Service(t) PROVE TypeOK'
    <2>1. CASE ServiceEnters(t)
      <3>1. "loop" \in Pcs
        BY DEF Pcs
      <3>2. pc' \in [Threads -> Pcs]
        BY <1>0, <2>1, <3>1, MoveType DEF ServiceEnters
      <3> QED
        BY <1>0, <2>1, <3>1, <3>2
           DEF ServiceEnters, ndisprotRefOpen, TypeOK
    <2>2. CASE ServiceTakes(t)
      <3>1. "copy" \in Pcs
        BY DEF Pcs
      <3>2. pc' \in [Threads -> Pcs]
        BY <1>0, <2>2, <3>1, MoveType DEF ServiceTakes
      <3>3. /\ Head(RecvPktQueue) \in Packets /\ Tail(RecvPktQueue) \in Seq(Packets)
            /\ Len(Tail(RecvPktQueue)) = Len(RecvPktQueue) - 1
        BY <1>0, <2>2, HeadTailProperties DEF ServiceTakes, TypeOK
      <3>4. PendedReadCount' \in Nat
        BY <1>1, <2>2 DEF ServiceTakes
      <3>5. PendedReads' \in Seq(Irps) /\ irp' \in [Irps -> {"idle", "dispatched", "pended", "taken"}]
            /\ routine' \in [Irps -> BOOLEAN] /\ has' \in [Threads -> Hands]
        <4>1. PICK k \in DOMAIN PendedReads : TakesAt(t, k)
          BY <2>2, TakesOne
        <4>2. PendedReads' \in Seq(Irps) /\ PendedReads[k] \in Irps
          BY <1>0, <4>1, UnlinkedType DEF TakesAt
        <4>3. has' \in [Threads -> Hands]
          BY <1>0, <4>1, <4>2, <3>3, HandsType DEF TakesAt, Hands
        <4> QED
          BY <1>0, <4>1, <4>2, <4>3 DEF TakesAt, TypeOK
      <3> QED
        BY <1>0, <2>2, <3>1, <3>2, <3>3, <3>4, <3>5, RecvAssumption
           DEF ServiceTakes, ndisprotDerefOpen, Hands, TypeOK
    <2>3. CASE ServiceCompletes(t)
      <3>1. "again" \in Pcs
        BY DEF Pcs
      <3>2. pc' \in [Threads -> Pcs]
        BY <1>0, <2>3, <3>1, MoveType DEF ServiceCompletes
      <3>3. has[t].irp \in Irps
        BY <2>3 DEF ServiceCompletes, Base, Holding, At
      <3>4. has[t].packet \in Packets
        BY <2>3 DEF ServiceCompletes, Base, Holding, At
      <3>5. has' \in [Threads -> Hands]
        BY <1>0, <2>3, HandsType DEF ServiceCompletes, Hands, Nothing
      <3> QED
        BY <1>0, <2>3, <3>1, <3>2, <3>3, <3>4, <3>5
           DEF ServiceCompletes, ndisprotDerefOpen, ndisprotFreeReceivePacket, Hands, TypeOK
    <2>4. CASE ServiceStops(t)
      <3>1. "out" \in Pcs
        BY DEF Pcs
      <3>2. pc' \in [Threads -> Pcs]
        BY <1>0, <2>4, <3>1, MoveType DEF ServiceStops
      <3>3. PendedReadCount' \in Nat
        BY <1>1, <2>4 DEF ServiceStops
      <3> QED
        BY <1>0, <2>4, <3>1, <3>2, <3>3
           DEF ServiceStops, ndisprotDerefOpen, TypeOK
    <2> QED
      BY <1>4, <2>1, <2>2, <2>3, <2>4 DEF Service
  <1>5. ASSUME NEW t \in Threads, CancelAll(t) PROVE TypeOK'
    <2>1. CASE CancelAllEnters(t)
      <3>1. "cancel_loop" \in Pcs
        BY DEF Pcs
      <3>2. pc' \in [Threads -> Pcs]
        BY <1>0, <2>1, <3>1, MoveType DEF CancelAllEnters
      <3> QED
        BY <1>0, <2>1, <3>1, <3>2
           DEF CancelAllEnters, ndisprotRefOpen, TypeOK
    <2>2. CASE CancelAllTakes(t)
      <3>1. "cancel_took" \in Pcs
        BY DEF Pcs
      <3>2. pc' \in [Threads -> Pcs]
        BY <1>0, <2>2, <3>1, MoveType DEF CancelAllTakes
      <3>3. PendedReadCount' \in Nat
        BY <1>1, <2>2 DEF CancelAllTakes
      <3>4. Head(PendedReads) \in Irps /\ Tail(PendedReads) \in Seq(Irps)
        BY <1>0, <2>2, HeadTailProperties DEF CancelAllTakes, TypeOK
      <3>5. has' \in [Threads -> Hands]
        BY <1>0, <2>2, <3>4, HandsType DEF CancelAllTakes, Hands
      <3> QED
        BY <1>0, <2>2, <3>1, <3>2, <3>3, <3>4, <3>5
           DEF CancelAllTakes, Hands, TypeOK
    <2>3. CASE CancelAllCompletes(t)
      <3>1. "cancel_again" \in Pcs
        BY DEF Pcs
      <3>2. pc' \in [Threads -> Pcs]
        BY <1>0, <2>3, <3>1, MoveType DEF CancelAllCompletes
      <3>3. has[t].irp \in Irps
        BY <2>3 DEF CancelAllCompletes, Base, Holding, At
      <3>4. has' \in [Threads -> Hands]
        BY <1>0, <2>3, HandsType DEF CancelAllCompletes, Hands, Nothing
      <3> QED
        BY <1>0, <2>3, <3>1, <3>2, <3>3, <3>4
           DEF CancelAllCompletes, ndisprotDerefOpen, Hands, TypeOK
    <2>4. CASE CancelAllSleeps(t)
      <3>1. "cancel_loop" \in Pcs
        BY DEF Pcs
      <3>2. pc' \in [Threads -> Pcs]
        BY <1>0, <2>4, <3>1, MoveType DEF CancelAllSleeps
      <3>3. PendedReadCount' \in Nat
        BY <1>1, <2>4 DEF CancelAllSleeps
      <3> QED
        BY <1>0, <2>4, <3>1, <3>2, <3>3
           DEF CancelAllSleeps, TypeOK
    <2>5. CASE CancelAllStops(t)
      <3>1. "flush" \in Pcs /\ "wait" \in Pcs
        BY DEF Pcs
      <3>2. pc' \in [Threads -> Pcs]
        BY <1>0, <2>5, <3>1, MoveType DEF CancelAllStops
      <3>3. PendedReadCount' \in Nat
        BY <1>1, <2>5 DEF CancelAllStops
      <3> QED
        BY <1>0, <2>5, <3>1, <3>2, <3>3
           DEF CancelAllStops, ndisprotDerefOpen, TypeOK
    <2> QED
      BY <1>5, <2>1, <2>2, <2>3, <2>4, <2>5 DEF CancelAll
  <1>6. ASSUME NEW t \in Threads, Flush(t) PROVE TypeOK'
    <2>1. CASE FlushEnters(t)
      <3>1. "flush_loop" \in Pcs
        BY DEF Pcs
      <3>2. pc' \in [Threads -> Pcs]
        BY <1>0, <2>1, <3>1, MoveType DEF FlushEnters
      <3> QED
        BY <1>0, <2>1, <3>1, <3>2
           DEF FlushEnters, ndisprotRefOpen, TypeOK
    <2>2. CASE FlushTakes(t)
      <3>1. "flush_took" \in Pcs
        BY DEF Pcs
      <3>2. pc' \in [Threads -> Pcs]
        BY <1>0, <2>2, <3>1, MoveType DEF FlushTakes
      <3>3. /\ Head(RecvPktQueue) \in Packets /\ Tail(RecvPktQueue) \in Seq(Packets)
            /\ Len(Tail(RecvPktQueue)) = Len(RecvPktQueue) - 1
        BY <1>0, <2>2, HeadTailProperties DEF FlushTakes, TypeOK
      <3>4. has' \in [Threads -> Hands]
        BY <1>0, <2>2, <3>3, HandsType DEF FlushTakes, Hands
      <3> QED
        BY <1>0, <2>2, <3>1, <3>2, <3>3, <3>4, RecvAssumption
           DEF FlushTakes, Hands, TypeOK
    <2>3. CASE FlushFrees(t)
      <3>1. "flush_loop" \in Pcs
        BY DEF Pcs
      <3>2. pc' \in [Threads -> Pcs]
        BY <1>0, <2>3, <3>1, MoveType DEF FlushFrees
      <3>3. has[t].packet \in Packets
        BY <2>3 DEF FlushFrees, Base, Holding, At
      <3>4. has' \in [Threads -> Hands]
        BY <1>0, <2>3, HandsType DEF FlushFrees, Hands, Nothing
      <3> QED
        BY <1>0, <2>3, <3>1, <3>2, <3>3, <3>4
           DEF FlushFrees, ndisprotDerefOpen, ndisprotFreeReceivePacket, Hands, TypeOK
    <2>4. CASE FlushStops(t)
      <3>1. "done" \in Pcs /\ "close" \in Pcs /\ "out" \in Pcs
        BY DEF Pcs
      <3>2. pc' \in [Threads -> Pcs]
        BY <1>0, <2>4, <3>1, MoveType DEF FlushStops
      <3> QED
        BY <1>0, <2>4, <3>1, <3>2
           DEF FlushStops, ndisprotDerefOpen, TypeOK
    <2> QED
      BY <1>6, <2>1, <2>2, <2>3, <2>4 DEF Flush
  <1>7. CASE CleanupBegins \/ Close \/ UnbindBegins \/ Unbinding \/ PowerDown \/ PowerUp
    <2>1. CASE CleanupBegins
      <3>1. "cancel" \in Pcs
        BY DEF Pcs
      <3>2. pc' \in [Threads -> Pcs]
        BY <1>0, <2>1, <3>1, MoveType DEF CleanupBegins
      <3> QED
        BY <1>0, <2>1, <3>1, <3>2
           DEF CleanupBegins, TypeOK
    <2>2. CASE Close
      BY <1>0, <2>2
         DEF Close, ndisprotDerefOpen, TypeOK
    <2>3. CASE UnbindBegins
      <3>1. "wait" \in Pcs
        BY DEF Pcs
      <3>2. pc' \in [Threads -> Pcs]
        BY <1>0, <2>3, <3>1, MoveType DEF UnbindBegins
      <3> QED
        BY <1>0, <2>3, <3>1, <3>2
           DEF UnbindBegins, TypeOK
    <2>4. CASE UnbindWaits
      <3>1. "cancel" \in Pcs /\ "flush" \in Pcs
        BY DEF Pcs
      <3>2. pc' \in [Threads -> Pcs]
        BY <1>0, <2>4, <3>1, MoveType DEF UnbindWaits
      <3> QED
        BY <1>0, <2>4, <3>1, <3>2
           DEF UnbindWaits, TypeOK
    <2>5. CASE UnbindCloses
      <3>1. "free" \in Pcs
        BY DEF Pcs
      <3>2. pc' \in [Threads -> Pcs]
        BY <1>0, <2>5, <3>1, MoveType DEF UnbindCloses
      <3> QED
        BY <1>0, <2>5, <3>1, <3>2
           DEF UnbindCloses, TypeOK
    <2>6. CASE UnbindFrees
      <3>1. "deref" \in Pcs
        BY DEF Pcs
      <3>2. pc' \in [Threads -> Pcs]
        BY <1>0, <2>6, <3>1, MoveType DEF UnbindFrees
      <3> QED
        BY <1>0, <2>6, <3>1, <3>2
           DEF UnbindFrees, TypeOK
    <2>7. CASE UnbindDerefs
      <3>1. "done" \in Pcs
        BY DEF Pcs
      <3>2. pc' \in [Threads -> Pcs]
        BY <1>0, <2>7, <3>1, MoveType DEF UnbindDerefs
      <3> QED
        BY <1>0, <2>7, <3>1, <3>2
           DEF UnbindDerefs, ndisprotDerefOpen, TypeOK
    <2>8. CASE PowerDown
      <3>1. "flush" \in Pcs
        BY DEF Pcs
      <3>2. pc' \in [Threads -> Pcs]
        BY <1>0, <2>8, <3>1, MoveType DEF PowerDown
      <3> QED
        BY <1>0, <2>8, <3>1, <3>2, RecvAssumption
           DEF PowerDown, TypeOK
    <2>9. CASE PowerUp
      BY <1>0, <2>9
         DEF PowerUp, TypeOK
    <2> QED
      BY <1>7, <2>1, <2>2, <2>3, <2>4, <2>5, <2>6, <2>7, <2>8, <2>9 DEF Unbinding
  <1>8. CASE UNCHANGED vars
    BY <1>0, <1>8 DEF vars, TypeOK
  <1> QED
    BY <1>2, <1>3, <1>4, <1>5, <1>6, <1>7, <1>8, ThreadKinds DEF Next, System

LEMMA StepPlaces ==
  ASSUME TypeOK, Places, [Next]_vars
  PROVE  Places'
  <1> USE DEF context, reads, rcvs, Goto, At
  <1>1. ASSUME NEW i \in Irps, Read(i) \/ Pending(i) \/ CancelCalled(i) \/ Cancelling(i) PROVE Places'
    <2> i \in Threads
      BY ThreadKinds
    <2>1. CASE Read(i)
      BY ThreadKinds, <2>1
         DEF Read, TypeOK, Places, Servicing, Cancels, Flushes, System
    <2>2. CASE ReadRefused(i)
      BY ThreadKinds, <2>2
         DEF ReadRefused, TypeOK, Places, Servicing, Cancels, Flushes, System
    <2>3. CASE ReadPends(i)
      BY ThreadKinds, <2>3
         DEF ReadPends, TypeOK, Places, Servicing, Cancels, Flushes, System
    <2>4. CASE CancelCalled(i)
      BY ThreadKinds, <2>4
         DEF CancelCalled, TypeOK, Places, Servicing, Cancels, Flushes, System
    <2>5. CASE CancelRemoves(i)
      BY ThreadKinds, <2>5
         DEF CancelRemoves, TypeOK, Places, Servicing, Cancels, Flushes, System
    <2>6. CASE CancelCompletes(i)
      BY ThreadKinds, <2>6
         DEF CancelCompletes, TypeOK, Places, Servicing, Cancels, Flushes, System
    <2> QED
      BY <1>1, <2>1, <2>2, <2>3, <2>4, <2>5, <2>6 DEF Pending, Cancelling
  <1>2. ASSUME NEW p \in Packets, NdisProtReceive(p) \/ NdisProtReceivePacket(p) \/ Queueing(p) PROVE Places'
    <2> p \in Threads
      BY ThreadKinds
    <2>1. CASE NdisProtReceive(p)
      <3>1. CASE Goto(p, "queue")
        BY ThreadKinds, <3>1 DEF TypeOK, Places, Servicing
      <3>2. CASE Goto(p, "transfer")
        BY ThreadKinds, <3>2 DEF TypeOK, Places, Servicing
      <3> QED
        BY <2>1, <3>1, <3>2, ReceiveMoves
    <2>2. CASE NdisProtReceivePacket(p)
      BY ThreadKinds, <2>2
         DEF NdisProtReceivePacket, TypeOK, Places, Servicing, Cancels, Flushes, System
    <2>3. CASE NdisProtTransferDataComplete(p)
      BY ThreadKinds, <2>3
         DEF NdisProtTransferDataComplete, TypeOK, Places, Servicing, Cancels, Flushes, System
    <2>4. CASE QueueDrops(p)
      BY ThreadKinds, <2>4
         DEF QueueDrops, TypeOK, Places, Servicing, Cancels, Flushes, System
    <2>5. CASE QueueInserts(p)
      BY ThreadKinds, <2>5
         DEF QueueInserts, TypeOK, Places, Servicing, Cancels, Flushes, System
    <2> QED
      BY <1>2, <2>1, <2>2, <2>3, <2>4, <2>5 DEF Queueing
  <1>3. ASSUME NEW t \in Irps \cup Packets, Service(t) PROVE Places'
    <2> t \in Threads
      BY DEF Threads, System
    <2>1. CASE ServiceEnters(t)
      BY ThreadKinds, <2>1
         DEF ServiceEnters, TypeOK, Places, Servicing, Cancels, Flushes, System
    <2>2. CASE ServiceTakes(t)
      BY ThreadKinds, <2>2
         DEF ServiceTakes, TypeOK, Places, Servicing, Cancels, Flushes, System
    <2>3. CASE ServiceCompletes(t)
      BY ThreadKinds, <2>3
         DEF ServiceCompletes, TypeOK, Places, Servicing, Cancels, Flushes, System
    <2>4. CASE ServiceStops(t)
      BY ThreadKinds, <2>4
         DEF ServiceStops, TypeOK, Places, Servicing, Cancels, Flushes, System
    <2> QED
      BY <1>3, <2>1, <2>2, <2>3, <2>4 DEF Service
  <1>4. ASSUME NEW t \in {"cleanup", "unbind"}, CancelAll(t) PROVE Places'
    <2> t \in Threads
      BY DEF Threads, System
    <2>1. CASE CancelAllEnters(t)
      BY ThreadKinds, <2>1
         DEF CancelAllEnters, TypeOK, Places, Servicing, Cancels, Flushes, System
    <2>2. CASE CancelAllTakes(t)
      BY ThreadKinds, <2>2
         DEF CancelAllTakes, TypeOK, Places, Servicing, Cancels, Flushes, System
    <2>3. CASE CancelAllCompletes(t)
      BY ThreadKinds, <2>3
         DEF CancelAllCompletes, TypeOK, Places, Servicing, Cancels, Flushes, System
    <2>4. CASE CancelAllSleeps(t)
      BY ThreadKinds, <2>4
         DEF CancelAllSleeps, TypeOK, Places, Servicing, Cancels, Flushes, System
    <2>5. CASE CancelAllStops(t)
      BY ThreadKinds, <2>5
         DEF CancelAllStops, TypeOK, Places, Servicing, Cancels, Flushes, System
    <2> QED
      BY <1>4, <2>1, <2>2, <2>3, <2>4, <2>5 DEF CancelAll
  <1>5. ASSUME NEW t \in System, Flush(t) PROVE Places'
    <2> t \in Threads
      BY DEF Threads, System
    <2>1. CASE FlushEnters(t)
      BY ThreadKinds, <2>1
         DEF FlushEnters, TypeOK, Places, Servicing, Cancels, Flushes, System
    <2>2. CASE FlushTakes(t)
      BY ThreadKinds, <2>2
         DEF FlushTakes, TypeOK, Places, Servicing, Cancels, Flushes, System
    <2>3. CASE FlushFrees(t)
      BY ThreadKinds, <2>3
         DEF FlushFrees, TypeOK, Places, Servicing, Cancels, Flushes, System
    <2>4. CASE FlushStops(t)
      BY ThreadKinds, <2>4
         DEF FlushStops, TypeOK, Places, Servicing, Cancels, Flushes, System
    <2> QED
      BY <1>5, <2>1, <2>2, <2>3, <2>4 DEF Flush
  <1>6. CASE CleanupBegins \/ Close \/ UnbindBegins \/ Unbinding \/ PowerDown \/ PowerUp
    <2>1. CASE CleanupBegins
      BY ThreadKinds, <2>1
         DEF CleanupBegins, TypeOK, Places, Servicing, Cancels, Flushes, System
    <2>2. CASE Close
      BY ThreadKinds, <2>2
         DEF Close, TypeOK, Places, Servicing, Cancels, Flushes, System
    <2>3. CASE UnbindBegins
      BY ThreadKinds, <2>3
         DEF UnbindBegins, TypeOK, Places, Servicing, Cancels, Flushes, System
    <2>4. CASE UnbindWaits
      BY ThreadKinds, <2>4
         DEF UnbindWaits, TypeOK, Places, Servicing, Cancels, Flushes, System
    <2>5. CASE UnbindCloses
      BY ThreadKinds, <2>5
         DEF UnbindCloses, TypeOK, Places, Servicing, Cancels, Flushes, System
    <2>6. CASE UnbindFrees
      BY ThreadKinds, <2>6
         DEF UnbindFrees, TypeOK, Places, Servicing, Cancels, Flushes, System
    <2>7. CASE UnbindDerefs
      BY ThreadKinds, <2>7
         DEF UnbindDerefs, TypeOK, Places, Servicing, Cancels, Flushes, System
    <2>8. CASE PowerDown
      BY ThreadKinds, <2>8
         DEF PowerDown, TypeOK, Places, Servicing, Cancels, Flushes, System
    <2>9. CASE PowerUp
      BY ThreadKinds, <2>9
         DEF PowerUp, TypeOK, Places, Servicing, Cancels, Flushes, System
    <2> QED
      BY <1>6, <2>1, <2>2, <2>3, <2>4, <2>5, <2>6, <2>7, <2>8, <2>9 DEF Unbinding
  <1>7. CASE UNCHANGED vars
    BY ThreadKinds, <1>7 DEF vars, TypeOK, Places, Servicing, Cancels, Flushes, System
  <1> QED
    BY <1>1, <1>2, <1>3, <1>4, <1>5, <1>6, <1>7 DEF Next

\* A thread that settles its last read has counted it before.
LEMMA SettleZero ==
  ASSUME TypeOK, TypeOK', NEW t \in Threads, Settle(t), PendedReadCount = 0
  PROVE  PendedReadCount' = 0
  <1>1. PendedReadCount' \in Nat
    BY DEF TypeOK
  <1>2. PendedReadCount' = 0 - 1 \/ PendedReadCount' = 0 - 0
    BY Zenon DEF Settle
  <1> QED
    BY <1>1, <1>2

\* A read that is taken out of the list was in it.
LEMMA TakenWasPended ==
  ASSUME TypeOK, ReadsOwned, NEW t, ServiceTakes(t) \/ CancelAllTakes(t)
  PROVE  \E i \in Irps : irp[i] = "pended" /\ irp' = [irp EXCEPT ![i] = "taken"]
  <1>1. PendedReads \in Seq(Irps) /\ \A k \in 1 .. Len(PendedReads) : PendedReads[k] \in Irps
    BY ElementOfSeq DEF TypeOK
  <1>2. \A k \in 1 .. Len(PendedReads) : irp[PendedReads[k]] = "pended"
    BY <1>1 DEF ReadsOwned, ReadOwned, Pended
  <1>3. CASE ServiceTakes(t)
    <2>1. PICK k \in DOMAIN PendedReads : irp' = [irp EXCEPT ![PendedReads[k]] = "taken"]
      BY <1>3, TakesOne DEF TakesAt
    <2>2. k \in 1 .. Len(PendedReads)
      BY <1>1, LenProperties
    <2> QED
      BY <1>1, <1>2, <2>1, <2>2
  <1>4. CASE CancelAllTakes(t)
    <2>1. PendedReads # <<>> /\ irp' = [irp EXCEPT ![Head(PendedReads)] = "taken"]
      BY <1>4 DEF CancelAllTakes
    <2>2. Head(PendedReads) = PendedReads[1] /\ 1 \in 1 .. Len(PendedReads)
      BY <1>1, <2>1, HeadTailProperties, EmptySeq, LenProperties
    <2> QED
      BY <1>1, <1>2, <2>1, <2>2
  <1> QED
    BY <1>3, <1>4

LEMMA StepPhases ==
  ASSUME TypeOK, TypeOK', Places, Phases, ReadsOwned, [Next]_vars
  PROVE  Phases'
  <1> USE DEF context, reads, rcvs, Goto, At
  <1>1. ASSUME NEW i \in Irps, Read(i) \/ Pending(i) \/ CancelCalled(i) \/ Cancelling(i) PROVE Phases'
    <2> i \in Threads
      BY ThreadKinds
    <2>1. CASE Read(i)
      BY ThreadKinds, <2>1
         DEF Read, TypeOK, Places, Phases, Servicing, Cancels, Flushes, System
    <2>2. CASE ReadRefused(i)
      BY ThreadKinds, <2>2
         DEF ReadRefused, TypeOK, Places, Phases, Servicing, Cancels, Flushes, System
    <2>3. CASE ReadPends(i)
      <3>1. bind = "ACTIVE" /\ irp[i] # "idle"
        BY <2>3 DEF ReadPends, ReadsOwned, ReadOwned
      <3> QED
        BY ThreadKinds, <2>3, <3>1
           DEF ReadPends, TypeOK, Places, Phases, Servicing, Flushes
    <2>4. CASE CancelCalled(i)
      BY ThreadKinds, <2>4
         DEF CancelCalled, TypeOK, Places, Phases, Servicing, Cancels, Flushes, System
    <2>5. CASE CancelRemoves(i)
      BY ThreadKinds, <2>5
         DEF CancelRemoves, TypeOK, Places, Phases, Servicing, Cancels, Flushes, System
    <2>6. CASE CancelCompletes(i)
      BY ThreadKinds, <2>6
         DEF CancelCompletes, TypeOK, Places, Phases, Servicing, Cancels, Flushes, System
    <2> QED
      BY <1>1, <2>1, <2>2, <2>3, <2>4, <2>5, <2>6 DEF Pending, Cancelling
  <1>2. ASSUME NEW p \in Packets, NdisProtReceive(p) \/ NdisProtReceivePacket(p) \/ Queueing(p) PROVE Phases'
    <2> p \in Threads
      BY ThreadKinds
    <2>1. CASE NdisProtReceive(p)
      <3>1. UNCHANGED <<context, PendedReadCount, irp, RecvPktQueue>> /\ Indicating(p)
        BY <2>1 DEF NdisProtReceive
      <3>2. CASE Goto(p, "queue")
        BY ThreadKinds, <3>1, <3>2
           DEF Indicating, TypeOK, Places, Phases, Servicing, Cancels, Flushes, System
      <3>3. CASE Goto(p, "transfer")
        BY ThreadKinds, <3>1, <3>3
           DEF Indicating, TypeOK, Places, Phases, Servicing, Cancels, Flushes, System
      <3> QED
        BY <2>1, <3>2, <3>3, ReceiveMoves
    <2>2. CASE NdisProtReceivePacket(p)
      BY ThreadKinds, <2>2
         DEF NdisProtReceivePacket, Indicating, TypeOK, Places, Phases, Servicing, Cancels,
             Flushes, System
    <2>3. CASE NdisProtTransferDataComplete(p)
      BY ThreadKinds, <2>3
         DEF NdisProtTransferDataComplete, TypeOK, Places, Phases, Servicing, Cancels,
             Flushes, System
    <2>4. CASE QueueDrops(p)
      BY ThreadKinds, <2>4
         DEF QueueDrops, TypeOK, Places, Phases, Servicing, Cancels, Flushes, System
    <2>5. CASE QueueInserts(p)
      BY ThreadKinds, <2>5
         DEF QueueInserts, TypeOK, Places, Phases, Servicing, Cancels, Flushes, System
    <2> QED
      BY <1>2, <2>1, <2>2, <2>3, <2>4, <2>5 DEF Queueing
  <1>3. ASSUME NEW t \in Irps \cup Packets, Service(t) PROVE Phases'
    <2> t \in Threads
      BY DEF Threads, System
    <2>1. CASE ServiceEnters(t)
      BY ThreadKinds, <2>1
         DEF ServiceEnters, TypeOK, Places, Phases, Servicing, Cancels, Flushes, System
    <2>2. CASE ServiceTakes(t)
      <3>1. \E i \in Irps : irp[i] = "pended" /\ irp' = [irp EXCEPT ![i] = "taken"]
        BY <2>2, TakenWasPended DEF Service, CancelAll
      <3>2. ~(file = "closed")
        BY <3>1 DEF TypeOK, Phases
      <3>3. PendedReadCount = 0 => PendedReadCount' = 0
        BY <2>2, SettleZero DEF ServiceTakes
      <3> QED
        BY ThreadKinds, <2>2, <3>2, <3>3
           DEF ServiceTakes, TypeOK, Places, Phases, Servicing, Cancels, Flushes, System
    <2>3. CASE ServiceCompletes(t)
      BY ThreadKinds, <2>3
         DEF ServiceCompletes, TypeOK, Places, Phases, Servicing, Cancels, Flushes, System
    <2>4. CASE ServiceStops(t)
      <3>1. PendedReadCount = 0 => PendedReadCount' = 0
        BY <2>4, SettleZero DEF ServiceStops
      <3> QED
        BY ThreadKinds, <2>4, <3>1
           DEF ServiceStops, TypeOK, Places, Phases, Servicing, Cancels, Flushes, System
    <2> QED
      BY <1>3, <2>1, <2>2, <2>3, <2>4 DEF Service
  <1>4. ASSUME NEW t \in {"cleanup", "unbind"}, CancelAll(t) PROVE Phases'
    <2> t \in Threads
      BY DEF Threads, System
    <2>1. CASE CancelAllEnters(t)
      BY ThreadKinds, <2>1
         DEF CancelAllEnters, TypeOK, Places, Phases, Servicing, Cancels, Flushes, System
    <2>2. CASE CancelAllTakes(t)
      <3>1. \E i \in Irps : irp[i] = "pended" /\ irp' = [irp EXCEPT ![i] = "taken"]
        BY <2>2, TakenWasPended DEF Service, CancelAll
      <3>2. ~(file = "closed")
        BY <3>1 DEF TypeOK, Phases
      <3>3. PendedReadCount = 0 => PendedReadCount' = 0
        BY <2>2, SettleZero DEF CancelAllTakes
      <3> QED
        BY ThreadKinds, <2>2, <3>2, <3>3
           DEF CancelAllTakes, TypeOK, Places, Phases, Servicing, Cancels, Flushes, System
    <2>3. CASE CancelAllCompletes(t)
      BY ThreadKinds, <2>3
         DEF CancelAllCompletes, TypeOK, Places, Phases, Servicing, Cancels, Flushes, System
    <2>4. CASE CancelAllSleeps(t)
      <3>1. PendedReadCount = 0 => PendedReadCount' = 0
        BY <2>4, SettleZero DEF CancelAllSleeps
      <3> QED
        BY ThreadKinds, <2>4, <3>1
           DEF CancelAllSleeps, TypeOK, Places, Phases, Servicing, Cancels, Flushes, System
    <2>5. CASE CancelAllStops(t)
      <3>1. PendedReadCount = 0 => PendedReadCount' = 0
        BY <2>5, SettleZero DEF CancelAllStops
      <3> QED
        BY ThreadKinds, <2>5, <3>1
           DEF CancelAllStops, TypeOK, Places, Phases, Servicing, Cancels, Flushes, System
    <2> QED
      BY <1>4, <2>1, <2>2, <2>3, <2>4, <2>5 DEF CancelAll
  <1>5. ASSUME NEW t \in System, Flush(t) PROVE Phases'
    <2> t \in Threads
      BY DEF Threads, System
    <2>1. CASE FlushEnters(t)
      BY ThreadKinds, <2>1
         DEF FlushEnters, TypeOK, Places, Phases, Servicing, Cancels, Flushes, System
    <2>2. CASE FlushTakes(t)
      BY ThreadKinds, <2>2
         DEF FlushTakes, TypeOK, Places, Phases, Servicing, Cancels, Flushes, System
    <2>3. CASE FlushFrees(t)
      BY ThreadKinds, <2>3
         DEF FlushFrees, TypeOK, Places, Phases, Servicing, Cancels, Flushes, System
    <2>4. CASE FlushStops(t)
      BY ThreadKinds, <2>4
         DEF FlushStops, TypeOK, Places, Phases, Servicing, Cancels, Flushes, System
    <2> QED
      BY <1>5, <2>1, <2>2, <2>3, <2>4 DEF Flush
  <1>6. CASE CleanupBegins \/ Close \/ UnbindBegins \/ Unbinding \/ PowerDown \/ PowerUp
    <2>1. CASE CleanupBegins
      BY ThreadKinds, <2>1
         DEF CleanupBegins, TypeOK, Places, Phases, Servicing, Cancels, Flushes, System
    <2>2. CASE Close
      BY ThreadKinds, <2>2
         DEF Close, TypeOK, Places, Phases, Servicing, Cancels, Flushes, System
    <2>3. CASE UnbindBegins
      BY ThreadKinds, <2>3
         DEF UnbindBegins, TypeOK, Places, Phases, Servicing, Cancels, Flushes, System
    <2>4. CASE UnbindWaits
      BY ThreadKinds, <2>4
         DEF UnbindWaits, TypeOK, Places, Phases, Servicing, Cancels, Flushes, System
    <2>5. CASE UnbindCloses
      BY ThreadKinds, <2>5
         DEF UnbindCloses, TypeOK, Places, Phases, Servicing, Cancels, Flushes, System
    <2>6. CASE UnbindFrees
      BY ThreadKinds, <2>6
         DEF UnbindFrees, TypeOK, Places, Phases, Servicing, Cancels, Flushes, System
    <2>7. CASE UnbindDerefs
      BY ThreadKinds, <2>7
         DEF UnbindDerefs, TypeOK, Places, Phases, Servicing, Cancels, Flushes, System
    <2>8. CASE PowerDown
      BY ThreadKinds, <2>8
         DEF PowerDown, TypeOK, Places, Phases, Servicing, Cancels, Flushes, System
    <2>9. CASE PowerUp
      BY ThreadKinds, <2>9
         DEF PowerUp, TypeOK, Places, Phases, Servicing, Cancels, Flushes, System
    <2> QED
      BY <1>6, <2>1, <2>2, <2>3, <2>4, <2>5, <2>6, <2>7, <2>8, <2>9 DEF Unbinding
  <1>7. CASE UNCHANGED vars
    BY ThreadKinds, <1>7 DEF vars, TypeOK, Places, Phases, Servicing, Cancels, Flushes, System
  <1> QED
    BY <1>1, <1>2, <1>3, <1>4, <1>5, <1>6, <1>7 DEF Next

\* The head of a list of reads, and of the queue of packets.
LEMMA Heads ==
  ASSUME TypeOK
  PROVE  /\ PendedReads # <<>> => Head(PendedReads) \in Irps
         /\ RecvPktQueue # <<>> => Head(RecvPktQueue) \in Packets
  BY HeadTailProperties DEF TypeOK

LEMMA StepHolding ==
  ASSUME TypeOK, Phases, Holding, [Next]_vars
  PROVE  Holding'
  <1> USE DEF context, reads, rcvs, Goto, At
  <1>1. ASSUME NEW i \in Irps, Read(i) \/ Pending(i) \/ CancelCalled(i) \/ Cancelling(i) PROVE Holding'
    <2> i \in Threads
      BY ThreadKinds
    <2>1. CASE Read(i)
      BY ThreadKinds, RecvAssumption, <2>1
         DEF Read, TypeOK, Holding, Nothing
    <2>2. CASE ReadRefused(i)
      BY ThreadKinds, RecvAssumption, <2>2
         DEF ReadRefused, TypeOK, Holding, Nothing
    <2>3. CASE ReadPends(i)
      BY ThreadKinds, RecvAssumption, <2>3
         DEF ReadPends, TypeOK, Holding, Nothing
    <2>4. CASE CancelCalled(i)
      BY ThreadKinds, RecvAssumption, <2>4
         DEF CancelCalled, TypeOK, Holding, Nothing
    <2>5. CASE CancelRemoves(i)
      BY ThreadKinds, RecvAssumption, <2>5
         DEF CancelRemoves, TypeOK, Holding, Nothing
    <2>6. CASE CancelCompletes(i)
      BY ThreadKinds, RecvAssumption, <2>6
         DEF CancelCompletes, TypeOK, Holding, Nothing
    <2> QED
      BY <1>1, <2>1, <2>2, <2>3, <2>4, <2>5, <2>6 DEF Pending, Cancelling
  <1>2. ASSUME NEW p \in Packets, NdisProtReceive(p) \/ NdisProtReceivePacket(p) \/ Queueing(p) PROVE Holding'
    <2> p \in Threads
      BY ThreadKinds
    <2>1. CASE NdisProtReceive(p)
      <3>1. has' = has /\ pc[p] = "out"
        BY <2>1 DEF NdisProtReceive, Indicating
      <3>2. CASE Goto(p, "queue")
        BY ThreadKinds, <3>1, <3>2 DEF TypeOK, Holding
      <3>3. CASE Goto(p, "transfer")
        BY ThreadKinds, <3>1, <3>3 DEF TypeOK, Holding
      <3> QED
        BY <2>1, <3>2, <3>3, ReceiveMoves
    <2>2. CASE NdisProtReceivePacket(p)
      BY ThreadKinds, RecvAssumption, <2>2
         DEF NdisProtReceivePacket, Indicating, TypeOK, Holding, Nothing
    <2>3. CASE NdisProtTransferDataComplete(p)
      BY ThreadKinds, RecvAssumption, <2>3
         DEF NdisProtTransferDataComplete, TypeOK, Holding, Nothing
    <2>4. CASE QueueDrops(p)
      BY ThreadKinds, RecvAssumption, <2>4
         DEF QueueDrops, TypeOK, Holding, Nothing
    <2>5. CASE QueueInserts(p)
      BY ThreadKinds, RecvAssumption, <2>5
         DEF QueueInserts, TypeOK, Holding, Nothing
    <2> QED
      BY <1>2, <2>1, <2>2, <2>3, <2>4, <2>5 DEF Queueing
  <1>3. ASSUME NEW t \in Irps \cup Packets, Service(t) PROVE Holding'
    <2> t \in Threads
      BY DEF Threads, System
    <2>1. CASE ServiceEnters(t)
      BY ThreadKinds, RecvAssumption, <2>1
         DEF ServiceEnters, TypeOK, Holding, Nothing
    <2>2. CASE ServiceTakes(t)
      <3>1. PICK k \in DOMAIN PendedReads : TakesAt(t, k)
        BY <2>2, TakesOne
      <3>2. PendedReads[k] \in Irps /\ Head(RecvPktQueue) \in Packets
        BY <2>2, <3>1, UnlinkedType, Heads DEF ServiceTakes, TakesAt
      <3>3. has' = [has EXCEPT ![t] = [irp |-> PendedReads[k], packet |-> Head(RecvPktQueue)]] /\ Goto(t, "copy")
        BY <2>2, <3>1 DEF ServiceTakes, TakesAt
      <3> QED
        BY <3>2, <3>3 DEF TypeOK, Holding
    <2>3. CASE ServiceCompletes(t)
      BY ThreadKinds, RecvAssumption, <2>3
         DEF ServiceCompletes, TypeOK, Holding, Nothing
    <2>4. CASE ServiceStops(t)
      BY ThreadKinds, RecvAssumption, <2>4
         DEF ServiceStops, TypeOK, Holding, Nothing
    <2> QED
      BY <1>3, <2>1, <2>2, <2>3, <2>4 DEF Service
  <1>4. ASSUME NEW t \in {"cleanup", "unbind"}, CancelAll(t) PROVE Holding'
    <2> t \in Threads
      BY DEF Threads, System
    <2>1. CASE CancelAllEnters(t)
      BY ThreadKinds, RecvAssumption, <2>1
         DEF CancelAllEnters, TypeOK, Holding, Nothing
    <2>2. CASE CancelAllTakes(t)
      <3>1. /\ has' = [has EXCEPT ![t] = [irp |-> Head(PendedReads), packet |-> NoPacket]]
            /\ Goto(t, "cancel_took") /\ Head(PendedReads) \in Irps
        BY <2>2, Heads DEF CancelAllTakes
      <3> QED
        BY <3>1, RecvAssumption DEF TypeOK, Holding
    <2>3. CASE CancelAllCompletes(t)
      BY ThreadKinds, RecvAssumption, <2>3
         DEF CancelAllCompletes, TypeOK, Holding, Nothing
    <2>4. CASE CancelAllSleeps(t)
      BY ThreadKinds, RecvAssumption, <2>4
         DEF CancelAllSleeps, TypeOK, Holding, Nothing
    <2>5. CASE CancelAllStops(t)
      BY ThreadKinds, RecvAssumption, <2>5
         DEF CancelAllStops, TypeOK, Holding, Nothing
    <2> QED
      BY <1>4, <2>1, <2>2, <2>3, <2>4, <2>5 DEF CancelAll
  <1>5. ASSUME NEW t \in System, Flush(t) PROVE Holding'
    <2> t \in Threads
      BY DEF Threads, System
    <2>1. CASE FlushEnters(t)
      BY ThreadKinds, RecvAssumption, <2>1
         DEF FlushEnters, TypeOK, Holding, Nothing
    <2>2. CASE FlushTakes(t)
      <3>1. /\ has' = [has EXCEPT ![t] = [irp |-> NoIrp, packet |-> Head(RecvPktQueue)]]
            /\ Goto(t, "flush_took") /\ Head(RecvPktQueue) \in Packets
        BY <2>2, Heads DEF FlushTakes
      <3> QED
        BY <3>1, RecvAssumption DEF TypeOK, Holding
    <2>3. CASE FlushFrees(t)
      BY ThreadKinds, RecvAssumption, <2>3
         DEF FlushFrees, TypeOK, Holding, Nothing
    <2>4. CASE FlushStops(t)
      BY ThreadKinds, RecvAssumption, <2>4
         DEF FlushStops, TypeOK, Holding, Nothing
    <2> QED
      BY <1>5, <2>1, <2>2, <2>3, <2>4 DEF Flush
  <1>6. CASE CleanupBegins \/ Close \/ UnbindBegins \/ Unbinding \/ PowerDown \/ PowerUp
    <2>1. CASE CleanupBegins
      BY ThreadKinds, RecvAssumption, <2>1
         DEF CleanupBegins, Phases, TypeOK, Holding, Nothing
    <2>2. CASE Close
      BY ThreadKinds, RecvAssumption, <2>2
         DEF Close, TypeOK, Holding, Nothing
    <2>3. CASE UnbindBegins
      BY ThreadKinds, RecvAssumption, <2>3
         DEF UnbindBegins, Phases, TypeOK, Holding, Nothing
    <2>4. CASE UnbindWaits
      BY ThreadKinds, RecvAssumption, <2>4
         DEF UnbindWaits, TypeOK, Holding, Nothing
    <2>5. CASE UnbindCloses
      BY ThreadKinds, RecvAssumption, <2>5
         DEF UnbindCloses, TypeOK, Holding, Nothing
    <2>6. CASE UnbindFrees
      BY ThreadKinds, RecvAssumption, <2>6
         DEF UnbindFrees, TypeOK, Holding, Nothing
    <2>7. CASE UnbindDerefs
      BY ThreadKinds, RecvAssumption, <2>7
         DEF UnbindDerefs, TypeOK, Holding, Nothing
    <2>8. CASE PowerDown
      BY ThreadKinds, RecvAssumption, <2>8
         DEF PowerDown, TypeOK, Holding, Nothing
    <2>9. CASE PowerUp
      BY ThreadKinds, RecvAssumption, <2>9
         DEF PowerUp, TypeOK, Holding, Nothing
    <2> QED
      BY <1>6, <2>1, <2>2, <2>3, <2>4, <2>5, <2>6, <2>7, <2>8, <2>9 DEF Unbinding
  <1>7. CASE UNCHANGED vars
    BY ThreadKinds, RecvAssumption, <1>7 DEF vars, TypeOK, Holding, Nothing
  <1> QED
    BY <1>1, <1>2, <1>3, <1>4, <1>5, <1>6, <1>7 DEF Next

\* The list of reads without its k-th entry has the same reads, but that one.
LEMMA UnlinkReads ==
  ASSUME TypeOK, ListedOnce, NEW k \in 1 .. Len(PendedReads), WithoutAt(k)
  PROVE  /\ ListedOnce'
         /\ \A i : Pended(i)' <=> Pended(i) /\ i # PendedReads[k]
  <1>1. /\ Len(PendedReads) \in Nat /\ Len(PendedReads') = Len(PendedReads) - 1
        /\ \A j \in 1 .. Len(PendedReads') :
              /\ j < k => PendedReads'[j] = PendedReads[j]
              /\ j >= k => PendedReads'[j] = PendedReads[j + 1]
    BY LenProperties DEF TypeOK, WithoutAt
  <1> DEFINE n == Len(PendedReads)
             place(j) == IF j < k THEN j ELSE j + 1
  <1>2. \A j \in 1 .. n - 1 : place(j) \in 1 .. n /\ place(j) # k /\ PendedReads'[j] = PendedReads[place(j)]
    BY <1>1
  <1>3. \A j, l \in 1 .. n - 1 : place(j) = place(l) => j = l
    BY <1>1
  <1>4. \A j \in 1 .. n : j # k => \E l \in 1 .. n - 1 : place(l) = j
    <2> SUFFICES ASSUME NEW j \in 1 .. n, j # k PROVE \E l \in 1 .. n - 1 : place(l) = j
      OBVIOUS
    <2>1. CASE j < k
      <3>1. j \in 1 .. n - 1 /\ place(j) = j
        BY <1>1, <2>1
      <3> QED
        BY <3>1
    <2>2. CASE j > k
      <3>1. j - 1 \in 1 .. n - 1 /\ place(j - 1) = j
        BY <1>1, <2>2
      <3> QED
        BY <3>1
    <2> QED
      BY <1>1, <2>1, <2>2
  <1> HIDE DEF place
  <1>5. ListedOnce'
    <2> SUFFICES ASSUME NEW j \in 1 .. n - 1, NEW l \in 1 .. n - 1, PendedReads'[j] = PendedReads'[l]
                 PROVE  j = l
      BY <1>1 DEF ListedOnce
    <2>1. PendedReads[place(j)] = PendedReads[place(l)] /\ place(j) \in 1 .. n /\ place(l) \in 1 .. n
      BY <1>2
    <2>2. place(j) = place(l)
      BY <2>1 DEF ListedOnce
    <2> QED
      BY <1>3, <2>2
  <1>6. ASSUME NEW i PROVE Pended(i)' <=> Pended(i) /\ i # PendedReads[k]
    <2>1. Pended(i)' => Pended(i) /\ i # PendedReads[k]
      <3> SUFFICES ASSUME Pended(i)' PROVE Pended(i) /\ i # PendedReads[k]
        OBVIOUS
      <3>1. PICK j \in 1 .. n - 1 : PendedReads'[j] = i
        BY <1>1 DEF Pended
      <3>2. place(j) \in 1 .. n /\ place(j) # k /\ PendedReads[place(j)] = i
        BY <1>2, <3>1
      <3> QED
        BY <3>2 DEF Pended, ListedOnce
    <2>2. Pended(i) /\ i # PendedReads[k] => Pended(i)'
      <3> SUFFICES ASSUME Pended(i), i # PendedReads[k] PROVE Pended(i)'
        OBVIOUS
      <3>1. PICK j \in 1 .. n : PendedReads[j] = i
        BY DEF Pended
      <3>2. PICK l \in 1 .. n - 1 : place(l) = j
        BY <1>4, <3>1
      <3> QED
        BY <1>1, <1>2, <3>1, <3>2 DEF Pended
    <2> QED
      BY <2>1, <2>2
  <1> QED
    BY <1>5, <1>6

LEMMA UnlinkAtReads ==
  ASSUME TypeOK, ListedOnce, NEW k \in DOMAIN PendedReads, UnlinkedAt(k)
  PROVE  /\ PendedReads[k] \in Irps /\ Pended(PendedReads[k])
         /\ ListedOnce'
         /\ \A i : Pended(i)' <=> Pended(i) /\ i # PendedReads[k]
  <1>1. k \in 1 .. Len(PendedReads) /\ PendedReads[k] \in Irps
    BY UnlinkedType
  <1>2. WithoutAt(k)
    BY UnlinkedType
  <1>4. ListedOnce' /\ \A i : Pended(i)' <=> Pended(i) /\ i # PendedReads[k]
    BY <1>1, <1>2, UnlinkReads
  <1> QED
    BY <1>1, <1>4 DEF Pended

LEMMA UnlinkHeadReads ==
  ASSUME TypeOK, ListedOnce, PendedReads # <<>>, PendedReads' = Tail(PendedReads)
  PROVE  /\ Head(PendedReads) \in Irps /\ Pended(Head(PendedReads))
         /\ ListedOnce'
         /\ \A i : Pended(i)' <=> Pended(i) /\ i # Head(PendedReads)
  <1>1. /\ Head(PendedReads) \in Irps /\ Head(PendedReads) = PendedReads[1]
        /\ 1 \in 1 .. Len(PendedReads) /\ Len(PendedReads) \in Nat
        /\ Len(PendedReads') = Len(PendedReads) - 1
        /\ \A j \in 1 .. Len(PendedReads') : PendedReads'[j] = PendedReads[j + 1]
    BY HeadTailProperties, EmptySeq, LenProperties DEF TypeOK
  <1>2. ListedOnce' /\ \A i : Pended(i)' <=> Pended(i) /\ i # PendedReads[1]
    <2>1. WithoutAt(1)
      BY <1>1 DEF WithoutAt
    <2> QED
      BY <1>1, <2>1, UnlinkReads
  <1> QED
    BY <1>1, <1>2 DEF Pended

LEMMA AppendReads ==
  ASSUME TypeOK, ListedOnce, NEW i \in Irps, ~Pended(i), PendedReads' = Append(PendedReads, i)
  PROVE  /\ ListedOnce'
         /\ \A j : Pended(j)' <=> Pended(j) \/ j = i
  <1>1. /\ Len(PendedReads) \in Nat /\ Len(PendedReads') = Len(PendedReads) + 1
        /\ \A k \in 1 .. Len(PendedReads) : PendedReads'[k] = PendedReads[k]
        /\ PendedReads'[Len(PendedReads) + 1] = i
    BY AppendProperties, LenProperties DEF TypeOK
  <1> QED
    BY <1>1 DEF ListedOnce, Pended

\* A step that leaves the reads alone.
LEMMA ReadsKept ==
  ASSUME ReadsOwned, UNCHANGED <<PendedReads, irp, routine, cancel>>,
         \A i \in Irps : At(i, "read")' <=> At(i, "read"),
         \A t \in Threads : has'[t].irp = has[t].irp \/ (has[t].irp \notin Irps /\ has'[t].irp \notin Irps)
  PROVE  ReadsOwned'
  BY DEF ReadsOwned, ListedOnce, OneTaker, ReadOwned, Pended

LEMMA ElsewhereThanRead ==
  ASSUME TypeOK, NEW t \in Threads, NEW w, pc[t] # "read", w # "read", Goto(t, w)
  PROVE  \A j \in Irps : At(j, "read")' <=> At(j, "read")
  BY ThreadKinds DEF TypeOK, Goto, At

LEMMA ListedReads ==
  ASSUME TypeOK, NEW i
  PROVE  i \in ToSet(PendedReads) <=> Pended(i)
  BY LenProperties DEF TypeOK, ToSet, Pended

LEMMA StepReads ==
  ASSUME TypeOK, Places, Phases, Holding, ReadsOwned, [Next]_vars
  PROVE  ReadsOwned'
  <1> USE DEF context, reads, rcvs, Goto, At
  <1>1. ASSUME NEW i \in Irps, Read(i) \/ Pending(i) \/ CancelCalled(i) \/ Cancelling(i) PROVE ReadsOwned'
    <2> i \in Threads
      BY ThreadKinds
    <2>1. CASE Read(i)
      BY ThreadKinds, <2>1
         DEF Read, ReadsOwned, ListedOnce, OneTaker, ReadOwned, Pended, TypeOK
    <2>2. CASE ReadRefused(i)
      BY ThreadKinds, <2>2
         DEF ReadRefused, ReadsOwned, ListedOnce, OneTaker, ReadOwned, Pended, TypeOK
    <2>3. CASE ReadPends(i)
      <3>1. ~Pended(i) /\ irp[i] = "dispatched" /\ ReadOwned(i)
        BY <2>3 DEF ReadPends, ReadsOwned, ReadOwned
      <3>2. ListedOnce' /\ \A j : Pended(j)' <=> Pended(j) \/ j = i
        BY <2>3, <3>1, AppendReads DEF ReadPends, ReadsOwned
      <3>3. OneTaker'
        BY <2>3 DEF ReadPends, ReadsOwned, OneTaker
      <3>4. ASSUME NEW j \in Irps PROVE ReadOwned(j)'
        BY ThreadKinds, <2>3, <3>1, <3>2 DEF ReadPends, TypeOK, ReadsOwned, ReadOwned
      <3> QED
        BY <3>2, <3>3, <3>4 DEF ReadsOwned
    <2>4. CASE CancelCalled(i)
      BY ThreadKinds, <2>4
         DEF CancelCalled, ReadsOwned, ListedOnce, OneTaker, ReadOwned, Pended, TypeOK
    <2>5. CASE CancelRemoves(i)
      <3>1. CASE Pended(i)
        <4>1. Unlinked(i) /\ cancel' = [cancel EXCEPT ![i] = "found"]
          BY <2>5, <3>1, ListedReads DEF CancelRemoves
        <4>2. ListedOnce' /\ \A j : Pended(j)' <=> Pended(j) /\ j # i
          BY <4>1, UnlinkAtReads DEF Unlinked, ReadsOwned
        <4>3. OneTaker'
          BY <2>5 DEF CancelRemoves, ReadsOwned, OneTaker
        <4>4. ASSUME NEW j \in Irps PROVE ReadOwned(j)'
          BY ThreadKinds, <2>5, <3>1, <4>1, <4>2
             DEF CancelRemoves, TypeOK, ReadsOwned, ReadOwned
        <4> QED
          BY <4>2, <4>3, <4>4 DEF ReadsOwned
      <3>2. CASE ~Pended(i)
        <4>1. PendedReads' = PendedReads /\ cancel' = [cancel EXCEPT ![i] = "no"]
          BY <2>5, <3>2, ListedReads DEF CancelRemoves
        <4> QED
          BY <2>5, <3>2, <4>1
             DEF CancelRemoves, TypeOK, ReadsOwned, ListedOnce, OneTaker, ReadOwned, Pended
      <3> QED
        BY <3>1, <3>2
    <2>6. CASE CancelCompletes(i)
      BY ThreadKinds, <2>6
         DEF CancelCompletes, ReadsOwned, ListedOnce, OneTaker, ReadOwned, Pended, TypeOK
    <2> QED
      BY <1>1, <2>1, <2>2, <2>3, <2>4, <2>5, <2>6 DEF Pending, Cancelling
  <1>2. ASSUME NEW p \in Packets, NdisProtReceive(p) \/ NdisProtReceivePacket(p) \/ Queueing(p) PROVE ReadsOwned'
    <2> p \in Threads
      BY ThreadKinds
    <2>1. CASE NdisProtReceive(p)
      <3>1. UNCHANGED <<PendedReads, irp, routine, cancel, has>>
        BY <2>1 DEF NdisProtReceive
      <3>2. \A j \in Irps : At(j, "read")' <=> At(j, "read")
        BY ThreadKinds, <2>1, ReceiveMoves DEF TypeOK
      <3> QED
        BY <3>1, <3>2, ReadsKept
    <2>2. CASE NdisProtReceivePacket(p)
      <3>1. UNCHANGED <<PendedReads, irp, routine, cancel, has>>
        BY <2>2 DEF NdisProtReceivePacket
      <3>2. \A j \in Irps : At(j, "read")' <=> At(j, "read")
        BY ThreadKinds, <2>2 DEF NdisProtReceivePacket, TypeOK, Places, Servicing, System
      <3> QED
        BY <3>1, <3>2, ReadsKept
    <2>3. CASE NdisProtTransferDataComplete(p)
      <3>1. UNCHANGED <<PendedReads, irp, routine, cancel, has>>
        BY <2>3 DEF NdisProtTransferDataComplete
      <3>2. \A j \in Irps : At(j, "read")' <=> At(j, "read")
        BY ThreadKinds, <2>3 DEF NdisProtTransferDataComplete, TypeOK, Places, Servicing, System
      <3> QED
        BY <3>1, <3>2, ReadsKept
    <2>4. CASE QueueDrops(p)
      <3>1. UNCHANGED <<PendedReads, irp, routine, cancel, has>>
        BY <2>4 DEF QueueDrops
      <3>2. \A j \in Irps : At(j, "read")' <=> At(j, "read")
        BY ThreadKinds, <2>4 DEF QueueDrops, TypeOK, Places, Servicing, System
      <3> QED
        BY <3>1, <3>2, ReadsKept
    <2>5. CASE QueueInserts(p)
      <3>1. UNCHANGED <<PendedReads, irp, routine, cancel, has>>
        BY <2>5 DEF QueueInserts
      <3>2. \A j \in Irps : At(j, "read")' <=> At(j, "read")
        BY ThreadKinds, <2>5 DEF QueueInserts, TypeOK, Places, Servicing, System
      <3> QED
        BY <3>1, <3>2, ReadsKept
    <2> QED
      BY <1>2, <2>1, <2>2, <2>3, <2>4, <2>5 DEF Queueing
  <1>3. ASSUME NEW t \in Threads, Service(t) PROVE ReadsOwned'
    <2>1. CASE ServiceEnters(t)
      <3>1. UNCHANGED <<PendedReads, irp, routine, cancel, has>>
        BY <2>1 DEF ServiceEnters
      <3>2. \A j \in Irps : At(j, "read")' <=> At(j, "read")
        BY ThreadKinds, <2>1 DEF ServiceEnters, TypeOK, Places, Servicing, System
      <3> QED
        BY <3>1, <3>2, ReadsKept
    <2>2. CASE ServiceTakes(t)
      <3>0. PICK k \in DOMAIN PendedReads : TakesAt(t, k)
        BY <2>2, TakesOne
      <3> DEFINE x == PendedReads[k]
      <3>1. ListedOnce' /\ \A i : Pended(i)' <=> Pended(i) /\ i # x
        BY <3>0, UnlinkAtReads DEF TakesAt, ReadsOwned
      <3>2. x \in Irps /\ Pended(x) /\ routine[x] /\ OneTaker /\ \A j \in Irps : ReadOwned(j)
        BY <3>0, UnlinkAtReads DEF TakesAt, FirstCancelable, Cancelable, ReadsOwned
      <3>3. /\ routine' = [routine EXCEPT ![x] = FALSE] /\ irp' = [irp EXCEPT ![x] = "taken"]
            /\ has' = [has EXCEPT ![t] = [irp |-> x, packet |-> Head(RecvPktQueue)]]
        BY <3>0 DEF TakesAt
      <3> HIDE DEF x
      <3>5. ASSUME NEW j \in Irps PROVE ReadOwned(j)'
        <4>1. has[t].irp \notin Irps
          BY <2>2 DEF ServiceTakes, Holding
        <4>2. cancel' = cancel /\ (At(j, "read")' <=> At(j, "read"))
          BY <2>2, ElsewhereThanRead DEF ServiceTakes
        <4>3. CASE j = x
          BY <3>1, <3>2, <3>3, <4>1, <4>2, <4>3 DEF TypeOK, ReadOwned
        <4>4. CASE j # x
          BY <3>1, <3>2, <3>3, <4>1, <4>2, <4>4 DEF TypeOK, ReadOwned
        <4> QED
          BY <4>3, <4>4
      <3>6. OneTaker'
        <4>1. \A u \in Threads : has[u].irp # x
          BY <3>2, <3>3 DEF ReadOwned
        <4> QED
          BY <3>2, <3>3, <4>1 DEF TypeOK, OneTaker
      <3> QED
        BY <3>1, <3>5, <3>6 DEF ReadsOwned
    <2>3. CASE ServiceCompletes(t)
      <3> DEFINE x == has[t].irp
      <3>1. x \in Irps /\ irp[x] = "taken" /\ \A u \in Threads : has[u].irp = x => u = t
        BY <2>3 DEF ServiceCompletes, Holding, ReadsOwned, OneTaker, ReadOwned
      <3>2. irp' = [irp EXCEPT ![x] = "idle"] /\ has' = [has EXCEPT ![t] = Nothing]
        BY <2>3 DEF ServiceCompletes
      <3>3. UNCHANGED <<PendedReads, routine, cancel>> /\ \A j \in Irps : At(j, "read")' <=> At(j, "read")
        BY <2>3, ElsewhereThanRead DEF ServiceCompletes
      <3> HIDE DEF x
      <3>4. ASSUME NEW j \in Irps PROVE ReadOwned(j)'
        BY <3>1, <3>2, <3>3, RecvAssumption DEF Nothing, TypeOK, ReadsOwned, ReadOwned, Pended
      <3>5. ListedOnce' /\ OneTaker'
        BY <3>1, <3>2, <3>3, RecvAssumption
           DEF Nothing, TypeOK, ReadsOwned, ListedOnce, OneTaker
      <3> QED
        BY <3>4, <3>5 DEF ReadsOwned
    <2>4. CASE ServiceStops(t)
      <3>1. UNCHANGED <<PendedReads, irp, routine, cancel, has>>
        BY <2>4 DEF ServiceStops
      <3>2. \A j \in Irps : At(j, "read")' <=> At(j, "read")
        BY ThreadKinds, <2>4 DEF ServiceStops, TypeOK, Places, Servicing, System
      <3> QED
        BY <3>1, <3>2, ReadsKept
    <2> QED
      BY <1>3, <2>1, <2>2, <2>3, <2>4 DEF Service
  <1>4. ASSUME NEW t \in Threads, CancelAll(t) PROVE ReadsOwned'
    <2>1. CASE CancelAllEnters(t)
      <3>1. UNCHANGED <<PendedReads, irp, routine, cancel, has>>
        BY <2>1 DEF CancelAllEnters
      <3>2. \A j \in Irps : At(j, "read")' <=> At(j, "read")
        BY ThreadKinds, <2>1 DEF CancelAllEnters, TypeOK, Places, Servicing, System
      <3> QED
        BY <3>1, <3>2, ReadsKept
    <2>2. CASE CancelAllTakes(t)
      <3> DEFINE x == Head(PendedReads)
      <3>1. ListedOnce' /\ \A i : Pended(i)' <=> Pended(i) /\ i # x
        BY <2>2, UnlinkHeadReads DEF CancelAllTakes, ReadsOwned
      <3>2. x \in Irps /\ Pended(x) /\ routine[x] /\ OneTaker /\ \A j \in Irps : ReadOwned(j)
        BY <2>2, UnlinkHeadReads DEF CancelAllTakes, ReadsOwned
      <3>3. /\ routine' = [routine EXCEPT ![x] = FALSE] /\ irp' = [irp EXCEPT ![x] = "taken"]
            /\ has' = [has EXCEPT ![t] = [irp |-> x, packet |-> NoPacket]]
        BY <2>2 DEF CancelAllTakes
      <3> HIDE DEF x
      <3>5. ASSUME NEW j \in Irps PROVE ReadOwned(j)'
        <4>1. has[t].irp \notin Irps
          BY <2>2 DEF CancelAllTakes, Holding
        <4>2. cancel' = cancel /\ (At(j, "read")' <=> At(j, "read"))
          BY <2>2, ElsewhereThanRead DEF CancelAllTakes
        <4>3. CASE j = x
          BY <3>1, <3>2, <3>3, <4>1, <4>2, <4>3 DEF TypeOK, ReadOwned
        <4>4. CASE j # x
          BY <3>1, <3>2, <3>3, <4>1, <4>2, <4>4 DEF TypeOK, ReadOwned
        <4> QED
          BY <4>3, <4>4
      <3>6. OneTaker'
        <4>1. \A u \in Threads : has[u].irp # x
          BY <3>2, <3>3 DEF ReadOwned
        <4> QED
          BY <3>2, <3>3, <4>1 DEF TypeOK, OneTaker
      <3> QED
        BY <3>1, <3>5, <3>6 DEF ReadsOwned
    <2>3. CASE CancelAllCompletes(t)
      <3> DEFINE x == has[t].irp
      <3>1. x \in Irps /\ irp[x] = "taken" /\ \A u \in Threads : has[u].irp = x => u = t
        BY <2>3 DEF CancelAllCompletes, Holding, ReadsOwned, OneTaker, ReadOwned
      <3>2. irp' = [irp EXCEPT ![x] = "idle"] /\ has' = [has EXCEPT ![t] = Nothing]
        BY <2>3 DEF CancelAllCompletes
      <3>3. UNCHANGED <<PendedReads, routine, cancel>> /\ \A j \in Irps : At(j, "read")' <=> At(j, "read")
        BY <2>3, ElsewhereThanRead DEF CancelAllCompletes
      <3> HIDE DEF x
      <3>4. ASSUME NEW j \in Irps PROVE ReadOwned(j)'
        BY <3>1, <3>2, <3>3, RecvAssumption DEF Nothing, TypeOK, ReadsOwned, ReadOwned, Pended
      <3>5. ListedOnce' /\ OneTaker'
        BY <3>1, <3>2, <3>3, RecvAssumption
           DEF Nothing, TypeOK, ReadsOwned, ListedOnce, OneTaker
      <3> QED
        BY <3>4, <3>5 DEF ReadsOwned
    <2>4. CASE CancelAllSleeps(t)
      <3>1. UNCHANGED <<PendedReads, irp, routine, cancel, has>>
        BY <2>4 DEF CancelAllSleeps
      <3>2. \A j \in Irps : At(j, "read")' <=> At(j, "read")
        BY ThreadKinds, <2>4 DEF CancelAllSleeps, TypeOK, Places, Servicing, System
      <3> QED
        BY <3>1, <3>2, ReadsKept
    <2>5. CASE CancelAllStops(t)
      <3>1. UNCHANGED <<PendedReads, irp, routine, cancel, has>>
        BY <2>5 DEF CancelAllStops
      <3>2. \A j \in Irps : At(j, "read")' <=> At(j, "read")
        BY ThreadKinds, <2>5 DEF CancelAllStops, TypeOK, Places, Servicing, System
      <3> QED
        BY <3>1, <3>2, ReadsKept
    <2> QED
      BY <1>4, <2>1, <2>2, <2>3, <2>4, <2>5 DEF CancelAll
  <1>5. ASSUME NEW t \in Threads, Flush(t) PROVE ReadsOwned'
    <2>1. CASE FlushEnters(t)
      <3>1. UNCHANGED <<PendedReads, irp, routine, cancel, has>>
        BY <2>1 DEF FlushEnters
      <3>2. \A j \in Irps : At(j, "read")' <=> At(j, "read")
        BY ThreadKinds, <2>1 DEF FlushEnters, TypeOK, Places, Servicing, System
      <3> QED
        BY <3>1, <3>2, ReadsKept
    <2>2. CASE FlushTakes(t)
      <3>1. /\ UNCHANGED <<PendedReads, irp, routine, cancel>>
            /\ \A u \in Threads : has'[u].irp = has[u].irp \/ (has[u].irp \notin Irps /\ has'[u].irp \notin Irps)
        BY <2>2, RecvAssumption DEF FlushTakes, TypeOK, Holding
      <3>2. \A j \in Irps : At(j, "read")' <=> At(j, "read")
        BY ThreadKinds, <2>2 DEF FlushTakes, TypeOK
      <3> QED
        BY <3>1, <3>2, ReadsKept
    <2>3. CASE FlushFrees(t)
      <3>1. /\ UNCHANGED <<PendedReads, irp, routine, cancel>>
            /\ \A u \in Threads : has'[u].irp = has[u].irp \/ (has[u].irp \notin Irps /\ has'[u].irp \notin Irps)
        BY <2>3, RecvAssumption DEF FlushFrees, Nothing, TypeOK, Holding
      <3>2. \A j \in Irps : At(j, "read")' <=> At(j, "read")
        BY ThreadKinds, <2>3 DEF FlushFrees, TypeOK
      <3> QED
        BY <3>1, <3>2, ReadsKept
    <2>4. CASE FlushStops(t)
      <3>1. UNCHANGED <<PendedReads, irp, routine, cancel, has>>
        BY <2>4 DEF FlushStops
      <3>2. \A j \in Irps : At(j, "read")' <=> At(j, "read")
        BY ThreadKinds, <2>4 DEF FlushStops, TypeOK, Places, Servicing, System
      <3> QED
        BY <3>1, <3>2, ReadsKept
    <2> QED
      BY <1>5, <2>1, <2>2, <2>3, <2>4 DEF Flush
  <1>6. CASE CleanupBegins \/ Close \/ UnbindBegins \/ Unbinding \/ PowerDown \/ PowerUp
    <2>1. CASE CleanupBegins
      <3>1. UNCHANGED <<PendedReads, irp, routine, cancel, has>>
        BY <2>1 DEF CleanupBegins
      <3>2. \A j \in Irps : At(j, "read")' <=> At(j, "read")
        BY ThreadKinds, <2>1 DEF CleanupBegins, TypeOK, Places, Servicing, System
      <3> QED
        BY <3>1, <3>2, ReadsKept
    <2>2. CASE Close
      <3>1. UNCHANGED <<PendedReads, irp, routine, cancel, has>>
        BY <2>2 DEF Close
      <3>2. \A j \in Irps : At(j, "read")' <=> At(j, "read")
        BY ThreadKinds, <2>2 DEF Close, TypeOK, Places, Servicing, System
      <3> QED
        BY <3>1, <3>2, ReadsKept
    <2>3. CASE UnbindBegins
      <3>1. UNCHANGED <<PendedReads, irp, routine, cancel, has>>
        BY <2>3 DEF UnbindBegins
      <3>2. \A j \in Irps : At(j, "read")' <=> At(j, "read")
        BY ThreadKinds, <2>3 DEF UnbindBegins, TypeOK, Places, Servicing, System
      <3> QED
        BY <3>1, <3>2, ReadsKept
    <2>4. CASE UnbindWaits
      <3>1. UNCHANGED <<PendedReads, irp, routine, cancel, has>>
        BY <2>4 DEF UnbindWaits
      <3>2. \A j \in Irps : At(j, "read")' <=> At(j, "read")
        BY ThreadKinds, <2>4 DEF UnbindWaits, TypeOK, Places, Servicing, System
      <3> QED
        BY <3>1, <3>2, ReadsKept
    <2>5. CASE UnbindCloses
      <3>1. UNCHANGED <<PendedReads, irp, routine, cancel, has>>
        BY <2>5 DEF UnbindCloses
      <3>2. \A j \in Irps : At(j, "read")' <=> At(j, "read")
        BY ThreadKinds, <2>5 DEF UnbindCloses, TypeOK, Places, Servicing, System
      <3> QED
        BY <3>1, <3>2, ReadsKept
    <2>6. CASE UnbindFrees
      <3>1. UNCHANGED <<PendedReads, irp, routine, cancel, has>>
        BY <2>6 DEF UnbindFrees
      <3>2. \A j \in Irps : At(j, "read")' <=> At(j, "read")
        BY ThreadKinds, <2>6 DEF UnbindFrees, TypeOK, Places, Servicing, System
      <3> QED
        BY <3>1, <3>2, ReadsKept
    <2>7. CASE UnbindDerefs
      <3>1. UNCHANGED <<PendedReads, irp, routine, cancel, has>>
        BY <2>7 DEF UnbindDerefs
      <3>2. \A j \in Irps : At(j, "read")' <=> At(j, "read")
        BY ThreadKinds, <2>7 DEF UnbindDerefs, TypeOK, Places, Servicing, System
      <3> QED
        BY <3>1, <3>2, ReadsKept
    <2>8. CASE PowerDown
      <3>1. UNCHANGED <<PendedReads, irp, routine, cancel, has>>
        BY <2>8 DEF PowerDown
      <3>2. \A j \in Irps : At(j, "read")' <=> At(j, "read")
        BY ThreadKinds, <2>8 DEF PowerDown, TypeOK, Places, Servicing, System
      <3> QED
        BY <3>1, <3>2, ReadsKept
    <2>9. CASE PowerUp
      <3>1. UNCHANGED <<PendedReads, irp, routine, cancel, has>>
        BY <2>9 DEF PowerUp
      <3>2. \A j \in Irps : At(j, "read")' <=> At(j, "read")
        BY ThreadKinds, <2>9 DEF PowerUp, TypeOK, Places, Servicing, System
      <3> QED
        BY <3>1, <3>2, ReadsKept
    <2> QED
      BY <1>6, <2>1, <2>2, <2>3, <2>4, <2>5, <2>6, <2>7, <2>8, <2>9 DEF Unbinding
  <1>7. CASE UNCHANGED vars
    BY <1>7 DEF vars, ReadsOwned, ListedOnce, OneTaker, ReadOwned, Pended
  <1> QED
    BY <1>1, <1>2, <1>3, <1>4, <1>5, <1>6, <1>7, ThreadKinds DEF Next, Threads, System

\* A cancelled read's cancel routine takes it, or lets it go.
LEMMA FoundMoves ==
  ASSUME TypeOK, NEW i \in Irps, NEW w, cancel' = [cancel EXCEPT ![i] = w]
  PROVE  Moved(Found, Found', {"found"}, cancel[i], w)
  <1>1. \A u \in Irps : cancel'[u] = IF u = i THEN w ELSE cancel[u]
    BY DEF TypeOK
  <1>2. Moved(Cardinality(Where(cancel, Irps, {"found"})), Cardinality(Where(cancel', Irps, {"found"})),
              {"found"}, cancel[i], w)
    BY <1>1, RecvAssumption, CountMove
  <1>3. Cardinality(Where(cancel, Irps, {"found"})) = Found /\ Cardinality(Where(cancel', Irps, {"found"})) = Found'
    BY DEF Where, Found
  <1> QED
    BY <1>2, <1>3, Zenon

\* The threads that settle the count of a read completed before are those at "again".
LEMMA Settles ==
  ASSUME TypeOK, NEW t, Settle(t)
  PROVE  \/ pc[t] \in {"again", "cancel_again"} /\ PendedReadCount' = PendedReadCount - 1
         \/ pc[t] \notin {"again", "cancel_again"} /\ PendedReadCount' = PendedReadCount
  <1>1. PendedReadCount \in Nat /\ PendedReadCount - 0 = PendedReadCount
    BY DEF TypeOK
  <1>2. CASE At(t, "again") \/ At(t, "cancel_again")
    BY <1>2 DEF Settle, At
  <1>3. CASE ~(At(t, "again") \/ At(t, "cancel_again"))
    BY <1>1, <1>3 DEF Settle, At
  <1> QED
    BY <1>2, <1>3

LEMMA StepCounts ==
  ASSUME TypeOK, Places, Phases, Holding, ReadsOwned, Counts, [Next]_vars
  PROVE  Counts'
  <1> USE DEF context, reads, rcvs, At
  <1>0. /\ Copying \in Nat /\ Flushing \in Nat /\ Looping \in Nat /\ Settling \in Nat /\ Found \in Nat
        /\ Len(PendedReads) \in Nat /\ Len(RecvPktQueue) \in Nat /\ RefCount \in Nat /\ PendedReadCount \in Nat
        /\ Bound \in Nat /\ Handle \in Nat
    BY CountsType, LenProperties DEF TypeOK, Bound, Handle
  <1>1. ASSUME NEW i \in Irps, Read(i) \/ Pending(i) \/ CancelCalled(i) \/ Cancelling(i) PROVE Counts'
    <2> i \in Threads
      BY ThreadKinds
    <2>1. CASE Read(i)
      <3>1. /\ Copying' = Copying /\ Flushing' = Flushing
            /\ Looping' = Looping
            /\ Settling' = Settling
        BY <1>0, <2>1, Move, ThreadKinds
           DEF Read, Moved, CopyPlaces, FlushPlaces, LoopPlaces, SettlePlaces
      <3>2. Len(PendedReads') = Len(PendedReads)
            /\ Len(RecvPktQueue') = Len(RecvPktQueue) /\ Found' = Found
        BY <1>0, <2>1 DEF Read, Found
      <3>3. Bound' = Bound /\ Handle' = Handle
        BY <1>0, <2>1, ThreadKinds DEF Read, Goto, TypeOK, Bound, Handle
      <3>4. /\ RefCount' = RefCount
            /\ PendedReadCount' = PendedReadCount
        BY <1>0, <2>1 DEF Read
      <3> QED
        BY <1>0, <3>1, <3>2, <3>3, <3>4 DEF Counts
    <2>2. CASE ReadRefused(i)
      <3>1. /\ Copying' = Copying /\ Flushing' = Flushing
            /\ Looping' = Looping
            /\ Settling' = Settling
        BY <1>0, <2>2, Move, ThreadKinds
           DEF ReadRefused, Moved, CopyPlaces, FlushPlaces, LoopPlaces, SettlePlaces
      <3>2. Len(PendedReads') = Len(PendedReads)
            /\ Len(RecvPktQueue') = Len(RecvPktQueue) /\ Found' = Found
        BY <1>0, <2>2 DEF ReadRefused, Found
      <3>3. Bound' = Bound /\ Handle' = Handle
        BY <1>0, <2>2, ThreadKinds DEF ReadRefused, Goto, TypeOK, Bound, Handle
      <3>4. /\ RefCount' = RefCount
            /\ PendedReadCount' = PendedReadCount
        BY <1>0, <2>2 DEF ReadRefused
      <3> QED
        BY <1>0, <3>1, <3>2, <3>3, <3>4 DEF Counts
    <2>3. CASE ReadPends(i)
      <3>1. /\ Copying' = Copying /\ Flushing' = Flushing
            /\ Looping' = Looping
            /\ Settling' = Settling
        BY <1>0, <2>3, Move, ThreadKinds
           DEF ReadPends, Moved, CopyPlaces, FlushPlaces, LoopPlaces, SettlePlaces
      <3>2. Len(PendedReads') = Len(PendedReads) + 1
            /\ Len(RecvPktQueue') = Len(RecvPktQueue) /\ Found' = Found
        BY <1>0, <2>3, AppendProperties DEF ReadPends, Found, TypeOK
      <3>3. Bound' = Bound /\ Handle' = Handle
        BY <1>0, <2>3, ThreadKinds DEF ReadPends, Goto, TypeOK, Bound, Handle
      <3>4. /\ RefCount' = RefCount + 1
            /\ PendedReadCount' = PendedReadCount + 1
        BY <1>0, <2>3 DEF ReadPends, ndisprotRefOpen
      <3> QED
        BY <1>0, <3>1, <3>2, <3>3, <3>4 DEF Counts
    <2>4. CASE CancelCalled(i)
      <3>1. /\ Copying' = Copying /\ Flushing' = Flushing
            /\ Looping' = Looping
            /\ Settling' = Settling
        BY <1>0, <2>4, ThreadKinds
           DEF CancelCalled, Copying, Flushing, Looping, Settling, InState
      <3>2. Len(PendedReads') = Len(PendedReads)
            /\ Len(RecvPktQueue') = Len(RecvPktQueue) /\ Found' = Found
        <4>1. Moved(Found, Found', {"found"}, cancel[i], "called")
          BY <2>4, FoundMoves DEF CancelCalled
        <4>2. cancel[i] = "no"
          BY <2>4 DEF CancelCalled, ReadsOwned, ReadOwned
        <4>3. Found' = Found
          BY <4>1, <4>2 DEF Moved
        <4> QED
          BY <2>4, <4>3 DEF CancelCalled
      <3>3. Bound' = Bound /\ Handle' = Handle
        BY <1>0, <2>4, ThreadKinds DEF CancelCalled, Goto, TypeOK, Bound, Handle
      <3>4. /\ RefCount' = RefCount
            /\ PendedReadCount' = PendedReadCount
        BY <1>0, <2>4 DEF CancelCalled
      <3> QED
        BY <1>0, <3>1, <3>2, <3>3, <3>4 DEF Counts
    <2>5. CASE CancelRemoves(i)
      <3>1. Copying' = Copying /\ Flushing' = Flushing /\ Looping' = Looping /\ Settling' = Settling
        BY <1>0, <2>5, Zenon DEF CancelRemoves, Copying, Flushing, Looping, Settling, InState
      <3>2. Bound' = Bound /\ Handle' = Handle
        BY <2>5, ThreadKinds DEF CancelRemoves, Goto, TypeOK, Bound, Handle
      <3>3. /\ RecvPktQueue' = RecvPktQueue /\ RefCount' = RefCount
        BY <2>5 DEF CancelRemoves
      <3>4. CASE i \in ToSet(PendedReads)
        <4>1. Len(PendedReads') = Len(PendedReads) - 1 /\ PendedReadCount' = PendedReadCount - 1
          BY <2>5, <3>4, UnlinkedType DEF CancelRemoves, Unlinked
        <4>2. Found' = Found + 1
          BY <2>5, <3>4, FoundMoves DEF CancelRemoves, Moved
        <4> QED
          BY <1>0, <3>1, <3>2, <3>3, <4>1, <4>2 DEF Counts
      <3>5. CASE i \notin ToSet(PendedReads)
        <4>1. PendedReads' = PendedReads /\ PendedReadCount' = PendedReadCount
          BY <2>5, <3>5 DEF CancelRemoves
        <4>2. Found' = Found
          BY <2>5, <3>5, FoundMoves DEF CancelRemoves, Moved
        <4> QED
          BY <1>0, <3>1, <3>2, <3>3, <4>1, <4>2 DEF Counts
      <3> QED
        BY <3>4, <3>5
    <2>6. CASE CancelCompletes(i)
      <3>1. /\ Copying' = Copying /\ Flushing' = Flushing
            /\ Looping' = Looping
            /\ Settling' = Settling
        BY <1>0, <2>6, ThreadKinds
           DEF CancelCompletes, Copying, Flushing, Looping, Settling, InState
      <3>2. Len(PendedReads') = Len(PendedReads)
            /\ Len(RecvPktQueue') = Len(RecvPktQueue) /\ Found' = Found - 1
        <4>1. Moved(Found, Found', {"found"}, cancel[i], "no")
          BY <2>6, FoundMoves DEF CancelCompletes
        <4>2. cancel[i] = "found"
          BY <2>6 DEF CancelCompletes, ReadsOwned, ReadOwned
        <4>3. Found' = Found - 1
          BY <4>1, <4>2 DEF Moved
        <4> QED
          BY <2>6, <4>3 DEF CancelCompletes
      <3>3. Bound' = Bound /\ Handle' = Handle
        BY <1>0, <2>6, ThreadKinds DEF CancelCompletes, Goto, TypeOK, Bound, Handle
      <3>4. /\ RefCount' = RefCount - 1
            /\ PendedReadCount' = PendedReadCount
        BY <1>0, <2>6 DEF CancelCompletes, ndisprotDerefOpen
      <3> QED
        BY <1>0, <3>1, <3>2, <3>3, <3>4 DEF Counts
    <2> QED
      BY <1>1, <2>1, <2>2, <2>3, <2>4, <2>5, <2>6 DEF Pending, Cancelling
  <1>2. ASSUME NEW p \in Packets, NdisProtReceive(p) \/ NdisProtReceivePacket(p) \/ Queueing(p) PROVE Counts'
    <2> p \in Threads
      BY ThreadKinds
    <2>1. CASE NdisProtReceive(p)
      <3>1. /\ Copying' = Copying /\ Flushing' = Flushing
            /\ Looping' = Looping
            /\ Settling' = Settling
        <4>1. PICK v \in {"queue", "transfer"} : Goto(p, v)
          BY <2>1, ReceiveMoves DEF NdisProtReceive
        <4>2. pc[p] = "out"
          BY <2>1 DEF NdisProtReceive, Indicating
        <4>3. /\ Moved(Copying, Copying', CopyPlaces, pc[p], v) /\ Moved(Flushing, Flushing', FlushPlaces, pc[p], v)
              /\ Moved(Looping, Looping', LoopPlaces, pc[p], v) /\ Moved(Settling, Settling', SettlePlaces, pc[p], v)
          BY <4>1, Move
        <4> QED
          BY <4>1, <4>2, <4>3 DEF Moved, CopyPlaces, FlushPlaces, LoopPlaces, SettlePlaces
      <3>2. Len(PendedReads') = Len(PendedReads)
            /\ Len(RecvPktQueue') = Len(RecvPktQueue) /\ Found' = Found
        BY <1>0, <2>1 DEF NdisProtReceive, Found
      <3>3. Bound' = Bound /\ Handle' = Handle
        BY <1>0, <2>1, ThreadKinds, ReceiveMoves
           DEF NdisProtReceive, Goto, TypeOK, Bound, Handle
      <3>4. /\ RefCount' = RefCount
            /\ PendedReadCount' = PendedReadCount
        BY <1>0, <2>1 DEF NdisProtReceive
      <3> QED
        BY <1>0, <3>1, <3>2, <3>3, <3>4 DEF Counts
    <2>2. CASE NdisProtReceivePacket(p)
      <3>1. /\ Copying' = Copying /\ Flushing' = Flushing
            /\ Looping' = Looping
            /\ Settling' = Settling
        BY <1>0, <2>2, Move, ThreadKinds
           DEF NdisProtReceivePacket, Moved, CopyPlaces, FlushPlaces, LoopPlaces,
               SettlePlaces, Indicating
      <3>2. Len(PendedReads') = Len(PendedReads)
            /\ Len(RecvPktQueue') = Len(RecvPktQueue) /\ Found' = Found
        BY <1>0, <2>2 DEF NdisProtReceivePacket, Found
      <3>3. Bound' = Bound /\ Handle' = Handle
        BY <1>0, <2>2, ThreadKinds DEF NdisProtReceivePacket, Goto, TypeOK, Bound, Handle
      <3>4. /\ RefCount' = RefCount
            /\ PendedReadCount' = PendedReadCount
        BY <1>0, <2>2 DEF NdisProtReceivePacket
      <3> QED
        BY <1>0, <3>1, <3>2, <3>3, <3>4 DEF Counts
    <2>3. CASE NdisProtTransferDataComplete(p)
      <3>1. /\ Copying' = Copying /\ Flushing' = Flushing
            /\ Looping' = Looping
            /\ Settling' = Settling
        BY <1>0, <2>3, Move, ThreadKinds
           DEF NdisProtTransferDataComplete, Moved, CopyPlaces, FlushPlaces, LoopPlaces,
               SettlePlaces
      <3>2. Len(PendedReads') = Len(PendedReads)
            /\ Len(RecvPktQueue') = Len(RecvPktQueue) /\ Found' = Found
        BY <1>0, <2>3 DEF NdisProtTransferDataComplete, Found
      <3>3. Bound' = Bound /\ Handle' = Handle
        BY <1>0, <2>3, ThreadKinds
           DEF NdisProtTransferDataComplete, Goto, TypeOK, Bound, Handle
      <3>4. /\ RefCount' = RefCount
            /\ PendedReadCount' = PendedReadCount
        BY <1>0, <2>3 DEF NdisProtTransferDataComplete
      <3> QED
        BY <1>0, <3>1, <3>2, <3>3, <3>4 DEF Counts
    <2>4. CASE QueueDrops(p)
      <3>1. /\ Copying' = Copying /\ Flushing' = Flushing
            /\ Looping' = Looping
            /\ Settling' = Settling
        BY <1>0, <2>4, Move, ThreadKinds
           DEF QueueDrops, Moved, CopyPlaces, FlushPlaces, LoopPlaces, SettlePlaces
      <3>2. Len(PendedReads') = Len(PendedReads)
            /\ Len(RecvPktQueue') = Len(RecvPktQueue) /\ Found' = Found
        BY <1>0, <2>4 DEF QueueDrops, Found
      <3>3. Bound' = Bound /\ Handle' = Handle
        BY <1>0, <2>4, ThreadKinds DEF QueueDrops, Goto, TypeOK, Bound, Handle
      <3>4. /\ RefCount' = RefCount
            /\ PendedReadCount' = PendedReadCount
        BY <1>0, <2>4 DEF QueueDrops
      <3> QED
        BY <1>0, <3>1, <3>2, <3>3, <3>4 DEF Counts
    <2>5. CASE QueueInserts(p)
      <3>1. Copying' = Copying /\ Flushing' = Flushing /\ Looping' = Looping /\ Settling' = Settling
        BY <1>0, <2>5, ThreadKinds, Move
           DEF QueueInserts, Moved, CopyPlaces, FlushPlaces, LoopPlaces, SettlePlaces
      <3>2. Bound' = Bound /\ Handle' = Handle
        BY <2>5, ThreadKinds DEF QueueInserts, Goto, TypeOK, Bound, Handle
      <3>3. Found' = Found /\ PendedReads' = PendedReads /\ PendedReadCount' = PendedReadCount
        BY <2>5 DEF QueueInserts, Found
      <3>4. \/ Len(RecvPktQueue') = Len(RecvPktQueue) /\ RefCount' = RefCount
            \/ Len(RecvPktQueue') = Len(RecvPktQueue) + 1 /\ RefCount' = RefCount + 1
        BY <2>5, AppendedQueue DEF QueueInserts, ndisprotRefOpen
      <3> QED
        BY <1>0, <3>1, <3>2, <3>3, <3>4 DEF Counts
    <2> QED
      BY <1>2, <2>1, <2>2, <2>3, <2>4, <2>5 DEF Queueing
  <1>3. ASSUME NEW t \in Threads, Service(t) PROVE Counts'
    <2>1. CASE ServiceEnters(t)
      <3>1. /\ Copying' = Copying /\ Flushing' = Flushing
            /\ Looping' = Looping + 1
            /\ Settling' = Settling
        BY <1>0, <2>1, Move, ThreadKinds
           DEF ServiceEnters, Moved, CopyPlaces, FlushPlaces, LoopPlaces, SettlePlaces
      <3>2. Len(PendedReads') = Len(PendedReads)
            /\ Len(RecvPktQueue') = Len(RecvPktQueue) /\ Found' = Found
        BY <1>0, <2>1 DEF ServiceEnters, Found
      <3>3. Bound' = Bound /\ Handle' = Handle
        BY <1>0, <2>1, ThreadKinds DEF ServiceEnters, Goto, TypeOK, Bound, Handle
      <3>4. /\ RefCount' = RefCount + 1
            /\ PendedReadCount' = PendedReadCount
        BY <1>0, <2>1 DEF ServiceEnters, ndisprotRefOpen
      <3> QED
        BY <1>0, <3>1, <3>2, <3>3, <3>4 DEF Counts
    <2>2. CASE ServiceTakes(t)
      <3>1. /\ Copying' = Copying + 1 /\ Flushing' = Flushing
            /\ Looping' = Looping
            /\ \/ pc[t] \in {"again", "cancel_again"} /\ Settling' = Settling + 1 - 1
               \/ pc[t] \notin {"again", "cancel_again"} /\ Settling' = Settling + 1
        BY <1>0, <2>2, Move, ThreadKinds
           DEF ServiceTakes, Moved, CopyPlaces, FlushPlaces, LoopPlaces, SettlePlaces
      <3>2. Len(PendedReads') = Len(PendedReads) - 1
            /\ Len(RecvPktQueue') = Len(RecvPktQueue) - 1 /\ Found' = Found
        <4>1. Len(PendedReads') = Len(PendedReads) - 1
          BY <2>2, TakesOne, UnlinkedType DEF TakesAt
        <4>2. Len(RecvPktQueue') = Len(RecvPktQueue) - 1
          BY <2>2, HeadTailProperties DEF ServiceTakes, TypeOK
        <4>3. Found' = Found
          BY <2>2 DEF ServiceTakes, Found
        <4> QED
          BY <4>1, <4>2, <4>3
      <3>3. Bound' = Bound /\ Handle' = Handle
        BY <1>0, <2>2, ThreadKinds DEF ServiceTakes, Goto, TypeOK, Bound, Handle
      <3>4. /\ RefCount' = RefCount - 1
            /\ \/ pc[t] \in {"again", "cancel_again"} /\ PendedReadCount' = PendedReadCount - 1
               \/ pc[t] \notin {"again", "cancel_again"} /\ PendedReadCount' = PendedReadCount
        BY <1>0, <2>2, Settles DEF ServiceTakes, ndisprotDerefOpen
      <3> QED
        BY <1>0, <3>1, <3>2, <3>3, <3>4 DEF Counts
    <2>3. CASE ServiceCompletes(t)
      <3>1. /\ Copying' = Copying - 1 /\ Flushing' = Flushing
            /\ Looping' = Looping
            /\ Settling' = Settling
        BY <1>0, <2>3, Move, ThreadKinds
           DEF ServiceCompletes, Moved, CopyPlaces, FlushPlaces, LoopPlaces, SettlePlaces
      <3>2. Len(PendedReads') = Len(PendedReads)
            /\ Len(RecvPktQueue') = Len(RecvPktQueue) /\ Found' = Found
        BY <1>0, <2>3 DEF ServiceCompletes, Found
      <3>3. Bound' = Bound /\ Handle' = Handle
        BY <1>0, <2>3, ThreadKinds DEF ServiceCompletes, Goto, TypeOK, Bound, Handle
      <3>4. /\ RefCount' = RefCount - 1
            /\ PendedReadCount' = PendedReadCount
        BY <1>0, <2>3 DEF ServiceCompletes, ndisprotDerefOpen
      <3> QED
        BY <1>0, <3>1, <3>2, <3>3, <3>4 DEF Counts
    <2>4. CASE ServiceStops(t)
      <3>1. /\ Copying' = Copying /\ Flushing' = Flushing
            /\ Looping' = Looping - 1
            /\ \/ pc[t] \in {"again", "cancel_again"} /\ Settling' = Settling - 1
               \/ pc[t] \notin {"again", "cancel_again"} /\ Settling' = Settling
        BY <1>0, <2>4, Move, ThreadKinds
           DEF ServiceStops, Moved, CopyPlaces, FlushPlaces, LoopPlaces, SettlePlaces
      <3>2. Len(PendedReads') = Len(PendedReads)
            /\ Len(RecvPktQueue') = Len(RecvPktQueue) /\ Found' = Found
        BY <1>0, <2>4 DEF ServiceStops, Found
      <3>3. Bound' = Bound /\ Handle' = Handle
        BY <1>0, <2>4, ThreadKinds DEF ServiceStops, Goto, TypeOK, Bound, Handle
      <3>4. /\ RefCount' = RefCount - 1
            /\ \/ pc[t] \in {"again", "cancel_again"} /\ PendedReadCount' = PendedReadCount - 1
               \/ pc[t] \notin {"again", "cancel_again"} /\ PendedReadCount' = PendedReadCount
        BY <1>0, <2>4, Settles DEF ServiceStops, ndisprotDerefOpen
      <3> QED
        BY <1>0, <3>1, <3>2, <3>3, <3>4 DEF Counts
    <2> QED
      BY <1>3, <2>1, <2>2, <2>3, <2>4 DEF Service
  <1>4. ASSUME NEW t \in Threads, CancelAll(t) PROVE Counts'
    <2>1. CASE CancelAllEnters(t)
      <3>1. /\ Copying' = Copying /\ Flushing' = Flushing
            /\ Looping' = Looping + 1
            /\ Settling' = Settling
        BY <1>0, <2>1, Move, ThreadKinds
           DEF CancelAllEnters, Moved, CopyPlaces, FlushPlaces, LoopPlaces, SettlePlaces
      <3>2. Len(PendedReads') = Len(PendedReads)
            /\ Len(RecvPktQueue') = Len(RecvPktQueue) /\ Found' = Found
        BY <1>0, <2>1 DEF CancelAllEnters, Found
      <3>3. Bound' = Bound /\ Handle' = Handle
        BY <1>0, <2>1, ThreadKinds DEF CancelAllEnters, Goto, TypeOK, Bound, Handle
      <3>4. /\ RefCount' = RefCount + 1
            /\ PendedReadCount' = PendedReadCount
        BY <1>0, <2>1 DEF CancelAllEnters, ndisprotRefOpen
      <3> QED
        BY <1>0, <3>1, <3>2, <3>3, <3>4 DEF Counts
    <2>2. CASE CancelAllTakes(t)
      <3>1. /\ Copying' = Copying + 1 /\ Flushing' = Flushing
            /\ Looping' = Looping
            /\ \/ pc[t] \in {"again", "cancel_again"} /\ Settling' = Settling + 1 - 1
               \/ pc[t] \notin {"again", "cancel_again"} /\ Settling' = Settling + 1
        BY <1>0, <2>2, Move, ThreadKinds
           DEF CancelAllTakes, Moved, CopyPlaces, FlushPlaces, LoopPlaces, SettlePlaces
      <3>2. Len(PendedReads') = Len(PendedReads) - 1
            /\ Len(RecvPktQueue') = Len(RecvPktQueue) /\ Found' = Found
        BY <1>0, <2>2, HeadTailProperties DEF CancelAllTakes, Found, TypeOK
      <3>3. Bound' = Bound /\ Handle' = Handle
        BY <1>0, <2>2, ThreadKinds DEF CancelAllTakes, Goto, TypeOK, Bound, Handle
      <3>4. /\ RefCount' = RefCount
            /\ \/ pc[t] \in {"again", "cancel_again"} /\ PendedReadCount' = PendedReadCount - 1
               \/ pc[t] \notin {"again", "cancel_again"} /\ PendedReadCount' = PendedReadCount
        BY <1>0, <2>2, Settles DEF CancelAllTakes
      <3> QED
        BY <1>0, <3>1, <3>2, <3>3, <3>4 DEF Counts
    <2>3. CASE CancelAllCompletes(t)
      <3>1. /\ Copying' = Copying - 1 /\ Flushing' = Flushing
            /\ Looping' = Looping
            /\ Settling' = Settling
        BY <1>0, <2>3, Move, ThreadKinds
           DEF CancelAllCompletes, Moved, CopyPlaces, FlushPlaces, LoopPlaces, SettlePlaces
      <3>2. Len(PendedReads') = Len(PendedReads)
            /\ Len(RecvPktQueue') = Len(RecvPktQueue) /\ Found' = Found
        BY <1>0, <2>3 DEF CancelAllCompletes, Found
      <3>3. Bound' = Bound /\ Handle' = Handle
        BY <1>0, <2>3, ThreadKinds DEF CancelAllCompletes, Goto, TypeOK, Bound, Handle
      <3>4. /\ RefCount' = RefCount - 1
            /\ PendedReadCount' = PendedReadCount
        BY <1>0, <2>3 DEF CancelAllCompletes, ndisprotDerefOpen
      <3> QED
        BY <1>0, <3>1, <3>2, <3>3, <3>4 DEF Counts
    <2>4. CASE CancelAllSleeps(t)
      <3>1. /\ Copying' = Copying /\ Flushing' = Flushing
            /\ Looping' = Looping
            /\ Settling' = Settling - 1
        BY <1>0, <2>4, Move, ThreadKinds
           DEF CancelAllSleeps, Moved, CopyPlaces, FlushPlaces, LoopPlaces, SettlePlaces
      <3>2. Len(PendedReads') = Len(PendedReads)
            /\ Len(RecvPktQueue') = Len(RecvPktQueue) /\ Found' = Found
        BY <1>0, <2>4 DEF CancelAllSleeps, Found
      <3>3. Bound' = Bound /\ Handle' = Handle
        BY <1>0, <2>4, ThreadKinds DEF CancelAllSleeps, Goto, TypeOK, Bound, Handle
      <3>4. /\ RefCount' = RefCount
            /\ PendedReadCount' = PendedReadCount - 1
        BY <1>0, <2>4, Settles DEF CancelAllSleeps
      <3> QED
        BY <1>0, <3>1, <3>2, <3>3, <3>4 DEF Counts
    <2>5. CASE CancelAllStops(t)
      <3>1. /\ Copying' = Copying /\ Flushing' = Flushing
            /\ Looping' = Looping - 1
            /\ \/ pc[t] \in {"again", "cancel_again"} /\ Settling' = Settling - 1
               \/ pc[t] \notin {"again", "cancel_again"} /\ Settling' = Settling
        BY <1>0, <2>5, Move, ThreadKinds
           DEF CancelAllStops, Moved, CopyPlaces, FlushPlaces, LoopPlaces, SettlePlaces
      <3>2. Len(PendedReads') = Len(PendedReads)
            /\ Len(RecvPktQueue') = Len(RecvPktQueue) /\ Found' = Found
        BY <1>0, <2>5 DEF CancelAllStops, Found
      <3>3. Bound' = Bound /\ Handle' = Handle
        BY <1>0, <2>5, ThreadKinds DEF CancelAllStops, Goto, TypeOK, Bound, Handle
      <3>4. /\ RefCount' = RefCount - 1
            /\ \/ pc[t] \in {"again", "cancel_again"} /\ PendedReadCount' = PendedReadCount - 1
               \/ pc[t] \notin {"again", "cancel_again"} /\ PendedReadCount' = PendedReadCount
        BY <1>0, <2>5, Settles DEF CancelAllStops, ndisprotDerefOpen
      <3> QED
        BY <1>0, <3>1, <3>2, <3>3, <3>4 DEF Counts
    <2> QED
      BY <1>4, <2>1, <2>2, <2>3, <2>4, <2>5 DEF CancelAll
  <1>5. ASSUME NEW t \in Threads, Flush(t) PROVE Counts'
    <2>1. CASE FlushEnters(t)
      <3>1. /\ Copying' = Copying /\ Flushing' = Flushing
            /\ Looping' = Looping + 1
            /\ Settling' = Settling
        BY <1>0, <2>1, Move, ThreadKinds
           DEF FlushEnters, Moved, CopyPlaces, FlushPlaces, LoopPlaces, SettlePlaces
      <3>2. Len(PendedReads') = Len(PendedReads)
            /\ Len(RecvPktQueue') = Len(RecvPktQueue) /\ Found' = Found
        BY <1>0, <2>1 DEF FlushEnters, Found
      <3>3. Bound' = Bound /\ Handle' = Handle
        BY <1>0, <2>1, ThreadKinds DEF FlushEnters, Goto, TypeOK, Bound, Handle
      <3>4. /\ RefCount' = RefCount + 1
            /\ PendedReadCount' = PendedReadCount
        BY <1>0, <2>1 DEF FlushEnters, ndisprotRefOpen
      <3> QED
        BY <1>0, <3>1, <3>2, <3>3, <3>4 DEF Counts
    <2>2. CASE FlushTakes(t)
      <3>1. /\ Copying' = Copying /\ Flushing' = Flushing + 1
            /\ Looping' = Looping
            /\ Settling' = Settling
        BY <1>0, <2>2, Move, ThreadKinds
           DEF FlushTakes, Moved, CopyPlaces, FlushPlaces, LoopPlaces, SettlePlaces
      <3>2. Len(PendedReads') = Len(PendedReads)
            /\ Len(RecvPktQueue') = Len(RecvPktQueue) - 1 /\ Found' = Found
        BY <1>0, <2>2, HeadTailProperties DEF FlushTakes, Found, TypeOK
      <3>3. Bound' = Bound /\ Handle' = Handle
        BY <1>0, <2>2, ThreadKinds DEF FlushTakes, Goto, TypeOK, Bound, Handle
      <3>4. /\ RefCount' = RefCount
            /\ PendedReadCount' = PendedReadCount
        BY <1>0, <2>2 DEF FlushTakes
      <3> QED
        BY <1>0, <3>1, <3>2, <3>3, <3>4 DEF Counts
    <2>3. CASE FlushFrees(t)
      <3>1. /\ Copying' = Copying /\ Flushing' = Flushing - 1
            /\ Looping' = Looping
            /\ Settling' = Settling
        BY <1>0, <2>3, Move, ThreadKinds
           DEF FlushFrees, Moved, CopyPlaces, FlushPlaces, LoopPlaces, SettlePlaces
      <3>2. Len(PendedReads') = Len(PendedReads)
            /\ Len(RecvPktQueue') = Len(RecvPktQueue) /\ Found' = Found
        BY <1>0, <2>3 DEF FlushFrees, Found
      <3>3. Bound' = Bound /\ Handle' = Handle
        BY <1>0, <2>3, ThreadKinds DEF FlushFrees, Goto, TypeOK, Bound, Handle
      <3>4. /\ RefCount' = RefCount - 1
            /\ PendedReadCount' = PendedReadCount
        BY <1>0, <2>3 DEF FlushFrees, ndisprotDerefOpen
      <3> QED
        BY <1>0, <3>1, <3>2, <3>3, <3>4 DEF Counts
    <2>4. CASE FlushStops(t)
      <3>1. /\ Copying' = Copying /\ Flushing' = Flushing
            /\ Looping' = Looping - 1
            /\ Settling' = Settling
        <4>1. PICK v \in {"done", "close", "out"} : Goto(t, v)
          BY <2>4 DEF FlushStops
        <4>2. pc[t] = "flush_loop"
          BY <2>4 DEF FlushStops
        <4>3. /\ Moved(Copying, Copying', CopyPlaces, pc[t], v) /\ Moved(Flushing, Flushing', FlushPlaces, pc[t], v)
              /\ Moved(Looping, Looping', LoopPlaces, pc[t], v) /\ Moved(Settling, Settling', SettlePlaces, pc[t], v)
          BY <4>1, Move
        <4> QED
          BY <4>1, <4>2, <4>3 DEF Moved, CopyPlaces, FlushPlaces, LoopPlaces, SettlePlaces
      <3>2. Len(PendedReads') = Len(PendedReads)
            /\ Len(RecvPktQueue') = Len(RecvPktQueue) /\ Found' = Found
        BY <1>0, <2>4 DEF FlushStops, Found
      <3>3. Bound' = Bound /\ Handle' = Handle
        BY <1>0, <2>4, ThreadKinds DEF FlushStops, Goto, TypeOK, Bound, Handle
      <3>4. /\ RefCount' = RefCount - 1
            /\ PendedReadCount' = PendedReadCount
        BY <1>0, <2>4 DEF FlushStops, ndisprotDerefOpen
      <3> QED
        BY <1>0, <3>1, <3>2, <3>3, <3>4 DEF Counts
    <2> QED
      BY <1>5, <2>1, <2>2, <2>3, <2>4 DEF Flush
  <1>6. CASE CleanupBegins \/ Close \/ UnbindBegins \/ Unbinding \/ PowerDown \/ PowerUp
    <2>1. CASE CleanupBegins
      <3>1. /\ Copying' = Copying /\ Flushing' = Flushing
            /\ Looping' = Looping
            /\ Settling' = Settling
        BY <1>0, <2>1, Move, ThreadKinds
           DEF CleanupBegins, Moved, CopyPlaces, FlushPlaces, LoopPlaces, SettlePlaces, Phases
      <3>2. Len(PendedReads') = Len(PendedReads)
            /\ Len(RecvPktQueue') = Len(RecvPktQueue) /\ Found' = Found
        BY <1>0, <2>1 DEF CleanupBegins, Found
      <3>3. Bound' = Bound /\ Handle' = Handle
        BY <1>0, <2>1, ThreadKinds DEF CleanupBegins, Goto, TypeOK, Bound, Handle
      <3>4. /\ RefCount' = RefCount
            /\ PendedReadCount' = PendedReadCount
        BY <1>0, <2>1 DEF CleanupBegins
      <3> QED
        BY <1>0, <3>1, <3>2, <3>3, <3>4 DEF Counts
    <2>2. CASE Close
      <3>1. /\ Copying' = Copying /\ Flushing' = Flushing
            /\ Looping' = Looping
            /\ Settling' = Settling
        BY <1>0, <2>2, ThreadKinds DEF Close, Copying, Flushing, Looping, Settling, InState
      <3>2. Len(PendedReads') = Len(PendedReads)
            /\ Len(RecvPktQueue') = Len(RecvPktQueue) /\ Found' = Found
        BY <1>0, <2>2 DEF Close, Found
      <3>3. Bound' = Bound /\ Handle' = Handle - 1
        BY <1>0, <2>2, ThreadKinds DEF Close, Goto, TypeOK, Bound, Handle
      <3>4. /\ RefCount' = RefCount - 1
            /\ PendedReadCount' = PendedReadCount
        BY <1>0, <2>2 DEF Close, ndisprotDerefOpen
      <3> QED
        BY <1>0, <3>1, <3>2, <3>3, <3>4 DEF Counts
    <2>3. CASE UnbindBegins
      <3>1. /\ Copying' = Copying /\ Flushing' = Flushing
            /\ Looping' = Looping
            /\ Settling' = Settling
        BY <1>0, <2>3, Move, ThreadKinds
           DEF UnbindBegins, Moved, CopyPlaces, FlushPlaces, LoopPlaces, SettlePlaces, Phases
      <3>2. Len(PendedReads') = Len(PendedReads)
            /\ Len(RecvPktQueue') = Len(RecvPktQueue) /\ Found' = Found
        BY <1>0, <2>3 DEF UnbindBegins, Found
      <3>3. Bound' = Bound /\ Handle' = Handle
        BY <1>0, <2>3, ThreadKinds DEF UnbindBegins, Goto, TypeOK, Bound, Handle, Phases
      <3>4. /\ RefCount' = RefCount
            /\ PendedReadCount' = PendedReadCount
        BY <1>0, <2>3 DEF UnbindBegins
      <3> QED
        BY <1>0, <3>1, <3>2, <3>3, <3>4 DEF Counts
    <2>4. CASE UnbindWaits
      <3>1. /\ Copying' = Copying /\ Flushing' = Flushing
            /\ Looping' = Looping
            /\ Settling' = Settling
        BY <1>0, <2>4, Move, ThreadKinds
           DEF UnbindWaits, Moved, CopyPlaces, FlushPlaces, LoopPlaces, SettlePlaces
      <3>2. Len(PendedReads') = Len(PendedReads)
            /\ Len(RecvPktQueue') = Len(RecvPktQueue) /\ Found' = Found
        BY <1>0, <2>4 DEF UnbindWaits, Found
      <3>3. Bound' = Bound /\ Handle' = Handle
        BY <1>0, <2>4, ThreadKinds DEF UnbindWaits, Goto, TypeOK, Bound, Handle
      <3>4. /\ RefCount' = RefCount
            /\ PendedReadCount' = PendedReadCount
        BY <1>0, <2>4 DEF UnbindWaits
      <3> QED
        BY <1>0, <3>1, <3>2, <3>3, <3>4 DEF Counts
    <2>5. CASE UnbindCloses
      <3>1. /\ Copying' = Copying /\ Flushing' = Flushing
            /\ Looping' = Looping
            /\ Settling' = Settling
        BY <1>0, <2>5, Move, ThreadKinds
           DEF UnbindCloses, Moved, CopyPlaces, FlushPlaces, LoopPlaces, SettlePlaces
      <3>2. Len(PendedReads') = Len(PendedReads)
            /\ Len(RecvPktQueue') = Len(RecvPktQueue) /\ Found' = Found
        BY <1>0, <2>5 DEF UnbindCloses, Found
      <3>3. Bound' = Bound /\ Handle' = Handle
        BY <1>0, <2>5, ThreadKinds DEF UnbindCloses, Goto, TypeOK, Bound, Handle
      <3>4. /\ RefCount' = RefCount
            /\ PendedReadCount' = PendedReadCount
        BY <1>0, <2>5 DEF UnbindCloses
      <3> QED
        BY <1>0, <3>1, <3>2, <3>3, <3>4 DEF Counts
    <2>6. CASE UnbindFrees
      <3>1. /\ Copying' = Copying /\ Flushing' = Flushing
            /\ Looping' = Looping
            /\ Settling' = Settling
        BY <1>0, <2>6, Move, ThreadKinds
           DEF UnbindFrees, Moved, CopyPlaces, FlushPlaces, LoopPlaces, SettlePlaces
      <3>2. Len(PendedReads') = Len(PendedReads)
            /\ Len(RecvPktQueue') = Len(RecvPktQueue) /\ Found' = Found
        BY <1>0, <2>6 DEF UnbindFrees, Found
      <3>3. Bound' = Bound /\ Handle' = Handle
        BY <1>0, <2>6, ThreadKinds DEF UnbindFrees, Goto, TypeOK, Bound, Handle
      <3>4. /\ RefCount' = RefCount
            /\ PendedReadCount' = PendedReadCount
        BY <1>0, <2>6 DEF UnbindFrees
      <3> QED
        BY <1>0, <3>1, <3>2, <3>3, <3>4 DEF Counts
    <2>7. CASE UnbindDerefs
      <3>1. /\ Copying' = Copying /\ Flushing' = Flushing
            /\ Looping' = Looping
            /\ Settling' = Settling
        BY <1>0, <2>7, Move, ThreadKinds
           DEF UnbindDerefs, Moved, CopyPlaces, FlushPlaces, LoopPlaces, SettlePlaces
      <3>2. Len(PendedReads') = Len(PendedReads)
            /\ Len(RecvPktQueue') = Len(RecvPktQueue) /\ Found' = Found
        BY <1>0, <2>7 DEF UnbindDerefs, Found
      <3>3. Bound' = Bound - 1 /\ Handle' = Handle
        BY <1>0, <2>7, ThreadKinds DEF UnbindDerefs, Goto, TypeOK, Bound, Handle
      <3>4. /\ RefCount' = RefCount - 1
            /\ PendedReadCount' = PendedReadCount
        BY <1>0, <2>7 DEF UnbindDerefs, ndisprotDerefOpen
      <3> QED
        BY <1>0, <3>1, <3>2, <3>3, <3>4 DEF Counts
    <2>8. CASE PowerDown
      <3>1. /\ Copying' = Copying /\ Flushing' = Flushing
            /\ Looping' = Looping
            /\ Settling' = Settling
        BY <1>0, <2>8, Move, ThreadKinds
           DEF PowerDown, Moved, CopyPlaces, FlushPlaces, LoopPlaces, SettlePlaces
      <3>2. Len(PendedReads') = Len(PendedReads)
            /\ Len(RecvPktQueue') = Len(RecvPktQueue) /\ Found' = Found
        BY <1>0, <2>8 DEF PowerDown, Found
      <3>3. Bound' = Bound /\ Handle' = Handle
        BY <1>0, <2>8, ThreadKinds DEF PowerDown, Goto, TypeOK, Bound, Handle
      <3>4. /\ RefCount' = RefCount
            /\ PendedReadCount' = PendedReadCount
        BY <1>0, <2>8 DEF PowerDown
      <3> QED
        BY <1>0, <3>1, <3>2, <3>3, <3>4 DEF Counts
    <2>9. CASE PowerUp
      <3>1. /\ Copying' = Copying /\ Flushing' = Flushing
            /\ Looping' = Looping
            /\ Settling' = Settling
        BY <1>0, <2>9, ThreadKinds DEF PowerUp, Copying, Flushing, Looping, Settling, InState
      <3>2. Len(PendedReads') = Len(PendedReads)
            /\ Len(RecvPktQueue') = Len(RecvPktQueue) /\ Found' = Found
        BY <1>0, <2>9 DEF PowerUp, Found
      <3>3. Bound' = Bound /\ Handle' = Handle
        BY <1>0, <2>9, ThreadKinds DEF PowerUp, Goto, TypeOK, Bound, Handle
      <3>4. /\ RefCount' = RefCount
            /\ PendedReadCount' = PendedReadCount
        BY <1>0, <2>9 DEF PowerUp
      <3> QED
        BY <1>0, <3>1, <3>2, <3>3, <3>4 DEF Counts
    <2> QED
      BY <1>6, <2>1, <2>2, <2>3, <2>4, <2>5, <2>6, <2>7, <2>8, <2>9 DEF Unbinding
  <1>7. CASE UNCHANGED vars
    BY <1>7
       DEF vars, Counts, Bound, Handle, Copying, Flushing, Looping, Settling, InState, Found
  <1> QED
    BY <1>1, <1>2, <1>3, <1>4, <1>5, <1>6, <1>7, ThreadKinds DEF Next, Threads, System

\* The elements of a sequence without its first one, and with one more.
LEMMA TailElements ==
  ASSUME NEW S, NEW s \in Seq(S), s # <<>>, NEW k \in 1 .. Len(s)
  PROVE  s[k] = Head(s) \/ \E l \in 1 .. Len(Tail(s)) : Tail(s)[l] = s[k]
  <1>1. Head(s) = s[1] /\ Len(s) \in Nat /\ Len(Tail(s)) = Len(s) - 1
        /\ \A l \in 1 .. Len(Tail(s)) : Tail(s)[l] = s[l + 1]
    BY HeadTailProperties, LenProperties
  <1>2. CASE k = 1
    BY <1>1, <1>2
  <1>3. CASE k # 1
    <2>1. k - 1 \in 1 .. Len(Tail(s)) /\ (k - 1) + 1 = k
      BY <1>1, <1>3
    <2>2. Tail(s)[k - 1] = s[(k - 1) + 1]
      BY <1>1, <2>1, Zenon
    <2> QED
      BY <2>1, <2>2
  <1> QED
    BY <1>2, <1>3

LEMMA AppendElements ==
  ASSUME NEW S, NEW s \in Seq(S), NEW x \in S
  PROVE  /\ \A k \in 1 .. Len(s) : k \in 1 .. Len(Append(s, x)) /\ Append(s, x)[k] = s[k]
         /\ Len(s) + 1 \in 1 .. Len(Append(s, x)) /\ Append(s, x)[Len(s) + 1] = x
  BY AppendProperties, LenProperties

\* What is in the queue after its head is taken, a packet is added, or both.
LEMMA QueueTail ==
  ASSUME TypeOK, RecvPktQueue # <<>>, RecvPktQueue' = Tail(RecvPktQueue), NEW p
  PROVE  Queued(p) => p = Head(RecvPktQueue) \/ Queued(p)'
  BY TailElements DEF TypeOK, Queued

LEMMA QueueWith ==
  ASSUME TypeOK, NEW p \in Packets, NEW q, Queued(q) \/ q = p
  PROVE  \E k \in 1 .. Len(Append(RecvPktQueue, p)) : Append(RecvPktQueue, p)[k] = q
  <1> DEFINE s == Append(RecvPktQueue, p)
  <1>1. /\ \A k \in 1 .. Len(RecvPktQueue) : k \in 1 .. Len(s) /\ s[k] = RecvPktQueue[k]
        /\ Len(RecvPktQueue) + 1 \in 1 .. Len(s) /\ s[Len(RecvPktQueue) + 1] = p
    <2>1. RecvPktQueue \in Seq(Packets)
      BY DEF TypeOK
    <2> QED
      BY <2>1, AppendProperties, LenProperties
  <1> HIDE DEF s
  <1>2. \E k \in 1 .. Len(s) : s[k] = q
    <2>1. CASE q = p
      BY <1>1, <2>1, Zenon
    <2>2. CASE Queued(q)
      BY <1>1, <2>2, Zenon DEF Queued
    <2> QED
      BY <2>1, <2>2
  <1> QED
    BY <1>2, Zenon DEF s

LEMMA QueueAppend ==
  ASSUME TypeOK, NEW p \in Packets, RecvPktQueue' = Append(RecvPktQueue, p)
  PROVE  \A q : Queued(q) \/ q = p => Queued(q)'
  BY QueueWith, Zenon DEF Queued

LEMMA QueueAppendTail ==
  ASSUME TypeOK, NEW p \in Packets, RecvPktQueue' = Tail(Append(RecvPktQueue, p))
  PROVE  \A q : Queued(q) \/ q = p => q = Head(Append(RecvPktQueue, p)) \/ Queued(q)'
  <1> DEFINE s == Append(RecvPktQueue, p)
  <1>1. s \in Seq(Packets) /\ s # <<>>
    BY AppendProperties DEF TypeOK
  <1>2. \A q : Queued(q) \/ q = p => \E k \in 1 .. Len(s) : s[k] = q
    BY QueueWith, Zenon
  <1> HIDE DEF s
  <1>3. \A k \in 1 .. Len(s) : s[k] = Head(s) \/ \E l \in 1 .. Len(Tail(s)) : Tail(s)[l] = s[k]
    BY <1>1, TailElements
  <1>4. RecvPktQueue' = Tail(s)
    BY DEF s
  <1>5. \A q : Queued(q) \/ q = p => q = Head(s) \/ Queued(q)'
    BY <1>2, <1>3, <1>4, Zenon DEF Queued
  <1> QED
    BY <1>5 DEF s

\* No packet's thread is in the middle of an indication because another thread moves on.
LEMMA NotIndicating ==
  ASSUME TypeOK, NEW t \in Threads, NEW w, pc[t] \notin {"transfer", "queue"}, Goto(t, w)
  PROVE  \A q \in Packets : pc[q] \in {"transfer", "queue"} => pc'[q] = pc[q]
  BY ThreadKinds DEF TypeOK, Goto

LEMMA StepPackets ==
  ASSUME TypeOK, Places, Holding, PacketsOwned, [Next]_vars
  PROVE  PacketsOwned'
  <1> USE DEF context, reads, rcvs, At
  <1>1. ASSUME NEW i \in Irps, Read(i) \/ Pending(i) \/ CancelCalled(i) \/ Cancelling(i) PROVE PacketsOwned'
    <2> i \in Threads
      BY ThreadKinds
    <2>1. CASE Read(i)
      <3>1. UNCHANGED <<packet, RecvPktQueue, has>>
        BY <2>1 DEF Read
      <3>2. \A q \in Packets : pc'[q] = pc[q]
        BY ThreadKinds, <2>1 DEF Read, TypeOK, Goto
      <3> QED
        BY <3>1, <3>2 DEF PacketsOwned, Queued, Held
    <2>2. CASE ReadRefused(i)
      <3>1. UNCHANGED <<packet, RecvPktQueue, has>>
        BY <2>2 DEF ReadRefused
      <3>2. \A q \in Packets : pc'[q] = pc[q]
        BY ThreadKinds, <2>2 DEF ReadRefused, TypeOK, Goto
      <3> QED
        BY <3>1, <3>2 DEF PacketsOwned, Queued, Held
    <2>3. CASE ReadPends(i)
      <3>1. UNCHANGED <<packet, RecvPktQueue, has>>
        BY <2>3 DEF ReadPends
      <3>2. \A q \in Packets : pc'[q] = pc[q]
        BY ThreadKinds, <2>3 DEF ReadPends, TypeOK, Goto
      <3> QED
        BY <3>1, <3>2 DEF PacketsOwned, Queued, Held
    <2>4. CASE CancelCalled(i)
      BY <2>4 DEF CancelCalled, PacketsOwned, Queued, Held
    <2>5. CASE CancelRemoves(i)
      BY <2>5 DEF CancelRemoves, PacketsOwned, Queued, Held
    <2>6. CASE CancelCompletes(i)
      BY <2>6 DEF CancelCompletes, PacketsOwned, Queued, Held
    <2> QED
      BY <1>1, <2>1, <2>2, <2>3, <2>4, <2>5, <2>6 DEF Pending, Cancelling
  <1>2. ASSUME NEW p \in Packets, NdisProtReceive(p) \/ NdisProtReceivePacket(p) \/ Queueing(p) PROVE PacketsOwned'
    <2> p \in Threads
      BY ThreadKinds
    <2>1. CASE NdisProtReceive(p)
      <3>0. Goto(p, "queue") \/ Goto(p, "transfer")
        BY <2>1, ReceiveMoves
      <3>1. UNCHANGED <<RecvPktQueue, has>> /\ \A q \in Packets : q # p => packet'[q] = packet[q] /\ pc'[q] = pc[q]
        BY <3>0, ThreadKinds, <2>1 DEF NdisProtReceive, ndisprotFreeReceivePacket, TypeOK, Goto
      <3>2. pc'[p] \in {"transfer", "queue"}
        BY <3>0, ThreadKinds, <2>1 DEF NdisProtReceive, ndisprotFreeReceivePacket, TypeOK, Goto
      <3> QED
        BY <3>1, <3>2 DEF PacketsOwned, Queued, Held
    <2>2. CASE NdisProtReceivePacket(p)
      <3>1. UNCHANGED <<RecvPktQueue, has>> /\ \A q \in Packets : q # p => packet'[q] = packet[q] /\ pc'[q] = pc[q]
        BY ThreadKinds, <2>2 DEF NdisProtReceivePacket, ndisprotFreeReceivePacket, TypeOK, Goto
      <3>2. pc'[p] \in {"transfer", "queue"}
        BY ThreadKinds, <2>2 DEF NdisProtReceivePacket, ndisprotFreeReceivePacket, TypeOK, Goto
      <3> QED
        BY <3>1, <3>2 DEF PacketsOwned, Queued, Held
    <2>3. CASE NdisProtTransferDataComplete(p)
      <3>1. UNCHANGED <<RecvPktQueue, has>> /\ \A q \in Packets : q # p => packet'[q] = packet[q] /\ pc'[q] = pc[q]
        BY ThreadKinds, <2>3
           DEF NdisProtTransferDataComplete, ndisprotFreeReceivePacket, TypeOK, Goto
      <3>2. packet'[p] = "free" \/ pc'[p] \in {"transfer", "queue"}
        BY ThreadKinds, <2>3
           DEF NdisProtTransferDataComplete, ndisprotFreeReceivePacket, TypeOK, Goto
      <3> QED
        BY <3>1, <3>2 DEF PacketsOwned, Queued, Held
    <2>4. CASE QueueDrops(p)
      <3>1. UNCHANGED <<RecvPktQueue, has>> /\ \A q \in Packets : q # p => packet'[q] = packet[q] /\ pc'[q] = pc[q]
        BY ThreadKinds, <2>4 DEF QueueDrops, ndisprotFreeReceivePacket, TypeOK, Goto
      <3>2. packet'[p] = "free"
        BY ThreadKinds, <2>4 DEF QueueDrops, ndisprotFreeReceivePacket, TypeOK, Goto
      <3> QED
        BY <3>1, <3>2 DEF PacketsOwned, Queued, Held
    <2>5. CASE QueueInserts(p)
      <3>1. has' = has /\ \A q \in Packets : q # p => pc'[q] = pc[q]
        BY ThreadKinds, <2>5 DEF QueueInserts, TypeOK, Goto
      <3>2. CASE Len(RecvPktQueue) + 1 > MAX_RECV_QUEUE_SIZE
        <4> DEFINE h == Head(Append(RecvPktQueue, p))
        <4>1. RecvPktQueue' = Tail(Append(RecvPktQueue, p)) /\ packet' = [packet EXCEPT ![h] = "free"] /\ h \in Packets
          BY <2>5, <3>2, AppendedQueue DEF QueueInserts, ndisprotFreeReceivePacket
        <4>2. \A q : Queued(q) \/ q = p => q = h \/ Queued(q)'
          BY <4>1, QueueAppendTail
        <4> HIDE DEF h
        <4> QED
          BY <3>1, <4>1, <4>2 DEF TypeOK, PacketsOwned, Held
      <3>3. CASE ~(Len(RecvPktQueue) + 1 > MAX_RECV_QUEUE_SIZE)
        <4>1. RecvPktQueue' = Append(RecvPktQueue, p) /\ packet' = packet
          BY <2>5, <3>3 DEF QueueInserts
        <4>2. \A q : Queued(q) \/ q = p => Queued(q)'
          BY <4>1, QueueAppend
        <4> QED
          BY <3>1, <4>1, <4>2 DEF PacketsOwned, Held
      <3> QED
        BY <3>2, <3>3
    <2> QED
      BY <1>2, <2>1, <2>2, <2>3, <2>4, <2>5 DEF Queueing
  <1>3. ASSUME NEW t \in Threads, Service(t) PROVE PacketsOwned'
    <2>1. CASE ServiceEnters(t)
      <3>1. UNCHANGED <<packet, RecvPktQueue, has>>
        BY <2>1 DEF ServiceEnters
      <3>2. \A q \in Packets : pc[q] \in {"transfer", "queue"} => pc'[q] = pc[q]
        BY <2>1, NotIndicating DEF ServiceEnters
      <3> QED
        BY <3>1, <3>2 DEF PacketsOwned, Queued, Held
    <2>2. CASE ServiceTakes(t)
      <3>1. \A q \in Packets : pc[q] \in {"transfer", "queue"} => pc'[q] = pc[q]
        BY <2>2, NotIndicating DEF ServiceTakes
      <3>2. \A u \in Threads : u # t => has'[u] = has[u]
        BY <2>2, TakesOne DEF ServiceTakes, TakesAt, TypeOK
      <3>3. packet' = packet
        BY <2>2 DEF ServiceTakes, ndisprotFreeReceivePacket
      <3>4. has'[t].packet = Head(RecvPktQueue) /\ has[t].packet \notin Packets
        BY <2>2, TakesOne DEF ServiceTakes, TakesAt, TypeOK, Holding
      <3>5. \A q : Queued(q) => q = Head(RecvPktQueue) \/ Queued(q)'
        BY <2>2, QueueTail DEF ServiceTakes
      <3> QED
        BY <3>1, <3>2, <3>3, <3>4, <3>5 DEF PacketsOwned, Held
    <2>3. CASE ServiceCompletes(t)
      <3>1. \A q \in Packets : pc[q] \in {"transfer", "queue"} => pc'[q] = pc[q]
        BY <2>3, NotIndicating DEF ServiceCompletes
      <3>2. \A u \in Threads : u # t => has'[u] = has[u]
        BY <2>3 DEF ServiceCompletes, TypeOK
      <3>3. packet' = [packet EXCEPT ![has[t].packet] = "free"]
        BY <2>3 DEF ServiceCompletes, ndisprotFreeReceivePacket
      <3>4. RecvPktQueue' = RecvPktQueue
        BY <2>3 DEF ServiceCompletes
      <3>5. has[t].packet \in Packets
        BY <2>3 DEF ServiceCompletes, Holding
      <3>6. \A q \in Packets : Held(q) => q = has[t].packet \/ Held(q)'
        BY <3>2 DEF Held
      <3>7. \A q \in Packets : Queued(q) => Queued(q)'
        BY <3>4 DEF Queued
      <3>8. \A q \in Packets : packet'[q] = IF q = has[t].packet THEN "free" ELSE packet[q]
        BY <3>3, <3>5 DEF TypeOK
      <3> QED
        BY <3>1, <3>5, <3>6, <3>7, <3>8 DEF PacketsOwned
    <2>4. CASE ServiceStops(t)
      <3>1. UNCHANGED <<packet, RecvPktQueue, has>>
        BY <2>4 DEF ServiceStops
      <3>2. \A q \in Packets : pc[q] \in {"transfer", "queue"} => pc'[q] = pc[q]
        BY <2>4, NotIndicating DEF ServiceStops
      <3> QED
        BY <3>1, <3>2 DEF PacketsOwned, Queued, Held
    <2> QED
      BY <1>3, <2>1, <2>2, <2>3, <2>4 DEF Service
  <1>4. ASSUME NEW t \in Threads, CancelAll(t) PROVE PacketsOwned'
    <2>1. CASE CancelAllEnters(t)
      <3>1. UNCHANGED <<packet, RecvPktQueue, has>>
        BY <2>1 DEF CancelAllEnters
      <3>2. \A q \in Packets : pc[q] \in {"transfer", "queue"} => pc'[q] = pc[q]
        BY <2>1, NotIndicating DEF CancelAllEnters
      <3> QED
        BY <3>1, <3>2 DEF PacketsOwned, Queued, Held
    <2>2. CASE CancelAllTakes(t)
      <3>1. \A q \in Packets : pc[q] \in {"transfer", "queue"} => pc'[q] = pc[q]
        BY <2>2, NotIndicating DEF CancelAllTakes
      <3>2. \A u \in Threads : u # t => has'[u] = has[u]
        BY <2>2 DEF CancelAllTakes, TypeOK
      <3>3. packet' = packet
        BY <2>2 DEF CancelAllTakes, ndisprotFreeReceivePacket
      <3>4. RecvPktQueue' = RecvPktQueue
        BY <2>2 DEF CancelAllTakes
      <3>5. has[t].packet \notin Packets
        BY <2>2 DEF CancelAllTakes, Holding
      <3>6. \A q \in Packets : Held(q) => q = has[t].packet \/ Held(q)'
        BY <3>2 DEF Held
      <3>7. \A q \in Packets : Queued(q) => Queued(q)'
        BY <3>4 DEF Queued
      <3>8. packet' = packet
        BY <3>3, <3>5 DEF TypeOK
      <3> QED
        BY <3>1, <3>5, <3>6, <3>7, <3>8 DEF PacketsOwned
    <2>3. CASE CancelAllCompletes(t)
      <3>1. \A q \in Packets : pc[q] \in {"transfer", "queue"} => pc'[q] = pc[q]
        BY <2>3, NotIndicating DEF CancelAllCompletes
      <3>2. \A u \in Threads : u # t => has'[u] = has[u]
        BY <2>3 DEF CancelAllCompletes, TypeOK
      <3>3. packet' = packet
        BY <2>3 DEF CancelAllCompletes, ndisprotFreeReceivePacket
      <3>4. RecvPktQueue' = RecvPktQueue
        BY <2>3 DEF CancelAllCompletes
      <3>5. has[t].packet \notin Packets
        BY <2>3 DEF CancelAllCompletes, Holding
      <3>6. \A q \in Packets : Held(q) => q = has[t].packet \/ Held(q)'
        BY <3>2 DEF Held
      <3>7. \A q \in Packets : Queued(q) => Queued(q)'
        BY <3>4 DEF Queued
      <3>8. packet' = packet
        BY <3>3, <3>5 DEF TypeOK
      <3> QED
        BY <3>1, <3>5, <3>6, <3>7, <3>8 DEF PacketsOwned
    <2>4. CASE CancelAllSleeps(t)
      <3>1. UNCHANGED <<packet, RecvPktQueue, has>>
        BY <2>4 DEF CancelAllSleeps
      <3>2. \A q \in Packets : pc[q] \in {"transfer", "queue"} => pc'[q] = pc[q]
        BY <2>4, NotIndicating DEF CancelAllSleeps
      <3> QED
        BY <3>1, <3>2 DEF PacketsOwned, Queued, Held
    <2>5. CASE CancelAllStops(t)
      <3>1. UNCHANGED <<packet, RecvPktQueue, has>>
        BY <2>5 DEF CancelAllStops
      <3>2. \A q \in Packets : pc[q] \in {"transfer", "queue"} => pc'[q] = pc[q]
        BY <2>5, NotIndicating DEF CancelAllStops
      <3> QED
        BY <3>1, <3>2 DEF PacketsOwned, Queued, Held
    <2> QED
      BY <1>4, <2>1, <2>2, <2>3, <2>4, <2>5 DEF CancelAll
  <1>5. ASSUME NEW t \in Threads, Flush(t) PROVE PacketsOwned'
    <2>1. CASE FlushEnters(t)
      <3>1. UNCHANGED <<packet, RecvPktQueue, has>>
        BY <2>1 DEF FlushEnters
      <3>2. \A q \in Packets : pc[q] \in {"transfer", "queue"} => pc'[q] = pc[q]
        BY <2>1, NotIndicating DEF FlushEnters
      <3> QED
        BY <3>1, <3>2 DEF PacketsOwned, Queued, Held
    <2>2. CASE FlushTakes(t)
      <3>1. \A q \in Packets : pc[q] \in {"transfer", "queue"} => pc'[q] = pc[q]
        BY <2>2, NotIndicating DEF FlushTakes
      <3>2. \A u \in Threads : u # t => has'[u] = has[u]
        BY <2>2 DEF FlushTakes, TypeOK
      <3>3. packet' = packet
        BY <2>2 DEF FlushTakes, ndisprotFreeReceivePacket
      <3>4. has'[t].packet = Head(RecvPktQueue) /\ has[t].packet \notin Packets
        BY <2>2 DEF FlushTakes, TypeOK, Holding
      <3>5. \A q : Queued(q) => q = Head(RecvPktQueue) \/ Queued(q)'
        BY <2>2, QueueTail DEF FlushTakes
      <3> QED
        BY <3>1, <3>2, <3>3, <3>4, <3>5 DEF PacketsOwned, Held
    <2>3. CASE FlushFrees(t)
      <3>1. \A q \in Packets : pc[q] \in {"transfer", "queue"} => pc'[q] = pc[q]
        BY <2>3, NotIndicating DEF FlushFrees
      <3>2. \A u \in Threads : u # t => has'[u] = has[u]
        BY <2>3 DEF FlushFrees, TypeOK
      <3>3. packet' = [packet EXCEPT ![has[t].packet] = "free"]
        BY <2>3 DEF FlushFrees, ndisprotFreeReceivePacket
      <3>4. RecvPktQueue' = RecvPktQueue
        BY <2>3 DEF FlushFrees
      <3>5. has[t].packet \in Packets
        BY <2>3 DEF FlushFrees, Holding
      <3>6. \A q \in Packets : Held(q) => q = has[t].packet \/ Held(q)'
        BY <3>2 DEF Held
      <3>7. \A q \in Packets : Queued(q) => Queued(q)'
        BY <3>4 DEF Queued
      <3>8. \A q \in Packets : packet'[q] = IF q = has[t].packet THEN "free" ELSE packet[q]
        BY <3>3, <3>5 DEF TypeOK
      <3> QED
        BY <3>1, <3>5, <3>6, <3>7, <3>8 DEF PacketsOwned
    <2>4. CASE FlushStops(t)
      <3>1. UNCHANGED <<packet, RecvPktQueue, has>>
        BY <2>4 DEF FlushStops
      <3>2. \A q \in Packets : pc[q] \in {"transfer", "queue"} => pc'[q] = pc[q]
        BY <2>4, NotIndicating DEF FlushStops
      <3> QED
        BY <3>1, <3>2 DEF PacketsOwned, Queued, Held
    <2> QED
      BY <1>5, <2>1, <2>2, <2>3, <2>4 DEF Flush
  <1>6. CASE CleanupBegins \/ Close \/ UnbindBegins \/ Unbinding \/ PowerDown \/ PowerUp
    <2>1. CASE CleanupBegins
      <3>1. UNCHANGED <<packet, RecvPktQueue, has>>
        BY <2>1 DEF CleanupBegins
      <3>2. \A q \in Packets : pc'[q] = pc[q]
        BY ThreadKinds, <2>1 DEF CleanupBegins, TypeOK, Goto
      <3> QED
        BY <3>1, <3>2 DEF PacketsOwned, Queued, Held
    <2>2. CASE Close
      BY <2>2 DEF Close, PacketsOwned, Queued, Held
    <2>3. CASE UnbindBegins
      <3>1. UNCHANGED <<packet, RecvPktQueue, has>>
        BY <2>3 DEF UnbindBegins
      <3>2. \A q \in Packets : pc'[q] = pc[q]
        BY ThreadKinds, <2>3 DEF UnbindBegins, TypeOK, Goto
      <3> QED
        BY <3>1, <3>2 DEF PacketsOwned, Queued, Held
    <2>4. CASE UnbindWaits
      <3>1. UNCHANGED <<packet, RecvPktQueue, has>>
        BY <2>4 DEF UnbindWaits
      <3>2. \A q \in Packets : pc'[q] = pc[q]
        BY ThreadKinds, <2>4 DEF UnbindWaits, TypeOK, Goto
      <3> QED
        BY <3>1, <3>2 DEF PacketsOwned, Queued, Held
    <2>5. CASE UnbindCloses
      <3>1. UNCHANGED <<packet, RecvPktQueue, has>>
        BY <2>5 DEF UnbindCloses
      <3>2. \A q \in Packets : pc'[q] = pc[q]
        BY ThreadKinds, <2>5 DEF UnbindCloses, TypeOK, Goto
      <3> QED
        BY <3>1, <3>2 DEF PacketsOwned, Queued, Held
    <2>6. CASE UnbindFrees
      <3>1. UNCHANGED <<packet, RecvPktQueue, has>>
        BY <2>6 DEF UnbindFrees
      <3>2. \A q \in Packets : pc'[q] = pc[q]
        BY ThreadKinds, <2>6 DEF UnbindFrees, TypeOK, Goto
      <3> QED
        BY <3>1, <3>2 DEF PacketsOwned, Queued, Held
    <2>7. CASE UnbindDerefs
      <3>1. UNCHANGED <<packet, RecvPktQueue, has>>
        BY <2>7 DEF UnbindDerefs
      <3>2. \A q \in Packets : pc'[q] = pc[q]
        BY ThreadKinds, <2>7 DEF UnbindDerefs, TypeOK, Goto
      <3> QED
        BY <3>1, <3>2 DEF PacketsOwned, Queued, Held
    <2>8. CASE PowerDown
      <3>1. UNCHANGED <<packet, RecvPktQueue, has>>
        BY <2>8 DEF PowerDown
      <3>2. \A q \in Packets : pc'[q] = pc[q]
        BY ThreadKinds, <2>8 DEF PowerDown, TypeOK, Goto
      <3> QED
        BY <3>1, <3>2 DEF PacketsOwned, Queued, Held
    <2>9. CASE PowerUp
      BY <2>9 DEF PowerUp, PacketsOwned, Queued, Held
    <2> QED
      BY <1>6, <2>1, <2>2, <2>3, <2>4, <2>5, <2>6, <2>7, <2>8, <2>9 DEF Unbinding
  <1>7. CASE UNCHANGED vars
    BY <1>7 DEF vars, PacketsOwned, Queued, Held
  <1> QED
    BY <1>1, <1>2, <1>3, <1>4, <1>5, <1>6, <1>7, ThreadKinds DEF Next, Threads, System

LEMMA CancelableReads ==
  ASSUME TypeOK
  PROVE  AnyCancelable <=> \E i \in Irps : Pended(i) /\ routine[i]
  <1>1. PendedReads \in Seq(Irps) /\ DOMAIN PendedReads = 1 .. Len(PendedReads)
        /\ \A k \in 1 .. Len(PendedReads) : PendedReads[k] \in Irps
    BY LenProperties, ElementOfSeq DEF TypeOK
  <1> QED
    BY <1>1 DEF AnyCancelable, Cancelable, Pended

\* Without a new packet, a new read or a thread that stops, no read is stranded.
LEMMA StrandedKept ==
  ASSUME TypeOK, TypeOK', NoStrandedRead,
         RecvPktQueue = <<>> => RecvPktQueue' = <<>>,
         \A i \in Irps : Pended(i)' /\ routine'[i] => Pended(i) /\ routine[i],
         \A t \in Threads : pc[t] \in Servicing => pc'[t] \in Servicing
  PROVE  NoStrandedRead'
  <1>1. AnyCancelable <=> \E i \in Irps : Pended(i) /\ routine[i]
    BY CancelableReads
  <1>2. AnyCancelable' <=> \E i \in Irps : Pended(i)' /\ routine'[i]
    <2>1. /\ PendedReads' \in Seq(Irps) /\ DOMAIN PendedReads' = 1 .. Len(PendedReads')
          /\ \A k \in 1 .. Len(PendedReads') : PendedReads'[k] \in Irps
      BY LenProperties, ElementOfSeq DEF TypeOK
    <2> QED
      BY <2>1 DEF AnyCancelable, Cancelable, Pended
  <1> QED
    BY <1>1, <1>2 DEF NoStrandedRead

\* A thread that is not in the service loop moves on, or one that is stays in it.
LEMMA ServingMoves ==
  ASSUME TypeOK, NEW t \in Threads, NEW w, Goto(t, w), pc[t] \in Servicing => w \in Servicing
  PROVE  /\ \A u \in Threads : pc[u] \in Servicing => pc'[u] \in Servicing
         /\ w \in Servicing => \E u \in Threads : pc'[u] \in Servicing
  BY DEF TypeOK, Goto

LEMMA StepStranded ==
  ASSUME TypeOK, TypeOK', Places, Phases, ReadsOwned, NoStrandedRead, [Next]_vars
  PROVE  NoStrandedRead'
  <1> USE DEF context, reads, rcvs, At
  <1>1. ASSUME NEW i \in Irps, Read(i) \/ Pending(i) \/ CancelCalled(i) \/ Cancelling(i) PROVE NoStrandedRead'
    <2> i \in Threads
      BY ThreadKinds
    <2>1. CASE Read(i)
      <3>1. \A u \in Threads : pc[u] \in Servicing => pc'[u] \in Servicing
        BY <2>1, ThreadKinds DEF Read, TypeOK, Goto, Servicing
      <3>2. UNCHANGED RecvPktQueue
        BY <2>1 DEF Read
      <3>3. UNCHANGED <<PendedReads, routine>>
        BY <2>1 DEF Read
      <3> QED
        BY <3>1, <3>2, <3>3, StrandedKept DEF Pended
    <2>2. CASE ReadRefused(i)
      <3>1. \A u \in Threads : pc[u] \in Servicing => pc'[u] \in Servicing
        BY <2>2, ThreadKinds DEF ReadRefused, TypeOK, Goto, Servicing
      <3>2. UNCHANGED RecvPktQueue
        BY <2>2 DEF ReadRefused
      <3>3. UNCHANGED <<PendedReads, routine>>
        BY <2>2 DEF ReadRefused
      <3> QED
        BY <3>1, <3>2, <3>3, StrandedKept DEF Pended
    <2>3. CASE ReadPends(i)
      <3>1. \E w \in Servicing : Goto(i, w)
        BY <2>3 DEF ReadPends, Servicing
      <3> QED
        BY <3>1, ServingMoves DEF NoStrandedRead
    <2>4. CASE CancelCalled(i)
      <3>1. \A u \in Threads : pc[u] \in Servicing => pc'[u] \in Servicing
        BY <2>4, ThreadKinds DEF CancelCalled, TypeOK, Goto, Servicing
      <3>2. UNCHANGED RecvPktQueue
        BY <2>4 DEF CancelCalled
      <3>3. UNCHANGED PendedReads /\ \A j \in Irps : routine'[j] => routine[j]
        BY <2>4 DEF CancelCalled, TypeOK
      <3> QED
        BY <3>1, <3>2, <3>3, StrandedKept DEF Pended
    <2>5. CASE CancelRemoves(i)
      <3>1. \A u \in Threads : pc[u] \in Servicing => pc'[u] \in Servicing
        BY <2>5, ThreadKinds DEF CancelRemoves, TypeOK, Goto, Servicing
      <3>2. UNCHANGED RecvPktQueue
        BY <2>5 DEF CancelRemoves
      <3>3. \A j \in Irps : Pended(j)' /\ routine'[j] => Pended(j) /\ routine[j]
        <4>1. CASE Unlinked(i)
          BY <2>5, <4>1, UnlinkAtReads DEF CancelRemoves, Unlinked, ReadsOwned
        <4>2. CASE ~Unlinked(i)
          BY <2>5, <4>2 DEF CancelRemoves, Pended
        <4> QED
          BY <4>1, <4>2
      <3> QED
        BY <3>1, <3>2, <3>3, StrandedKept
    <2>6. CASE CancelCompletes(i)
      <3>1. \A u \in Threads : pc[u] \in Servicing => pc'[u] \in Servicing
        BY <2>6, ThreadKinds DEF CancelCompletes, TypeOK, Goto, Servicing
      <3>2. UNCHANGED RecvPktQueue
        BY <2>6 DEF CancelCompletes
      <3>3. UNCHANGED <<PendedReads, routine>>
        BY <2>6 DEF CancelCompletes
      <3> QED
        BY <3>1, <3>2, <3>3, StrandedKept DEF Pended
    <2> QED
      BY <1>1, <2>1, <2>2, <2>3, <2>4, <2>5, <2>6 DEF Pending, Cancelling
  <1>2. ASSUME NEW p \in Packets, NdisProtReceive(p) \/ NdisProtReceivePacket(p) \/ Queueing(p) PROVE NoStrandedRead'
    <2> p \in Threads
      BY ThreadKinds
    <2>1. CASE NdisProtReceive(p)
      <3>0. Goto(p, "queue") \/ Goto(p, "transfer")
        BY <2>1, ReceiveMoves
      <3>1. \A u \in Threads : pc[u] \in Servicing => pc'[u] \in Servicing
        BY <3>0, <2>1, ThreadKinds DEF NdisProtReceive, TypeOK, Goto, Servicing, Indicating
      <3>2. UNCHANGED RecvPktQueue
        BY <2>1 DEF NdisProtReceive
      <3>3. UNCHANGED <<PendedReads, routine>>
        BY <2>1 DEF NdisProtReceive
      <3> QED
        BY <3>1, <3>2, <3>3, StrandedKept DEF Pended
    <2>2. CASE NdisProtReceivePacket(p)
      <3>1. \A u \in Threads : pc[u] \in Servicing => pc'[u] \in Servicing
        BY <2>2, ThreadKinds DEF NdisProtReceivePacket, TypeOK, Goto, Servicing, Indicating
      <3>2. UNCHANGED RecvPktQueue
        BY <2>2 DEF NdisProtReceivePacket
      <3>3. UNCHANGED <<PendedReads, routine>>
        BY <2>2 DEF NdisProtReceivePacket
      <3> QED
        BY <3>1, <3>2, <3>3, StrandedKept DEF Pended
    <2>3. CASE NdisProtTransferDataComplete(p)
      <3>1. \A u \in Threads : pc[u] \in Servicing => pc'[u] \in Servicing
        BY <2>3, ThreadKinds DEF NdisProtTransferDataComplete, TypeOK, Goto, Servicing
      <3>2. UNCHANGED RecvPktQueue
        BY <2>3 DEF NdisProtTransferDataComplete
      <3>3. UNCHANGED <<PendedReads, routine>>
        BY <2>3 DEF NdisProtTransferDataComplete
      <3> QED
        BY <3>1, <3>2, <3>3, StrandedKept DEF Pended
    <2>4. CASE QueueDrops(p)
      <3>1. \A u \in Threads : pc[u] \in Servicing => pc'[u] \in Servicing
        BY <2>4, ThreadKinds DEF QueueDrops, TypeOK, Goto, Servicing
      <3>2. UNCHANGED RecvPktQueue
        BY <2>4 DEF QueueDrops
      <3>3. UNCHANGED <<PendedReads, routine>>
        BY <2>4 DEF QueueDrops
      <3> QED
        BY <3>1, <3>2, <3>3, StrandedKept DEF Pended
    <2>5. CASE QueueInserts(p)
      <3>1. \E w \in Servicing : Goto(p, w)
        BY <2>5 DEF QueueInserts, Servicing
      <3> QED
        BY <3>1, ServingMoves DEF NoStrandedRead
    <2> QED
      BY <1>2, <2>1, <2>2, <2>3, <2>4, <2>5 DEF Queueing
  <1>3. ASSUME NEW t \in Threads, Service(t) PROVE NoStrandedRead'
    <2>1. CASE ServiceEnters(t)
      <3>1. \E w \in Servicing : Goto(t, w)
        BY <2>1 DEF ServiceEnters, Servicing
      <3> QED
        BY <3>1, ServingMoves DEF NoStrandedRead
    <2>2. CASE ServiceTakes(t)
      <3>1. \E w \in Servicing : Goto(t, w)
        BY <2>2 DEF ServiceTakes, Servicing
      <3> QED
        BY <3>1, ServingMoves DEF NoStrandedRead
    <2>3. CASE ServiceCompletes(t)
      <3>1. \E w \in Servicing : Goto(t, w)
        BY <2>3 DEF ServiceCompletes, Servicing
      <3> QED
        BY <3>1, ServingMoves DEF NoStrandedRead
    <2>4. CASE ServiceStops(t)
      <3>1. RecvPktQueue = <<>> \/ ~AnyCancelable
        BY <2>4 DEF ServiceStops
      <3>2. UNCHANGED <<RecvPktQueue, PendedReads, routine>>
        BY <2>4 DEF ServiceStops
      <3> QED
        BY <3>1, <3>2 DEF NoStrandedRead, AnyCancelable, Cancelable
    <2> QED
      BY <1>3, <2>1, <2>2, <2>3, <2>4 DEF Service
  <1>4. ASSUME NEW t \in Threads, CancelAll(t) PROVE NoStrandedRead'
    <2>1. CASE CancelAllEnters(t)
      <3>1. \A u \in Threads : pc[u] \in Servicing => pc'[u] \in Servicing
        BY <2>1, ThreadKinds DEF CancelAllEnters, TypeOK, Goto, Servicing
      <3>2. UNCHANGED RecvPktQueue
        BY <2>1 DEF CancelAllEnters
      <3>3. UNCHANGED <<PendedReads, routine>>
        BY <2>1 DEF CancelAllEnters
      <3> QED
        BY <3>1, <3>2, <3>3, StrandedKept DEF Pended
    <2>2. CASE CancelAllTakes(t)
      <3>1. \A u \in Threads : pc[u] \in Servicing => pc'[u] \in Servicing
        BY <2>2, ThreadKinds DEF CancelAllTakes, TypeOK, Goto, Servicing
      <3>2. UNCHANGED RecvPktQueue
        BY <2>2 DEF CancelAllTakes
      <3>3. \A j \in Irps : Pended(j)' /\ routine'[j] => Pended(j) /\ routine[j]
        BY <2>2, UnlinkHeadReads DEF CancelAllTakes, TypeOK, ReadsOwned
      <3> QED
        BY <3>1, <3>2, <3>3, StrandedKept
    <2>3. CASE CancelAllCompletes(t)
      <3>1. \A u \in Threads : pc[u] \in Servicing => pc'[u] \in Servicing
        BY <2>3, ThreadKinds DEF CancelAllCompletes, TypeOK, Goto, Servicing
      <3>2. UNCHANGED RecvPktQueue
        BY <2>3 DEF CancelAllCompletes
      <3>3. UNCHANGED <<PendedReads, routine>>
        BY <2>3 DEF CancelAllCompletes
      <3> QED
        BY <3>1, <3>2, <3>3, StrandedKept DEF Pended
    <2>4. CASE CancelAllSleeps(t)
      <3>1. \A u \in Threads : pc[u] \in Servicing => pc'[u] \in Servicing
        BY <2>4, ThreadKinds DEF CancelAllSleeps, TypeOK, Goto, Servicing
      <3>2. UNCHANGED RecvPktQueue
        BY <2>4 DEF CancelAllSleeps
      <3>3. UNCHANGED <<PendedReads, routine>>
        BY <2>4 DEF CancelAllSleeps
      <3> QED
        BY <3>1, <3>2, <3>3, StrandedKept DEF Pended
    <2>5. CASE CancelAllStops(t)
      <3>1. \A u \in Threads : pc[u] \in Servicing => pc'[u] \in Servicing
        BY <2>5, ThreadKinds DEF CancelAllStops, TypeOK, Goto, Servicing
      <3>2. UNCHANGED RecvPktQueue
        BY <2>5 DEF CancelAllStops
      <3>3. UNCHANGED <<PendedReads, routine>>
        BY <2>5 DEF CancelAllStops
      <3> QED
        BY <3>1, <3>2, <3>3, StrandedKept DEF Pended
    <2> QED
      BY <1>4, <2>1, <2>2, <2>3, <2>4, <2>5 DEF CancelAll
  <1>5. ASSUME NEW t \in Threads, Flush(t) PROVE NoStrandedRead'
    <2>1. CASE FlushEnters(t)
      <3>1. \A u \in Threads : pc[u] \in Servicing => pc'[u] \in Servicing
        BY <2>1, ThreadKinds DEF FlushEnters, TypeOK, Goto, Servicing
      <3>2. UNCHANGED RecvPktQueue
        BY <2>1 DEF FlushEnters
      <3>3. UNCHANGED <<PendedReads, routine>>
        BY <2>1 DEF FlushEnters
      <3> QED
        BY <3>1, <3>2, <3>3, StrandedKept DEF Pended
    <2>2. CASE FlushTakes(t)
      <3>1. \A u \in Threads : pc[u] \in Servicing => pc'[u] \in Servicing
        BY <2>2, ThreadKinds DEF FlushTakes, TypeOK, Goto, Servicing
      <3>2. RecvPktQueue # <<>>
        BY <2>2 DEF FlushTakes
      <3>3. UNCHANGED <<PendedReads, routine>>
        BY <2>2 DEF FlushTakes
      <3> QED
        BY <3>1, <3>2, <3>3, StrandedKept DEF Pended
    <2>3. CASE FlushFrees(t)
      <3>1. \A u \in Threads : pc[u] \in Servicing => pc'[u] \in Servicing
        BY <2>3, ThreadKinds DEF FlushFrees, TypeOK, Goto, Servicing
      <3>2. UNCHANGED RecvPktQueue
        BY <2>3 DEF FlushFrees
      <3>3. UNCHANGED <<PendedReads, routine>>
        BY <2>3 DEF FlushFrees
      <3> QED
        BY <3>1, <3>2, <3>3, StrandedKept DEF Pended
    <2>4. CASE FlushStops(t)
      <3>1. \A u \in Threads : pc[u] \in Servicing => pc'[u] \in Servicing
        BY <2>4, ThreadKinds DEF FlushStops, TypeOK, Goto, Servicing
      <3>2. UNCHANGED RecvPktQueue
        BY <2>4 DEF FlushStops
      <3>3. UNCHANGED <<PendedReads, routine>>
        BY <2>4 DEF FlushStops
      <3> QED
        BY <3>1, <3>2, <3>3, StrandedKept DEF Pended
    <2> QED
      BY <1>5, <2>1, <2>2, <2>3, <2>4 DEF Flush
  <1>6. CASE CleanupBegins \/ Close \/ UnbindBegins \/ Unbinding \/ PowerDown \/ PowerUp
    <2>1. CASE CleanupBegins
      <3>1. \A u \in Threads : pc[u] \in Servicing => pc'[u] \in Servicing
        BY <2>1, ThreadKinds DEF CleanupBegins, TypeOK, Goto, Servicing, Phases
      <3>2. UNCHANGED RecvPktQueue
        BY <2>1 DEF CleanupBegins
      <3>3. UNCHANGED <<PendedReads, routine>>
        BY <2>1 DEF CleanupBegins
      <3> QED
        BY <3>1, <3>2, <3>3, StrandedKept DEF Pended
    <2>2. CASE Close
      <3>1. \A u \in Threads : pc[u] \in Servicing => pc'[u] \in Servicing
        BY <2>2, ThreadKinds DEF Close, TypeOK, Goto, Servicing
      <3>2. UNCHANGED RecvPktQueue
        BY <2>2 DEF Close
      <3>3. UNCHANGED <<PendedReads, routine>>
        BY <2>2 DEF Close
      <3> QED
        BY <3>1, <3>2, <3>3, StrandedKept DEF Pended
    <2>3. CASE UnbindBegins
      <3>1. \A u \in Threads : pc[u] \in Servicing => pc'[u] \in Servicing
        BY <2>3, ThreadKinds DEF UnbindBegins, TypeOK, Goto, Servicing, Phases
      <3>2. UNCHANGED RecvPktQueue
        BY <2>3 DEF UnbindBegins
      <3>3. UNCHANGED <<PendedReads, routine>>
        BY <2>3 DEF UnbindBegins
      <3> QED
        BY <3>1, <3>2, <3>3, StrandedKept DEF Pended
    <2>4. CASE UnbindWaits
      <3>1. \A u \in Threads : pc[u] \in Servicing => pc'[u] \in Servicing
        BY <2>4, ThreadKinds DEF UnbindWaits, TypeOK, Goto, Servicing
      <3>2. UNCHANGED RecvPktQueue
        BY <2>4 DEF UnbindWaits
      <3>3. UNCHANGED <<PendedReads, routine>>
        BY <2>4 DEF UnbindWaits
      <3> QED
        BY <3>1, <3>2, <3>3, StrandedKept DEF Pended
    <2>5. CASE UnbindCloses
      <3>1. \A u \in Threads : pc[u] \in Servicing => pc'[u] \in Servicing
        BY <2>5, ThreadKinds DEF UnbindCloses, TypeOK, Goto, Servicing
      <3>2. UNCHANGED RecvPktQueue
        BY <2>5 DEF UnbindCloses
      <3>3. UNCHANGED <<PendedReads, routine>>
        BY <2>5 DEF UnbindCloses
      <3> QED
        BY <3>1, <3>2, <3>3, StrandedKept DEF Pended
    <2>6. CASE UnbindFrees
      <3>1. \A u \in Threads : pc[u] \in Servicing => pc'[u] \in Servicing
        BY <2>6, ThreadKinds DEF UnbindFrees, TypeOK, Goto, Servicing
      <3>2. UNCHANGED RecvPktQueue
        BY <2>6 DEF UnbindFrees
      <3>3. UNCHANGED <<PendedReads, routine>>
        BY <2>6 DEF UnbindFrees
      <3> QED
        BY <3>1, <3>2, <3>3, StrandedKept DEF Pended
    <2>7. CASE UnbindDerefs
      <3>1. \A u \in Threads : pc[u] \in Servicing => pc'[u] \in Servicing
        BY <2>7, ThreadKinds DEF UnbindDerefs, TypeOK, Goto, Servicing
      <3>2. UNCHANGED RecvPktQueue
        BY <2>7 DEF UnbindDerefs
      <3>3. UNCHANGED <<PendedReads, routine>>
        BY <2>7 DEF UnbindDerefs
      <3> QED
        BY <3>1, <3>2, <3>3, StrandedKept DEF Pended
    <2>8. CASE PowerDown
      <3>1. \A u \in Threads : pc[u] \in Servicing => pc'[u] \in Servicing
        BY <2>8, ThreadKinds DEF PowerDown, TypeOK, Goto, Servicing
      <3>2. UNCHANGED RecvPktQueue
        BY <2>8 DEF PowerDown
      <3>3. UNCHANGED <<PendedReads, routine>>
        BY <2>8 DEF PowerDown
      <3> QED
        BY <3>1, <3>2, <3>3, StrandedKept DEF Pended
    <2>9. CASE PowerUp
      <3>1. \A u \in Threads : pc[u] \in Servicing => pc'[u] \in Servicing
        BY <2>9, ThreadKinds DEF PowerUp, TypeOK, Goto, Servicing
      <3>2. UNCHANGED RecvPktQueue
        BY <2>9 DEF PowerUp
      <3>3. UNCHANGED <<PendedReads, routine>>
        BY <2>9 DEF PowerUp
      <3> QED
        BY <3>1, <3>2, <3>3, StrandedKept DEF Pended
    <2> QED
      BY <1>6, <2>1, <2>2, <2>3, <2>4, <2>5, <2>6, <2>7, <2>8, <2>9 DEF Unbinding
  <1>7. CASE UNCHANGED vars
    BY <1>7 DEF vars, NoStrandedRead, AnyCancelable, Cancelable
  <1> QED
    BY <1>1, <1>2, <1>3, <1>4, <1>5, <1>6, <1>7, ThreadKinds DEF Next, Threads, System

-----------------------------------------------------------------------------
(* The invariant.                                                          *)

LEMMA InitIInv == Init => IInv
  <1> SUFFICES ASSUME Init PROVE IInv
    OBVIOUS
  <1>1. TypeOK
    BY InitType
  <1>2. Places
    BY ThreadKinds DEF Init, Places, Servicing, Cancels, Flushes
  <1>3. Phases
    BY ThreadKinds DEF Init, Phases, Flushes, At
  <1>4. Holding
    BY ThreadKinds, RecvAssumption DEF Init, Holding, Nothing
  <1>5. Len(PendedReads) = 0 /\ Len(RecvPktQueue) = 0
    BY EmptySeq DEF Init
  <1>6. ReadsOwned
    BY <1>5, ThreadKinds, RecvAssumption
       DEF Init, ReadsOwned, ListedOnce, OneTaker, ReadOwned, Pended, Nothing, At
  <1>7. PacketsOwned
    BY DEF Init, PacketsOwned
  <1>8. Counts
    <2>1. \A S : "out" \notin S => InState(S) = 0
      <3> TAKE S
      <3> HAVE "out" \notin S
      <3>1. {t \in Threads : pc[t] \in S} = {}
        BY DEF Init
      <3> QED
        BY <3>1, FS_EmptySet DEF InState
    <2>2. Copying = 0 /\ Flushing = 0 /\ Looping = 0 /\ Settling = 0
      BY <2>1
         DEF Copying, Flushing, Looping, Settling, CopyPlaces, FlushPlaces, LoopPlaces,
             SettlePlaces
    <2>3. {i \in Irps : cancel[i] = "found"} = {}
      BY DEF Init
    <2>4. Found = 0
      BY <2>3, FS_EmptySet DEF Found
    <2>5. Bound = 1 /\ Handle = 1
      BY ThreadKinds DEF Init, Bound, Handle, At
    <2> QED
      BY <1>5, <2>2, <2>4, <2>5 DEF Init, Counts
  <1>9. NoStrandedRead
    BY DEF Init, NoStrandedRead
  <1> QED
    BY <1>1, <1>2, <1>3, <1>4, <1>6, <1>7, <1>8, <1>9 DEF IInv, Base

LEMMA StepIInv == IInv /\ [Next]_vars => IInv'
  <1> SUFFICES ASSUME IInv, [Next]_vars PROVE IInv'
    OBVIOUS
  <1>0. TypeOK /\ Places /\ Phases /\ Holding /\ ReadsOwned /\ PacketsOwned /\ Counts /\ NoStrandedRead
    BY DEF IInv, Base
  <1>1. TypeOK'
    BY StepType DEF IInv
  <1>2. Places' /\ Phases' /\ Holding' /\ ReadsOwned'
    BY <1>0, <1>1, StepPlaces, StepPhases, StepHolding, StepReads
  <1>3. PacketsOwned' /\ Counts' /\ NoStrandedRead'
    BY <1>0, <1>1, StepPackets, StepCounts, StepStranded
  <1> QED
    BY <1>1, <1>2, <1>3 DEF IInv, Base

\* The inductive invariant holds in every state of every run.
THEOREM Invariant == Spec => []IInv
  <1>1. Init => IInv
    BY InitIInv
  <1>2. IInv /\ [Next]_vars => IInv'
    BY StepIInv
  <1> QED
    BY <1>1, <1>2, PTL DEF Spec

-----------------------------------------------------------------------------
(* What follows.                                                           *)

\* The reference count of the open context and PendedReadCount are those of the
\* reads, packets and threads that are there, however many there are, so that
\* neither a wait of the unbind nor a release is too early or too late.
THEOREM CountsAlwaysExact == Spec => []CountsExact
  <1>1. IInv => CountsExact
    <2> SUFFICES ASSUME IInv PROVE CountsExact
      OBVIOUS
    <2>1. TypeOK /\ Counts
      BY DEF IInv, Base
    <2>2. PendedReadsCounted
      BY <2>1 DEF Counts, PendedReadsCounted, Settling, SettlePlaces
    <2>3. ReferencesExact
      BY <2>1, Zenon
         DEF Counts, ReferencesExact, Bound, Handle, Found, Copying, Flushing, Looping,
         CopyPlaces, FlushPlaces, LoopPlaces
    <2> QED
      BY <2>1, <2>2, <2>3 DEF CountsExact
  <1> QED
    BY <1>1, Invariant, PTL

\* A set with a member whose members are all the same, and one without, by number.
LEMMA One ==
  ASSUME NEW S, NEW x \in S, \A y \in S : y = x
  PROVE  Cardinality(S) = 1
  <1>1. S = {x}
    OBVIOUS
  <1> QED
    BY <1>1, FS_Singleton

LEMMA None ==
  ASSUME NEW S, \A y : y \notin S
  PROVE  Cardinality(S) = 0
  <1>1. S = {}
    OBVIOUS
  <1> QED
    BY <1>1, FS_EmptySet

\* Each read is in the list once, or taken by one thread or by its cancel
\* routine, or complete; and none waits beside a packet with nobody to pair them.
THEOREM ReadsAlwaysServed == Spec => []ReadsServed
  <1>1. ASSUME TypeOK, ReadsOwned PROVE OneCompletes
    <2> SUFFICES ASSUME NEW i \in Irps
                 PROVE  Cardinality({t \in Threads : has[t].irp = i})
                          + (IF cancel[i] = "found" THEN 1 ELSE 0)
                          + Cardinality({n \in DOMAIN PendedReads : PendedReads[n] = i})
                        = (IF irp[i] \in {"pended", "taken"} THEN 1 ELSE 0)
      BY Zenon DEF OneCompletes
    <2> DEFINE takers == {t \in Threads : has[t].irp = i}
               places == {n \in DOMAIN PendedReads : PendedReads[n] = i}
    <2>0. /\ ListedOnce /\ OneTaker /\ ReadOwned(i) /\ DOMAIN PendedReads = 1 .. Len(PendedReads)
          /\ irp[i] \in {"idle", "dispatched", "pended", "taken"}
      BY <1>1, LenProperties DEF TypeOK, ReadsOwned
    <2>1. Cardinality(takers) = IF irp[i] = "taken" THEN 1 ELSE 0
      <3>1. CASE irp[i] = "taken"
        <4>1. PICK t \in Threads : has[t].irp = i
          BY <2>0, <3>1 DEF ReadOwned
        <4>2. t \in takers /\ \A u \in takers : u = t
          BY <2>0, <4>1 DEF OneTaker
        <4> HIDE DEF takers
        <4> QED
          BY <3>1, <4>2, One
      <3>2. CASE irp[i] # "taken"
        <4>1. \A t : t \notin takers
          BY <2>0, <3>2 DEF ReadOwned
        <4> HIDE DEF takers
        <4> QED
          BY <3>2, <4>1, None
      <3> QED
        BY <3>1, <3>2
    <2>2. Cardinality(places) = IF Pended(i) THEN 1 ELSE 0
      <3>1. CASE Pended(i)
        <4>1. PICK k \in 1 .. Len(PendedReads) : PendedReads[k] = i
          BY <3>1 DEF Pended
        <4>2. k \in places /\ \A l \in places : l = k
          BY <2>0, <4>1 DEF ListedOnce
        <4> HIDE DEF places
        <4> QED
          BY <3>1, <4>2, One
      <3>2. CASE ~Pended(i)
        <4>1. \A k : k \notin places
          BY <2>0, <3>2 DEF Pended
        <4> HIDE DEF places
        <4> QED
          BY <3>2, <4>1, None
      <3> QED
        BY <3>1, <3>2
    <2> HIDE DEF takers, places
    <2>3. Cardinality(takers) + (IF cancel[i] = "found" THEN 1 ELSE 0) + Cardinality(places)
            = (IF irp[i] \in {"pended", "taken"} THEN 1 ELSE 0)
      <3>1. CASE irp[i] = "taken"
        BY <2>0, <2>1, <2>2, <3>1 DEF ReadOwned
      <3>2. CASE irp[i] = "pended"
        BY <2>0, <2>1, <2>2, <3>2 DEF ReadOwned
      <3>3. CASE irp[i] \notin {"pended", "taken"}
        BY <2>0, <2>1, <2>2, <3>3 DEF ReadOwned
      <3> QED
        BY <3>1, <3>2, <3>3
    <2> QED
      BY <2>3 DEF takers, places
  <1>2. IInv => ReadsServed
    BY <1>1 DEF IInv, Base, ReadsServed
  <1> QED
    BY <1>2, Invariant, PTL

\* The open context is freed under nobody but a dispatcher whose read another
\* thread has completed, and the packet pool under no packet but the one that a
\* cleanup is flushing.
THEOREM NothingIsFreedInUse == Spec => []NothingFreedInUse
  <1>1. ASSUME IInv PROVE FreedUnlessLate
    <2> SUFFICES ASSUME RefCount = 0, NEW t \in Threads
                 PROVE  pc[t] \in {"out", "done"} \/ (t \in Irps /\ At(t, "service") /\ irp[t] = "idle")
      BY DEF FreedUnlessLate
    <2>0. TypeOK /\ Places /\ Phases /\ ReadsOwned /\ Counts
      BY <1>1 DEF IInv, Base
    <2>1. Looping = 0 /\ Bound = 0 /\ Handle = 0
      <3>1. /\ Copying \in Nat /\ Flushing \in Nat /\ Looping \in Nat /\ Found \in Nat
            /\ Len(PendedReads) \in Nat /\ Len(RecvPktQueue) \in Nat /\ Bound \in Nat /\ Handle \in Nat
        BY <2>0, CountsType, LenProperties DEF TypeOK, Bound, Handle
      <3> QED
        BY <2>0, <3>1 DEF Counts
    <2>2. At("unbind", "done") /\ file = "closed"
      BY <2>1 DEF Bound, Handle
    <2>3. pc[t] \notin LoopPlaces
      BY <2>0, <2>1, CountsType
    <2>4. /\ At("cleanup", "done") /\ At("power", "out")
          /\ \A i \in Irps : irp[i] = "idle"
          /\ \A p \in Packets : At(p, "out")
      BY <2>0, <2>2 DEF Phases, At
    <2>5. CASE t \in Irps
      BY <2>0, <2>3, <2>4, <2>5 DEF Places, Servicing, LoopPlaces, ReadsOwned, ReadOwned, At
    <2>6. CASE t \notin Irps
      BY <2>2, <2>4, <2>6 DEF Threads, System, At
    <2> QED
      BY <2>5, <2>6
  <1>2. ASSUME IInv PROVE PoolOutlivesPackets
    <2> SUFFICES ASSUME ~RecvPacketPool, NEW p \in Packets, packet[p] = "own"
                 PROVE  has["cleanup"].packet = p
      BY DEF PoolOutlivesPackets
    <2>0. TypeOK /\ Places /\ Phases /\ Holding /\ PacketsOwned /\ Counts
      BY <1>2 DEF IInv, Base
    <2>1. pc["unbind"] \in {"deref", "done"}
      BY <2>0 DEF Phases
    <2>2. RecvPktQueue = <<>> /\ PendedReadCount = 0 /\ At(p, "out") /\ At("power", "out")
      BY <2>0, <2>1 DEF Phases
    <2>3. ~Queued(p)
      BY <2>2, EmptySeq DEF Queued
    <2>4. PICK t \in Threads : has[t].packet = p
      BY <2>0, <2>2, <2>3 DEF PacketsOwned, Held, At
    <2>5. pc[t] \in {"copy", "flush_took"}
      BY <2>0, <2>4 DEF Holding
    <2>6. Settling = 0
      <3>1. Settling \in Nat /\ Len(PendedReads) \in Nat
        BY <2>0, CountsType, LenProperties DEF TypeOK
      <3> QED
        BY <2>0, <2>2, <3>1 DEF Counts
    <2>7. pc[t] = "flush_took"
      <3>1. pc[t] \notin SettlePlaces
        BY <2>0, <2>6, CountsType
      <3> QED
        BY <2>5, <3>1 DEF SettlePlaces
    <2>8. t = "cleanup"
      <3>1. t \notin Irps /\ t \notin Packets
        BY <2>0, <2>7 DEF Places, Servicing
      <3>2. t # "unbind" /\ t # "power"
        BY <2>1, <2>2, <2>7 DEF At
      <3> QED
        BY <3>1, <3>2 DEF Threads, System
    <2> QED
      BY <2>4, <2>8
  <1>3. IInv => NothingFreedInUse
    BY <1>1, <1>2 DEF NothingFreedInUse
  <1> QED
    BY <1>3, Invariant, PTL

-----------------------------------------------------------------------------
(* The reads of ndisedge.                                                  *)

LEMMA ReadersApart ==
  /\ IsFiniteSet(RCBs) /\ none \notin RCBs /\ none \notin Recv!Threads
  /\ Workers \cap Recv!Enders = {} /\ Completers \cap Returners = {}
  /\ Recv!Enders = Completers \cup Returners /\ Recv!Threads = Workers \cup Recv!Enders
  <1>1. Recv!NdisEdgeRecvAssumption
    BY PartsAssumption
  <1>2. Recv!IsFiniteSet(RCBs) <=> IsFiniteSet(RCBs)
    BY DEF Recv!IsFiniteSet, IsFiniteSet
  <1> QED
    BY <1>1, <1>2 DEF Recv!NdisEdgeRecvAssumption, Recv!Threads, Recv!Enders

ReadTypes ==
    /\ rFlags \subseteq {"post", "disconnected", "halt"}
    /\ rHalt \in {"up", "stop", "close", "flush", "wait", "freed"}
    /\ rMedia \in [n : Nat, reads : BOOLEAN, old : SUBSET {"post", "disconnected", "halt"}]
    /\ RecvFreeList \subseteq RCBs /\ lock \in Recv!Threads \cup {none}
    /\ rRef \in [RCBs -> 0 .. 2]
    /\ reading \subseteq RCBs /\ up \subseteq RCBs /\ unposted \subseteq RCBs
    /\ queued \in BOOLEAN /\ IsReadWorkItemQueued \in BOOLEAN
    /\ rPc \in [Recv!Threads -> {"idle", "loop", "post", "end", "clear", "deref", "free",
                                 "unlock"}]
    /\ pRCB \in [Recv!Threads -> RCBs \cup {none}]
    /\ old \in [Recv!Threads -> SUBSET {"post", "disconnected", "halt"}]

\* Where a thread may be, and where it has an RCB.
ReadPlaces ==
    /\ \A w \in Workers : rPc[w] \in {"idle", "loop", "post", "end"}
    /\ \A e \in Recv!Enders : rPc[e] \in {"idle", "clear", "deref", "free", "unlock"}
    /\ \A e \in Returners : rPc[e] # "clear"
    /\ \A h \in Recv!Threads : pRCB[h] # none <=> rPc[h] \in {"post", "clear", "deref", "free"}

Posting(r)   == \E w \in Workers : pRCB[w] = r
Completing(r) == \E e \in Completers : pRCB[e] = r
Returning(r) == \E e \in Returners : pRCB[e] = r

\* An RCB is in one place: free, with a worker, read into, or with those who end its
\* read and its packet, of whom there is one of each kind.
OnePlace ==
    /\ \A h, g \in Workers : pRCB[h] = pRCB[g] /\ pRCB[h] # none => h = g
    /\ \A h, g \in Completers : pRCB[h] = pRCB[g] /\ pRCB[h] # none => h = g
    /\ \A h, g \in Returners : pRCB[h] = pRCB[g] /\ pRCB[h] # none => h = g
    /\ \A r \in RecvFreeList : ~Posting(r)
    /\ \A r \in RCBs : r \in RecvFreeList \/ Posting(r) =>
          r \notin reading \cup unposted \cup up /\ ~Completing(r) /\ ~Returning(r)
    /\ \A r \in reading \cup unposted : r \notin up /\ ~Completing(r) /\ ~Returning(r)
    /\ reading \cap unposted = {}
    /\ \A r \in up : ~Returning(r)

\* Threads that have a reference of their own to r.
Users(r) == {e \in Recv!Enders : pRCB[e] = r /\ rPc[e] \in {"clear", "deref"}}

RefOf(r) == (IF r \in reading \cup unposted THEN 1 ELSE 0) + (IF r \in up THEN 1 ELSE 0)
            + Cardinality(Users(r))

Referenced == \A r \in RCBs : IsFiniteSet(Users(r)) /\ rRef[r] = RefOf(r)

\* Who frees an RCB was the last.
LastFrees ==
    \A e \in Recv!Enders : rPc[e] = "free" =>
        /\ pRCB[e] \notin up
        /\ \A g \in Recv!Enders : pRCB[g] = pRCB[e] => g = e

ReadBusy == nBusyRecv = Cardinality(RCBs \ RecvFreeList)

\* From the flush on no read completes and nobody writes Flags; if they say so, no
\* read is posted from the poll on.
AfterStop ==
    /\ rHalt \in {"flush", "wait", "freed"} =>
          reading = {} /\ ~rMedia.reads /\ \A e \in Completers : rPc[e] = "idle"
    /\ rHalt \in {"wait", "freed"} /\ "post" \notin rFlags =>
          ~queued /\ \A w \in Workers : rPc[w] = "idle"
    /\ rHalt = "freed" /\ "post" \notin rFlags => RecvFreeList = RCBs

ReadInv ==
    /\ ReadTypes /\ ReadPlaces /\ OnePlace /\ Referenced /\ LastFrees /\ ReadBusy /\ AfterStop
    /\ Recv!ScheduleNeverStuck

LEMMA ReadInit == Recv!Init => ReadInv
  <1> SUFFICES ASSUME Recv!Init PROVE ReadInv
    OBVIOUS
  <1>1. ReadTypes /\ ReadPlaces /\ OnePlace /\ LastFrees /\ AfterStop /\ Recv!ScheduleNeverStuck
    <2>1. ReadTypes
      <3>1. /\ rPc \in [Recv!Threads -> {"idle", "loop", "post", "end", "clear", "deref", "free",
                                         "unlock"}]
            /\ pRCB \in [Recv!Threads -> RCBs \cup {none}]
            /\ old \in [Recv!Threads -> SUBSET {"post", "disconnected", "halt"}]
            /\ rRef \in [RCBs -> 0 .. 2]
        BY DEF Recv!Init
      <3>2. rMedia \in [n : Nat, reads : BOOLEAN, old : SUBSET {"post", "disconnected", "halt"}]
        BY DEF Recv!Init
      <3> QED
        BY <3>1, <3>2 DEF Recv!Init, ReadTypes
    <2>2. ReadPlaces /\ LastFrees /\ AfterStop /\ Recv!ScheduleNeverStuck
      BY ReadersApart DEF Recv!Init, ReadPlaces, LastFrees, AfterStop, Recv!ScheduleNeverStuck
    <2>3. OnePlace
      BY ReadersApart DEF Recv!Init, OnePlace, Posting, Completing, Returning
    <2> QED
      BY <2>1, <2>2, <2>3
  <1>2. ReadBusy
    BY FS_EmptySet DEF Recv!Init, ReadBusy
  <1>3. Referenced
    <2> SUFFICES ASSUME NEW r \in RCBs PROVE IsFiniteSet(Users(r)) /\ rRef[r] = RefOf(r)
      BY DEF Referenced
    <2>1. Users(r) = {}
      BY DEF Users, Recv!Init, Recv!Threads
    <2>2. rRef[r] = 0 /\ reading = {} /\ unposted = {} /\ up = {}
      BY DEF Recv!Init
    <2> QED
      BY <2>1, <2>2, FS_EmptySet DEF RefOf
  <1> QED
    BY <1>1, <1>2, <1>3 DEF ReadInv

\* Who lets go of the last reference is alone with the RCB, and there is one to let
\* go of.
LEMMA LastReference ==
  ASSUME ReadInv, NEW e \in Recv!Enders, rPc[e] \in {"clear", "deref"}
  PROVE  /\ rRef[pRCB[e]] \in {1, 2} /\ pRCB[e] \in RCBs
         /\ rRef[pRCB[e]] = 1 => pRCB[e] \notin up /\ Users(pRCB[e]) = {e}
  <1> DEFINE r == pRCB[e]
             rest == Users(r) \ {e}
  <1>1. r \in RCBs /\ rRef[r] \in 0 .. 2
    BY ReadersApart DEF ReadInv, ReadTypes, ReadPlaces
  <1>2. IsFiniteSet(Users(r)) /\ rRef[r] = RefOf(r)
    BY <1>1 DEF ReadInv, Referenced
  <1>3. e \in Users(r)
    BY DEF Users
  <1>4. IsFiniteSet(rest) /\ Cardinality(rest) \in Nat
        /\ Cardinality(Users(r)) = Cardinality(rest) + 1
        /\ (Cardinality(rest) = 0 => rest = {})
    <2>1. IsFiniteSet(rest) /\ Cardinality(rest) = Cardinality(Users(r)) - 1
      BY <1>2, <1>3, FS_RemoveElement
    <2>2. Cardinality(Users(r)) \in Nat /\ Cardinality(rest) \in Nat
      BY <1>2, <2>1, FS_CardinalityType
    <2>3. Cardinality(rest) = 0 => rest = {}
      BY <2>1, FS_EmptySet
    <2> HIDE DEF rest, r
    <2> QED
      BY <2>1, <2>2, <2>3
  <1> HIDE DEF r, rest
  <1>5. rRef[r] # 0
    BY <1>2, <1>4 DEF RefOf
  <1>6. rRef[r] = 1 => r \notin up /\ Cardinality(rest) = 0
    BY <1>2, <1>4 DEF RefOf
  <1> QED
    BY <1>1, <1>3, <1>4, <1>5, <1>6 DEF r, rest

Shape == ReadTypes /\ ReadPlaces /\ OnePlace /\ LastFrees /\ Recv!ScheduleNeverStuck

LEMMA ShapeStep ==
  ASSUME ReadInv, [Recv!Next]_(Recv!vars)
  PROVE  Shape'
  <1>90. ReadTypes /\ ReadPlaces /\ OnePlace /\ LastFrees /\ Recv!ScheduleNeverStuck
    BY DEF ReadInv
  <1>91. \A r \in reading : rRef[r] = 1
    <2> SUFFICES ASSUME NEW r \in reading PROVE rRef[r] = 1
      OBVIOUS
    <2>1. r \in RCBs /\ r \notin up /\ Users(r) = {}
      BY <1>90, ReadersApart DEF ReadTypes, OnePlace, Users, Completing, Returning
    <2> QED
      BY <2>1, FS_EmptySet DEF ReadInv, Referenced, RefOf
  <1> USE <1>90, <1>91, ReadersApart
      DEF Shape, ReadTypes, ReadPlaces, OnePlace, Posting, Completing, Returning, LastFrees,
          Recv!ScheduleNeverStuck, Recv!At, Recv!Goto, Recv!lists, Recv!target, Recv!item
  <1>1. CASE UNCHANGED Recv!vars
    BY <1>1 DEF Recv!vars
  <1>2. ASSUME NEW w \in Workers, Recv!WorkBegins(w) PROVE Shape'
    <2>1. ReadTypes'
      BY <1>2 DEF Recv!WorkBegins
    <2>2. ReadPlaces'
      BY <1>2 DEF Recv!WorkBegins
    <2>3. OnePlace'
      BY <1>2 DEF Recv!WorkBegins
    <2>4. LastFrees'
      BY <1>2 DEF Recv!WorkBegins
    <2>5. Recv!ScheduleNeverStuck'
      BY <1>2 DEF Recv!WorkBegins
    <2> QED
      BY <2>1, <2>2, <2>3, <2>4, <2>5
  <1>3. ASSUME NEW w \in Workers, Recv!WorkTakes(w) PROVE Shape'
    <2>1. ReadTypes'
      BY <1>3 DEF Recv!WorkTakes
    <2>2. ReadPlaces'
      BY <1>3 DEF Recv!WorkTakes
    <2>3. OnePlace'
      BY <1>3 DEF Recv!WorkTakes
    <2>4. LastFrees'
      BY <1>3 DEF Recv!WorkTakes
    <2>5. Recv!ScheduleNeverStuck'
      BY <1>3 DEF Recv!WorkTakes
    <2> QED
      BY <2>1, <2>2, <2>3, <2>4, <2>5
  <1>4. ASSUME NEW w \in Workers, Recv!WorkPosts(w) PROVE Shape'
    <2>1. ReadTypes'
      BY <1>4 DEF Recv!WorkPosts
    <2>2. ReadPlaces'
      BY <1>4 DEF Recv!WorkPosts
    <2>3. OnePlace'
      BY <1>4 DEF Recv!WorkPosts
    <2>4. LastFrees'
      BY <1>4 DEF Recv!WorkPosts
    <2>5. Recv!ScheduleNeverStuck'
      BY <1>4 DEF Recv!WorkPosts
    <2> QED
      BY <2>1, <2>2, <2>3, <2>4, <2>5
  <1>5. ASSUME NEW w \in Workers, Recv!WorkEnds(w) PROVE Shape'
    <2>1. ReadTypes'
      BY <1>5 DEF Recv!WorkEnds
    <2>2. ReadPlaces'
      BY <1>5 DEF Recv!WorkEnds
    <2>3. OnePlace'
      BY <1>5 DEF Recv!WorkEnds
    <2>4. LastFrees'
      BY <1>5 DEF Recv!WorkEnds
    <2>5. Recv!ScheduleNeverStuck'
      BY <1>5 DEF Recv!WorkEnds
    <2> QED
      BY <2>1, <2>2, <2>3, <2>4, <2>5
  <1>6. ASSUME NEW e \in Recv!Enders, Recv!ReadClears(e) PROVE Shape'
    <2>1. ReadTypes'
      BY <1>6 DEF Recv!ReadClears
    <2>2. ReadPlaces'
      BY <1>6 DEF Recv!ReadClears
    <2>3. OnePlace'
      BY <1>6 DEF Recv!ReadClears
    <2>4. LastFrees'
      BY <1>6 DEF Recv!ReadClears
    <2>5. Recv!ScheduleNeverStuck'
      BY <1>6 DEF Recv!ReadClears
    <2> QED
      BY <2>1, <2>2, <2>3, <2>4, <2>5
  <1>7. ASSUME NEW e \in Recv!Enders, Recv!Derefs(e) PROVE Shape'
    <2>1. /\ rRef[pRCB[e]] \in {1, 2} /\ pRCB[e] \in RCBs
          /\ rRef[pRCB[e]] = 1 => pRCB[e] \notin up /\ Users(pRCB[e]) = {e}
      BY <1>7, LastReference DEF Recv!Derefs
    <2>2. \A g \in Recv!Enders : pRCB[g] = pRCB[e] /\ g # e /\ rRef[pRCB[e]] = 1 => FALSE
      BY <1>7, <2>1 DEF Users, Recv!Derefs
    <2> QED
      BY <1>7, <2>1, <2>2 DEF Recv!Derefs
  <1>8. ASSUME NEW e \in Recv!Enders, Recv!Frees(e) PROVE Shape'
    <2>1. ReadTypes'
      BY <1>8 DEF Recv!Frees
    <2>2. ReadPlaces'
      BY <1>8 DEF Recv!Frees
    <2>3. OnePlace'
      BY <1>8 DEF Recv!Frees
    <2>4. LastFrees'
      BY <1>8 DEF Recv!Frees
    <2>5. Recv!ScheduleNeverStuck'
      BY <1>8 DEF Recv!Frees
    <2> QED
      BY <2>1, <2>2, <2>3, <2>4, <2>5
  <1>9. ASSUME NEW e \in Recv!Enders, Recv!Schedules(e) PROVE Shape'
    <2>1. ReadTypes'
      BY <1>9 DEF Recv!Schedules
    <2>2. ReadPlaces'
      BY <1>9 DEF Recv!Schedules
    <2>3. OnePlace'
      BY <1>9 DEF Recv!Schedules
    <2>4. LastFrees'
      BY <1>9 DEF Recv!Schedules
    <2>5. Recv!ScheduleNeverStuck'
      BY <1>9 DEF Recv!Schedules
    <2> QED
      BY <2>1, <2>2, <2>3, <2>4, <2>5
  <1>10. ASSUME NEW e \in Recv!Enders, NEW r \in RCBs, Recv!ReadFails(e, r) PROVE Shape'
    <2>1. ReadTypes'
      BY <1>10 DEF Recv!ReadFails
    <2>2. ReadPlaces'
      BY <1>10 DEF Recv!ReadFails
    <2>3. OnePlace'
      BY <1>10 DEF Recv!ReadFails
    <2>4. LastFrees'
      BY <1>10 DEF Recv!ReadFails
    <2>5. Recv!ScheduleNeverStuck'
      BY <1>10 DEF Recv!ReadFails
    <2> QED
      BY <2>1, <2>2, <2>3, <2>4, <2>5
  <1>11. ASSUME NEW e \in Recv!Enders, NEW r \in RCBs, Recv!ReadDone(e, r) PROVE Shape'
    <2>1. ReadTypes'
      BY <1>11 DEF Recv!ReadDone
    <2>2. ReadPlaces'
      BY <1>11 DEF Recv!ReadDone
    <2>3. OnePlace'
      BY <1>11 DEF Recv!ReadDone
    <2>4. LastFrees'
      BY <1>11 DEF Recv!ReadDone
    <2>5. Recv!ScheduleNeverStuck'
      BY <1>11 DEF Recv!ReadDone
    <2> QED
      BY <2>1, <2>2, <2>3, <2>4, <2>5
  <1>12. ASSUME NEW e \in Recv!Enders, NEW r \in RCBs, Recv!MPReturnPacket(e, r) PROVE Shape'
    <2>1. ReadTypes'
      BY <1>12 DEF Recv!MPReturnPacket
    <2>2. ReadPlaces'
      BY <1>12 DEF Recv!MPReturnPacket
    <2>3. OnePlace'
      BY <1>12 DEF Recv!MPReturnPacket
    <2>4. LastFrees'
      BY <1>12 DEF Recv!MPReturnPacket
    <2>5. Recv!ScheduleNeverStuck'
      BY <1>12 DEF Recv!MPReturnPacket
    <2> QED
      BY <2>1, <2>2, <2>3, <2>4, <2>5
  <1>13. CASE Recv!MediaReads
    <2>1. ReadTypes'
      BY <1>13 DEF Recv!MediaReads
    <2>2. ReadPlaces'
      BY <1>13 DEF Recv!MediaReads
    <2>3. OnePlace'
      BY <1>13 DEF Recv!MediaReads
    <2>4. LastFrees'
      BY <1>13 DEF Recv!MediaReads
    <2>5. Recv!ScheduleNeverStuck'
      BY <1>13 DEF Recv!MediaReads
    <2> QED
      BY <2>1, <2>2, <2>3, <2>4, <2>5
  <1>14. CASE Recv!MediaWrites
    <2>1. /\ rFlags' \subseteq {"post", "disconnected", "halt"}
          /\ rMedia' \in [n : Nat, reads : BOOLEAN, old : SUBSET {"post", "disconnected", "halt"}]
      BY <1>14 DEF Recv!MediaWrites
    <2>2. UNCHANGED <<rHalt, RecvFreeList, nBusyRecv, lock, rRef, unposted, reading, up, errors,
                      refused, queued, IsReadWorkItemQueued, rPc, pRCB, old>>
      BY <1>14 DEF Recv!MediaWrites
    <2> QED
      BY <2>1, <2>2
  <1>15. CASE Recv!HaltBegins
    <2>1. ReadTypes'
      BY <1>15 DEF Recv!HaltBegins
    <2>2. ReadPlaces'
      BY <1>15 DEF Recv!HaltBegins
    <2>3. OnePlace'
      BY <1>15 DEF Recv!HaltBegins
    <2>4. LastFrees'
      BY <1>15 DEF Recv!HaltBegins
    <2>5. Recv!ScheduleNeverStuck'
      BY <1>15 DEF Recv!HaltBegins
    <2> QED
      BY <2>1, <2>2, <2>3, <2>4, <2>5
  <1>16. CASE Recv!HaltCloses
    <2>1. ReadTypes'
      BY <1>16 DEF Recv!HaltCloses
    <2>2. ReadPlaces'
      BY <1>16 DEF Recv!HaltCloses
    <2>3. OnePlace'
      BY <1>16 DEF Recv!HaltCloses
    <2>4. LastFrees'
      BY <1>16 DEF Recv!HaltCloses
    <2>5. Recv!ScheduleNeverStuck'
      BY <1>16 DEF Recv!HaltCloses
    <2> QED
      BY <2>1, <2>2, <2>3, <2>4, <2>5
  <1>17. CASE Recv!HaltStops
    <2>1. ReadTypes'
      BY <1>17 DEF Recv!HaltStops
    <2>2. ReadPlaces'
      BY <1>17 DEF Recv!HaltStops
    <2>3. OnePlace'
      BY <1>17 DEF Recv!HaltStops
    <2>4. LastFrees'
      BY <1>17 DEF Recv!HaltStops
    <2>5. Recv!ScheduleNeverStuck'
      BY <1>17 DEF Recv!HaltStops
    <2> QED
      BY <2>1, <2>2, <2>3, <2>4, <2>5
  <1>18. CASE Recv!HaltFlushes
    <2>1. ReadTypes'
      BY <1>18 DEF Recv!HaltFlushes
    <2>2. ReadPlaces'
      BY <1>18 DEF Recv!HaltFlushes
    <2>3. OnePlace'
      BY <1>18 DEF Recv!HaltFlushes
    <2>4. LastFrees'
      BY <1>18 DEF Recv!HaltFlushes
    <2>5. Recv!ScheduleNeverStuck'
      BY <1>18 DEF Recv!HaltFlushes
    <2> QED
      BY <2>1, <2>2, <2>3, <2>4, <2>5
  <1>19. CASE Recv!HaltFrees
    <2>1. ReadTypes'
      BY <1>19 DEF Recv!HaltFrees
    <2>2. ReadPlaces'
      BY <1>19 DEF Recv!HaltFrees
    <2>3. OnePlace'
      BY <1>19 DEF Recv!HaltFrees
    <2>4. LastFrees'
      BY <1>19 DEF Recv!HaltFrees
    <2>5. Recv!ScheduleNeverStuck'
      BY <1>19 DEF Recv!HaltFrees
    <2> QED
      BY <2>1, <2>2, <2>3, <2>4, <2>5
  <1> QED
    BY <1>1, <1>2, <1>3, <1>4, <1>5, <1>6, <1>7, <1>8, <1>9, <1>10, <1>11, <1>12, <1>13, <1>14, <1>15, <1>16, <1>17, <1>18, <1>19, Zenon
       DEF Recv!Next, Recv!Work, Recv!Ending, Recv!Halts

\* One of those who end reads moves: who has a reference to an RCB changes by them.
LEMMA UsersMove ==
  ASSUME NEW e, NEW r, IsFiniteSet(Users(r)),
         \A h \in Recv!Enders : h # e => rPc'[h] = rPc[h] /\ pRCB'[h] = pRCB[h]
  PROVE  LET here == e \in Users(r)
             there == e \in Users(r)'
         IN  /\ IsFiniteSet(Users(r)') /\ Cardinality(Users(r)) \in Nat
             /\ (here <=> there) => Cardinality(Users(r)') = Cardinality(Users(r))
             /\ here /\ ~there => Cardinality(Users(r)') = Cardinality(Users(r)) - 1
             /\ ~here /\ there => Cardinality(Users(r)') = Cardinality(Users(r)) + 1
  <1>1. Users(r) \ {e} = Users(r)' \ {e}
    BY DEF Users
  <1> QED
    BY <1>1, CountChange

\* The references an RCB has, by what changes of it.
LEMMA ReferencesMove ==
  ASSUME ReadInv, NEW e \in Recv!Enders, NEW r \in RCBs,
         \A h \in Recv!Enders : h # e => rPc'[h] = rPc[h] /\ pRCB'[h] = pRCB[h]
  PROVE  LET one(b) == IF b THEN 1 ELSE 0
         IN  /\ IsFiniteSet(Users(r)') /\ RefOf(r)' \in Int /\ rRef[r] \in Int
             /\ RefOf(r)' = rRef[r] - one(r \in reading \cup unposted) - one(r \in up)
                             - one(e \in Users(r)) + one(r \in reading' \cup unposted')
                             + one(r \in up') + one(e \in Users(r)')
  <1> DEFINE n == Cardinality(Users(r))
             m == Cardinality(Users(r)')
  <1>1. IsFiniteSet(Users(r)) /\ rRef[r] = RefOf(r)
    BY DEF ReadInv, Referenced
  <1>2. /\ IsFiniteSet(Users(r)') /\ n \in Nat
        /\ m = n - (IF e \in Users(r) THEN 1 ELSE 0) + (IF e \in Users(r)' THEN 1 ELSE 0)
    <2>1. /\ IsFiniteSet(Users(r)') /\ n \in Nat
          /\ (e \in Users(r) <=> e \in Users(r)') => m = n
          /\ e \in Users(r) /\ e \notin Users(r)' => m = n - 1
          /\ e \notin Users(r) /\ e \in Users(r)' => m = n + 1
      BY <1>1, UsersMove
    <2> HIDE DEF m, n
    <2> QED
      BY <2>1
  <1>3. RefOf(r) = (IF r \in reading \cup unposted THEN 1 ELSE 0) + (IF r \in up THEN 1 ELSE 0) + n
    BY DEF RefOf
  <1>4. RefOf(r)' = (IF r \in reading' \cup unposted' THEN 1 ELSE 0)
                    + (IF r \in up' THEN 1 ELSE 0) + m
    BY DEF RefOf
  <1> HIDE DEF m, n
  <1> QED
    BY <1>1, <1>2, <1>3, <1>4

\* Nobody who ends reads moves.
LEMMA ReferencesStay ==
  ASSUME ReadInv, NEW r \in RCBs, r \in up <=> r \in up',
         \A h \in Recv!Enders : rPc'[h] = rPc[h] /\ pRCB'[h] = pRCB[h]
  PROVE  /\ IsFiniteSet(Users(r)')
         /\ (r \in reading \cup unposted <=> r \in reading' \cup unposted') => RefOf(r)' = rRef[r]
         /\ r \notin reading \cup unposted /\ r \in reading' \cup unposted' =>
               RefOf(r)' = rRef[r] + 1
  <1>1. Users(r)' = Users(r)
    BY DEF Users
  <1>2. IsFiniteSet(Users(r)) /\ rRef[r] = RefOf(r) /\ Cardinality(Users(r)) \in Nat
    BY FS_CardinalityType DEF ReadInv, Referenced
  <1> QED
    BY <1>1, <1>2 DEF RefOf

LEMMA ReferencedStep ==
  ASSUME ReadInv, [Recv!Next]_(Recv!vars)
  PROVE  Referenced'
  <1> SUFFICES ASSUME NEW q \in RCBs PROVE IsFiniteSet(Users(q)') /\ rRef'[q] = RefOf(q)'
    BY DEF Referenced
  <1>90. ReadTypes /\ ReadPlaces /\ OnePlace /\ LastFrees
    BY DEF ReadInv
  <1> DEFINE Good == IsFiniteSet(Users(q)') /\ rRef'[q] = RefOf(q)'
  <1> USE DEF Recv!At, Recv!Goto, Recv!lists, Recv!target, Recv!item
  <1>1. CASE UNCHANGED <<rRef, reading, up, unposted, rPc, pRCB>>
    BY <1>1, ReferencesStay
  <1>2. ASSUME NEW w \in Workers, Recv!WorkBegins(w) \/ Recv!WorkTakes(w) \/ Recv!WorkEnds(w)
        PROVE  Good
    <2>1. UNCHANGED <<rRef, reading, up, unposted>>
          /\ \A h \in Recv!Enders : rPc'[h] = rPc[h] /\ pRCB'[h] = pRCB[h]
      BY <1>2, <1>90, ReadersApart
         DEF Recv!WorkBegins, Recv!WorkTakes, Recv!WorkEnds, ReadTypes
    <2> QED
      BY <2>1, ReferencesStay
  <1>3. ASSUME NEW w \in Workers, Recv!WorkPosts(w) PROVE Good
    <2>0. PICK r : r = pRCB[w]
      OBVIOUS
    <2>1. /\ up' = up /\ \A h \in Recv!Enders : rPc'[h] = rPc[h] /\ pRCB'[h] = pRCB[h]
          /\ r \in RCBs
      BY <1>3, <2>0, <1>90, ReadersApart DEF Recv!WorkPosts, ReadTypes, ReadPlaces
    <2>2. /\ rRef' = [rRef EXCEPT ![r] = 1]
          /\ reading' \cup unposted' = reading \cup unposted \cup {r}
      BY <1>3, <2>0 DEF Recv!WorkPosts
    <2>3. CASE q # r
      BY <1>90, <2>1, <2>2, <2>3, ReferencesStay DEF ReadTypes
    <2>4. CASE q = r
      <3>1. r \notin reading \cup unposted \cup up /\ ~Completing(r) /\ ~Returning(r)
        BY <1>90, <2>0, <2>1 DEF OnePlace, Posting
      <3>2. Users(r) = {}
        BY <3>1, ReadersApart DEF Users, Completing, Returning
      <3>3. rRef[r] = 0
        BY <2>1, <3>1, <3>2, FS_EmptySet DEF ReadInv, Referenced, RefOf
      <3>4. IsFiniteSet(Users(r)') /\ RefOf(r)' = rRef[r] + 1
        BY <2>1, <2>2, <3>1, ReferencesStay
      <3> QED
        BY <1>90, <2>1, <2>2, <2>4, <3>3, <3>4 DEF ReadTypes
    <2> QED
      BY <2>3, <2>4
  <1>4. ASSUME NEW e \in Recv!Enders,
               \/ Recv!ReadClears(e) \/ Recv!Frees(e) \/ Recv!Schedules(e)
        PROVE  Good
    <2>1. /\ UNCHANGED <<rRef, reading, up, unposted>>
          /\ \A h \in Recv!Enders : h # e => rPc'[h] = rPc[h] /\ pRCB'[h] = pRCB[h]
          /\ e \in Users(q) <=> e \in Users(q)'
      BY <1>4, <1>90, ReadersApart
         DEF Recv!ReadClears, Recv!Frees, Recv!Schedules, ReadTypes, Users
    <2> QED
      BY <2>1, ReferencesMove
  <1>5. ASSUME NEW e \in Recv!Enders, Recv!Derefs(e) PROVE Good
    <2>1. /\ UNCHANGED <<reading, up, unposted>>
          /\ \A h \in Recv!Enders : h # e => rPc'[h] = rPc[h] /\ pRCB'[h] = pRCB[h]
          /\ (e \in Users(q) <=> q = pRCB[e]) /\ e \notin Users(q)'
          /\ rRef' = [rRef EXCEPT ![pRCB[e]] = @ - 1] /\ rRef \in [RCBs -> 0 .. 2]
      BY <1>5, <1>90, ReadersApart DEF Recv!Derefs, ReadTypes, Users
    <2>2. /\ IsFiniteSet(Users(q)')
          /\ RefOf(q)' = rRef[q] - IF e \in Users(q) THEN 1 ELSE 0
      BY <2>1, ReferencesMove
    <2> QED
      BY <2>1, <2>2
  <1>6. ASSUME NEW e \in Recv!Enders, NEW r \in RCBs,
               \/ Recv!ReadFails(e, r) \/ Recv!ReadDone(e, r) \/ Recv!MPReturnPacket(e, r)
        PROVE  Good
    <2>1. /\ \A h \in Recv!Enders : h # e => rPc'[h] = rPc[h] /\ pRCB'[h] = pRCB[h]
          /\ e \notin Users(q) /\ (e \in Users(q)' <=> q = r)
          /\ rRef \in [RCBs -> 0 .. 2] /\ unposted' = unposted
      BY <1>6, <1>90, ReadersApart
         DEF Recv!ReadFails, Recv!ReadDone, Recv!MPReturnPacket, ReadTypes, Users
    <2>2. r \in reading => r \notin unposted /\ r \notin up
      BY <1>90 DEF OnePlace
    <2>3. IsFiniteSet(Users(q)')
      BY <2>1, ReferencesMove
    <2>4. CASE Recv!ReadFails(e, r)
      <3>1. /\ reading' = reading \ {r} /\ r \in reading /\ up' = up /\ rRef' = rRef
        BY <2>4 DEF Recv!ReadFails
      <3> QED
        BY <2>1, <2>2, <2>3, <3>1, ReferencesMove
    <2>5. CASE Recv!ReadDone(e, r)
      <3>1. /\ reading' = reading \ {r} /\ r \in reading
            /\ \/ up' = up /\ rRef' = rRef
               \/ up' = up \cup {r} /\ rRef' = [rRef EXCEPT ![r] = @ + 1]
        BY <2>5 DEF Recv!ReadDone
      <3> QED
        BY <2>1, <2>2, <2>3, <3>1, ReferencesMove
    <2>6. CASE Recv!MPReturnPacket(e, r)
      <3>1. /\ up' = up \ {r} /\ r \in up /\ reading' = reading /\ rRef' = rRef
        BY <2>6 DEF Recv!MPReturnPacket
      <3> QED
        BY <2>1, <2>2, <2>3, <3>1, ReferencesMove
    <2> QED
      BY <1>6, <2>4, <2>5, <2>6
  <1>7. ASSUME \/ Recv!MediaReads \/ Recv!MediaWrites \/ Recv!HaltBegins \/ Recv!Halts
               \/ UNCHANGED Recv!vars
        PROVE  Good
    <2>1. UNCHANGED <<rRef, reading, up, unposted, rPc, pRCB>>
      BY <1>7 DEF Recv!MediaReads, Recv!MediaWrites, Recv!HaltBegins, Recv!Halts,
                  Recv!HaltCloses, Recv!HaltStops, Recv!HaltFlushes, Recv!HaltFrees, Recv!vars
    <2> QED
      BY <1>1, <2>1
  <1> HIDE DEF Good
  <1>8. Good
    BY <1>2, <1>3, <1>4, <1>5, <1>6, <1>7 DEF Recv!Next, Recv!Work, Recv!Ending
  <1> QED
    BY <1>8 DEF Good

LEMMA BusyStep ==
  ASSUME ReadInv, [Recv!Next]_(Recv!vars)
  PROVE  ReadBusy'
  <1>90. /\ ReadTypes /\ ReadPlaces /\ OnePlace
         /\ nBusyRecv = Cardinality(RCBs \ RecvFreeList) /\ IsFiniteSet(RCBs \ RecvFreeList)
    BY ReadersApart, FS_Subset DEF ReadInv, ReadBusy
  <1> USE DEF Recv!At, Recv!Goto, Recv!lists, Recv!target, Recv!item
  <1>1. ASSUME UNCHANGED <<RecvFreeList, nBusyRecv>> PROVE ReadBusy'
    BY <1>1, <1>90 DEF ReadBusy
  <1>2. ASSUME NEW w \in Workers, Recv!WorkTakes(w) PROVE ReadBusy'
    <2>1. CASE \E r \in RecvFreeList : RecvFreeList' = RecvFreeList \ {r} /\ nBusyRecv' = nBusyRecv + 1
      <3>1. PICK r \in RecvFreeList : RecvFreeList' = RecvFreeList \ {r} /\ nBusyRecv' = nBusyRecv + 1
        BY <2>1
      <3>2. /\ (RCBs \ RecvFreeList) \ {r} = (RCBs \ RecvFreeList') \ {r}
            /\ r \notin RCBs \ RecvFreeList /\ r \in RCBs \ RecvFreeList'
        BY <1>90, <3>1 DEF ReadTypes
      <3>3. Cardinality(RCBs \ RecvFreeList') = Cardinality(RCBs \ RecvFreeList) + 1
        BY <1>90, <3>2, CountChange
      <3> QED
        BY <1>90, <3>1, <3>3 DEF ReadBusy
    <2> QED
      BY <1>1, <1>2, <2>1 DEF Recv!WorkTakes
  <1>3. ASSUME NEW e \in Recv!Enders, Recv!Frees(e) PROVE ReadBusy'
    <2>1. PICK r : r = pRCB[e]
      OBVIOUS
    <2>2. /\ RecvFreeList' = RecvFreeList \cup {r} /\ nBusyRecv' = nBusyRecv - 1
          /\ r \in RCBs /\ r \notin RecvFreeList
      BY <1>3, <1>90, <2>1, ReadersApart
         DEF Recv!Frees, ReadTypes, ReadPlaces, OnePlace, Completing, Returning
    <2>3. /\ (RCBs \ RecvFreeList) \ {r} = (RCBs \ RecvFreeList') \ {r}
          /\ r \in RCBs \ RecvFreeList /\ r \notin RCBs \ RecvFreeList'
      BY <2>2
    <2>4. Cardinality(RCBs \ RecvFreeList') = Cardinality(RCBs \ RecvFreeList) - 1
      BY <1>90, <2>3, CountChange
    <2> QED
      BY <1>90, <2>2, <2>4 DEF ReadBusy
  <1>4. ASSUME NEW w \in Workers, Recv!WorkBegins(w) \/ Recv!WorkPosts(w) \/ Recv!WorkEnds(w)
        PROVE  UNCHANGED <<RecvFreeList, nBusyRecv>>
    BY <1>4 DEF Recv!WorkBegins, Recv!WorkPosts, Recv!WorkEnds
  <1>5. ASSUME NEW e \in Recv!Enders, Recv!ReadClears(e) \/ Recv!Derefs(e) \/ Recv!Schedules(e)
        PROVE  UNCHANGED <<RecvFreeList, nBusyRecv>>
    BY <1>5 DEF Recv!ReadClears, Recv!Derefs, Recv!Schedules
  <1>6. ASSUME NEW e \in Recv!Enders, NEW r \in RCBs,
               \/ Recv!ReadFails(e, r) \/ Recv!ReadDone(e, r) \/ Recv!MPReturnPacket(e, r)
        PROVE  UNCHANGED <<RecvFreeList, nBusyRecv>>
    BY <1>6 DEF Recv!ReadFails, Recv!ReadDone, Recv!MPReturnPacket
  <1>7. ASSUME \/ Recv!MediaReads \/ Recv!MediaWrites \/ Recv!HaltBegins \/ Recv!Halts
               \/ UNCHANGED Recv!vars
        PROVE  UNCHANGED <<RecvFreeList, nBusyRecv>>
    BY <1>7 DEF Recv!MediaReads, Recv!MediaWrites, Recv!HaltBegins, Recv!Halts,
                Recv!HaltCloses, Recv!HaltStops, Recv!HaltFlushes, Recv!HaltFrees, Recv!vars
  <1> QED
    BY <1>1, <1>2, <1>3, <1>4, <1>5, <1>6, <1>7 DEF Recv!Next, Recv!Work, Recv!Ending

LEMMA StopStep ==
  ASSUME ReadInv, [Recv!Next]_(Recv!vars)
  PROVE  AfterStop'
  <1>90. ReadTypes /\ ReadPlaces /\ OnePlace /\ AfterStop
    BY DEF ReadInv
  <1>91. nBusyRecv = 0 => RecvFreeList = RCBs
    <2>1. IsFiniteSet(RCBs \ RecvFreeList) /\ nBusyRecv = Cardinality(RCBs \ RecvFreeList)
      BY ReadersApart, FS_Subset DEF ReadInv, ReadBusy
    <2> QED
      BY <1>90, <2>1, FS_EmptySet DEF ReadTypes
  <1> USE <1>90, ReadersApart
      DEF ReadTypes, ReadPlaces, AfterStop, Recv!At, Recv!Goto, Recv!lists, Recv!target,
          Recv!item
  <1>1. CASE UNCHANGED Recv!vars
    BY <1>1 DEF Recv!vars
  <1>2. ASSUME NEW w \in Workers, Recv!WorkBegins(w) PROVE AfterStop'
    BY <1>2 DEF Recv!WorkBegins
  <1>3. ASSUME NEW w \in Workers, Recv!WorkTakes(w) PROVE AfterStop'
    BY <1>3 DEF Recv!WorkTakes
  <1>4. ASSUME NEW w \in Workers, Recv!WorkPosts(w) PROVE AfterStop'
    BY <1>4 DEF Recv!WorkPosts
  <1>5. ASSUME NEW w \in Workers, Recv!WorkEnds(w) PROVE AfterStop'
    BY <1>5 DEF Recv!WorkEnds
  <1>6. ASSUME NEW e \in Recv!Enders, Recv!ReadClears(e) PROVE AfterStop'
    BY <1>6 DEF Recv!ReadClears
  <1>7. ASSUME NEW e \in Recv!Enders, Recv!Derefs(e) PROVE AfterStop'
    BY <1>7 DEF Recv!Derefs
  <1>8. ASSUME NEW e \in Recv!Enders, Recv!Frees(e) PROVE AfterStop'
    BY <1>8 DEF Recv!Frees
  <1>9. ASSUME NEW e \in Recv!Enders, Recv!Schedules(e) PROVE AfterStop'
    BY <1>9 DEF Recv!Schedules
  <1>10. ASSUME NEW e \in Recv!Enders, NEW r \in RCBs, Recv!ReadFails(e, r) PROVE AfterStop'
    BY <1>10 DEF Recv!ReadFails
  <1>11. ASSUME NEW e \in Recv!Enders, NEW r \in RCBs, Recv!ReadDone(e, r) PROVE AfterStop'
    BY <1>11 DEF Recv!ReadDone
  <1>12. ASSUME NEW e \in Recv!Enders, NEW r \in RCBs, Recv!MPReturnPacket(e, r) PROVE AfterStop'
    BY <1>12 DEF Recv!MPReturnPacket
  <1>13. CASE Recv!MediaReads
    BY <1>13 DEF Recv!MediaReads
  <1>14. CASE Recv!MediaWrites
    BY <1>14 DEF Recv!MediaWrites
  <1>15. CASE Recv!HaltBegins
    BY <1>15 DEF Recv!HaltBegins
  <1>16. CASE Recv!HaltCloses
    BY <1>16 DEF Recv!HaltCloses
  <1>17. CASE Recv!HaltStops
    BY <1>17 DEF Recv!HaltStops
  <1>18. CASE Recv!HaltFlushes
    BY <1>18 DEF Recv!HaltFlushes
  <1>19. CASE Recv!HaltFrees
    BY <1>19, <1>91 DEF Recv!HaltFrees
  <1> QED
    BY <1>1, <1>2, <1>3, <1>4, <1>5, <1>6, <1>7, <1>8, <1>9, <1>10, <1>11, <1>12, <1>13, <1>14, <1>15, <1>16, <1>17, <1>18, <1>19
       DEF Recv!Next, Recv!Work, Recv!Ending, Recv!Halts

LEMMA ReadStep == ReadInv /\ [Recv!Next]_(Recv!vars) => ReadInv'
  BY ShapeStep, ReferencedStep, BusyStep, StopStep DEF Shape, ReadInv

\* What the run checks follows.
LEMMA ReadersAccounted == ReadInv => Recv!ReadsAccounted
  <1> SUFFICES ASSUME ReadInv PROVE Recv!ReadsAccounted
    OBVIOUS
  <1>1. \A S : Recv!Cardinality(S) = Cardinality(S)
    BY DEF Recv!Cardinality, Cardinality
  <1>2. ReadTypes /\ ReadPlaces /\ OnePlace /\ LastFrees /\ ReadBusy /\ AfterStop
    BY DEF ReadInv
  <1>3. Recv!BusyExact
    BY <1>1, <1>2 DEF ReadBusy, OnePlace, ReadTypes, Recv!BusyExact
  <1>4. Recv!TypeOK
    <2>1. nBusyRecv \in 0 .. Cardinality(RCBs)
      <3>1. Cardinality(RCBs \ RecvFreeList) \in Nat /\ Cardinality(RCBs) \in Nat
            /\ Cardinality(RCBs \ RecvFreeList) <= Cardinality(RCBs)
        BY ReadersApart, FS_Subset, FS_CardinalityType
      <3> QED
        BY <1>2, <3>1 DEF ReadBusy
    <2> QED
      BY <1>1, <1>2, <2>1, ReadersApart DEF Recv!TypeOK, ReadTypes, ReadPlaces, Recv!At
  <1>5. Recv!ReferencesExact
    <2>1. \A r : Users(r) = {e \in Recv!Enders : pRCB[e] = r /\ rPc[e] \in {"clear", "deref"}}
      BY DEF Users
    <2> QED
      BY <1>1, <2>1 DEF ReadInv, Referenced, RefOf, Recv!ReferencesExact
  <1>6. Recv!FreedUnlessLate
    <2> SUFFICES ASSUME rHalt = "freed", "post" \notin rFlags
                 PROVE  /\ RecvFreeList = RCBs /\ reading = {} /\ up = {} /\ ~queued
                        /\ \A h \in Recv!Threads :
                              Recv!At(h, "idle") \/ (h \in Returners /\ Recv!At(h, "unlock"))
      BY DEF Recv!FreedUnlessLate
    <2>1. RecvFreeList = RCBs /\ reading = {} /\ ~queued
          /\ (\A w \in Workers : rPc[w] = "idle") /\ (\A e \in Completers : rPc[e] = "idle")
      BY <1>2 DEF AfterStop
    <2>2. up = {}
      BY <1>2, <2>1 DEF OnePlace, ReadTypes
    <2>3. \A e \in Returners : rPc[e] \in {"idle", "unlock"}
      BY <1>2, <2>1, ReadersApart DEF OnePlace, ReadTypes, ReadPlaces, Returning
    <2> QED
      BY <2>1, <2>2, <2>3, ReadersApart DEF Recv!At
  <1> QED
    BY <1>3, <1>4, <1>5, <1>6 DEF ReadInv, Recv!ReadsAccounted

\* ReadsAccounted, of every number of RCBs and threads: the references and the busy count
\* are those of the reads and packets that are out, and the halt frees what nobody uses.
THEOREM ReadsAlwaysAccounted == Recv!Spec => []ReadsAccounted
  <1>1. Recv!Init => ReadInv
    BY ReadInit
  <1>2. ReadInv /\ [Recv!Next]_(Recv!vars) => ReadInv'
    BY ReadStep
  <1>3. ReadInv => ReadsAccounted
    BY ReadersAccounted DEF ReadsAccounted
  <1> QED
    BY <1>1, <1>2, <1>3, PTL DEF Recv!Spec

-----------------------------------------------------------------------------
(* Sends of ndisedge: the packets of the wait list, the TCBs and their two *)
(* references, the counts of writes, and the halt.                         *)


InSend == {"test", "take", "queue", "copy", "post", "check", "skipped", "deref", "reclaim"}
Ending == {"free", "complete", "pop"}

Bits == {"post", "disconnected", "halt", "removed"}

DeviceTypes ==
    /\ Flags \subseteq Bits
    /\ halt \in {"up", "stop", "flush", "wait", "freed"}
    /\ media \in [n : Nat, old : {none} \cup SUBSET Bits]

TCBTypes ==
    /\ SendFreeList \subseteq TCBs /\ sent \subseteq TCBs /\ nBusySend \in Int
    /\ Ref \in [TCBs -> Int] /\ OrgSendPacket \in [TCBs -> Sends \cup {none}]

PacketTypes ==
    /\ SendWaitList \in Seq(Sends)
    /\ canceling \subseteq Sends /\ given \subseteq Sends /\ dropped \subseteq Sends
    /\ completed \in [Sends -> Nat] /\ stale \in BOOLEAN

LocalTypes ==
    /\ sPc \in [Send!Threads -> {"idle"} \cup InSend \cup Ending]
    /\ array \in [Send!Threads -> Seq(Sends)]
    /\ Status \in [Send!Threads -> {"failure", "pending", "success"}]
    /\ pTCB \in [Send!Threads -> TCBs \cup {none}]
    /\ Packet \in [Send!Threads -> Sends \cup {none}]

SendTypes == DeviceTypes /\ TCBTypes /\ PacketTypes /\ LocalTypes

\* Where a thread may be, and what it has there.
SendPlaces ==
    /\ \A h \in Send!Threads : array[h] # <<>> <=> sPc[h] \in InSend
    /\ \A h \in Send!Threads : sPc[h] \in {"copy", "post", "reclaim", "free"} => pTCB[h] \in TCBs
    /\ \A h \in Send!Threads : sPc[h] = "check" /\ Status[h] = "failure" => pTCB[h] \in TCBs
    /\ \A h \in Send!Threads : Packet[h] # none => sPc[h] \in {"free", "complete"}
    /\ \A h \in Callers : sPc[h] \notin Ending

\* The packets that thread h is still to deal with: the first of its array is no longer
\* one of them when it has been queued or the target has taken it.
Live(h)     == sPc[h] = "check" => Status[h] = "failure"
Holds(h, p) == p \in Behind(array[h]) \/ (sPc[h] \in InSend /\ Live(h) /\ p = Head(array[h]))

\* Every packet is in one place.
OneThread ==
    /\ \A h \in Send!Threads : Once(array[h])
    /\ \A h, g \in Send!Threads : \A p \in Sends : Holds(h, p) /\ Holds(g, p) => h = g
    /\ \A h, g \in Send!Threads : Packet[h] = Packet[g] /\ Packet[h] # none => h = g

Reported(p) == \E h \in Send!Threads : Packet[h] = p
Written(p)  == \E t \in sent : OrgSendPacket[t] = p

PacketPlaces ==
    /\ Once(SendWaitList)
    /\ \A p \in Sends, h \in Send!Threads : Holds(h, p) =>
          p \in given /\ p \notin Of(SendWaitList) \cup canceling \cup dropped
          /\ ~Written(p) /\ ~Reported(p)
    /\ \A p \in Of(SendWaitList) \cup canceling \cup dropped :
          p \in given /\ ~Reported(p) /\ \A t \in TCBs : OrgSendPacket[t] # p
    /\ Of(SendWaitList) \cap canceling = {}
    /\ dropped \cap (Of(SendWaitList) \cup canceling) = {}
    /\ \A t \in TCBs : OrgSendPacket[t] \in given \cup {none}
    /\ \A t \in sent : ~Reported(OrgSendPacket[t])
    /\ \A h \in Send!Threads : Packet[h] \in given \cup {none}

\* It is completed when it has left all of them, or when its thread is about to leave it.
Leaving(h, p) == sPc[h] \in {"deref", "reclaim"} /\ p = Head(array[h])

Completions ==
    /\ \A p \in Sends : completed[p] \in {0, 1}
    /\ \A p \in Sends, h \in Send!Threads :
          Holds(h, p) => (completed[p] = 1 <=> Leaving(h, p))
    /\ \A p \in Sends :
          p \notin given \/ p \in Of(SendWaitList) \cup canceling \cup dropped \/ Written(p) \/ Reported(p)
             => completed[p] = 0

KeptSomewhere ==
    \A p \in given : completed[p] = 0 =>
        \/ p \in Of(SendWaitList) \cup canceling \cup dropped \/ Written(p) \/ Reported(p)
        \/ \E h \in Send!Threads : Holds(h, p)

\* A TCB is free, with one thread, or with the target.
Prepared(h)  == sPc[h] = "post" \/ (sPc[h] = "check" /\ Status[h] = "failure")
HasTCB(h, t) ==
    /\ pTCB[h] = t
    /\ \/ sPc[h] \in {"copy", "reclaim", "free"} \/ Prepared(h)
       \/ sPc[h] = "deref" /\ OrgSendPacket[t] = Head(array[h])

OneUser ==
    /\ \A h, g \in Send!Threads : \A t \in TCBs : HasTCB(h, t) /\ HasTCB(g, t) => h = g
    /\ \A h \in Send!Threads : \A t \in TCBs : HasTCB(h, t) => t \notin SendFreeList \cup sent
    /\ SendFreeList \cap sent = {}

\* The packet a TCB carries, and its reference.
CarriedAt(h, t) ==
    /\ OrgSendPacket[t] \notin Behind(array[h])
    /\ sPc[h] \in {"test", "take", "queue", "copy", "skipped"} => OrgSendPacket[t] # Head(array[h])
    /\ sPc[h] = "deref" /\ OrgSendPacket[t] = Head(array[h]) => pTCB[h] = t /\ Ref[t] = 1
    /\ sPc[h] = "copy" /\ pTCB[h] = t => OrgSendPacket[t] = none
    /\ Prepared(h) /\ pTCB[h] = t => OrgSendPacket[t] = Head(array[h]) /\ Ref[t] = 1
    /\ sPc[h] = "reclaim" /\ pTCB[h] = t => OrgSendPacket[t] = Head(array[h])
    /\ sPc[h] = "free" /\ pTCB[h] = t => OrgSendPacket[t] = Packet[h] /\ Packet[h] # none
    /\ sPc[h] = "complete" => OrgSendPacket[t] # Packet[h]

CarriedOnce ==
    /\ \A t \in SendFreeList : OrgSendPacket[t] = none
    /\ \A t \in sent : Ref[t] = 1 /\ OrgSendPacket[t] # none
    /\ \A t, u \in TCBs : OrgSendPacket[t] = OrgSendPacket[u] /\ OrgSendPacket[t] # none => t = u
    /\ \A h \in Send!Threads : sPc[h] = "complete" => Packet[h] # none

Carries == CarriedOnce /\ \A h \in Send!Threads, t \in TCBs : CarriedAt(h, t)

Taken == {pTCB[h] : h \in {g \in Send!Threads : sPc[g] = "copy"}}

SendBusy == nBusySend = Cardinality(TCBs \ (SendFreeList \cup Taken))

\* After MPHalt has begun nobody sends for NDIS, and after the target has stopped nobody at all.
HaltStages ==
    /\ halt # "up" => canceling = {} /\ \A h \in Callers : sPc[h] = "idle"
    /\ halt \in {"flush", "wait", "freed"} => sent = {} /\ \A h \in Send!Threads : sPc[h] = "idle"
    /\ halt \in {"wait", "freed"} => SendWaitList = <<>>
    /\ halt = "freed" /\ ~stale => SendFreeList = TCBs

SendInv ==
    /\ SendTypes /\ SendPlaces /\ HaltStages
    /\ ~stale => /\ OneThread /\ PacketPlaces /\ Completions /\ KeptSomewhere
                 /\ OneUser /\ Carries /\ SendBusy

-----------------------------------------------------------------------------
(* The sequences of the send path.                                         *)

LEMMA SendCardinality == \A S : Send!Cardinality(S) = Cardinality(S)
  BY DEF Send!Cardinality, Cardinality

\* What a cancellation leaves of the packets that wait.
LEMMA WithoutOf ==
  ASSUME SendWaitList \in Seq(Sends), NEW ps
  PROVE  /\ Send!WaitListWithout(ps) \in Seq(Sends)
         /\ Once(SendWaitList) => Once(Send!WaitListWithout(ps))
         /\ Of(Send!WaitListWithout(ps)) = Of(SendWaitList) \ ps
  <1> DEFINE left == {i \in DOMAIN SendWaitList : SendWaitList[i] \notin ps}
             n == Send!Cardinality(left)
             upto(i) == {j \in left : j <= i}
             nth(k) == CHOOSE i \in left : Send!Cardinality(upto(i)) = k
             w == [k \in 1 .. n |-> SendWaitList[nth(k)]]
  <1>1. w = Send!WaitListWithout(ps)
    BY Zenon DEF Send!WaitListWithout
  <1>2. /\ DOMAIN SendWaitList = 1 .. Len(SendWaitList) /\ Len(SendWaitList) \in Nat
        /\ \A i \in 1 .. Len(SendWaitList) : SendWaitList[i] \in Sends
    BY LenProperties, ElementOfSeq
  <1>3. left \subseteq 1 .. Len(SendWaitList) /\ left \subseteq Nat
    BY <1>2
  <1>4. IsFiniteSet(left)
    <2>1. IsFiniteSet(1 .. Len(SendWaitList))
      BY <1>2, FS_Interval
    <2> HIDE DEF left
    <2> QED
      BY <1>3, <2>1, FS_Subset
  <1>13. n = Cardinality(left) /\ \A i : Send!Cardinality(upto(i)) = Cardinality(upto(i))
    BY SendCardinality
  <1>5. /\ n \in Nat
        /\ \A i \in left : Cardinality(upto(i)) \in 1 .. n
        /\ \A k \in 1 .. n : \E i \in left : Cardinality(upto(i)) = k
        /\ \A i, l \in left : Cardinality(upto(i)) = Cardinality(upto(l)) => i = l
    <2>1. /\ Cardinality(left) \in Nat
          /\ \A i \in left : Cardinality(upto(i)) \in 1 .. Cardinality(left)
          /\ \A i, l \in left : Cardinality(upto(i)) = Cardinality(upto(l)) => i = l
          /\ \A k \in 1 .. Cardinality(left) : \E i \in left : Cardinality(upto(i)) = k
      <3> HIDE DEF left
      <3> QED
        BY <1>3, <1>4, RanksOf
    <2> HIDE DEF left, upto, n
    <2> QED
      BY <1>13, <2>1
  <1> HIDE DEF upto, n
  <1>6. \A k \in 1 .. n : nth(k) \in left /\ Cardinality(upto(nth(k))) = k
    BY <1>5, <1>13
  <1>7. \A i \in left : i = nth(Cardinality(upto(i)))
    BY <1>5, <1>6
  <1> HIDE DEF nth
  <1>8. w \in [1 .. n -> Sends]
    BY <1>2, <1>3, <1>6
  <1>9. Once(SendWaitList) => \A i, j \in 1 .. n : w[i] = w[j] => i = j
    <2> SUFFICES ASSUME Once(SendWaitList), NEW i \in 1 .. n, NEW j \in 1 .. n, w[i] = w[j] PROVE i = j
      OBVIOUS
    <2>1. SendWaitList[nth(i)] = SendWaitList[nth(j)]
      OBVIOUS
    <2>2. nth(i) = nth(j)
      BY <1>3, <1>6, <2>1 DEF Once
    <2> QED
      BY <1>6, <2>2
  <1>10. {w[i] : i \in 1 .. n} = Of(SendWaitList) \ ps
    <2>1. \A i \in 1 .. n : w[i] \in Of(SendWaitList) \ ps
      BY <1>3, <1>6 DEF Of
    <2>2. ASSUME NEW x \in Of(SendWaitList) \ ps PROVE \E i \in 1 .. n : w[i] = x
      <3>1. PICK l \in left : SendWaitList[l] = x
        BY <1>2 DEF Of
      <3>2. Cardinality(upto(l)) \in 1 .. n /\ nth(Cardinality(upto(l))) = l
        BY <1>5, <1>7
      <3> QED
        BY <3>1, <3>2
    <2> HIDE DEF w
    <2> QED
      BY <2>1, <2>2
  <1> HIDE DEF w
  <1>11. CASE n = 0
    <2>1. w = <<>>
      BY <1>8, <1>11
    <2>2. Of(SendWaitList) \ ps = {}
      BY <1>10, <1>11
    <2> QED
      BY <1>1, <2>1, <2>2, NoneOf
  <1>12. CASE n > 0
    <2>1. w \in Seq(Sends) /\ Of(w) = {w[i] : i \in 1 .. n}
      BY <1>5, <1>8, <1>12, ArrayOf
    <2>2. Once(SendWaitList) => Once(w)
      BY <1>5, <1>8, <1>9, <1>12, ArrayOnce
    <2> QED
      BY <1>1, <1>10, <2>1, <2>2
  <1> QED
    BY <1>5, <1>11, <1>12

-----------------------------------------------------------------------------
(* The packets ndisedge sends.                                             *)

LEMMA SendersApart ==
  /\ IsFiniteSet(TCBs) /\ none \notin Sends /\ none \notin TCBs
  /\ Send!Threads = Callers \cup Dpcs /\ Callers \cap Dpcs = {} /\ MaxArray \in Nat
  <1>1. Send!NdisEdgeSendAssumption
    BY PartsAssumption
  <1>2. Send!IsFiniteSet(TCBs) <=> IsFiniteSet(TCBs)
    BY DEF Send!IsFiniteSet, IsFiniteSet
  <1> QED
    BY <1>1, <1>2 DEF Send!NdisEdgeSendAssumption, Send!Threads

Accounts ==
    OneThread /\ PacketPlaces /\ Completions /\ KeptSomewhere /\ OneUser /\ Carries /\ SendBusy

LEMMA SendInit == Send!Init => SendInv
  <1> SUFFICES ASSUME Send!Init PROVE SendInv
    OBVIOUS
  <1> USE SendersApart, NoneOf
  <1>0. \A h \in Send!Threads : array[h] = <<>> /\ sPc[h] = "idle" /\ Packet[h] = none
    BY DEF Send!Init
  <1>1. SendTypes
    <2>1. /\ Ref \in [TCBs -> Int] /\ OrgSendPacket \in [TCBs -> Sends \cup {none}]
          /\ completed \in [Sends -> Nat] /\ SendWaitList \in Seq(Sends)
      BY DEF Send!Init
    <2>2. /\ sPc \in [Send!Threads -> {"idle"} \cup InSend \cup Ending]
          /\ array \in [Send!Threads -> Seq(Sends)]
          /\ Status \in [Send!Threads -> {"failure", "pending", "success"}]
          /\ pTCB \in [Send!Threads -> TCBs \cup {none}]
          /\ Packet \in [Send!Threads -> Sends \cup {none}]
      BY DEF Send!Init
    <2>3. media \in [n : Nat, old : {none} \cup SUBSET Bits]
      BY DEF Send!Init
    <2>4. /\ Flags \subseteq Bits /\ halt = "up" /\ SendFreeList \subseteq TCBs /\ sent = {}
          /\ nBusySend = 0 /\ canceling = {} /\ given = {} /\ dropped = {} /\ stale = FALSE
      BY DEF Send!Init, Bits
    <2> QED
      <3>1. Flags \subseteq Bits /\ halt \in {"up", "stop", "flush", "wait", "freed"}
        BY <2>4
      <3>2. SendFreeList \subseteq TCBs /\ sent \subseteq TCBs /\ nBusySend \in Int
        BY <2>4
      <3>3. canceling \subseteq Sends /\ given \subseteq Sends /\ dropped \subseteq Sends
        BY <2>4
      <3>4. stale \in BOOLEAN
        BY <2>4
      <3> QED
        BY <2>1, <2>2, <2>3, <3>1, <3>2, <3>3, <3>4
           DEF SendTypes, DeviceTypes, TCBTypes, PacketTypes, LocalTypes
  <1>2. SendPlaces /\ HaltStages
    BY <1>0 DEF Send!Init, SendPlaces, HaltStages, InSend, Ending
  <1>3. OneThread /\ PacketPlaces /\ Completions /\ KeptSomewhere
    <2>1. \A p : \A h \in Send!Threads : ~Holds(h, p)
      BY <1>0 DEF Holds, InSend
    <2>2. Of(SendWaitList) = {} /\ canceling = {} /\ dropped = {} /\ given = {} /\ sent = {}
          /\ \A p \in Sends : completed[p] = 0
      BY DEF Send!Init
    <2>3. \A t \in TCBs : OrgSendPacket[t] = none
      BY DEF Send!Init
    <2> QED
      BY <1>0, <2>1, <2>2, <2>3
         DEF OneThread, PacketPlaces, Completions, KeptSomewhere, Send!Init
  <1>4. OneUser /\ Carries
    BY <1>0 DEF Send!Init, OneUser, Carries, CarriedOnce, CarriedAt, HasTCB, Prepared
  <1>5. SendBusy
    <2>1. TCBs \ (SendFreeList \cup Taken) = {} /\ nBusySend = 0
      BY DEF Send!Init
    <2> QED
      BY <2>1, FS_EmptySet DEF SendBusy
  <1> QED
    BY <1>1, <1>2, <1>3, <1>4, <1>5 DEF SendInv

\* The end of the loop's body: the packet is no longer in the array.
LEMMA NextOf ==
  ASSUME SendTypes, NEW h \in Send!Threads, array[h] # <<>>, Send!NextPacket(h)
  PROVE  /\ sPc' \in [Send!Threads -> {"idle"} \cup InSend \cup Ending]
         /\ array' \in [Send!Threads -> Seq(Sends)]
         /\ Status' \in [Send!Threads -> {"failure", "pending", "success"}]
         /\ pTCB' \in [Send!Threads -> TCBs \cup {none}]
         /\ Packet' \in [Send!Threads -> Sends \cup {none}]
         /\ \A g \in Send!Threads : g # h =>
               /\ sPc'[g] = sPc[g] /\ array'[g] = array[g] /\ Status'[g] = Status[g]
               /\ pTCB'[g] = pTCB[g] /\ Packet'[g] = Packet[g]
         /\ \/ /\ sPc'[h] = "test" /\ array'[h] # <<>> /\ Of(array'[h]) = Behind(array[h])
               /\ Of(array'[h]) = {Head(array'[h])} \cup Behind(array'[h])
               /\ Head(array'[h]) \in Sends /\ Behind(array'[h]) \subseteq Sends
               /\ Once(array[h]) => Once(array'[h]) /\ Head(array'[h]) \notin Behind(array'[h])
               /\ Status'[h] = Status[h] /\ pTCB'[h] = pTCB[h] /\ Packet'[h] = Packet[h]
            \/ /\ sPc'[h] = "idle" /\ array'[h] = <<>> /\ Behind(array[h]) = {}
               /\ Status'[h] = "failure" /\ pTCB'[h] = none /\ Packet'[h] = none
  <1>1. array[h] \in Seq(Sends)
    BY DEF SendTypes, LocalTypes
  <1>2. CASE Len(array[h]) > 1
    <2>1. /\ array' = [array EXCEPT ![h] = Tail(array[h])] /\ sPc' = [sPc EXCEPT ![h] = "test"]
          /\ UNCHANGED <<Status, pTCB, Packet>>
      BY <1>2 DEF Send!NextPacket, Send!Goto
    <2>2. PICK s : s = Tail(array[h])
      OBVIOUS
    <2>3. /\ s \in Seq(Sends) /\ s # <<>> /\ Of(s) = Behind(array[h])
          /\ (Once(array[h]) => Once(s))
      BY <1>1, <1>2, <2>2, TailOf
    <2>4. /\ Of(s) = {Head(s)} \cup Behind(s) /\ Head(s) \in Sends /\ Behind(s) \subseteq Sends
          /\ (Once(s) => Head(s) \notin Behind(s))
      BY <2>3, TailOf
    <2>5. array' = [array EXCEPT ![h] = s]
      BY <2>1, <2>2
    <2> QED
      BY <2>1, <2>3, <2>4, <2>5 DEF SendTypes, LocalTypes, InSend
  <1>3. CASE ~(Len(array[h]) > 1)
    <2>1. /\ array' = [array EXCEPT ![h] = <<>>] /\ Status' = [Status EXCEPT ![h] = "failure"]
          /\ pTCB' = [pTCB EXCEPT ![h] = none] /\ Packet' = [Packet EXCEPT ![h] = none]
          /\ sPc' = [sPc EXCEPT ![h] = "idle"]
      BY <1>3 DEF Send!NextPacket, Send!Goto
    <2>2. Behind(array[h]) = {}
      BY <1>1, <1>3, TailOf
    <2>3. /\ sPc'[h] = "idle" /\ array'[h] = <<>> /\ Status'[h] = "failure"
          /\ pTCB'[h] = none /\ Packet'[h] = none
      BY <2>1 DEF SendTypes, LocalTypes
    <2>4. \A g \in Send!Threads : g # h =>
               /\ sPc'[g] = sPc[g] /\ array'[g] = array[g] /\ Status'[g] = Status[g]
               /\ pTCB'[g] = pTCB[g] /\ Packet'[g] = Packet[g]
      BY <2>1 DEF SendTypes, LocalTypes
    <2>5. /\ sPc' \in [Send!Threads -> {"idle"} \cup InSend \cup Ending]
          /\ Status' \in [Send!Threads -> {"failure", "pending", "success"}]
          /\ pTCB' \in [Send!Threads -> TCBs \cup {none}]
          /\ Packet' \in [Send!Threads -> Sends \cup {none}]
      BY <2>1 DEF SendTypes, LocalTypes, InSend, Ending
    <2>6. array' \in [Send!Threads -> Seq(Sends)]
      BY <2>1, NoneOf DEF SendTypes, LocalTypes
    <2> QED
      BY <2>2, <2>3, <2>4, <2>5, <2>6
  <1> QED
    BY <1>2, <1>3

\* The beginning of an array.
LEMMA BeginsOf ==
  ASSUME SendTypes, NEW h \in Send!Threads, NEW s \in Seq(Sends), Send!Begins(h, s)
  PROVE  /\ array' = [array EXCEPT ![h] = s] /\ array' \in [Send!Threads -> Seq(Sends)]
         /\ array'[h] = s
         /\ Status' = [Status EXCEPT ![h] = "failure"] /\ pTCB' = [pTCB EXCEPT ![h] = none]
         /\ sPc' = [sPc EXCEPT ![h] = "test"]
  BY DEF Send!Begins, Send!Goto, SendTypes, LocalTypes

LEMMA SendTypesStep ==
  ASSUME SendInv, [Send!Next]_(Send!vars)
  PROVE  SendTypes'
  <1>90. SendTypes /\ SendPlaces
    BY DEF SendInv
  <1> USE <1>90, SendersApart
      DEF SendTypes, DeviceTypes, TCBTypes, PacketTypes, LocalTypes, SendPlaces, Bits, InSend,
          Ending, Send!At, Send!Goto, Send!Complete, Send!lists, Send!packets, Send!locals,
          Send!device
  <1>1. CASE UNCHANGED Send!vars
    BY <1>1 DEF Send!vars, Send!device, Send!lists, Send!packets, Send!locals
  <1>2. ASSUME NEW h \in Send!Threads, Send!MPSendPackets(h) PROVE SendTypes'
    <2>1. DeviceTypes'
      BY <1>2 DEF Send!MPSendPackets
    <2>2. TCBTypes'
      BY <1>2 DEF Send!MPSendPackets
    <2>3. PacketTypes'
      BY <1>2 DEF Send!MPSendPackets
    <2>4. LocalTypes'
      <3>0. PICK n \in 1 .. MaxArray : \E s \in [1 .. n -> Sends \ given] : Send!Begins(h, s)
        BY <1>2 DEF Send!MPSendPackets
      <3>1. PICK s \in [1 .. n -> Sends \ given] : Send!Begins(h, s)
        BY <3>0
      <3>2. s \in Seq(Sends)
        BY ArrayOf
      <3>3. /\ array' \in [Send!Threads -> Seq(Sends)] /\ Status' = [Status EXCEPT ![h] = "failure"]
            /\ pTCB' = [pTCB EXCEPT ![h] = none] /\ sPc' = [sPc EXCEPT ![h] = "test"]
        BY <3>1, <3>2, BeginsOf
      <3>4. Packet' = Packet
        BY <1>2 DEF Send!MPSendPackets
      <3> QED
        BY <3>3, <3>4
    <2> QED
      BY <2>1, <2>2, <2>3, <2>4
  <1>3. ASSUME NEW h \in Send!Threads, Send!SendTests(h) PROVE SendTypes'
    BY <1>3 DEF Send!SendTests
  <1>4. ASSUME NEW h \in Send!Threads, Send!SendTakes(h) PROVE SendTypes'
    <2>1. DeviceTypes'
      BY <1>4 DEF Send!SendTakes
    <2>2. TCBTypes'
      BY <1>4 DEF Send!SendTakes
    <2>3. PacketTypes'
      BY <1>4 DEF Send!SendTakes
    <2>4. LocalTypes'
      <3>1. \E t \in TCBs \cup {none}, x \in InSend :
               pTCB' = [pTCB EXCEPT ![h] = t] /\ sPc' = [sPc EXCEPT ![h] = x]
        BY <1>4 DEF Send!SendTakes
      <3>2. UNCHANGED <<array, Status, Packet>>
        BY <1>4 DEF Send!SendTakes
      <3> QED
        BY <3>1, <3>2
    <2> QED
      BY <2>1, <2>2, <2>3, <2>4
  <1>5. ASSUME NEW h \in Send!Threads, Send!SendQueues(h) PROVE SendTypes'
    <2>1. DeviceTypes'
      BY <1>5 DEF Send!SendQueues
    <2>2. TCBTypes'
      BY <1>5 DEF Send!SendQueues
    <2>3. PacketTypes'
      BY <1>5 DEF Send!SendQueues
    <2>4. LocalTypes'
      BY <1>5 DEF Send!SendQueues
    <2> QED
      BY <2>1, <2>2, <2>3, <2>4
  <1>6. ASSUME NEW h \in Send!Threads, Send!SendCopies(h) PROVE SendTypes'
    <2>1. DeviceTypes'
      BY <1>6 DEF Send!SendCopies
    <2>2. TCBTypes'
      BY <1>6 DEF Send!SendCopies
    <2>3. PacketTypes'
      BY <1>6 DEF Send!SendCopies
    <2>4. LocalTypes'
      BY <1>6 DEF Send!SendCopies
    <2> QED
      BY <2>1, <2>2, <2>3, <2>4
  <1>7. ASSUME NEW h \in Send!Threads, Send!SendPosts(h) PROVE SendTypes'
    <2>1. DeviceTypes'
      BY <1>7 DEF Send!SendPosts
    <2>2. TCBTypes'
      BY <1>7 DEF Send!SendPosts
    <2>3. PacketTypes'
      BY <1>7 DEF Send!SendPosts
    <2>4. LocalTypes'
      <3>1. /\ sPc' = [sPc EXCEPT ![h] = "check"] /\ UNCHANGED <<array, pTCB, Packet>>
            /\ Status' = [Status EXCEPT ![h] = "success"] \/ Status' = [Status EXCEPT ![h] = "failure"]
        BY <1>7 DEF Send!SendPosts
      <3> QED
        BY <3>1
    <2> QED
      BY <2>1, <2>2, <2>3, <2>4
  <1>8. ASSUME NEW h \in Send!Threads, Send!SendGoesOn(h) PROVE SendTypes'
    <2>1. DeviceTypes'
      BY <1>8 DEF Send!SendGoesOn
    <2>2. TCBTypes'
      BY <1>8 DEF Send!SendGoesOn
    <2>3. PacketTypes'
      BY <1>8 DEF Send!SendGoesOn
    <2>4. LocalTypes'
      <3>1. array[h] # <<>>
        BY <1>8 DEF Send!SendGoesOn
      <3>2. Send!NextPacket(h) => LocalTypes'
        <4> HIDE DEF SendTypes
        <4> QED
          BY <3>1, NextOf
      <3> QED
        BY <1>8, <3>2 DEF Send!SendGoesOn
    <2> QED
      BY <2>1, <2>2, <2>3, <2>4
  <1>9. ASSUME NEW h \in Send!Threads, Send!SendFails(h) PROVE SendTypes'
    <2>1. DeviceTypes'
      BY <1>9 DEF Send!SendFails
    <2>2. TCBTypes'
      BY <1>9 DEF Send!SendFails
    <2>3. PacketTypes'
      BY <1>9 DEF Send!SendFails
    <2>4. LocalTypes'
      BY <1>9 DEF Send!SendFails
    <2> QED
      BY <2>1, <2>2, <2>3, <2>4
  <1>10. ASSUME NEW h \in Send!Threads, Send!SendDerefs(h) PROVE SendTypes'
    <2>1. DeviceTypes'
      BY <1>10 DEF Send!SendDerefs
    <2>2. TCBTypes'
      BY <1>10 DEF Send!SendDerefs
    <2>3. PacketTypes'
      BY <1>10 DEF Send!SendDerefs
    <2>4. LocalTypes'
      <3>1. array[h] # <<>>
        BY <1>10 DEF Send!SendDerefs
      <3>2. Send!NextPacket(h) => LocalTypes'
        <4> HIDE DEF SendTypes
        <4> QED
          BY <3>1, NextOf
      <3>3. \/ Send!NextPacket(h)
            \/ sPc' = [sPc EXCEPT ![h] = "reclaim"] /\ UNCHANGED <<array, Status, pTCB, Packet>>
        BY <1>10 DEF Send!SendDerefs
      <3>4. CASE Send!NextPacket(h)
        BY <3>2, <3>4
      <3>5. CASE sPc' = [sPc EXCEPT ![h] = "reclaim"] /\ UNCHANGED <<array, Status, pTCB, Packet>>
        BY <3>5
      <3> QED
        BY <3>3, <3>4, <3>5
    <2> QED
      BY <2>1, <2>2, <2>3, <2>4
  <1>11. ASSUME NEW h \in Send!Threads, Send!SendReclaims(h) PROVE SendTypes'
    <2>1. DeviceTypes'
      BY <1>11 DEF Send!SendReclaims
    <2>2. TCBTypes'
      BY <1>11 DEF Send!SendReclaims, Send!NICFreeSendTCB
    <2>3. PacketTypes'
      BY <1>11 DEF Send!SendReclaims
    <2>4. LocalTypes'
      <3>1. array[h] # <<>>
        BY <1>11 DEF Send!SendReclaims
      <3>2. Send!NextPacket(h) => LocalTypes'
        <4> HIDE DEF SendTypes
        <4> QED
          BY <3>1, NextOf
      <3> QED
        BY <1>11, <3>2 DEF Send!SendReclaims
    <2> QED
      BY <2>1, <2>2, <2>3, <2>4
  <1>12. ASSUME NEW d \in Dpcs, NEW t \in TCBs, Send!WriteCompletes(d, t) PROVE SendTypes'
    <2>1. DeviceTypes'
      BY <1>12 DEF Send!WriteCompletes
    <2>2. TCBTypes'
      BY <1>12 DEF Send!WriteCompletes
    <2>3. PacketTypes'
      BY <1>12 DEF Send!WriteCompletes
    <2>4. LocalTypes'
      <3>1. UNCHANGED <<array, Status>>
        BY <1>12 DEF Send!WriteCompletes
      <3>2. \/ UNCHANGED <<pTCB, Packet, sPc>>
            \/ /\ pTCB' = [pTCB EXCEPT ![d] = t] /\ sPc' = [sPc EXCEPT ![d] = "free"]
               /\ Packet' = [Packet EXCEPT ![d] = OrgSendPacket[t]]
        BY <1>12 DEF Send!WriteCompletes
      <3>3. PICK q : q = OrgSendPacket[t]
        OBVIOUS
      <3>4. q \in Sends \cup {none}
        BY <3>3
      <3>5. Packet' = Packet \/ Packet' = [Packet EXCEPT ![d] = q]
        BY <3>2, <3>3
      <3>6. Packet' \in [Send!Threads -> Sends \cup {none}]
        BY <3>4, <3>5
      <3>7. sPc' \in [Send!Threads -> {"idle"} \cup InSend \cup Ending]
        BY <3>2
      <3>8. pTCB' \in [Send!Threads -> TCBs \cup {none}]
        BY <3>2
      <3> QED
        BY <3>1, <3>6, <3>7, <3>8
    <2> QED
      BY <2>1, <2>2, <2>3, <2>4
  <1>13. ASSUME NEW d \in Dpcs, Send!WriteFrees(d) PROVE SendTypes'
    <2>1. DeviceTypes'
      BY <1>13 DEF Send!WriteFrees
    <2>2. TCBTypes'
      BY <1>13 DEF Send!WriteFrees, Send!NICFreeSendTCB
    <2>3. PacketTypes'
      BY <1>13 DEF Send!WriteFrees
    <2>4. LocalTypes'
      BY <1>13 DEF Send!WriteFrees
    <2> QED
      BY <2>1, <2>2, <2>3, <2>4
  <1>14. ASSUME NEW d \in Dpcs, Send!WriteReports(d) PROVE SendTypes'
    <2>1. DeviceTypes'
      BY <1>14 DEF Send!WriteReports
    <2>2. TCBTypes'
      BY <1>14 DEF Send!WriteReports
    <2>3. PacketTypes'
      <3>1. completed' = [completed EXCEPT ![Packet[d]] = @ + 1]
        BY <1>14 DEF Send!WriteReports
      <3>2. completed' \in [Sends -> Nat]
        <4>1. \A p \in Sends : completed'[p] \in Nat
          BY <3>1
        <4> QED
          BY <3>1, <4>1
      <3> QED
        BY <1>14, <3>2 DEF Send!WriteReports
    <2>4. LocalTypes'
      BY <1>14 DEF Send!WriteReports
    <2> QED
      BY <2>1, <2>2, <2>3, <2>4
  <1>15. ASSUME NEW d \in Dpcs, Send!WritePops(d) PROVE SendTypes'
    <2>1. DeviceTypes'
      BY <1>15 DEF Send!WritePops
    <2>2. TCBTypes'
      BY <1>15 DEF Send!WritePops
    <2>3. PacketTypes'
      <3>1. SendWaitList # <<>> => Head(SendWaitList) \in Sends /\ Tail(SendWaitList) \in Seq(Sends)
        BY TailOf
      <3> QED
        BY <1>15, <3>1 DEF Send!WritePops
    <2>4. LocalTypes'
      <3>1. SendWaitList # <<>> => Head(SendWaitList) \in Sends /\ Tail(SendWaitList) \in Seq(Sends)
        BY TailOf
      <3>2. CASE SendWaitList = <<>>
        BY <1>15, <3>2 DEF Send!WritePops
      <3>3. CASE SendWaitList # <<>>
        <4>1. PICK s : s = <<Head(SendWaitList)>>
          OBVIOUS
        <4>2. s \in Seq(Sends)
          BY <3>1, <3>3, <4>1, SingleOf
        <4>3. Send!Begins(d, s) /\ Packet' = Packet
          BY <1>15, <3>3, <4>1 DEF Send!WritePops
        <4>4. /\ array' \in [Send!Threads -> Seq(Sends)]
              /\ Status' = [Status EXCEPT ![d] = "failure"]
              /\ pTCB' = [pTCB EXCEPT ![d] = none] /\ sPc' = [sPc EXCEPT ![d] = "test"]
          BY <4>2, <4>3, BeginsOf
        <4> QED
          BY <4>3, <4>4
      <3> QED
        BY <3>2, <3>3
    <2> QED
      BY <2>1, <2>2, <2>3, <2>4
  <1>16. CASE Send!Cancels
    <2>1. DeviceTypes'
      BY <1>16 DEF Send!Cancels
    <2>2. TCBTypes'
      BY <1>16 DEF Send!Cancels
    <2>3. PacketTypes'
      <3>1. PICK ps \in SUBSET {SendWaitList[i] : i \in DOMAIN SendWaitList} \ {{}} :
               canceling' = ps /\ SendWaitList' = Send!WaitListWithout(ps)
        BY <1>16 DEF Send!Cancels
      <3>2. {SendWaitList[i] : i \in DOMAIN SendWaitList} \subseteq Sends
        BY ElementOfSeq
      <3>3. Send!WaitListWithout(ps) \in Seq(Sends)
        BY WithoutOf
      <3> QED
        BY <1>16, <3>1, <3>2, <3>3 DEF Send!Cancels
    <2>4. LocalTypes'
      BY <1>16 DEF Send!Cancels
    <2> QED
      BY <2>1, <2>2, <2>3, <2>4
  <1>17. CASE Send!CancelCompletes
    BY <1>17 DEF Send!CancelCompletes
  <1>18. CASE Send!MediaReads
    BY <1>18 DEF Send!MediaReads
  <1>19. CASE Send!MediaWrites
    BY <1>19 DEF Send!MediaWrites
  <1>20. CASE Send!SurpriseRemoved
    BY <1>20 DEF Send!SurpriseRemoved
  <1>21. CASE Send!HaltBegins
    BY <1>21 DEF Send!HaltBegins
  <1>22. CASE Send!HaltStops
    BY <1>22 DEF Send!HaltStops
  <1>23. CASE Send!HaltFlushes
    <2>1. DeviceTypes'
      BY <1>23 DEF Send!HaltFlushes
    <2>2. TCBTypes'
      BY <1>23 DEF Send!HaltFlushes
    <2>3. PacketTypes'
      <3>1. SendWaitList # <<>> => Head(SendWaitList) \in Sends /\ Tail(SendWaitList) \in Seq(Sends)
        BY TailOf
      <3>2. completed' \in [Sends -> Nat]
        <4>1. completed' = completed \/ completed' = [completed EXCEPT ![Head(SendWaitList)] = @ + 1]
          BY <1>23 DEF Send!HaltFlushes
        <4> QED
          BY <4>1
      <3>3. SendWaitList' \in Seq(Sends) /\ UNCHANGED <<canceling, given, dropped, stale>>
        BY <1>23, <3>1 DEF Send!HaltFlushes
      <3> QED
        BY <3>2, <3>3
    <2>4. LocalTypes'
      BY <1>23 DEF Send!HaltFlushes
    <2> QED
      BY <2>1, <2>2, <2>3, <2>4
  <1>24. CASE Send!HaltFrees
    BY <1>24 DEF Send!HaltFrees
  <1> QED
    BY <1>1, <1>2, <1>3, <1>4, <1>5, <1>6, <1>7, <1>8, <1>9, <1>10, <1>11, <1>12, <1>13, <1>14,
       <1>15, <1>16, <1>17, <1>18, <1>19, <1>20, <1>21, <1>22, <1>23, <1>24
       DEF Send!Next, Send!Send, Send!WriteCompletion, Send!Halts


LEMMA SendPlacesStep ==
  ASSUME SendInv, [Send!Next]_(Send!vars)
  PROVE  SendPlaces'
  <1>90. LocalTypes /\ TCBTypes /\ SendPlaces
    BY DEF SendInv, SendTypes
  <1>91. SendTypes
    BY DEF SendInv
  <1> USE <1>90, SendersApart
      DEF TCBTypes, LocalTypes, SendPlaces, InSend,
          Ending, Send!At, Send!Goto, Send!Complete, Send!lists, Send!packets, Send!locals,
          Send!device
  <1>1. CASE UNCHANGED Send!vars
    BY <1>1 DEF Send!vars, Send!device, Send!lists, Send!packets, Send!locals
  <1>2. ASSUME NEW h \in Send!Threads, Send!MPSendPackets(h) PROVE SendPlaces'
    <2>1. PICK n \in 1 .. MaxArray : \E s \in [1 .. n -> Sends \ given] : Send!Begins(h, s)
      BY <1>2 DEF Send!MPSendPackets
    <2>2. PICK s \in [1 .. n -> Sends \ given] : Send!Begins(h, s)
      BY <2>1
    <2>3. s \in Seq(Sends) /\ s # <<>>
      BY ArrayOf
    <2>4. /\ array' = [array EXCEPT ![h] = s] /\ sPc' = [sPc EXCEPT ![h] = "test"]
      BY <1>91, <2>2, <2>3, BeginsOf
    <2>5. Packet' = Packet /\ sPc[h] = "idle" /\ pTCB' = [pTCB EXCEPT ![h] = none]
          /\ Status' = [Status EXCEPT ![h] = "failure"]
      BY <1>2, <2>2 DEF Send!MPSendPackets, Send!Begins
    <2> QED
      BY <2>3, <2>4, <2>5
  <1>3. ASSUME NEW h \in Send!Threads, Send!SendTests(h) PROVE SendPlaces'
    BY <1>3 DEF Send!SendTests
  <1>4. ASSUME NEW h \in Send!Threads, Send!SendTakes(h) PROVE SendPlaces'
    <2>1. sPc[h] = "take" /\ UNCHANGED <<array, Status, Packet>>
      BY <1>4 DEF Send!SendTakes
    <2>2. CASE pTCB' = [pTCB EXCEPT ![h] = none] /\ sPc' = [sPc EXCEPT ![h] = "queue"]
      BY <2>1, <2>2
    <2>3. CASE \E t \in TCBs : pTCB' = [pTCB EXCEPT ![h] = t] /\ sPc' = [sPc EXCEPT ![h] = "copy"]
      BY <2>1, <2>3
    <2> QED
      BY <1>4, <2>2, <2>3 DEF Send!SendTakes
  <1>5. ASSUME NEW h \in Send!Threads, Send!SendQueues(h) PROVE SendPlaces'
    BY <1>5 DEF Send!SendQueues
  <1>6. ASSUME NEW h \in Send!Threads, Send!SendCopies(h) PROVE SendPlaces'
    <2>1. sPc[h] = "copy" /\ UNCHANGED <<array, pTCB, Packet>>
      BY <1>6 DEF Send!SendCopies
    <2>2. CASE sPc' = [sPc EXCEPT ![h] = "post"] /\ Status' = Status
      BY <2>1, <2>2
    <2>3. CASE sPc' = [sPc EXCEPT ![h] = "check"] /\ Status' = [Status EXCEPT ![h] = "failure"]
      BY <2>1, <2>3
    <2> QED
      BY <1>6, <2>2, <2>3, Zenon DEF Send!SendCopies
  <1>7. ASSUME NEW h \in Send!Threads, Send!SendPosts(h) PROVE SendPlaces'
    BY <1>7 DEF Send!SendPosts
  <1>8. ASSUME NEW h \in Send!Threads, Send!SendGoesOn(h) PROVE SendPlaces'
    <2>1. array[h] # <<>>
      BY <1>8 DEF Send!SendGoesOn
    <2>2. CASE Send!NextPacket(h)
      <3>1. /\ \A g \in Send!Threads : g # h =>
                  /\ sPc'[g] = sPc[g] /\ array'[g] = array[g] /\ Status'[g] = Status[g]
                  /\ pTCB'[g] = pTCB[g] /\ Packet'[g] = Packet[g]
            /\ \/ sPc'[h] = "test" /\ array'[h] # <<>> /\ Packet'[h] = Packet[h]
               \/ sPc'[h] = "idle" /\ array'[h] = <<>> /\ Packet'[h] = none
        BY <1>91, <2>1, <2>2, NextOf
      <3>2. Packet[h] = none
        BY <1>8 DEF Send!SendGoesOn
      <3> HIDE DEF LocalTypes, TCBTypes
      <3> QED
        BY <3>1, <3>2
    <2> QED
      BY <1>8, <2>2 DEF Send!SendGoesOn
  <1>9. ASSUME NEW h \in Send!Threads, Send!SendFails(h) PROVE SendPlaces'
    BY <1>9 DEF Send!SendFails
  <1>10. ASSUME NEW h \in Send!Threads, Send!SendDerefs(h) PROVE SendPlaces'
    <2>1. array[h] # <<>>
      BY <1>10 DEF Send!SendDerefs
    <2>2. CASE Send!NextPacket(h)
      <3>1. /\ \A g \in Send!Threads : g # h =>
                  /\ sPc'[g] = sPc[g] /\ array'[g] = array[g] /\ Status'[g] = Status[g]
                  /\ pTCB'[g] = pTCB[g] /\ Packet'[g] = Packet[g]
            /\ \/ sPc'[h] = "test" /\ array'[h] # <<>> /\ Packet'[h] = Packet[h]
               \/ sPc'[h] = "idle" /\ array'[h] = <<>> /\ Packet'[h] = none
        BY <1>91, <2>1, <2>2, NextOf
      <3>2. Packet[h] = none
        BY <1>10 DEF Send!SendDerefs
      <3> HIDE DEF LocalTypes, TCBTypes
      <3> QED
        BY <3>1, <3>2
    <2>3. CASE pTCB[h] # none /\ sPc' = [sPc EXCEPT ![h] = "reclaim"] /\ UNCHANGED Send!locals
      BY <1>10, <2>3 DEF Send!SendDerefs
    <2> QED
      BY <1>10, <2>2, <2>3 DEF Send!SendDerefs
  <1>11. ASSUME NEW h \in Send!Threads, Send!SendReclaims(h) PROVE SendPlaces'
    <2>1. array[h] # <<>>
      BY <1>11 DEF Send!SendReclaims
    <2>2. CASE Send!NextPacket(h)
      <3>1. /\ \A g \in Send!Threads : g # h =>
                  /\ sPc'[g] = sPc[g] /\ array'[g] = array[g] /\ Status'[g] = Status[g]
                  /\ pTCB'[g] = pTCB[g] /\ Packet'[g] = Packet[g]
            /\ \/ sPc'[h] = "test" /\ array'[h] # <<>> /\ Packet'[h] = Packet[h]
               \/ sPc'[h] = "idle" /\ array'[h] = <<>> /\ Packet'[h] = none
        BY <1>91, <2>1, <2>2, NextOf
      <3>2. Packet[h] = none
        BY <1>11 DEF Send!SendReclaims
      <3> HIDE DEF LocalTypes, TCBTypes
      <3> QED
        BY <3>1, <3>2
    <2> QED
      BY <1>11, <2>2 DEF Send!SendReclaims
  <1>12. ASSUME NEW d \in Dpcs, NEW t \in TCBs, Send!WriteCompletes(d, t) PROVE SendPlaces'
    <2>1. sPc[d] = "idle" /\ UNCHANGED <<array, Status>>
      BY <1>12 DEF Send!WriteCompletes
    <2>2. CASE UNCHANGED <<pTCB, Packet, sPc>>
      BY <2>1, <2>2
    <2>3. CASE /\ pTCB' = [pTCB EXCEPT ![d] = t] /\ sPc' = [sPc EXCEPT ![d] = "free"]
               /\ Packet' = [Packet EXCEPT ![d] = OrgSendPacket[t]]
      BY <2>1, <2>3
    <2> QED
      BY <1>12, <2>2, <2>3 DEF Send!WriteCompletes
  <1>13. ASSUME NEW d \in Dpcs, Send!WriteFrees(d) PROVE SendPlaces'
    BY <1>13 DEF Send!WriteFrees
  <1>14. ASSUME NEW d \in Dpcs, Send!WriteReports(d) PROVE SendPlaces'
    BY <1>14 DEF Send!WriteReports
  <1>15. ASSUME NEW d \in Dpcs, Send!WritePops(d) PROVE SendPlaces'
    <2>1. CASE SendWaitList = <<>>
      <3>1. sPc' = [sPc EXCEPT ![d] = "idle"] /\ sPc[d] = "pop" /\ UNCHANGED Send!locals
        BY <1>15, <2>1 DEF Send!WritePops
      <3> QED
        BY <3>1
    <2>2. CASE SendWaitList # <<>>
      <3>1. PICK s : s = <<Head(SendWaitList)>>
        OBVIOUS
      <3>2. SendWaitList \in Seq(Sends)
        BY <1>91 DEF SendTypes, PacketTypes
      <3>3. s \in Seq(Sends) /\ s # <<>>
        BY <2>2, <3>1, <3>2, SingleOf, TailOf
      <3>4. Send!Begins(d, s) /\ Packet' = Packet /\ sPc[d] = "pop"
        BY <1>15, <2>2, <3>1 DEF Send!WritePops
      <3>5. /\ array' = [array EXCEPT ![d] = s] /\ sPc' = [sPc EXCEPT ![d] = "test"]
            /\ pTCB' = [pTCB EXCEPT ![d] = none] /\ Status' = [Status EXCEPT ![d] = "failure"]
        BY <1>91, <3>3, <3>4, BeginsOf
      <3> QED
        BY <3>3, <3>4, <3>5
    <2> QED
      BY <2>1, <2>2
  <1>16. CASE Send!Cancels
    BY <1>16 DEF Send!Cancels
  <1>17. CASE Send!CancelCompletes
    BY <1>17 DEF Send!CancelCompletes
  <1>18. CASE Send!MediaReads
    BY <1>18 DEF Send!MediaReads
  <1>19. CASE Send!MediaWrites
    BY <1>19 DEF Send!MediaWrites
  <1>20. CASE Send!SurpriseRemoved
    BY <1>20 DEF Send!SurpriseRemoved
  <1>21. CASE Send!HaltBegins
    BY <1>21 DEF Send!HaltBegins
  <1>22. CASE Send!HaltStops
    BY <1>22 DEF Send!HaltStops
  <1>23. CASE Send!HaltFlushes
    BY <1>23 DEF Send!HaltFlushes
  <1>24. CASE Send!HaltFrees
    BY <1>24 DEF Send!HaltFrees
  <1> QED
    BY <1>1, <1>2, <1>3, <1>4, <1>5, <1>6, <1>7, <1>8, <1>9, <1>10, <1>11, <1>12, <1>13, <1>14,
       <1>15, <1>16, <1>17, <1>18, <1>19, <1>20, <1>21, <1>22, <1>23, <1>24
       DEF Send!Next, Send!Send, Send!WriteCompletion, Send!Halts


LEMMA HaltStagesStep ==
  ASSUME SendInv, [Send!Next]_(Send!vars)
  PROVE  HaltStages'
  <1>90. LocalTypes /\ TCBTypes /\ SendPlaces /\ HaltStages
    BY DEF SendInv, SendTypes
  <1>91. nBusySend = 0 /\ ~stale /\ (\A h \in Send!Threads : sPc[h] = "idle") => SendFreeList = TCBs
    <2> SUFFICES ASSUME nBusySend = 0, ~stale, \A h \in Send!Threads : sPc[h] = "idle"
                 PROVE  SendFreeList = TCBs
      OBVIOUS
    <2>1. Taken = {}
      BY DEF Taken
    <2>2. SendBusy
      BY DEF SendInv
    <2>3. IsFiniteSet(TCBs \ SendFreeList) /\ Cardinality(TCBs \ SendFreeList) = 0
      <3>1. IsFiniteSet(TCBs \ SendFreeList)
        BY SendersApart, FS_Subset
      <3>2. Cardinality(TCBs \ (SendFreeList \cup Taken)) = 0
        BY <2>2 DEF SendBusy
      <3>3. TCBs \ (SendFreeList \cup Taken) = TCBs \ SendFreeList
        BY <2>1
      <3> QED
        BY <3>1, <3>2, <3>3
    <2> QED
      BY <1>90, <2>3, FS_EmptySet DEF TCBTypes
  <1>93. \A h \in Send!Threads : sPc[h] # "idle" => halt \in {"up", "stop"}
    BY <1>90 DEF SendInv, SendTypes, DeviceTypes, HaltStages
  <1> USE <1>90, SendersApart
      DEF TCBTypes, LocalTypes, HaltStages, InSend,
          Ending, Send!At, Send!Goto, Send!Complete, Send!lists, Send!packets, Send!locals,
          Send!device
  <1>1. CASE UNCHANGED Send!vars
    BY <1>1 DEF Send!vars, Send!device, Send!lists, Send!packets, Send!locals
  <1>2. ASSUME NEW h \in Send!Threads, Send!MPSendPackets(h) PROVE HaltStages'
    BY <1>2 DEF Send!MPSendPackets
  <1>3. ASSUME NEW h \in Send!Threads, Send!SendTests(h) PROVE HaltStages'
    BY <1>3 DEF Send!SendTests
  <1>4. ASSUME NEW h \in Send!Threads, Send!SendTakes(h) PROVE HaltStages'
    BY <1>4 DEF Send!SendTakes
  <1>5. ASSUME NEW h \in Send!Threads, Send!SendQueues(h) PROVE HaltStages'
    BY <1>5 DEF Send!SendQueues
  <1>6. ASSUME NEW h \in Send!Threads, Send!SendCopies(h) PROVE HaltStages'
    BY <1>6 DEF Send!SendCopies
  <1>7. ASSUME NEW h \in Send!Threads, Send!SendPosts(h) PROVE HaltStages'
    BY <1>7 DEF Send!SendPosts
  <1>8. ASSUME NEW h \in Send!Threads, Send!SendGoesOn(h) PROVE HaltStages'
    <2>1. \E x : sPc' = [sPc EXCEPT ![h] = x]
      <3>1. Send!NextPacket(h) => \E x : sPc' = [sPc EXCEPT ![h] = x]
        BY DEF Send!NextPacket
      <3> QED
        BY <1>8, <3>1 DEF Send!SendGoesOn
    <2>2. UNCHANGED <<halt, canceling, sent, SendWaitList>> /\ sPc[h] # "idle"
      BY <1>8 DEF Send!SendGoesOn
    <2>3. halt \in {"up", "stop"}
      BY <2>2, <1>93
    <2> QED
      BY <2>1, <2>2, <2>3
  <1>9. ASSUME NEW h \in Send!Threads, Send!SendFails(h) PROVE HaltStages'
    BY <1>9 DEF Send!SendFails
  <1>10. ASSUME NEW h \in Send!Threads, Send!SendDerefs(h) PROVE HaltStages'
    <2>1. \E x : sPc' = [sPc EXCEPT ![h] = x]
      <3>1. Send!NextPacket(h) => \E x : sPc' = [sPc EXCEPT ![h] = x]
        BY DEF Send!NextPacket
      <3> QED
        BY <1>10, <3>1 DEF Send!SendDerefs
    <2>2. UNCHANGED <<halt, canceling, sent, SendWaitList>> /\ sPc[h] # "idle"
      BY <1>10 DEF Send!SendDerefs
    <2>3. halt \in {"up", "stop"}
      BY <2>2, <1>93
    <2> QED
      BY <2>1, <2>2, <2>3
  <1>11. ASSUME NEW h \in Send!Threads, Send!SendReclaims(h) PROVE HaltStages'
    <2>1. \E x : sPc' = [sPc EXCEPT ![h] = x]
      <3>1. Send!NextPacket(h) => \E x : sPc' = [sPc EXCEPT ![h] = x]
        BY DEF Send!NextPacket
      <3> QED
        BY <1>11, <3>1 DEF Send!SendReclaims
    <2>2. UNCHANGED <<halt, canceling, sent, SendWaitList>> /\ sPc[h] # "idle"
      BY <1>11 DEF Send!SendReclaims
    <2>3. halt \in {"up", "stop"}
      BY <2>2, <1>93
    <2> QED
      BY <2>1, <2>2, <2>3
  <1>12. ASSUME NEW d \in Dpcs, NEW t \in TCBs, Send!WriteCompletes(d, t) PROVE HaltStages'
    BY <1>12 DEF Send!WriteCompletes
  <1>13. ASSUME NEW d \in Dpcs, Send!WriteFrees(d) PROVE HaltStages'
    BY <1>13 DEF Send!WriteFrees
  <1>14. ASSUME NEW d \in Dpcs, Send!WriteReports(d) PROVE HaltStages'
    BY <1>14 DEF Send!WriteReports
  <1>15. ASSUME NEW d \in Dpcs, Send!WritePops(d) PROVE HaltStages'
    <2>1. \E x : sPc' = [sPc EXCEPT ![d] = x]
      BY <1>15 DEF Send!WritePops, Send!Begins
    <2>2. UNCHANGED <<halt, canceling, sent>> /\ sPc[d] # "idle"
      BY <1>15 DEF Send!WritePops
    <2>3. halt \in {"up", "stop"}
      BY <2>2, <1>93
    <2> QED
      BY <2>1, <2>2, <2>3
  <1>16. CASE Send!Cancels
    BY <1>16 DEF Send!Cancels
  <1>17. CASE Send!CancelCompletes
    BY <1>17 DEF Send!CancelCompletes
  <1>18. CASE Send!MediaReads
    BY <1>18 DEF Send!MediaReads
  <1>19. CASE Send!MediaWrites
    BY <1>19 DEF Send!MediaWrites
  <1>20. CASE Send!SurpriseRemoved
    BY <1>20 DEF Send!SurpriseRemoved
  <1>21. CASE Send!HaltBegins
    BY <1>21 DEF Send!HaltBegins
  <1>22. CASE Send!HaltStops
    BY <1>22 DEF Send!HaltStops
  <1>23. CASE Send!HaltFlushes
    BY <1>23 DEF Send!HaltFlushes
  <1>24. CASE Send!HaltFrees
    BY <1>24, <1>91 DEF Send!HaltFrees
  <1> QED
    BY <1>1, <1>2, <1>3, <1>4, <1>5, <1>6, <1>7, <1>8, <1>9, <1>10, <1>11, <1>12, <1>13, <1>14,
       <1>15, <1>16, <1>17, <1>18, <1>19, <1>20, <1>21, <1>22, <1>23, <1>24
       DEF Send!Next, Send!Send, Send!WriteCompletion, Send!Halts


\* Who sends has a packet, and so has a TCB the target has.
LEMMA HeadsSent ==
  ASSUME LocalTypes, TCBTypes, SendPlaces, Carries
  PROVE  /\ \A t \in sent : OrgSendPacket[t] \in Sends
         /\ \A g \in Send!Threads : sPc[g] \in InSend =>
               Head(array[g]) \in Sends /\ array[g] # <<>> /\ array[g] \in Seq(Sends)
  <1>1. \A g \in Send!Threads : sPc[g] \in InSend => array[g] # <<>> /\ array[g] \in Seq(Sends)
    BY DEF LocalTypes, SendPlaces
  <1>2. \A t \in sent : OrgSendPacket[t] \in Sends
    BY DEF TCBTypes, Carries, CarriedOnce
  <1> QED
    BY <1>1, <1>2, TailOf

\* The TCBs off the free list are counted when they are prepared and when they are freed.
LEMMA BusyMore ==
  ASSUME IsFiniteSet(TCBs), NEW X, NEW Y, NEW t \in TCBs, t \in X, Y = X \ {t}
  PROVE  Cardinality(TCBs \ Y) = Cardinality(TCBs \ X) + 1
  <1>1. (TCBs \ X) \ {t} = (TCBs \ Y) \ {t} /\ t \notin TCBs \ X /\ t \in TCBs \ Y
    OBVIOUS
  <1>2. IsFiniteSet(TCBs \ X)
    BY FS_Subset
  <1> QED
    BY <1>1, <1>2, CountChange


LEMMA SendTestsKeeps ==
  ASSUME SendInv, ~stale, ~stale', NEW h \in Send!Threads, Send!SendTests(h)
  PROVE  Accounts'
  <1>1. LocalTypes /\ TCBTypes /\ PacketTypes /\ SendPlaces
    BY DEF SendInv, SendTypes
  <1>2. OneThread /\ PacketPlaces /\ Completions /\ KeptSomewhere /\ OneUser /\ Carries /\ SendBusy
    BY DEF SendInv
  <1>27. (\A y \in sent : OrgSendPacket[y] \in Sends)
         /\ (\A g \in Send!Threads : sPc[g] \in InSend => Head(array[g]) \in Sends)
    BY <1>1, <1>2, HeadsSent
  <1>3. /\ sPc[h] = "test"
        /\ sPc' = [sPc EXCEPT ![h] = "take"] \/ sPc' = [sPc EXCEPT ![h] = "skipped"]
        /\ UNCHANGED <<SendFreeList, nBusySend, Ref, OrgSendPacket, SendWaitList, sent,
                       canceling, given, completed, dropped, array, Status, pTCB, Packet>>
    BY DEF Send!SendTests, Send!At, Send!Goto, Send!Complete, Send!lists, Send!packets,
       Send!locals, Send!device
  <1>20. \A g \in Send!Threads, p \in Sends : Holds(g, p)' <=> Holds(g, p)
    BY <1>1, <1>3 DEF Holds, Live, LocalTypes, InSend
  <1>21. \A g \in Send!Threads, p \in Sends : Leaving(g, p)' <=> Leaving(g, p)
    BY <1>1, <1>3 DEF Leaving, LocalTypes, SendPlaces, InSend
  <1>22. \A p \in Sends : Written(p)' <=> Written(p)
    BY <1>1, <1>3 DEF Written, TCBTypes
  <1>23. \A p \in Sends : Reported(p)' <=> Reported(p)
    BY <1>1, <1>3 DEF Reported, LocalTypes, SendPlaces
  <1>24. \A g \in Send!Threads, u \in TCBs : HasTCB(g, u)' <=> HasTCB(g, u)
    BY <1>1, <1>3 DEF HasTCB, Prepared, LocalTypes, TCBTypes, InSend
  <1>10. OneThread'
    BY <1>2, <1>3, <1>20, <1>23 DEF OneThread, Reported
  <1>11. PacketPlaces'
    BY <1>1, <1>2, <1>3, <1>27, <1>20, <1>22, <1>23
       DEF PacketPlaces, TCBTypes, PacketTypes, LocalTypes
  <1>12. Completions'
    BY <1>1, <1>2, <1>3, <1>20, <1>21, <1>22, <1>23 DEF Completions, PacketTypes
  <1>13. KeptSomewhere'
    BY <1>1, <1>2, <1>3, <1>20, <1>22, <1>23 DEF KeptSomewhere, PacketTypes
  <1>14. OneUser'
    BY <1>1, <1>2, <1>3, <1>24 DEF OneUser, TCBTypes
  <1>15. Carries'
    BY <1>1, <1>2, <1>3, SendersApart
       DEF Carries, CarriedOnce, CarriedAt, Prepared, LocalTypes, TCBTypes, PacketTypes,
           SendPlaces, InSend, Ending
  <1>5. Taken' = Taken
    BY <1>1, <1>3 DEF Taken, LocalTypes, SendPlaces
  <1>16. SendBusy'
    BY <1>2, <1>3, <1>5 DEF SendBusy
  <1> QED
    BY <1>10, <1>11, <1>12, <1>13, <1>14, <1>15, <1>16 DEF Accounts

LEMMA SendTakesNone ==
  ASSUME SendInv, ~stale, ~stale', NEW h \in Send!Threads, SendFreeList = {}, Send!SendTakes(h)
  PROVE  Accounts'
  <1>1. LocalTypes /\ TCBTypes /\ PacketTypes /\ SendPlaces
    BY DEF SendInv, SendTypes
  <1>2. OneThread /\ PacketPlaces /\ Completions /\ KeptSomewhere /\ OneUser /\ Carries /\ SendBusy
    BY DEF SendInv
  <1>27. (\A y \in sent : OrgSendPacket[y] \in Sends)
         /\ (\A g \in Send!Threads : sPc[g] \in InSend => Head(array[g]) \in Sends)
    BY <1>1, <1>2, HeadsSent
  <1>3. /\ sPc[h] = "take" /\ sPc' = [sPc EXCEPT ![h] = "queue"]
        /\ pTCB' = [pTCB EXCEPT ![h] = none]
        /\ UNCHANGED <<SendFreeList, nBusySend, Ref, OrgSendPacket, SendWaitList, sent,
                       canceling, given, completed, dropped, array, Status, Packet>>
    BY DEF Send!SendTakes, Send!At, Send!Goto, Send!Complete, Send!lists, Send!packets,
       Send!locals, Send!device
  <1>20. \A g \in Send!Threads, p \in Sends : Holds(g, p)' <=> Holds(g, p)
    BY <1>1, <1>3 DEF Holds, Live, LocalTypes, InSend
  <1>21. \A g \in Send!Threads, p \in Sends : Leaving(g, p)' <=> Leaving(g, p)
    BY <1>1, <1>3 DEF Leaving, LocalTypes, SendPlaces, InSend
  <1>22. \A p \in Sends : Written(p)' <=> Written(p)
    BY <1>1, <1>3 DEF Written, TCBTypes
  <1>23. \A p \in Sends : Reported(p)' <=> Reported(p)
    BY <1>1, <1>3 DEF Reported, LocalTypes, SendPlaces
  <1>24. \A g \in Send!Threads, u \in TCBs : HasTCB(g, u)' <=> HasTCB(g, u)
    BY <1>1, <1>3 DEF HasTCB, Prepared, LocalTypes, TCBTypes, InSend
  <1>10. OneThread'
    BY <1>2, <1>3, <1>20, <1>23 DEF OneThread, Reported
  <1>11. PacketPlaces'
    BY <1>1, <1>2, <1>3, <1>27, <1>20, <1>22, <1>23
       DEF PacketPlaces, TCBTypes, PacketTypes, LocalTypes
  <1>12. Completions'
    BY <1>1, <1>2, <1>3, <1>20, <1>21, <1>22, <1>23 DEF Completions, PacketTypes
  <1>13. KeptSomewhere'
    BY <1>1, <1>2, <1>3, <1>20, <1>22, <1>23 DEF KeptSomewhere, PacketTypes
  <1>14. OneUser'
    BY <1>1, <1>2, <1>3, <1>24 DEF OneUser, TCBTypes
  <1>15. Carries'
    BY <1>1, <1>2, <1>3, SendersApart
       DEF Carries, CarriedOnce, CarriedAt, Prepared, LocalTypes, TCBTypes, PacketTypes,
           SendPlaces, InSend, Ending
  <1>5. Taken' = Taken
    BY <1>1, <1>3 DEF Taken, LocalTypes, SendPlaces
  <1>16. SendBusy'
    BY <1>2, <1>3, <1>5 DEF SendBusy
  <1> QED
    BY <1>10, <1>11, <1>12, <1>13, <1>14, <1>15, <1>16 DEF Accounts

LEMMA SendTakesFree ==
  ASSUME SendInv, ~stale, ~stale', NEW h \in Send!Threads, SendFreeList # {}, Send!SendTakes(h)
  PROVE  Accounts'
  <1>1. LocalTypes /\ TCBTypes /\ PacketTypes /\ SendPlaces
    BY DEF SendInv, SendTypes
  <1>2. OneThread /\ PacketPlaces /\ Completions /\ KeptSomewhere /\ OneUser /\ Carries /\ SendBusy
    BY DEF SendInv
  <1>27. (\A y \in sent : OrgSendPacket[y] \in Sends)
         /\ (\A g \in Send!Threads : sPc[g] \in InSend => Head(array[g]) \in Sends)
    BY <1>1, <1>2, HeadsSent
  <1>6. PICK t \in SendFreeList :
               /\ pTCB' = [pTCB EXCEPT ![h] = t] /\ sPc' = [sPc EXCEPT ![h] = "copy"]
               /\ SendFreeList' = SendFreeList \ {t}
    BY DEF Send!SendTakes, Send!At, Send!Goto, Send!Complete, Send!lists, Send!packets,
       Send!locals, Send!device
  <1>3. /\ sPc[h] = "take" /\ sPc' = [sPc EXCEPT ![h] = "copy"]
        /\ t \in TCBs /\ t \in SendFreeList /\ pTCB' = [pTCB EXCEPT ![h] = t]
        /\ SendFreeList' = SendFreeList \ {t}
        /\ UNCHANGED <<nBusySend, Ref, OrgSendPacket, SendWaitList, sent, canceling, given,
                       completed, dropped, array, Status, Packet>>
    BY <1>1, <1>6
       DEF Send!SendTakes, Send!At, Send!Goto, Send!Complete, Send!lists, Send!packets,
           Send!locals, Send!device, TCBTypes
  <1>7. Taken' = Taken \cup {t}
    BY <1>1, <1>3 DEF Taken, LocalTypes
  <1>5. SendFreeList' \cup Taken' = SendFreeList \cup Taken
    BY <1>3, <1>7
  <1>20. \A g \in Send!Threads, p \in Sends : Holds(g, p)' <=> Holds(g, p)
    BY <1>1, <1>3 DEF Holds, Live, LocalTypes, InSend
  <1>21. \A g \in Send!Threads, p \in Sends : Leaving(g, p)' <=> Leaving(g, p)
    BY <1>1, <1>3 DEF Leaving, LocalTypes, SendPlaces, InSend
  <1>22. \A p \in Sends : Written(p)' <=> Written(p)
    BY <1>1, <1>3 DEF Written, TCBTypes
  <1>23. \A p \in Sends : Reported(p)' <=> Reported(p)
    BY <1>1, <1>3 DEF Reported, LocalTypes, SendPlaces
  <1>24. \A g \in Send!Threads, u \in TCBs : HasTCB(g, u)' <=> HasTCB(g, u) \/ (g = h /\ u = t)
    BY <1>1, <1>3 DEF HasTCB, Prepared, LocalTypes, TCBTypes, InSend
  <1>10. OneThread'
    BY <1>2, <1>3, <1>20, <1>23 DEF OneThread, Reported
  <1>11. PacketPlaces'
    BY <1>1, <1>2, <1>3, <1>27, <1>20, <1>22, <1>23
       DEF PacketPlaces, TCBTypes, PacketTypes, LocalTypes
  <1>12. Completions'
    BY <1>1, <1>2, <1>3, <1>20, <1>21, <1>22, <1>23 DEF Completions, PacketTypes
  <1>13. KeptSomewhere'
    BY <1>1, <1>2, <1>3, <1>20, <1>22, <1>23 DEF KeptSomewhere, PacketTypes
  <1>14. OneUser'
    BY <1>1, <1>2, <1>3, <1>24 DEF OneUser, TCBTypes
  <1>15. Carries'
    BY <1>1, <1>2, <1>3, SendersApart
       DEF Carries, CarriedOnce, CarriedAt, Prepared, LocalTypes, TCBTypes, PacketTypes,
           SendPlaces, InSend, Ending
  <1>16. SendBusy'
    BY <1>2, <1>3, <1>5 DEF SendBusy
  <1> QED
    BY <1>10, <1>11, <1>12, <1>13, <1>14, <1>15, <1>16 DEF Accounts

LEMMA SendTakesKeeps ==
  ASSUME SendInv, ~stale, ~stale', NEW h \in Send!Threads, Send!SendTakes(h)
  PROVE  Accounts'
  BY SendTakesNone, SendTakesFree

LEMMA SendCopiesKeeps ==
  ASSUME SendInv, ~stale, ~stale', NEW h \in Send!Threads, Send!SendCopies(h)
  PROVE  Accounts'
  <1>1. LocalTypes /\ TCBTypes /\ PacketTypes /\ SendPlaces
    BY DEF SendInv, SendTypes
  <1>2. OneThread /\ PacketPlaces /\ Completions /\ KeptSomewhere /\ OneUser /\ Carries /\ SendBusy
    BY DEF SendInv
  <1>27. (\A y \in sent : OrgSendPacket[y] \in Sends)
         /\ (\A g \in Send!Threads : sPc[g] \in InSend => Head(array[g]) \in Sends)
    BY <1>1, <1>2, HeadsSent
  <1>6. PICK q : q = Head(array[h])
    OBVIOUS
  <1>7. array[h] # <<>> /\ array[h] \in Seq(Sends)
    BY <1>1 DEF Send!SendCopies, Send!At, SendPlaces, InSend, LocalTypes
  <1>8. q \in Sends /\ q \notin Behind(array[h])
    BY <1>2, <1>6, <1>7, TailOf DEF OneThread
  <1>9. PICK t : t = pTCB[h]
    OBVIOUS
  <1>3. /\ sPc[h] = "copy" /\ nBusySend' = nBusySend + 1 /\ pTCB[h] = t /\ t \in TCBs
        /\ OrgSendPacket' = [OrgSendPacket EXCEPT ![t] = q]
        /\ Ref' = [Ref EXCEPT ![t] = 1]
        /\ \/ sPc' = [sPc EXCEPT ![h] = "post"] /\ Status' = Status
           \/ sPc' = [sPc EXCEPT ![h] = "check"] /\ Status' = [Status EXCEPT ![h] = "failure"]
        /\ UNCHANGED <<SendFreeList, SendWaitList, sent, canceling, given, completed, dropped,
                       array, pTCB, Packet>>
    BY <1>1, <1>6, <1>9
       DEF Send!SendCopies, Send!At, Send!Goto, Send!Complete, Send!lists, Send!packets,
           Send!locals, Send!device, SendPlaces
  <1>18. t \in Taken /\ Taken' = Taken \ {t}
    BY <1>1, <1>2, <1>3 DEF Taken, LocalTypes, OneUser, HasTCB
  <1>19. t \notin SendFreeList /\ t \notin sent /\ OrgSendPacket[t] = none
    BY <1>1, <1>2, <1>3 DEF OneUser, HasTCB, Carries, CarriedAt
  <1>25. \A g \in Send!Threads : HasTCB(g, t) => g = h
    BY <1>1, <1>2, <1>3 DEF OneUser, HasTCB
  <1>29. \A g \in Send!Threads : g # h =>
            /\ q \notin Behind(array[g])
            /\ (sPc[g] \in InSend /\ sPc[g] # "check") \/ Prepared(g) => q # Head(array[g])
    BY <1>2, <1>3, <1>6, <1>8 DEF OneThread, Holds, Live, InSend, Prepared
  <1>31. Holds(h, q)
    BY <1>3, <1>6 DEF Holds, Live, InSend
  <1>30. Holds(h, q) /\ \A g \in Send!Threads : Packet[g] # q
    BY <1>2, <1>8, <1>31 DEF PacketPlaces, Reported
  <1>26. SendFreeList' \cup Taken' = (SendFreeList \cup Taken) \ {t}
    BY <1>3, <1>18, <1>19
  <1>5. Cardinality(TCBs \ (SendFreeList' \cup Taken')) = Cardinality(TCBs \ (SendFreeList \cup Taken)) + 1
    BY <1>3, <1>18, <1>26, SendersApart, BusyMore
  <1>20. \A g \in Send!Threads, p \in Sends : Holds(g, p)' <=> Holds(g, p)
    BY <1>1, <1>3, <1>6, <1>8, <1>18, <1>19, <1>25, <1>27, <1>29, <1>30
       DEF Holds, Live, LocalTypes, InSend
  <1>21. \A g \in Send!Threads, p \in Sends : Leaving(g, p)' <=> Leaving(g, p)
    BY <1>1, <1>3, <1>6, <1>8, <1>18, <1>19, <1>25, <1>27, <1>29, <1>30
       DEF Leaving, LocalTypes, SendPlaces, InSend
  <1>22. \A p \in Sends : Written(p)' <=> Written(p)
    BY <1>1, <1>3, <1>6, <1>8, <1>18, <1>19, <1>25, <1>27, <1>29, <1>30 DEF Written, TCBTypes
  <1>23. \A p \in Sends : Reported(p)' <=> Reported(p)
    BY <1>1, <1>3, <1>6, <1>8, <1>18, <1>19, <1>25, <1>27, <1>29, <1>30
       DEF Reported, LocalTypes, SendPlaces
  <1>24. \A g \in Send!Threads, u \in TCBs : HasTCB(g, u)' <=> HasTCB(g, u)
    BY <1>1, <1>3, <1>6, <1>8, <1>18, <1>19, <1>25, <1>27, <1>29, <1>30
       DEF HasTCB, Prepared, LocalTypes, TCBTypes, InSend
  <1>10. OneThread'
    BY <1>2, <1>3, <1>20, <1>23, <1>6, <1>8, <1>18, <1>19, <1>25, <1>27, <1>29, <1>30
       DEF OneThread, Reported
  <1>11. PacketPlaces'
    BY <1>1, <1>2, <1>3, <1>27, <1>20, <1>22, <1>23, <1>6, <1>8, <1>18, <1>19, <1>25, <1>27,
       <1>29, <1>30
       DEF PacketPlaces, TCBTypes, PacketTypes, LocalTypes
  <1>12. Completions'
    BY <1>1, <1>2, <1>3, <1>20, <1>21, <1>22, <1>23, <1>6, <1>8, <1>18, <1>19, <1>25, <1>27,
       <1>29, <1>30
       DEF Completions, PacketTypes
  <1>13. KeptSomewhere'
    BY <1>1, <1>2, <1>3, <1>20, <1>22, <1>23, <1>6, <1>8, <1>18, <1>19, <1>25, <1>27, <1>29,
       <1>30
       DEF KeptSomewhere, PacketTypes
  <1>14. OneUser'
    BY <1>1, <1>2, <1>3, <1>24, <1>6, <1>8, <1>18, <1>19, <1>25, <1>27, <1>29, <1>30
       DEF OneUser, TCBTypes
  <1>15. Carries'
    <2>1. CarriedOnce'
      BY <1>1, <1>2, <1>3, SendersApart, <1>6, <1>8, <1>18, <1>19, <1>25, <1>27, <1>29, <1>30
         DEF Carries, CarriedOnce, CarriedAt, Prepared, LocalTypes, TCBTypes, PacketTypes,
             SendPlaces, InSend, Ending
    <2>2. ASSUME NEW g \in Send!Threads, NEW u \in TCBs PROVE CarriedAt(g, u)'
      <3>0. CarriedAt(g, u) /\ CarriedOnce
        BY <1>2 DEF Carries
      <3>1. CASE g = h
        BY <1>1, <1>2, <1>3, SendersApart, <1>6, <1>8, <1>18, <1>19, <1>25, <1>27, <1>29, <1>30,
           <3>0, <3>1
           DEF CarriedOnce, CarriedAt, Prepared, LocalTypes, TCBTypes, PacketTypes,
               SendPlaces, InSend, Ending
      <3>2. CASE g # h
        BY <1>1, <1>2, <1>3, SendersApart, <1>6, <1>8, <1>18, <1>19, <1>25, <1>27, <1>29, <1>30,
           <3>0, <3>2
           DEF CarriedOnce, CarriedAt, HasTCB, Prepared, LocalTypes, TCBTypes, PacketTypes,
               SendPlaces, InSend, Ending
      <3> QED
        BY <3>1, <3>2
    <2> QED
      BY <2>1, <2>2 DEF Carries
  <1>16. SendBusy'
    BY <1>2, <1>3, <1>5, <1>6, <1>8, <1>18, <1>19, <1>25, <1>27, <1>29, <1>30 DEF SendBusy
  <1> QED
    BY <1>10, <1>11, <1>12, <1>13, <1>14, <1>15, <1>16 DEF Accounts


\* The packet a thread is at is nobody else's.
LEMMA HeadOf ==
  ASSUME SendInv, ~stale, NEW h \in Send!Threads, sPc[h] \in InSend, Live(h),
         NEW q, q = Head(array[h])
  PROVE  /\ q \in Sends /\ q \notin Behind(array[h]) /\ Holds(h, q)
         /\ q \in given /\ q \notin Of(SendWaitList) \cup canceling \cup dropped
         /\ ~Written(q) /\ ~Reported(q) /\ \A g \in Send!Threads : Packet[g] # q
         /\ \A g \in Send!Threads : g # h =>
               /\ ~Holds(g, q) /\ q \notin Behind(array[g])
               /\ sPc[g] \in InSend /\ (sPc[g] = "check" => Status[g] = "failure") => q # Head(array[g])
         /\ completed[q] = IF sPc[h] \in {"deref", "reclaim"} THEN 1 ELSE 0
  <1>1. LocalTypes /\ TCBTypes /\ PacketTypes /\ SendPlaces /\ OneThread /\ PacketPlaces
        /\ Completions /\ Carries
    BY DEF SendInv, SendTypes
  <1>2. array[h] # <<>> /\ array[h] \in Seq(Sends)
    BY <1>1 DEF SendPlaces, LocalTypes
  <1>3. q \in Sends /\ q \notin Behind(array[h])
    BY <1>1, <1>2, TailOf DEF OneThread
  <1>4. Holds(h, q)
    BY DEF Holds
  <1>5. /\ q \in given /\ q \notin Of(SendWaitList) \cup canceling \cup dropped
        /\ ~Written(q) /\ ~Reported(q)
    BY <1>1, <1>3, <1>4 DEF PacketPlaces
  <1>6. \A g \in Send!Threads : g # h => ~Holds(g, q)
    BY <1>1, <1>3, <1>4 DEF OneThread
  <1>7. completed[q] = IF sPc[h] \in {"deref", "reclaim"} THEN 1 ELSE 0
    BY <1>1, <1>3, <1>4 DEF Completions, Leaving
  <1> QED
    BY <1>3, <1>4, <1>5, <1>6, <1>7 DEF Holds, Live, Reported

LEMMA SendQueuesKeeps ==
  ASSUME SendInv, ~stale, ~stale', NEW h \in Send!Threads, Send!SendQueues(h)
  PROVE  Accounts'
  <1>1. LocalTypes /\ TCBTypes /\ PacketTypes /\ SendPlaces
    BY DEF SendInv, SendTypes
  <1>2. OneThread /\ PacketPlaces /\ Completions /\ KeptSomewhere /\ OneUser /\ Carries /\ SendBusy
    BY DEF SendInv
  <1>27. (\A y \in sent : OrgSendPacket[y] \in Sends)
         /\ (\A g \in Send!Threads : sPc[g] \in InSend => Head(array[g]) \in Sends)
    BY <1>1, <1>2, HeadsSent
  <1>6. PICK q : q = Head(array[h])
    OBVIOUS
  <1>8. /\ q \in Sends /\ q \notin Behind(array[h]) /\ Holds(h, q)
        /\ q \in given /\ q \notin Of(SendWaitList) \cup canceling \cup dropped
        /\ ~Written(q) /\ ~Reported(q) /\ \A g \in Send!Threads : Packet[g] # q
        /\ \A g \in Send!Threads : g # h =>
              /\ ~Holds(g, q) /\ q \notin Behind(array[g])
              /\ sPc[g] \in InSend /\ (sPc[g] = "check" => Status[g] = "failure") => q # Head(array[g])
        /\ completed[q] = 0
    <2>1. sPc[h] \in InSend /\ Live(h) /\ (sPc[h] \in {"deref", "reclaim"} <=> 0 = 1)
      BY DEF Send!SendQueues, Send!At, InSend, Live
    <2> QED
      BY <1>6, <2>1, HeadOf
  <1>3. /\ sPc[h] = "queue" /\ SendWaitList' = Append(SendWaitList, q)
        /\ Status' = [Status EXCEPT ![h] = "pending"] /\ sPc' = [sPc EXCEPT ![h] = "check"]
        /\ UNCHANGED <<SendFreeList, nBusySend, Ref, OrgSendPacket, sent, canceling, given,
                       completed, dropped, array, pTCB, Packet>>
    BY <1>6
       DEF Send!SendQueues, Send!At, Send!Goto, Send!Complete, Send!lists, Send!packets,
           Send!locals, Send!device
  <1>30. Of(SendWaitList') = Of(SendWaitList) \cup {q} /\ Once(SendWaitList')
    BY <1>1, <1>2, <1>3, <1>8, AppendOf DEF PacketTypes, PacketPlaces
  <1>31. \A t \in TCBs : OrgSendPacket[t] # q
    BY <1>2, <1>3, <1>6 DEF Carries, CarriedAt
  <1>20. \A g \in Send!Threads, p \in Sends : Holds(g, p)' <=> Holds(g, p) /\ p # q
    BY <1>1, <1>3, <1>6, <1>8 DEF Holds, Live, LocalTypes, InSend
  <1>21. \A g \in Send!Threads, p \in Sends : Leaving(g, p)' <=> Leaving(g, p)
    BY <1>1, <1>3, <1>6, <1>8 DEF Leaving, LocalTypes, SendPlaces, InSend
  <1>22. \A p \in Sends : Written(p)' <=> Written(p)
    BY <1>1, <1>3, <1>6, <1>8 DEF Written, TCBTypes
  <1>23. \A p \in Sends : Reported(p)' <=> Reported(p)
    BY <1>1, <1>3, <1>6, <1>8 DEF Reported, LocalTypes, SendPlaces
  <1>24. \A g \in Send!Threads, u \in TCBs : HasTCB(g, u)' <=> HasTCB(g, u)
    BY <1>1, <1>3, <1>6, <1>8 DEF HasTCB, Prepared, LocalTypes, TCBTypes, InSend
  <1>10. OneThread'
    BY <1>2, <1>3, <1>20, <1>23, <1>6, <1>8 DEF OneThread, Reported
  <1>11. PacketPlaces'
    BY <1>1, <1>2, <1>3, <1>27, <1>20, <1>22, <1>23, <1>6, <1>8, <1>30, <1>31
       DEF PacketPlaces, TCBTypes, PacketTypes, LocalTypes
  <1>12. Completions'
    BY <1>1, <1>2, <1>3, <1>20, <1>21, <1>22, <1>23, <1>6, <1>8, <1>30, <1>31
       DEF Completions, PacketTypes
  <1>13. KeptSomewhere'
    BY <1>1, <1>2, <1>3, <1>20, <1>22, <1>23, <1>6, <1>8, <1>30, <1>31
       DEF KeptSomewhere, PacketTypes
  <1>14. OneUser'
    BY <1>1, <1>2, <1>3, <1>24, <1>6, <1>8 DEF OneUser, TCBTypes
  <1>15. Carries'
    BY <1>1, <1>2, <1>3, SendersApart, <1>6, <1>8
       DEF Carries, CarriedOnce, CarriedAt, Prepared, LocalTypes, TCBTypes, PacketTypes,
           SendPlaces, InSend, Ending
  <1>5. Taken' = Taken
    BY <1>1, <1>3 DEF Taken, LocalTypes, SendPlaces
  <1>16. SendBusy'
    BY <1>2, <1>3, <1>5, <1>6, <1>8 DEF SendBusy
  <1> QED
    BY <1>10, <1>11, <1>12, <1>13, <1>14, <1>15, <1>16 DEF Accounts

LEMMA SendFailsKeeps ==
  ASSUME SendInv, ~stale, ~stale', NEW h \in Send!Threads, Send!SendFails(h)
  PROVE  Accounts'
  <1>1. LocalTypes /\ TCBTypes /\ PacketTypes /\ SendPlaces
    BY DEF SendInv, SendTypes
  <1>2. OneThread /\ PacketPlaces /\ Completions /\ KeptSomewhere /\ OneUser /\ Carries /\ SendBusy
    BY DEF SendInv
  <1>27. (\A y \in sent : OrgSendPacket[y] \in Sends)
         /\ (\A g \in Send!Threads : sPc[g] \in InSend => Head(array[g]) \in Sends)
    BY <1>1, <1>2, HeadsSent
  <1>6. PICK q : q = Head(array[h])
    OBVIOUS
  <1>8. /\ q \in Sends /\ q \notin Behind(array[h]) /\ Holds(h, q)
        /\ q \in given /\ q \notin Of(SendWaitList) \cup canceling \cup dropped
        /\ ~Written(q) /\ ~Reported(q) /\ \A g \in Send!Threads : Packet[g] # q
        /\ \A g \in Send!Threads : g # h =>
              /\ ~Holds(g, q) /\ q \notin Behind(array[g])
              /\ sPc[g] \in InSend /\ (sPc[g] = "check" => Status[g] = "failure") => q # Head(array[g])
        /\ completed[q] = 0
    <2>1. sPc[h] \in InSend /\ Live(h) /\ (sPc[h] \in {"deref", "reclaim"} <=> 0 = 1)
      BY DEF Send!SendFails, Send!At, InSend, Live
    <2> QED
      BY <1>6, <2>1, HeadOf
  <1>3. /\ sPc[h] \in {"check", "skipped"} /\ Status[h] = "failure" /\ (sPc[h] = "check" => pTCB[h] \in TCBs)
        /\ completed' = [completed EXCEPT ![q] = 1] /\ sPc' = [sPc EXCEPT ![h] = "deref"]
        /\ UNCHANGED <<SendFreeList, nBusySend, Ref, OrgSendPacket, SendWaitList, sent,
                       canceling, given, dropped, array, Status, pTCB, Packet>>
    BY <1>1, <1>6, <1>8
       DEF Send!SendFails, Send!At, Send!Goto, Send!Complete, Send!lists, Send!packets,
           Send!locals, Send!device, SendPlaces
  <1>30. \A t \in TCBs : /\ sPc[h] = "check" /\ pTCB[h] = t => OrgSendPacket[t] = Head(array[h])
                         /\ sPc[h] = "skipped" => OrgSendPacket[t] # Head(array[h])
    BY <1>2, <1>3 DEF Carries, CarriedAt, Prepared
  <1>20. \A g \in Send!Threads, p \in Sends : Holds(g, p)' <=> Holds(g, p)
    BY <1>1, <1>3, <1>6, <1>8 DEF Holds, Live, LocalTypes, InSend
  <1>21. \A g \in Send!Threads, p \in Sends : Leaving(g, p)' <=> Leaving(g, p) \/ (g = h /\ p = q)
    BY <1>1, <1>3, <1>6, <1>8 DEF Leaving, LocalTypes, SendPlaces, InSend
  <1>22. \A p \in Sends : Written(p)' <=> Written(p)
    BY <1>1, <1>3, <1>6, <1>8 DEF Written, TCBTypes
  <1>23. \A p \in Sends : Reported(p)' <=> Reported(p)
    BY <1>1, <1>3, <1>6, <1>8 DEF Reported, LocalTypes, SendPlaces
  <1>24. \A g \in Send!Threads, u \in TCBs : HasTCB(g, u)' <=> HasTCB(g, u)
    <2> SUFFICES ASSUME NEW g \in Send!Threads, NEW u \in TCBs PROVE HasTCB(g, u)' <=> HasTCB(g, u)
      OBVIOUS
    <2>1. CASE g = h
      <3>1. sPc'[h] = "deref" /\ UNCHANGED <<pTCB, OrgSendPacket, array>>
        BY <1>1, <1>3 DEF LocalTypes
      <3>2. HasTCB(g, u)' <=> pTCB[h] = u /\ OrgSendPacket[u] = Head(array[h])
        BY <3>1, <2>1 DEF HasTCB, Prepared
      <3>3. HasTCB(g, u) <=> pTCB[h] = u /\ sPc[h] = "check"
        BY <1>3, <2>1 DEF HasTCB, Prepared
      <3> QED
        BY <1>3, <1>30, <2>1, <3>2, <3>3
    <2>2. CASE g # h
      BY <1>1, <1>3, <1>30, <2>2 DEF HasTCB, Prepared, LocalTypes, TCBTypes, InSend
    <2> QED
      BY <2>1, <2>2
  <1>10. OneThread'
    BY <1>2, <1>3, <1>20, <1>23, <1>6, <1>8 DEF OneThread, Reported
  <1>11. PacketPlaces'
    BY <1>1, <1>2, <1>3, <1>27, <1>20, <1>22, <1>23, <1>6, <1>8
       DEF PacketPlaces, TCBTypes, PacketTypes, LocalTypes
  <1>12. Completions'
    BY <1>1, <1>2, <1>3, <1>20, <1>21, <1>22, <1>23, <1>6, <1>8 DEF Completions, PacketTypes
  <1>13. KeptSomewhere'
    BY <1>1, <1>2, <1>3, <1>20, <1>22, <1>23, <1>6, <1>8 DEF KeptSomewhere, PacketTypes
  <1>14. OneUser'
    BY <1>1, <1>2, <1>3, <1>24, <1>6, <1>8 DEF OneUser, TCBTypes
  <1>15. Carries'
    BY <1>1, <1>2, <1>3, SendersApart, <1>6, <1>8
       DEF Carries, CarriedOnce, CarriedAt, Prepared, LocalTypes, TCBTypes, PacketTypes,
           SendPlaces, InSend, Ending
  <1>5. Taken' = Taken
    BY <1>1, <1>3 DEF Taken, LocalTypes, SendPlaces
  <1>16. SendBusy'
    BY <1>2, <1>3, <1>5, <1>6, <1>8 DEF SendBusy
  <1> QED
    BY <1>10, <1>11, <1>12, <1>13, <1>14, <1>15, <1>16 DEF Accounts

LEMMA SendPostsDone ==
  ASSUME SendInv, ~stale, ~stale', NEW h \in Send!Threads, Send!SendPosts(h), sent' # sent
  PROVE  Accounts'
  <1>1. LocalTypes /\ TCBTypes /\ PacketTypes /\ SendPlaces
    BY DEF SendInv, SendTypes
  <1>2. OneThread /\ PacketPlaces /\ Completions /\ KeptSomewhere /\ OneUser /\ Carries /\ SendBusy
    BY DEF SendInv
  <1>27. (\A y \in sent : OrgSendPacket[y] \in Sends)
         /\ (\A g \in Send!Threads : sPc[g] \in InSend => Head(array[g]) \in Sends)
    BY <1>1, <1>2, HeadsSent
  <1>6. PICK q : q = Head(array[h])
    OBVIOUS
  <1>8. /\ q \in Sends /\ q \notin Behind(array[h]) /\ Holds(h, q)
        /\ q \in given /\ q \notin Of(SendWaitList) \cup canceling \cup dropped
        /\ ~Written(q) /\ ~Reported(q) /\ \A g \in Send!Threads : Packet[g] # q
        /\ \A g \in Send!Threads : g # h =>
              /\ ~Holds(g, q) /\ q \notin Behind(array[g])
              /\ sPc[g] \in InSend /\ (sPc[g] = "check" => Status[g] = "failure") => q # Head(array[g])
        /\ completed[q] = 0
    <2>1. sPc[h] \in InSend /\ Live(h) /\ (sPc[h] \in {"deref", "reclaim"} <=> 0 = 1)
      BY DEF Send!SendPosts, Send!At, InSend, Live
    <2> QED
      BY <1>6, <2>1, HeadOf
  <1>9. PICK t : t = pTCB[h]
    OBVIOUS
  <1>3. /\ sPc[h] = "post" /\ sPc' = [sPc EXCEPT ![h] = "check"] /\ pTCB[h] = t /\ t \in TCBs
        /\ sent' = sent \cup {t} /\ Status' = [Status EXCEPT ![h] = "success"]
        /\ UNCHANGED <<SendFreeList, nBusySend, Ref, OrgSendPacket, SendWaitList, canceling,
                       given, completed, dropped, array, pTCB, Packet>>
    BY <1>1, <1>9
       DEF Send!SendPosts, Send!At, Send!Goto, Send!Complete, Send!lists, Send!packets,
           Send!locals, Send!device, SendPlaces
  <1>30. /\ OrgSendPacket[t] = q /\ Ref[t] = 1 /\ t \notin SendFreeList /\ t \notin sent
         /\ \A g \in Send!Threads : HasTCB(g, t) <=> g = h
    BY <1>1, <1>2, <1>3, <1>6 DEF Carries, CarriedAt, Prepared, OneUser, HasTCB
  <1>20. \A g \in Send!Threads, p \in Sends : Holds(g, p)' <=> Holds(g, p) /\ p # q
    BY <1>1, <1>3, <1>6, <1>8, <1>30 DEF Holds, Live, LocalTypes, InSend
  <1>21. \A g \in Send!Threads, p \in Sends : Leaving(g, p)' <=> Leaving(g, p)
    BY <1>1, <1>3, <1>6, <1>8, <1>30 DEF Leaving, LocalTypes, SendPlaces, InSend
  <1>22. \A p \in Sends : Written(p)' <=> Written(p) \/ p = q
    BY <1>1, <1>3, <1>6, <1>8, <1>30 DEF Written, TCBTypes
  <1>23. \A p \in Sends : Reported(p)' <=> Reported(p)
    BY <1>1, <1>3, <1>6, <1>8, <1>30 DEF Reported, LocalTypes, SendPlaces
  <1>24. \A g \in Send!Threads, u \in TCBs : HasTCB(g, u)' <=> HasTCB(g, u) /\ u # t
    BY <1>1, <1>3, <1>6, <1>8, <1>30 DEF HasTCB, Prepared, LocalTypes, TCBTypes, InSend
  <1>10. OneThread'
    BY <1>2, <1>3, <1>20, <1>23, <1>6, <1>8, <1>30 DEF OneThread, Reported
  <1>11. PacketPlaces'
    BY <1>1, <1>2, <1>3, <1>27, <1>20, <1>22, <1>23, <1>6, <1>8, <1>30
       DEF PacketPlaces, TCBTypes, PacketTypes, LocalTypes
  <1>12. Completions'
    BY <1>1, <1>2, <1>3, <1>20, <1>21, <1>22, <1>23, <1>6, <1>8, <1>30
       DEF Completions, PacketTypes
  <1>13. KeptSomewhere'
    BY <1>1, <1>2, <1>3, <1>20, <1>22, <1>23, <1>6, <1>8, <1>30 DEF KeptSomewhere, PacketTypes
  <1>14. OneUser'
    BY <1>1, <1>2, <1>3, <1>24, <1>6, <1>8, <1>30 DEF OneUser, TCBTypes
  <1>15. Carries'
    BY <1>1, <1>2, <1>3, SendersApart, <1>6, <1>8, <1>30
       DEF Carries, CarriedOnce, CarriedAt, Prepared, LocalTypes, TCBTypes, PacketTypes,
           SendPlaces, InSend, Ending
  <1>5. Taken' = Taken
    BY <1>1, <1>3 DEF Taken, LocalTypes, SendPlaces
  <1>16. SendBusy'
    BY <1>2, <1>3, <1>5, <1>6, <1>8, <1>30 DEF SendBusy
  <1> QED
    BY <1>10, <1>11, <1>12, <1>13, <1>14, <1>15, <1>16 DEF Accounts

LEMMA SendPostsFailed ==
  ASSUME SendInv, ~stale, ~stale', NEW h \in Send!Threads, Send!SendPosts(h), Status'[h] = "failure", sent' = sent
  PROVE  Accounts'
  <1>1. LocalTypes /\ TCBTypes /\ PacketTypes /\ SendPlaces
    BY DEF SendInv, SendTypes
  <1>2. OneThread /\ PacketPlaces /\ Completions /\ KeptSomewhere /\ OneUser /\ Carries /\ SendBusy
    BY DEF SendInv
  <1>27. (\A y \in sent : OrgSendPacket[y] \in Sends)
         /\ (\A g \in Send!Threads : sPc[g] \in InSend => Head(array[g]) \in Sends)
    BY <1>1, <1>2, HeadsSent
  <1>3. /\ sPc[h] = "post" /\ sPc' = [sPc EXCEPT ![h] = "check"] /\ pTCB[h] \in TCBs
        /\ Status' = [Status EXCEPT ![h] = "failure"]
        /\ UNCHANGED <<SendFreeList, nBusySend, Ref, OrgSendPacket, SendWaitList, sent,
                       canceling, given, completed, dropped, array, pTCB, Packet>>
    BY <1>1
       DEF Send!SendPosts, Send!At, Send!Goto, Send!Complete, Send!lists, Send!packets,
           Send!locals, Send!device, SendPlaces, LocalTypes
  <1>20. \A g \in Send!Threads, p \in Sends : Holds(g, p)' <=> Holds(g, p)
    BY <1>1, <1>3 DEF Holds, Live, LocalTypes, InSend
  <1>21. \A g \in Send!Threads, p \in Sends : Leaving(g, p)' <=> Leaving(g, p)
    BY <1>1, <1>3 DEF Leaving, LocalTypes, SendPlaces, InSend
  <1>22. \A p \in Sends : Written(p)' <=> Written(p)
    BY <1>1, <1>3 DEF Written, TCBTypes
  <1>23. \A p \in Sends : Reported(p)' <=> Reported(p)
    BY <1>1, <1>3 DEF Reported, LocalTypes, SendPlaces
  <1>24. \A g \in Send!Threads, u \in TCBs : HasTCB(g, u)' <=> HasTCB(g, u)
    BY <1>1, <1>3 DEF HasTCB, Prepared, LocalTypes, TCBTypes, InSend
  <1>10. OneThread'
    BY <1>2, <1>3, <1>20, <1>23 DEF OneThread, Reported
  <1>11. PacketPlaces'
    BY <1>1, <1>2, <1>3, <1>27, <1>20, <1>22, <1>23
       DEF PacketPlaces, TCBTypes, PacketTypes, LocalTypes
  <1>12. Completions'
    BY <1>1, <1>2, <1>3, <1>20, <1>21, <1>22, <1>23 DEF Completions, PacketTypes
  <1>13. KeptSomewhere'
    BY <1>1, <1>2, <1>3, <1>20, <1>22, <1>23 DEF KeptSomewhere, PacketTypes
  <1>14. OneUser'
    BY <1>1, <1>2, <1>3, <1>24 DEF OneUser, TCBTypes
  <1>15. Carries'
    BY <1>1, <1>2, <1>3, SendersApart
       DEF Carries, CarriedOnce, CarriedAt, Prepared, LocalTypes, TCBTypes, PacketTypes,
           SendPlaces, InSend, Ending
  <1>5. Taken' = Taken
    BY <1>1, <1>3 DEF Taken, LocalTypes, SendPlaces
  <1>16. SendBusy'
    BY <1>2, <1>3, <1>5 DEF SendBusy
  <1> QED
    BY <1>10, <1>11, <1>12, <1>13, <1>14, <1>15, <1>16 DEF Accounts

LEMMA SendPostsKeeps ==
  ASSUME SendInv, ~stale, ~stale', NEW h \in Send!Threads, Send!SendPosts(h)
  PROVE  Accounts'
  <1>1. LocalTypes /\ OneUser /\ SendPlaces
    BY DEF SendInv, SendTypes
  <1>2. sent' # sent \/ (Status'[h] = "failure" /\ sent' = sent)
    <2>1. sPc[h] = "post" /\ pTCB[h] \in TCBs
      BY <1>1 DEF Send!SendPosts, Send!At, SendPlaces
    <2>2. pTCB[h] \notin sent
      BY <1>1, <2>1 DEF OneUser, HasTCB, Prepared
    <2> QED
      BY <1>1, <2>2 DEF Send!SendPosts, LocalTypes
  <1> QED
    BY <1>2, SendPostsDone, SendPostsFailed


\* The end of the loop's body: the packets of the thread are those behind the one it was at.
LEMMA MovesOn ==
  ASSUME SendInv, ~stale, NEW h \in Send!Threads, sPc[h] \in InSend, Send!NextPacket(h)
  PROVE  /\ Packet' = Packet
         /\ \E a, s, st, u :
               /\ array' = [array EXCEPT ![h] = a] /\ sPc' = [sPc EXCEPT ![h] = s]
               /\ Status' = [Status EXCEPT ![h] = st] /\ pTCB' = [pTCB EXCEPT ![h] = u]
               /\ a \in Seq(Sends) /\ Once(a)
               /\ \/ s = "test" /\ Behind(array[h]) = {Head(a)} \cup Behind(a)
                  \/ s = "idle" /\ Behind(array[h]) = {} /\ Behind(a) = {}
  <1>1. LocalTypes /\ array[h] # <<>> /\ Once(array[h]) /\ Packet[h] = none
    BY DEF SendInv, SendTypes, SendPlaces, OneThread, InSend
  <1>2. array[h] \in Seq(Sends)
    BY <1>1 DEF LocalTypes
  <1>3. CASE Len(array[h]) > 1
    <2>1. PICK a : a = Tail(array[h])
      OBVIOUS
    <2>2. /\ a \in Seq(Sends) /\ a # <<>> /\ Once(a) /\ Of(a) = Behind(array[h])
      BY <1>1, <1>2, <1>3, <2>1, TailOf
    <2>3. Of(a) = {Head(a)} \cup Behind(a)
      BY <2>2, TailOf
    <2>4. /\ array' = [array EXCEPT ![h] = a] /\ sPc' = [sPc EXCEPT ![h] = "test"]
          /\ UNCHANGED <<Status, pTCB, Packet>>
      BY <1>3, <2>1 DEF Send!NextPacket, Send!Goto
    <2>5. Status' = [Status EXCEPT ![h] = Status[h]] /\ pTCB' = [pTCB EXCEPT ![h] = pTCB[h]]
      BY <1>1, <2>4 DEF LocalTypes
    <2> QED
      BY <2>2, <2>3, <2>4, <2>5
  <1>4. CASE ~(Len(array[h]) > 1)
    <2>1. /\ array' = [array EXCEPT ![h] = <<>>] /\ sPc' = [sPc EXCEPT ![h] = "idle"]
          /\ Status' = [Status EXCEPT ![h] = "failure"] /\ pTCB' = [pTCB EXCEPT ![h] = none]
          /\ Packet' = [Packet EXCEPT ![h] = none]
      BY <1>4 DEF Send!NextPacket, Send!Goto
    <2>2. Behind(array[h]) = {}
      BY <1>1, <1>2, <1>4, TailOf
    <2>3. Packet' = Packet
      BY <1>1, <2>1 DEF LocalTypes
    <2> QED
      BY <2>1, <2>2, <2>3, NoneOf
  <1> QED
    BY <1>3, <1>4

LEMMA SendGoesOnSent ==
  ASSUME SendInv, ~stale, ~stale', NEW h \in Send!Threads, Send!SendGoesOn(h), sPc[h] = "check"
  PROVE  Accounts'
  <1>1. LocalTypes /\ TCBTypes /\ PacketTypes /\ SendPlaces
    BY DEF SendInv, SendTypes
  <1>2. OneThread /\ PacketPlaces /\ Completions /\ KeptSomewhere /\ OneUser /\ Carries /\ SendBusy
    BY DEF SendInv
  <1>27. (\A y \in sent : OrgSendPacket[y] \in Sends)
         /\ (\A g \in Send!Threads : sPc[g] \in InSend => Head(array[g]) \in Sends)
    BY <1>1, <1>2, HeadsSent
  <1>32. Send!NextPacket(h) /\ sPc[h] \in InSend
    BY DEF Send!SendGoesOn, Send!At, InSend
  <1>33. PICK a, s, st, x :
            /\ array' = [array EXCEPT ![h] = a] /\ sPc' = [sPc EXCEPT ![h] = s]
            /\ Status' = [Status EXCEPT ![h] = st] /\ pTCB' = [pTCB EXCEPT ![h] = x] /\ Packet' = Packet
            /\ a \in Seq(Sends) /\ Once(a)
            /\ \/ s = "test" /\ Behind(array[h]) = {Head(a)} \cup Behind(a)
               \/ s = "idle" /\ Behind(array[h]) = {} /\ Behind(a) = {}
    BY <1>32, MovesOn, Zenon
  <1>3. /\ array' = [array EXCEPT ![h] = a] /\ sPc' = [sPc EXCEPT ![h] = s]
        /\ Status' = [Status EXCEPT ![h] = st] /\ pTCB' = [pTCB EXCEPT ![h] = x] /\ Packet' = Packet
        /\ a \in Seq(Sends) /\ Once(a)
        /\ \/ s = "test" /\ Behind(array[h]) = {Head(a)} \cup Behind(a)
           \/ s = "idle" /\ Behind(array[h]) = {} /\ Behind(a) = {}
        /\ sPc[h] = "check" /\ Status[h] # "failure"
        /\ UNCHANGED <<SendFreeList, nBusySend, Ref, OrgSendPacket, SendWaitList, sent,
                       canceling, given, completed, dropped>>
    BY <1>33 DEF Send!SendGoesOn, Send!At, Send!lists, Send!packets, Send!device, Send!Complete
  <1>5. Taken' = Taken
    BY <1>1, <1>3 DEF Taken, LocalTypes
  <1>20. \A g \in Send!Threads, p \in Sends : Holds(g, p)' <=> Holds(g, p)
    <2> SUFFICES ASSUME NEW g \in Send!Threads, NEW p \in Sends PROVE Holds(g, p)' <=> Holds(g, p)
      OBVIOUS
    <2>1. CASE g = h
      BY <1>1, <1>3, <2>1 DEF Holds, Live, LocalTypes, InSend
    <2>2. CASE g # h
      BY <1>1, <1>3, <2>2 DEF Holds, Live, LocalTypes, InSend
    <2> QED
      BY <2>1, <2>2
  <1>21. \A g \in Send!Threads, p \in Sends : Leaving(g, p)' <=> Leaving(g, p)
    BY <1>1, <1>3 DEF Leaving, LocalTypes, SendPlaces, InSend
  <1>22. \A p \in Sends : Written(p)' <=> Written(p)
    BY <1>1, <1>3 DEF Written, TCBTypes
  <1>23. \A p \in Sends : Reported(p)' <=> Reported(p)
    BY <1>1, <1>3 DEF Reported, LocalTypes, SendPlaces
  <1>24. \A g \in Send!Threads, u \in TCBs : HasTCB(g, u)' <=> HasTCB(g, u)
    BY <1>1, <1>3 DEF HasTCB, Prepared, LocalTypes, TCBTypes, InSend
  <1>10. OneThread'
    BY <1>2, <1>3, <1>20, <1>23 DEF OneThread, Reported
  <1>11. PacketPlaces'
    BY <1>1, <1>2, <1>3, <1>27, <1>20, <1>22, <1>23
       DEF PacketPlaces, TCBTypes, PacketTypes, LocalTypes
  <1>12. Completions'
    BY <1>1, <1>2, <1>3, <1>20, <1>21, <1>22, <1>23 DEF Completions, PacketTypes
  <1>13. KeptSomewhere'
    BY <1>1, <1>2, <1>3, <1>20, <1>22, <1>23 DEF KeptSomewhere, PacketTypes
  <1>14. OneUser'
    BY <1>1, <1>2, <1>3, <1>24 DEF OneUser, TCBTypes
  <1>15. Carries'
    <2>1. CarriedOnce'
      BY <1>1, <1>2, <1>3, SendersApart, <1>27
         DEF Carries, CarriedOnce, CarriedAt, Prepared, LocalTypes, TCBTypes, PacketTypes,
             SendPlaces, InSend, Ending
    <2>2. ASSUME NEW g \in Send!Threads, NEW u \in TCBs PROVE CarriedAt(g, u)'
      <3>0. CarriedAt(g, u) /\ CarriedOnce
        BY <1>2 DEF Carries
      <3>1. CASE g = h
        BY <1>1, <1>2, <1>3, SendersApart, <1>27, <3>0, <3>1
           DEF CarriedOnce, CarriedAt, Prepared, LocalTypes, TCBTypes, PacketTypes,
               SendPlaces, InSend, Ending
      <3>2. CASE g # h
        BY <1>1, <1>2, <1>3, SendersApart, <1>27, <3>0, <3>2
           DEF CarriedOnce, CarriedAt, HasTCB, Prepared, LocalTypes, TCBTypes, PacketTypes,
               SendPlaces, InSend, Ending
      <3> QED
        BY <3>1, <3>2
    <2> QED
      BY <2>1, <2>2 DEF Carries
  <1>16. SendBusy'
    BY <1>2, <1>3, <1>5 DEF SendBusy
  <1> QED
    BY <1>10, <1>11, <1>12, <1>13, <1>14, <1>15, <1>16 DEF Accounts

LEMMA SendGoesOnSkipped ==
  ASSUME SendInv, ~stale, ~stale', NEW h \in Send!Threads, Send!SendGoesOn(h), sPc[h] = "skipped"
  PROVE  Accounts'
  <1>1. LocalTypes /\ TCBTypes /\ PacketTypes /\ SendPlaces
    BY DEF SendInv, SendTypes
  <1>2. OneThread /\ PacketPlaces /\ Completions /\ KeptSomewhere /\ OneUser /\ Carries /\ SendBusy
    BY DEF SendInv
  <1>27. (\A y \in sent : OrgSendPacket[y] \in Sends)
         /\ (\A g \in Send!Threads : sPc[g] \in InSend => Head(array[g]) \in Sends)
    BY <1>1, <1>2, HeadsSent
  <1>6. PICK q : q = Head(array[h])
    OBVIOUS
  <1>8. /\ q \in Sends /\ q \notin Behind(array[h]) /\ Holds(h, q)
        /\ q \in given /\ q \notin Of(SendWaitList) \cup canceling \cup dropped
        /\ ~Written(q) /\ ~Reported(q) /\ \A g \in Send!Threads : Packet[g] # q
        /\ \A g \in Send!Threads : g # h =>
              /\ ~Holds(g, q) /\ q \notin Behind(array[g])
              /\ sPc[g] \in InSend /\ (sPc[g] = "check" => Status[g] = "failure") => q # Head(array[g])
        /\ completed[q] = 0
    <2>1. sPc[h] \in InSend /\ Live(h) /\ (sPc[h] \in {"deref", "reclaim"} <=> 0 = 1)
      BY DEF Send!SendGoesOn, Send!At, InSend, Live
    <2> QED
      BY <1>6, <2>1, HeadOf
  <1>32. Send!NextPacket(h) /\ sPc[h] \in InSend
    BY <1>6 DEF Send!SendGoesOn, Send!At, InSend
  <1>33. PICK a, s, st, x :
            /\ array' = [array EXCEPT ![h] = a] /\ sPc' = [sPc EXCEPT ![h] = s]
            /\ Status' = [Status EXCEPT ![h] = st] /\ pTCB' = [pTCB EXCEPT ![h] = x] /\ Packet' = Packet
            /\ a \in Seq(Sends) /\ Once(a)
            /\ \/ s = "test" /\ Behind(array[h]) = {Head(a)} \cup Behind(a)
               \/ s = "idle" /\ Behind(array[h]) = {} /\ Behind(a) = {}
    BY <1>32, MovesOn, Zenon
  <1>3. /\ array' = [array EXCEPT ![h] = a] /\ sPc' = [sPc EXCEPT ![h] = s]
        /\ Status' = [Status EXCEPT ![h] = st] /\ pTCB' = [pTCB EXCEPT ![h] = x] /\ Packet' = Packet
        /\ a \in Seq(Sends) /\ Once(a)
        /\ \/ s = "test" /\ Behind(array[h]) = {Head(a)} \cup Behind(a)
           \/ s = "idle" /\ Behind(array[h]) = {} /\ Behind(a) = {}
        /\ sPc[h] = "skipped" /\ dropped' = dropped \cup {q}
        /\ UNCHANGED <<SendFreeList, nBusySend, Ref, OrgSendPacket, SendWaitList, sent,
                       canceling, given, completed>>
    BY <1>33, <1>6
       DEF Send!SendGoesOn, Send!At, Send!lists, Send!packets, Send!device, Send!Complete
  <1>30. \A t \in TCBs : OrgSendPacket[t] # q
    BY <1>2, <1>3, <1>6 DEF Carries, CarriedAt
  <1>5. Taken' = Taken
    BY <1>1, <1>3 DEF Taken, LocalTypes
  <1>20. \A g \in Send!Threads, p \in Sends : Holds(g, p)' <=> Holds(g, p) /\ p # q
    <2> SUFFICES ASSUME NEW g \in Send!Threads, NEW p \in Sends PROVE Holds(g, p)' <=> Holds(g, p) /\ p # q
      OBVIOUS
    <2>1. CASE g = h
      BY <1>1, <1>3, <1>6, <1>8, <2>1 DEF Holds, Live, LocalTypes, InSend
    <2>2. CASE g # h
      BY <1>1, <1>3, <1>6, <1>8, <2>2 DEF Holds, Live, LocalTypes, InSend
    <2> QED
      BY <2>1, <2>2
  <1>21. \A g \in Send!Threads, p \in Sends : Leaving(g, p)' <=> Leaving(g, p)
    BY <1>1, <1>3, <1>6, <1>8, <1>30 DEF Leaving, LocalTypes, SendPlaces, InSend
  <1>22. \A p \in Sends : Written(p)' <=> Written(p)
    BY <1>1, <1>3, <1>6, <1>8, <1>30 DEF Written, TCBTypes
  <1>23. \A p \in Sends : Reported(p)' <=> Reported(p)
    BY <1>1, <1>3, <1>6, <1>8, <1>30 DEF Reported, LocalTypes, SendPlaces
  <1>24. \A g \in Send!Threads, u \in TCBs : HasTCB(g, u)' <=> HasTCB(g, u)
    BY <1>1, <1>3, <1>6, <1>8, <1>30 DEF HasTCB, Prepared, LocalTypes, TCBTypes, InSend
  <1>10. OneThread'
    BY <1>2, <1>3, <1>20, <1>23, <1>6, <1>8, <1>30 DEF OneThread, Reported
  <1>11. PacketPlaces'
    BY <1>1, <1>2, <1>3, <1>27, <1>20, <1>22, <1>23, <1>6, <1>8, <1>30
       DEF PacketPlaces, TCBTypes, PacketTypes, LocalTypes
  <1>12. Completions'
    BY <1>1, <1>2, <1>3, <1>20, <1>21, <1>22, <1>23, <1>6, <1>8, <1>30
       DEF Completions, PacketTypes
  <1>13. KeptSomewhere'
    BY <1>1, <1>2, <1>3, <1>20, <1>22, <1>23, <1>6, <1>8, <1>30 DEF KeptSomewhere, PacketTypes
  <1>14. OneUser'
    BY <1>1, <1>2, <1>3, <1>24, <1>6, <1>8, <1>30 DEF OneUser, TCBTypes
  <1>15. Carries'
    <2>1. CarriedOnce'
      BY <1>1, <1>2, <1>3, SendersApart, <1>27
         DEF Carries, CarriedOnce, CarriedAt, Prepared, LocalTypes, TCBTypes, PacketTypes,
             SendPlaces, InSend, Ending
    <2>2. ASSUME NEW g \in Send!Threads, NEW u \in TCBs PROVE CarriedAt(g, u)'
      <3>0. CarriedAt(g, u) /\ CarriedOnce
        BY <1>2 DEF Carries
      <3>1. CASE g = h
        BY <1>1, <1>2, <1>3, SendersApart, <1>27, <3>0, <3>1
           DEF CarriedOnce, CarriedAt, Prepared, LocalTypes, TCBTypes, PacketTypes,
               SendPlaces, InSend, Ending
      <3>2. CASE g # h
        BY <1>1, <1>2, <1>3, SendersApart, <1>27, <3>0, <3>2
           DEF CarriedOnce, CarriedAt, HasTCB, Prepared, LocalTypes, TCBTypes, PacketTypes,
               SendPlaces, InSend, Ending
      <3> QED
        BY <3>1, <3>2
    <2> QED
      BY <2>1, <2>2 DEF Carries
  <1>16. SendBusy'
    BY <1>2, <1>3, <1>5, <1>6, <1>8, <1>30 DEF SendBusy
  <1> QED
    BY <1>10, <1>11, <1>12, <1>13, <1>14, <1>15, <1>16 DEF Accounts

LEMMA SendGoesOnKeeps ==
  ASSUME SendInv, ~stale, ~stale', NEW h \in Send!Threads, Send!SendGoesOn(h)
  PROVE  Accounts'
  BY SendGoesOnSent, SendGoesOnSkipped DEF Send!SendGoesOn


LEMMA BehindOf ==
  ASSUME NEW S, NEW s \in Seq(S)
  PROVE  Behind(s) \subseteq S /\ Of(s) \subseteq S
  <1>1. CASE s = <<>>
    BY <1>1, NoneOf
  <1>2. CASE s # <<>>
    BY <1>2, TailOf
  <1> QED
    BY <1>1, <1>2

LEMMA SendDerefsNone ==
  ASSUME SendInv, ~stale, ~stale', NEW h \in Send!Threads, Send!SendDerefs(h), pTCB[h] = none
  PROVE  Accounts'
  <1>1. LocalTypes /\ TCBTypes /\ PacketTypes /\ SendPlaces
    BY DEF SendInv, SendTypes
  <1>2. OneThread /\ PacketPlaces /\ Completions /\ KeptSomewhere /\ OneUser /\ Carries /\ SendBusy
    BY DEF SendInv
  <1>27. (\A y \in sent : OrgSendPacket[y] \in Sends)
         /\ (\A g \in Send!Threads : sPc[g] \in InSend => Head(array[g]) \in Sends)
    BY <1>1, <1>2, HeadsSent
  <1>6. PICK q : q = Head(array[h])
    OBVIOUS
  <1>8. /\ q \in Sends /\ q \notin Behind(array[h]) /\ Holds(h, q)
        /\ q \in given /\ q \notin Of(SendWaitList) \cup canceling \cup dropped
        /\ ~Written(q) /\ ~Reported(q) /\ \A g \in Send!Threads : Packet[g] # q
        /\ \A g \in Send!Threads : g # h =>
              /\ ~Holds(g, q) /\ q \notin Behind(array[g])
              /\ sPc[g] \in InSend /\ (sPc[g] = "check" => Status[g] = "failure") => q # Head(array[g])
        /\ completed[q] = 1
    <2>1. sPc[h] \in InSend /\ Live(h) /\ (sPc[h] \in {"deref", "reclaim"} <=> 1 = 1)
      BY DEF Send!SendDerefs, Send!At, InSend, Live
    <2> QED
      BY <1>6, <2>1, HeadOf
  <1>32. Send!NextPacket(h) /\ sPc[h] \in InSend
    BY <1>6 DEF Send!SendDerefs, Send!At, InSend
  <1>33. PICK a, s, st, x :
            /\ array' = [array EXCEPT ![h] = a] /\ sPc' = [sPc EXCEPT ![h] = s]
            /\ Status' = [Status EXCEPT ![h] = st] /\ pTCB' = [pTCB EXCEPT ![h] = x] /\ Packet' = Packet
            /\ a \in Seq(Sends) /\ Once(a)
            /\ \/ s = "test" /\ Behind(array[h]) = {Head(a)} \cup Behind(a)
               \/ s = "idle" /\ Behind(array[h]) = {} /\ Behind(a) = {}
    BY <1>32, MovesOn, Zenon
  <1>3. /\ array' = [array EXCEPT ![h] = a] /\ sPc' = [sPc EXCEPT ![h] = s]
        /\ Status' = [Status EXCEPT ![h] = st] /\ pTCB' = [pTCB EXCEPT ![h] = x] /\ Packet' = Packet
        /\ a \in Seq(Sends) /\ Once(a)
        /\ \/ s = "test" /\ Behind(array[h]) = {Head(a)} \cup Behind(a)
           \/ s = "idle" /\ Behind(array[h]) = {} /\ Behind(a) = {}
        /\ sPc[h] = "deref" /\ pTCB[h] = none
        /\ UNCHANGED <<SendFreeList, nBusySend, Ref, OrgSendPacket, SendWaitList, sent,
                       canceling, given, completed, dropped>>
    BY <1>33, <1>6
       DEF Send!SendDerefs, Send!At, Send!lists, Send!packets, Send!device, Send!Complete
  <1>30. \A u \in TCBs : OrgSendPacket[u] # q
    BY <1>2, <1>3, <1>6, SendersApart DEF Carries, CarriedAt
  <1>5. Taken' = Taken
    BY <1>1, <1>3 DEF Taken, LocalTypes
  <1>20. \A g \in Send!Threads, p \in Sends : Holds(g, p)' <=> Holds(g, p) /\ p # q
    <2> SUFFICES ASSUME NEW g \in Send!Threads, NEW p \in Sends PROVE Holds(g, p)' <=> Holds(g, p) /\ p # q
      OBVIOUS
    <2>1. CASE g = h
      BY <1>1, <1>3, <1>6, <1>8, <2>1 DEF Holds, Live, LocalTypes, InSend
    <2>2. CASE g # h
      BY <1>1, <1>3, <1>6, <1>8, <2>2 DEF Holds, Live, LocalTypes, InSend
    <2> QED
      BY <2>1, <2>2
  <1>21. \A g \in Send!Threads, p \in Sends : Leaving(g, p)' <=> Leaving(g, p) /\ p # q
    <2> SUFFICES ASSUME NEW g \in Send!Threads, NEW p \in Sends PROVE Leaving(g, p)' <=> Leaving(g, p) /\ p # q
      OBVIOUS
    <2>1. CASE g = h
      BY <1>1, <1>3, <1>6, <1>8, <2>1 DEF Leaving, LocalTypes, InSend
    <2>2. CASE g # h
      BY <1>1, <1>3, <1>6, <1>8, <2>2 DEF Leaving, LocalTypes, InSend
    <2> QED
      BY <2>1, <2>2
  <1>22. \A p \in Sends : Written(p)' <=> Written(p)
    BY <1>1, <1>3, <1>6, <1>8, <1>30 DEF Written, TCBTypes
  <1>23. \A p \in Sends : Reported(p)' <=> Reported(p)
    BY <1>1, <1>3, <1>6, <1>8, <1>30 DEF Reported, LocalTypes, SendPlaces
  <1>24. \A g \in Send!Threads, u \in TCBs : HasTCB(g, u)' <=> HasTCB(g, u)
    <2> SUFFICES ASSUME NEW g \in Send!Threads, NEW u \in TCBs PROVE HasTCB(g, u)' <=> HasTCB(g, u)
      OBVIOUS
    <2>1. CASE g = h
      BY <1>1, <1>3, <1>30, SendersApart, <2>1 DEF HasTCB, Prepared, LocalTypes, TCBTypes, InSend
    <2>2. CASE g # h
      BY <1>1, <1>3, <1>30, SendersApart, <2>2 DEF HasTCB, Prepared, LocalTypes, TCBTypes, InSend
    <2> QED
      BY <2>1, <2>2
  <1>10. OneThread'
    BY <1>2, <1>3, <1>20, <1>23, <1>6, <1>8, <1>30 DEF OneThread, Reported
  <1>11. PacketPlaces'
    BY <1>1, <1>2, <1>3, <1>27, <1>20, <1>22, <1>23, <1>6, <1>8, <1>30
       DEF PacketPlaces, TCBTypes, PacketTypes, LocalTypes
  <1>12. Completions'
    BY <1>1, <1>2, <1>3, <1>20, <1>21, <1>22, <1>23, <1>6, <1>8, <1>30
       DEF Completions, PacketTypes
  <1>13. KeptSomewhere'
    BY <1>1, <1>2, <1>3, <1>20, <1>22, <1>23, <1>6, <1>8, <1>30 DEF KeptSomewhere, PacketTypes
  <1>14. OneUser'
    BY <1>1, <1>2, <1>3, <1>24, <1>6, <1>8, <1>30, SendersApart DEF OneUser, TCBTypes
  <1>15. Carries'
    <2>1. CarriedOnce'
      BY <1>1, <1>2, <1>3, SendersApart, <1>27
         DEF Carries, CarriedOnce, CarriedAt, Prepared, LocalTypes, TCBTypes, PacketTypes,
             SendPlaces, InSend, Ending
    <2>2. ASSUME NEW g \in Send!Threads, NEW u \in TCBs PROVE CarriedAt(g, u)'
      <3>0. CarriedAt(g, u) /\ CarriedOnce
        BY <1>2 DEF Carries
      <3>1. CASE g = h
        BY <1>1, <1>2, <1>3, SendersApart, <1>27, <3>0, <3>1
           DEF CarriedOnce, CarriedAt, Prepared, LocalTypes, TCBTypes, PacketTypes,
               SendPlaces, InSend, Ending
      <3>2. CASE g # h
        BY <1>1, <1>2, <1>3, SendersApart, <1>27, <3>0, <3>2
           DEF CarriedOnce, CarriedAt, HasTCB, Prepared, LocalTypes, TCBTypes, PacketTypes,
               SendPlaces, InSend, Ending
      <3> QED
        BY <3>1, <3>2
    <2> QED
      BY <2>1, <2>2 DEF Carries
  <1>16. SendBusy'
    BY <1>2, <1>3, <1>5, <1>6, <1>8, <1>30 DEF SendBusy
  <1> QED
    BY <1>10, <1>11, <1>12, <1>13, <1>14, <1>15, <1>16 DEF Accounts

LEMMA SendDerefsOwn ==
  ASSUME SendInv, ~stale, ~stale', NEW h \in Send!Threads, Send!SendDerefs(h), pTCB[h] # none
  PROVE  Accounts'
  <1>1. LocalTypes /\ TCBTypes /\ PacketTypes /\ SendPlaces
    BY DEF SendInv, SendTypes
  <1>2. OneThread /\ PacketPlaces /\ Completions /\ KeptSomewhere /\ OneUser /\ Carries /\ SendBusy
    BY DEF SendInv
  <1>27. (\A y \in sent : OrgSendPacket[y] \in Sends)
         /\ (\A g \in Send!Threads : sPc[g] \in InSend => Head(array[g]) \in Sends)
    BY <1>1, <1>2, HeadsSent
  <1>6. PICK q : q = Head(array[h])
    OBVIOUS
  <1>8. /\ q \in Sends /\ q \notin Behind(array[h]) /\ Holds(h, q)
        /\ q \in given /\ q \notin Of(SendWaitList) \cup canceling \cup dropped
        /\ ~Written(q) /\ ~Reported(q) /\ \A g \in Send!Threads : Packet[g] # q
        /\ \A g \in Send!Threads : g # h =>
              /\ ~Holds(g, q) /\ q \notin Behind(array[g])
              /\ sPc[g] \in InSend /\ (sPc[g] = "check" => Status[g] = "failure") => q # Head(array[g])
        /\ completed[q] = 1
    <2>1. sPc[h] \in InSend /\ Live(h) /\ (sPc[h] \in {"deref", "reclaim"} <=> 1 = 1)
      BY DEF Send!SendDerefs, Send!At, InSend, Live
    <2> QED
      BY <1>6, <2>1, HeadOf
  <1>9. PICK t : t = pTCB[h]
    OBVIOUS
  <1>28. t \in TCBs /\ OrgSendPacket[t] = q /\ Ref[t] = 1
    BY <1>1, <1>2, <1>6, <1>9 DEF Send!SendDerefs, Send!At, Carries, CarriedAt, LocalTypes
  <1>3. /\ sPc[h] = "deref" /\ sPc' = [sPc EXCEPT ![h] = "reclaim"] /\ pTCB[h] = t /\ t \in TCBs
        /\ OrgSendPacket[t] = q /\ q = Head(array[h]) /\ Ref[t] = 1 /\ Ref' = [Ref EXCEPT ![t] = 0]
        /\ UNCHANGED <<SendFreeList, nBusySend, OrgSendPacket, SendWaitList, sent, canceling,
                       given, completed, dropped, array, Status, pTCB, Packet>>
    BY <1>1, <1>6, <1>9, <1>28, SendersApart
       DEF Send!SendDerefs, Send!At, Send!Goto, Send!Complete, Send!lists, Send!packets,
           Send!locals, Send!device, TCBTypes
  <1>25. t \notin SendFreeList /\ t \notin sent /\ HasTCB(h, t) /\ \A g \in Send!Threads : HasTCB(g, t) => g = h
    BY <1>1, <1>2, <1>3 DEF OneUser, HasTCB
  <1>20. \A g \in Send!Threads, p \in Sends : Holds(g, p)' <=> Holds(g, p)
    BY <1>1, <1>3, <1>8, <1>25 DEF Holds, Live, LocalTypes, InSend
  <1>21. \A g \in Send!Threads, p \in Sends : Leaving(g, p)' <=> Leaving(g, p)
    BY <1>1, <1>3, <1>8, <1>25 DEF Leaving, LocalTypes, SendPlaces, InSend
  <1>22. \A p \in Sends : Written(p)' <=> Written(p)
    BY <1>1, <1>3, <1>8, <1>25 DEF Written, TCBTypes
  <1>23. \A p \in Sends : Reported(p)' <=> Reported(p)
    BY <1>1, <1>3, <1>8, <1>25 DEF Reported, LocalTypes, SendPlaces
  <1>24. \A g \in Send!Threads, u \in TCBs : HasTCB(g, u)' <=> HasTCB(g, u)
    <2> SUFFICES ASSUME NEW g \in Send!Threads, NEW u \in TCBs PROVE HasTCB(g, u)' <=> HasTCB(g, u)
      OBVIOUS
    <2>1. CASE g = h
      BY <1>1, <1>3, <2>1 DEF HasTCB, Prepared, LocalTypes, TCBTypes, InSend
    <2>2. CASE g # h
      BY <1>1, <1>3, <2>2 DEF HasTCB, Prepared, LocalTypes, TCBTypes, InSend
    <2> QED
      BY <2>1, <2>2
  <1>10. OneThread'
    BY <1>2, <1>3, <1>20, <1>23, <1>8, <1>25 DEF OneThread, Reported
  <1>11. PacketPlaces'
    BY <1>1, <1>2, <1>3, <1>27, <1>20, <1>22, <1>23, <1>8, <1>25
       DEF PacketPlaces, TCBTypes, PacketTypes, LocalTypes
  <1>12. Completions'
    BY <1>1, <1>2, <1>3, <1>20, <1>21, <1>22, <1>23, <1>8, <1>25 DEF Completions, PacketTypes
  <1>13. KeptSomewhere'
    BY <1>1, <1>2, <1>3, <1>20, <1>22, <1>23, <1>8, <1>25 DEF KeptSomewhere, PacketTypes
  <1>14. OneUser'
    BY <1>1, <1>2, <1>3, <1>24, <1>8, <1>25 DEF OneUser, TCBTypes
  <1>15. Carries'
    <2>1. CarriedOnce'
      BY <1>1, <1>2, <1>3, SendersApart, <1>8, <1>25, <1>27
         DEF Carries, CarriedOnce, CarriedAt, Prepared, LocalTypes, TCBTypes, PacketTypes,
             SendPlaces, InSend, Ending
    <2>2. ASSUME NEW g \in Send!Threads, NEW u \in TCBs PROVE CarriedAt(g, u)'
      <3>0. CarriedAt(g, u) /\ CarriedOnce
        BY <1>2 DEF Carries
      <3>1. CASE g = h
        BY <1>1, <1>2, <1>3, SendersApart, <1>8, <1>25, <1>27, <3>0, <3>1
           DEF CarriedOnce, CarriedAt, Prepared, LocalTypes, TCBTypes, PacketTypes,
               SendPlaces, InSend, Ending
      <3>2. CASE g # h
        BY <1>1, <1>2, <1>3, SendersApart, <1>8, <1>25, <1>27, <3>0, <3>2
           DEF CarriedOnce, CarriedAt, HasTCB, Prepared, LocalTypes, TCBTypes, PacketTypes,
               SendPlaces, InSend, Ending
      <3> QED
        BY <3>1, <3>2
    <2> QED
      BY <2>1, <2>2 DEF Carries
  <1>5. Taken' = Taken
    BY <1>1, <1>3 DEF Taken, LocalTypes, SendPlaces
  <1>16. SendBusy'
    BY <1>2, <1>3, <1>5, <1>8, <1>25 DEF SendBusy
  <1> QED
    BY <1>10, <1>11, <1>12, <1>13, <1>14, <1>15, <1>16 DEF Accounts

LEMMA SendDerefsKeeps ==
  ASSUME SendInv, ~stale, ~stale', NEW h \in Send!Threads, Send!SendDerefs(h)
  PROVE  Accounts'
  BY SendDerefsNone, SendDerefsOwn

LEMMA SendReclaimsKeeps ==
  ASSUME SendInv, ~stale, ~stale', NEW h \in Send!Threads, Send!SendReclaims(h)
  PROVE  Accounts'
  <1>1. LocalTypes /\ TCBTypes /\ PacketTypes /\ SendPlaces
    BY DEF SendInv, SendTypes
  <1>2. OneThread /\ PacketPlaces /\ Completions /\ KeptSomewhere /\ OneUser /\ Carries /\ SendBusy
    BY DEF SendInv
  <1>27. (\A y \in sent : OrgSendPacket[y] \in Sends)
         /\ (\A g \in Send!Threads : sPc[g] \in InSend => Head(array[g]) \in Sends)
    BY <1>1, <1>2, HeadsSent
  <1>6. PICK q : q = Head(array[h])
    OBVIOUS
  <1>8. /\ q \in Sends /\ q \notin Behind(array[h]) /\ Holds(h, q)
        /\ q \in given /\ q \notin Of(SendWaitList) \cup canceling \cup dropped
        /\ ~Written(q) /\ ~Reported(q) /\ \A g \in Send!Threads : Packet[g] # q
        /\ \A g \in Send!Threads : g # h =>
              /\ ~Holds(g, q) /\ q \notin Behind(array[g])
              /\ sPc[g] \in InSend /\ (sPc[g] = "check" => Status[g] = "failure") => q # Head(array[g])
        /\ completed[q] = 1
    <2>1. sPc[h] \in InSend /\ Live(h) /\ (sPc[h] \in {"deref", "reclaim"} <=> 1 = 1)
      BY DEF Send!SendReclaims, Send!At, InSend, Live
    <2> QED
      BY <1>6, <2>1, HeadOf
  <1>9. PICK t : t = pTCB[h]
    OBVIOUS
  <1>28. t \in TCBs /\ sPc[h] = "reclaim"
    BY <1>1, <1>9 DEF Send!SendReclaims, Send!At, SendPlaces
  <1>25. t \notin SendFreeList /\ t \notin sent /\ HasTCB(h, t) /\ \A g \in Send!Threads : HasTCB(g, t) => g = h
    BY <1>2, <1>9, <1>28 DEF OneUser, HasTCB
  <1>26. OrgSendPacket[t] = q
    BY <1>2, <1>6, <1>9, <1>28 DEF Carries, CarriedAt
  <1>32. Send!NextPacket(h) /\ sPc[h] \in InSend
    BY <1>9, <1>25, <1>28 DEF Send!SendReclaims, Send!At, InSend, Send!NICFreeSendTCB
  <1>33. PICK a, s, st, x :
            /\ array' = [array EXCEPT ![h] = a] /\ sPc' = [sPc EXCEPT ![h] = s]
            /\ Status' = [Status EXCEPT ![h] = st] /\ pTCB' = [pTCB EXCEPT ![h] = x] /\ Packet' = Packet
            /\ a \in Seq(Sends) /\ Once(a)
            /\ \/ s = "test" /\ Behind(array[h]) = {Head(a)} \cup Behind(a)
               \/ s = "idle" /\ Behind(array[h]) = {} /\ Behind(a) = {}
    BY <1>32, MovesOn, Zenon
  <1>3. /\ array' = [array EXCEPT ![h] = a] /\ sPc' = [sPc EXCEPT ![h] = s]
        /\ Status' = [Status EXCEPT ![h] = st] /\ pTCB' = [pTCB EXCEPT ![h] = x] /\ Packet' = Packet
        /\ a \in Seq(Sends) /\ Once(a)
        /\ \/ s = "test" /\ Behind(array[h]) = {Head(a)} \cup Behind(a)
           \/ s = "idle" /\ Behind(array[h]) = {} /\ Behind(a) = {}
        /\ sPc[h] = "reclaim" /\ pTCB[h] = t /\ t \in TCBs
        /\ OrgSendPacket' = [OrgSendPacket EXCEPT ![t] = none]
        /\ SendFreeList' = SendFreeList \cup {t} /\ nBusySend' = nBusySend - 1
        /\ UNCHANGED <<Ref, SendWaitList, sent, canceling, given, completed, dropped>>
    BY <1>33, <1>9, <1>25, <1>28
       DEF Send!SendReclaims, Send!At, Send!lists, Send!packets, Send!device,
           Send!NICFreeSendTCB
  <1>30. \A u \in TCBs : u # t => OrgSendPacket[u] # q
    BY <1>2, <1>3, <1>26, <1>8, SendersApart DEF Carries, CarriedOnce
  <1>31. \A g \in Send!Threads : sPc[g] = "deref" => OrgSendPacket[t] # Head(array[g])
    BY <1>2, <1>3, <1>25 DEF Carries, CarriedAt, HasTCB
  <1>35. Taken' = Taken
    BY <1>1, <1>3 DEF Taken, LocalTypes
  <1>36. t \notin Taken /\ SendFreeList' \cup Taken' = SendFreeList \cup Taken \cup {t}
    BY <1>3, <1>25, <1>35 DEF Taken, HasTCB
  <1>37. /\ Cardinality(TCBs \ (SendFreeList \cup Taken)) = Cardinality(TCBs \ (SendFreeList' \cup Taken')) + 1
         /\ Cardinality(TCBs \ (SendFreeList' \cup Taken')) \in Nat
    <2>1. t \in SendFreeList' \cup Taken' /\ SendFreeList \cup Taken = (SendFreeList' \cup Taken') \ {t}
      BY <1>25, <1>36
    <2> QED
      BY <1>28, <2>1, SendersApart, BusyMore, FS_Subset, FS_CardinalityType
  <1>38. \A g \in Send!Threads : none \notin Behind(array[g])
    BY <1>1, BehindOf, SendersApart DEF LocalTypes
  <1>5. nBusySend' = Cardinality(TCBs \ (SendFreeList' \cup Taken'))
    BY <1>2, <1>3, <1>37 DEF SendBusy
  <1>20. \A g \in Send!Threads, p \in Sends : Holds(g, p)' <=> Holds(g, p) /\ p # q
    <2> SUFFICES ASSUME NEW g \in Send!Threads, NEW p \in Sends PROVE Holds(g, p)' <=> Holds(g, p) /\ p # q
      OBVIOUS
    <2>1. CASE g = h
      BY <1>1, <1>3, <1>6, <1>8, <2>1 DEF Holds, Live, LocalTypes, InSend
    <2>2. CASE g # h
      BY <1>1, <1>3, <1>6, <1>8, <2>2 DEF Holds, Live, LocalTypes, InSend
    <2> QED
      BY <2>1, <2>2
  <1>21. \A g \in Send!Threads, p \in Sends : Leaving(g, p)' <=> Leaving(g, p) /\ p # q
    <2> SUFFICES ASSUME NEW g \in Send!Threads, NEW p \in Sends PROVE Leaving(g, p)' <=> Leaving(g, p) /\ p # q
      OBVIOUS
    <2>1. CASE g = h
      BY <1>1, <1>3, <1>6, <1>8, <2>1 DEF Leaving, LocalTypes, InSend
    <2>2. CASE g # h
      BY <1>1, <1>3, <1>6, <1>8, <2>2 DEF Leaving, LocalTypes, InSend
    <2> QED
      BY <2>1, <2>2
  <1>22. \A p \in Sends : Written(p)' <=> Written(p)
    BY <1>1, <1>3, <1>6, <1>8, <1>25, <1>26, <1>30 DEF Written, TCBTypes
  <1>23. \A p \in Sends : Reported(p)' <=> Reported(p)
    BY <1>1, <1>3, <1>6, <1>8, <1>25, <1>26, <1>30 DEF Reported, LocalTypes, SendPlaces
  <1>24. \A g \in Send!Threads, u \in TCBs : HasTCB(g, u)' <=> HasTCB(g, u) /\ u # t
    <2> SUFFICES ASSUME NEW g \in Send!Threads, NEW u \in TCBs PROVE HasTCB(g, u)' <=> HasTCB(g, u) /\ u # t
      OBVIOUS
    <2>1. CASE g = h
      BY <1>1, <1>3, <1>25, <1>31, <1>27, SendersApart, <2>1
         DEF HasTCB, Prepared, LocalTypes, TCBTypes, InSend
    <2>2. CASE g # h
      BY <1>1, <1>3, <1>25, <1>31, <1>27, SendersApart, <2>2
         DEF HasTCB, Prepared, LocalTypes, TCBTypes, InSend
    <2> QED
      BY <2>1, <2>2
  <1>10. OneThread'
    BY <1>2, <1>3, <1>20, <1>23, <1>6, <1>8, <1>25, <1>26, <1>30 DEF OneThread, Reported
  <1>11. PacketPlaces'
    BY <1>1, <1>2, <1>3, <1>27, <1>20, <1>22, <1>23, <1>6, <1>8, <1>25, <1>26, <1>30,
       SendersApart
       DEF PacketPlaces, TCBTypes, PacketTypes, LocalTypes
  <1>12. Completions'
    BY <1>1, <1>2, <1>3, <1>20, <1>21, <1>22, <1>23, <1>6, <1>8, <1>25, <1>26, <1>30
       DEF Completions, PacketTypes
  <1>13. KeptSomewhere'
    BY <1>1, <1>2, <1>3, <1>20, <1>22, <1>23, <1>6, <1>8, <1>25, <1>26, <1>30
       DEF KeptSomewhere, PacketTypes
  <1>14. OneUser'
    BY <1>1, <1>2, <1>3, <1>24, <1>6, <1>8, <1>25, <1>26, <1>30 DEF OneUser, TCBTypes
  <1>15. Carries'
    <2>1. CarriedOnce'
      BY <1>1, <1>2, <1>3, SendersApart, <1>25, <1>26, <1>30, <1>27, <1>38
         DEF Carries, CarriedOnce, CarriedAt, Prepared, LocalTypes, TCBTypes, PacketTypes,
             SendPlaces, InSend, Ending
    <2>2. ASSUME NEW g \in Send!Threads, NEW u \in TCBs PROVE CarriedAt(g, u)'
      <3>0. CarriedAt(g, u) /\ CarriedOnce
        BY <1>2 DEF Carries
      <3>1. CASE g = h
        BY <1>1, <1>2, <1>3, SendersApart, <1>25, <1>26, <1>30, <1>27, <1>38, <3>0, <3>1
           DEF CarriedOnce, CarriedAt, Prepared, LocalTypes, TCBTypes, PacketTypes,
               SendPlaces, InSend, Ending
      <3>2. CASE g # h
        BY <1>1, <1>2, <1>3, SendersApart, <1>25, <1>26, <1>30, <1>27, <1>38, <3>0, <3>2
           DEF CarriedOnce, CarriedAt, HasTCB, Prepared, LocalTypes, TCBTypes, PacketTypes,
               SendPlaces, InSend, Ending
      <3> QED
        BY <3>1, <3>2
    <2> QED
      BY <2>1, <2>2 DEF Carries
  <1>16. SendBusy'
    BY <1>2, <1>3, <1>5, <1>6, <1>8, <1>25, <1>26, <1>30 DEF SendBusy
  <1> QED
    BY <1>10, <1>11, <1>12, <1>13, <1>14, <1>15, <1>16 DEF Accounts


LEMMA MPSendPacketsKeeps ==
  ASSUME SendInv, ~stale, ~stale', NEW h \in Send!Threads, Send!MPSendPackets(h)
  PROVE  Accounts'
  <1>1. LocalTypes /\ TCBTypes /\ PacketTypes /\ SendPlaces
    BY DEF SendInv, SendTypes
  <1>2. OneThread /\ PacketPlaces /\ Completions /\ KeptSomewhere /\ OneUser /\ Carries /\ SendBusy
    BY DEF SendInv
  <1>27. (\A y \in sent : OrgSendPacket[y] \in Sends)
         /\ (\A g \in Send!Threads : sPc[g] \in InSend => Head(array[g]) \in Sends)
    BY <1>1, <1>2, HeadsSent
  <1>32. PICK n \in 1 .. MaxArray : \E s \in [1 .. n -> Sends \ given] :
               /\ \A i, j \in 1 .. n : s[i] = s[j] => i = j
               /\ Send!Begins(h, s)
               /\ given' = given \cup {s[i] : i \in 1 .. n}
    BY DEF Send!MPSendPackets
  <1>33. PICK s \in [1 .. n -> Sends \ given] :
               /\ \A i, j \in 1 .. n : s[i] = s[j] => i = j
               /\ Send!Begins(h, s)
               /\ given' = given \cup {s[i] : i \in 1 .. n}
    BY <1>32
  <1>34. /\ s \in Seq(Sends) /\ s # <<>> /\ Of(s) = {s[i] : i \in 1 .. n} /\ Once(s)
         /\ Of(s) \cap given = {}
    <2>1. n \in Nat /\ n > 0
      BY SendersApart
    <2>2. s \in Seq(Sends \ given) /\ s # <<>> /\ Of(s) = {s[i] : i \in 1 .. n}
      BY <2>1, ArrayOf
    <2>3. s \in Seq(Sends)
      BY <2>1, ArrayOf
    <2>4. Once(s)
      BY <1>33, <2>1, ArrayOnce
    <2>5. Of(s) \cap given = {}
      BY <2>2
    <2> QED
      BY <2>2, <2>3, <2>4, <2>5
  <1>35. Of(s) = {Head(s)} \cup Behind(s) /\ Of(s) \subseteq Sends
    BY <1>34, TailOf
  <1>3. /\ sPc[h] = "idle" /\ sPc' = [sPc EXCEPT ![h] = "test"] /\ array' = [array EXCEPT ![h] = s]
        /\ Status' = [Status EXCEPT ![h] = "failure"] /\ pTCB' = [pTCB EXCEPT ![h] = none]
        /\ given' = given \cup Of(s) /\ Once(s) /\ Of(s) \cap given = {}
        /\ Of(s) = {Head(s)} \cup Behind(s) /\ Of(s) \subseteq Sends
        /\ UNCHANGED <<SendFreeList, nBusySend, Ref, OrgSendPacket, SendWaitList, sent,
                       canceling, completed, dropped, Packet>>
    BY <1>33, <1>34, <1>35
       DEF Send!MPSendPackets, Send!Begins, Send!Goto, Send!At, Send!lists, Send!device
  <1>29. Behind(array[h]) = {} /\ none \notin Sends /\ \A p : ~Leaving(h, p)
    BY <1>1, <1>3, NoneOf, SendersApart DEF SendPlaces, InSend, Leaving
  <1>30. \A p \in Of(s) :
            /\ p \notin Of(SendWaitList) \cup canceling \cup dropped /\ completed[p] = 0
            /\ \A u \in TCBs : OrgSendPacket[u] # p
            /\ \A g \in Send!Threads : ~Holds(g, p) /\ Packet[g] # p
    BY <1>1, <1>2, <1>3, SendersApart DEF PacketPlaces, Completions
  <1>31. \A p \in Of(s) : ~Written(p) /\ ~Reported(p)
    BY <1>1, <1>30 DEF Written, Reported, TCBTypes
  <1>5. Taken' = Taken
    BY <1>1, <1>3 DEF Taken, LocalTypes, SendPlaces
  <1>20. \A g \in Send!Threads, p \in Sends : Holds(g, p)' <=> Holds(g, p) \/ (g = h /\ p \in Of(s))
    <2> SUFFICES ASSUME NEW g \in Send!Threads, NEW p \in Sends PROVE Holds(g, p)' <=> Holds(g, p) \/ (g = h /\ p \in Of(s))
      OBVIOUS
    <2>1. CASE g = h
      BY <1>1, <1>3, <1>29, <2>1 DEF Holds, Live, LocalTypes, InSend
    <2>2. CASE g # h
      BY <1>1, <1>3, <1>29, <2>2 DEF Holds, Live, LocalTypes, InSend
    <2> QED
      BY <2>1, <2>2
  <1>21. \A g \in Send!Threads, p \in Sends : Leaving(g, p)' <=> Leaving(g, p)
    BY <1>1, <1>3, <1>29, <1>30, <1>31 DEF Leaving, LocalTypes, SendPlaces, InSend
  <1>22. \A p \in Sends : Written(p)' <=> Written(p)
    BY <1>1, <1>3, <1>29, <1>30, <1>31 DEF Written, TCBTypes
  <1>23. \A p \in Sends : Reported(p)' <=> Reported(p)
    BY <1>1, <1>3, <1>29, <1>30, <1>31 DEF Reported, LocalTypes, SendPlaces
  <1>24. \A g \in Send!Threads, u \in TCBs : HasTCB(g, u)' <=> HasTCB(g, u)
    BY <1>1, <1>3, <1>29, <1>30, <1>31 DEF HasTCB, Prepared, LocalTypes, TCBTypes, InSend
  <1>10. OneThread'
    BY <1>2, <1>3, <1>20, <1>23, <1>29, <1>30, <1>31 DEF OneThread, Reported
  <1>11. PacketPlaces'
    BY <1>1, <1>2, <1>3, <1>27, <1>20, <1>22, <1>23, <1>29, <1>30, <1>31
       DEF PacketPlaces, TCBTypes, PacketTypes, LocalTypes
  <1>12. Completions'
    BY <1>1, <1>2, <1>3, <1>20, <1>21, <1>22, <1>23, <1>29, <1>30, <1>31
       DEF Completions, PacketTypes
  <1>13. KeptSomewhere'
    BY <1>1, <1>2, <1>3, <1>20, <1>22, <1>23, <1>29, <1>30, <1>31
       DEF KeptSomewhere, PacketTypes
  <1>14. OneUser'
    BY <1>1, <1>2, <1>3, <1>24, <1>29, <1>30, <1>31 DEF OneUser, TCBTypes
  <1>15. Carries'
    <2>1. CarriedOnce'
      BY <1>1, <1>2, <1>3, SendersApart, <1>29, <1>30
         DEF Carries, CarriedOnce, CarriedAt, Prepared, LocalTypes, TCBTypes, PacketTypes,
             SendPlaces, InSend, Ending
    <2>2. ASSUME NEW g \in Send!Threads, NEW u \in TCBs PROVE CarriedAt(g, u)'
      <3>0. CarriedAt(g, u) /\ CarriedOnce
        BY <1>2 DEF Carries
      <3>1. CASE g = h
        BY <1>1, <1>2, <1>3, SendersApart, <1>29, <1>30, <3>0, <3>1
           DEF CarriedOnce, CarriedAt, Prepared, LocalTypes, TCBTypes, PacketTypes,
               SendPlaces, InSend, Ending
      <3>2. CASE g # h
        BY <1>1, <1>2, <1>3, SendersApart, <1>29, <1>30, <3>0, <3>2
           DEF CarriedOnce, CarriedAt, HasTCB, Prepared, LocalTypes, TCBTypes, PacketTypes,
               SendPlaces, InSend, Ending
      <3> QED
        BY <3>1, <3>2
    <2> QED
      BY <2>1, <2>2 DEF Carries
  <1>16. SendBusy'
    BY <1>2, <1>3, <1>5, <1>29, <1>30, <1>31 DEF SendBusy
  <1> QED
    BY <1>10, <1>11, <1>12, <1>13, <1>14, <1>15, <1>16 DEF Accounts

LEMMA WriteCompletesKeeps ==
  ASSUME SendInv, ~stale, ~stale', NEW d \in Send!Threads, NEW t \in TCBs, Send!WriteCompletes(d, t)
  PROVE  Accounts'
  <1>1. LocalTypes /\ TCBTypes /\ PacketTypes /\ SendPlaces
    BY DEF SendInv, SendTypes
  <1>2. OneThread /\ PacketPlaces /\ Completions /\ KeptSomewhere /\ OneUser /\ Carries /\ SendBusy
    BY DEF SendInv
  <1>27. (\A y \in sent : OrgSendPacket[y] \in Sends)
         /\ (\A g \in Send!Threads : sPc[g] \in InSend => Head(array[g]) \in Sends)
    BY <1>1, <1>2, HeadsSent
  <1>28. Ref[t] = 1 /\ OrgSendPacket[t] # none
    BY <1>2 DEF Send!WriteCompletes, Carries, CarriedOnce
  <1>4. PICK q : q = OrgSendPacket[t]
    OBVIOUS
  <1>3. /\ sPc[d] = "idle" /\ sPc' = [sPc EXCEPT ![d] = "free"] /\ t \in sent /\ sent' = sent \ {t}
        /\ q = OrgSendPacket[t] /\ q \in Sends /\ Ref[t] = 1 /\ Ref' = [Ref EXCEPT ![t] = 0]
        /\ pTCB' = [pTCB EXCEPT ![d] = t] /\ Packet' = [Packet EXCEPT ![d] = q]
        /\ UNCHANGED <<SendFreeList, nBusySend, OrgSendPacket, SendWaitList, canceling, given,
                       completed, dropped, array, Status>>
    BY <1>1, <1>4, <1>28, <1>27
       DEF Send!WriteCompletes, Send!At, Send!Goto, Send!Complete, Send!lists,
           Send!packets, Send!locals, Send!device
  <1>29. Behind(array[d]) = {} /\ none \notin Sends /\ \A p : ~Leaving(d, p)
    BY <1>1, <1>3, NoneOf, SendersApart DEF SendPlaces, InSend, Leaving
  <1>30. /\ Packet[d] = none /\ q \in given /\ ~Reported(q) /\ Written(q) /\ \A g \in Send!Threads : Packet[g] # q
         /\ t \notin SendFreeList /\ \A u \in TCBs : OrgSendPacket[u] = q => u = t
         /\ q \notin Of(SendWaitList) \cup canceling \cup dropped /\ \A g \in Send!Threads : ~Holds(g, q)
    <2>1. Packet[d] = none /\ q \in given /\ Written(q) /\ t \notin SendFreeList
      BY <1>1, <1>2, <1>3, <1>29 DEF SendPlaces, PacketPlaces, Written, OneUser
    <2>2. ~Reported(q) /\ \A g \in Send!Threads : Packet[g] # q
      BY <1>2, <1>3 DEF PacketPlaces, Reported
    <2>3. \A u \in TCBs : OrgSendPacket[u] = q => u = t
      BY <1>2, <1>3, <1>28 DEF Carries, CarriedOnce
    <2>4. q \notin Of(SendWaitList) \cup canceling \cup dropped
      BY <1>2, <1>3 DEF PacketPlaces
    <2>5. \A g \in Send!Threads : ~Holds(g, q)
      BY <1>2, <1>3, <2>1 DEF PacketPlaces
    <2> QED
      BY <2>1, <2>2, <2>3, <2>4, <2>5
  <1>26. \A g \in Send!Threads : ~HasTCB(g, t)
    BY <1>1, <1>2, <1>3 DEF OneUser
  <1>5. Taken' = Taken
    BY <1>1, <1>3 DEF Taken, LocalTypes
  <1>20. \A g \in Send!Threads, p \in Sends : Holds(g, p)' <=> Holds(g, p)
    <2> SUFFICES ASSUME NEW g \in Send!Threads, NEW p \in Sends PROVE Holds(g, p)' <=> Holds(g, p)
      OBVIOUS
    <2>1. CASE g = d
      BY <1>1, <1>3, <1>29, <2>1 DEF Holds, Live, LocalTypes, InSend
    <2>2. CASE g # d
      BY <1>1, <1>3, <1>29, <2>2 DEF Holds, Live, LocalTypes, InSend
    <2> QED
      BY <2>1, <2>2
  <1>21. \A g \in Send!Threads, p \in Sends : Leaving(g, p)' <=> Leaving(g, p)
    BY <1>1, <1>3, <1>29, <1>30 DEF Leaving, LocalTypes, SendPlaces, InSend
  <1>22. \A p \in Sends : Written(p)' <=> Written(p) /\ p # q
    BY <1>1, <1>3, <1>29, <1>30 DEF Written, TCBTypes
  <1>23. \A p \in Sends : Reported(p)' <=> Reported(p) \/ p = q
    BY <1>1, <1>3, <1>29, <1>30 DEF Reported, LocalTypes, SendPlaces
  <1>24. \A g \in Send!Threads, u \in TCBs : HasTCB(g, u)' <=> HasTCB(g, u) \/ (g = d /\ u = t)
    BY <1>1, <1>3, <1>29, <1>30 DEF HasTCB, Prepared, LocalTypes, TCBTypes, InSend
  <1>10. OneThread'
    BY <1>2, <1>3, <1>20, <1>23, <1>29, <1>30 DEF OneThread, Reported
  <1>11. PacketPlaces'
    BY <1>1, <1>2, <1>3, <1>27, <1>20, <1>22, <1>23, <1>29, <1>30
       DEF PacketPlaces, TCBTypes, PacketTypes, LocalTypes
  <1>12. Completions'
    BY <1>1, <1>2, <1>3, <1>20, <1>21, <1>22, <1>23, <1>29, <1>30 DEF Completions, PacketTypes
  <1>13. KeptSomewhere'
    BY <1>1, <1>2, <1>3, <1>20, <1>22, <1>23, <1>29, <1>30 DEF KeptSomewhere, PacketTypes
  <1>14. OneUser'
    BY <1>1, <1>2, <1>3, <1>24, <1>29, <1>30 DEF OneUser, TCBTypes
  <1>15. Carries'
    <2>1. CarriedOnce'
      BY <1>1, <1>2, <1>3, SendersApart, <1>26, <1>27, <1>29, <1>30
         DEF Carries, CarriedOnce, CarriedAt, Prepared, LocalTypes, TCBTypes, PacketTypes,
             SendPlaces, InSend, Ending
    <2>2. ASSUME NEW g \in Send!Threads, NEW u \in TCBs PROVE CarriedAt(g, u)'
      <3>0. CarriedAt(g, u) /\ CarriedOnce
        BY <1>2 DEF Carries
      <3>1. CASE g = d
        BY <1>1, <1>2, <1>3, SendersApart, <1>26, <1>27, <1>29, <1>30, <3>0, <3>1
           DEF CarriedOnce, CarriedAt, Prepared, LocalTypes, TCBTypes, PacketTypes,
               SendPlaces, InSend, Ending
      <3>2. CASE g # d
        BY <1>1, <1>2, <1>3, SendersApart, <1>26, <1>27, <1>29, <1>30, <3>0, <3>2
           DEF CarriedOnce, CarriedAt, HasTCB, Prepared, LocalTypes, TCBTypes, PacketTypes,
               SendPlaces, InSend, Ending
      <3> QED
        BY <3>1, <3>2
    <2> QED
      BY <2>1, <2>2 DEF Carries
  <1>16. SendBusy'
    BY <1>2, <1>3, <1>5, <1>29, <1>30 DEF SendBusy
  <1> QED
    BY <1>10, <1>11, <1>12, <1>13, <1>14, <1>15, <1>16 DEF Accounts

LEMMA WriteFreesKeeps ==
  ASSUME SendInv, ~stale, ~stale', NEW d \in Send!Threads, Send!WriteFrees(d)
  PROVE  Accounts'
  <1>1. LocalTypes /\ TCBTypes /\ PacketTypes /\ SendPlaces
    BY DEF SendInv, SendTypes
  <1>2. OneThread /\ PacketPlaces /\ Completions /\ KeptSomewhere /\ OneUser /\ Carries /\ SendBusy
    BY DEF SendInv
  <1>27. (\A y \in sent : OrgSendPacket[y] \in Sends)
         /\ (\A g \in Send!Threads : sPc[g] \in InSend => Head(array[g]) \in Sends)
    BY <1>1, <1>2, HeadsSent
  <1>9. PICK t : t = pTCB[d]
    OBVIOUS
  <1>28. t \in TCBs /\ sPc[d] = "free"
    BY <1>1, <1>9 DEF Send!WriteFrees, Send!At, SendPlaces
  <1>25. t \notin SendFreeList /\ t \notin sent /\ HasTCB(d, t) /\ \A g \in Send!Threads : HasTCB(g, t) => g = d
    BY <1>2, <1>9, <1>28 DEF OneUser, HasTCB
  <1>26. OrgSendPacket[t] = Packet[d] /\ Packet[d] # none
    BY <1>2, <1>9, <1>28 DEF Carries, CarriedAt
  <1>3. /\ sPc[d] = "free" /\ sPc' = [sPc EXCEPT ![d] = "complete"] /\ pTCB[d] = t /\ t \in TCBs
        /\ pTCB' = [pTCB EXCEPT ![d] = none] /\ OrgSendPacket' = [OrgSendPacket EXCEPT ![t] = none]
        /\ SendFreeList' = SendFreeList \cup {t} /\ nBusySend' = nBusySend - 1
        /\ UNCHANGED <<Ref, SendWaitList, sent, canceling, given, completed, dropped, array,
                       Status, Packet>>
    BY <1>9, <1>25, <1>28
       DEF Send!WriteFrees, Send!NICFreeSendTCB, Send!At, Send!Goto, Send!Complete,
           Send!lists, Send!packets, Send!locals, Send!device
  <1>29. Behind(array[d]) = {} /\ none \notin Sends /\ \A p : ~Leaving(d, p)
    BY <1>1, <1>3, NoneOf, SendersApart DEF SendPlaces, InSend, Leaving
  <1>30. \A u \in TCBs : u # t => OrgSendPacket[u] # Packet[d]
    BY <1>2, <1>3, <1>26, SendersApart DEF Carries, CarriedOnce
  <1>31. \A g \in Send!Threads : sPc[g] = "deref" => OrgSendPacket[t] # Head(array[g])
    BY <1>2, <1>3, <1>25 DEF Carries, CarriedAt, HasTCB
  <1>35. Taken' = Taken
    BY <1>1, <1>3 DEF Taken, LocalTypes
  <1>36. t \notin Taken /\ SendFreeList' \cup Taken' = SendFreeList \cup Taken \cup {t}
    BY <1>3, <1>25, <1>35 DEF Taken, HasTCB
  <1>37. /\ Cardinality(TCBs \ (SendFreeList \cup Taken)) = Cardinality(TCBs \ (SendFreeList' \cup Taken')) + 1
         /\ Cardinality(TCBs \ (SendFreeList' \cup Taken')) \in Nat
    <2>1. t \in SendFreeList' \cup Taken' /\ SendFreeList \cup Taken = (SendFreeList' \cup Taken') \ {t}
      BY <1>25, <1>36
    <2> QED
      BY <1>28, <2>1, SendersApart, BusyMore, FS_Subset, FS_CardinalityType
  <1>38. \A g \in Send!Threads : none \notin Behind(array[g])
    BY <1>1, BehindOf, SendersApart DEF LocalTypes
  <1>5. nBusySend' = Cardinality(TCBs \ (SendFreeList' \cup Taken'))
    BY <1>2, <1>3, <1>37 DEF SendBusy
  <1>20. \A g \in Send!Threads, p \in Sends : Holds(g, p)' <=> Holds(g, p)
    <2> SUFFICES ASSUME NEW g \in Send!Threads, NEW p \in Sends PROVE Holds(g, p)' <=> Holds(g, p)
      OBVIOUS
    <2>1. CASE g = d
      BY <1>1, <1>3, <1>29, <2>1 DEF Holds, Live, LocalTypes, InSend
    <2>2. CASE g # d
      BY <1>1, <1>3, <1>29, <2>2 DEF Holds, Live, LocalTypes, InSend
    <2> QED
      BY <2>1, <2>2
  <1>21. \A g \in Send!Threads, p \in Sends : Leaving(g, p)' <=> Leaving(g, p)
    BY <1>1, <1>3, <1>25, <1>26, <1>29, <1>30 DEF Leaving, LocalTypes, SendPlaces, InSend
  <1>22. \A p \in Sends : Written(p)' <=> Written(p)
    BY <1>1, <1>3, <1>25, <1>26, <1>29, <1>30 DEF Written, TCBTypes
  <1>23. \A p \in Sends : Reported(p)' <=> Reported(p)
    BY <1>1, <1>3, <1>25, <1>26, <1>29, <1>30 DEF Reported, LocalTypes, SendPlaces
  <1>24. \A g \in Send!Threads, u \in TCBs : HasTCB(g, u)' <=> HasTCB(g, u) /\ u # t
    <2> SUFFICES ASSUME NEW g \in Send!Threads, NEW u \in TCBs PROVE HasTCB(g, u)' <=> HasTCB(g, u) /\ u # t
      OBVIOUS
    <2>1. CASE g = d
      BY <1>1, <1>3, <1>25, <1>31, <1>27, SendersApart, <2>1
         DEF HasTCB, Prepared, LocalTypes, TCBTypes, InSend
    <2>2. CASE g # d
      BY <1>1, <1>3, <1>25, <1>31, <1>27, SendersApart, <2>2
         DEF HasTCB, Prepared, LocalTypes, TCBTypes, InSend
    <2> QED
      BY <2>1, <2>2
  <1>10. OneThread'
    BY <1>2, <1>3, <1>20, <1>23, <1>25, <1>26, <1>29, <1>30 DEF OneThread, Reported
  <1>11. PacketPlaces'
    BY <1>1, <1>2, <1>3, <1>27, <1>20, <1>22, <1>23, <1>25, <1>26, <1>29, <1>30,
       SendersApart
       DEF PacketPlaces, TCBTypes, PacketTypes, LocalTypes
  <1>12. Completions'
    BY <1>1, <1>2, <1>3, <1>20, <1>21, <1>22, <1>23, <1>25, <1>26, <1>29, <1>30
       DEF Completions, PacketTypes
  <1>13. KeptSomewhere'
    BY <1>1, <1>2, <1>3, <1>20, <1>22, <1>23, <1>25, <1>26, <1>29, <1>30
       DEF KeptSomewhere, PacketTypes
  <1>14. OneUser'
    BY <1>1, <1>2, <1>3, <1>24, <1>25, <1>26, <1>29, <1>30 DEF OneUser, TCBTypes
  <1>15. Carries'
    <2>1. CarriedOnce'
      BY <1>1, <1>2, <1>3, SendersApart, <1>25, <1>26, <1>30, <1>27, <1>38
         DEF Carries, CarriedOnce, CarriedAt, Prepared, LocalTypes, TCBTypes, PacketTypes,
             SendPlaces, InSend, Ending
    <2>2. ASSUME NEW g \in Send!Threads, NEW u \in TCBs PROVE CarriedAt(g, u)'
      <3>0. CarriedAt(g, u) /\ CarriedOnce
        BY <1>2 DEF Carries
      <3>1. CASE g = d
        BY <1>1, <1>2, <1>3, SendersApart, <1>25, <1>26, <1>30, <1>27, <1>38, <3>0, <3>1
           DEF CarriedOnce, CarriedAt, Prepared, LocalTypes, TCBTypes, PacketTypes,
               SendPlaces, InSend, Ending
      <3>2. CASE g # d
        BY <1>1, <1>2, <1>3, SendersApart, <1>25, <1>26, <1>30, <1>27, <1>38, <3>0, <3>2
           DEF CarriedOnce, CarriedAt, HasTCB, Prepared, LocalTypes, TCBTypes, PacketTypes,
               SendPlaces, InSend, Ending
      <3> QED
        BY <3>1, <3>2
    <2> QED
      BY <2>1, <2>2 DEF Carries
  <1>16. SendBusy'
    BY <1>2, <1>3, <1>5, <1>25, <1>26, <1>29, <1>30 DEF SendBusy
  <1> QED
    BY <1>10, <1>11, <1>12, <1>13, <1>14, <1>15, <1>16 DEF Accounts

LEMMA WriteReportsKeeps ==
  ASSUME SendInv, ~stale, ~stale', NEW d \in Send!Threads, Send!WriteReports(d)
  PROVE  Accounts'
  <1>1. LocalTypes /\ TCBTypes /\ PacketTypes /\ SendPlaces
    BY DEF SendInv, SendTypes
  <1>2. OneThread /\ PacketPlaces /\ Completions /\ KeptSomewhere /\ OneUser /\ Carries /\ SendBusy
    BY DEF SendInv
  <1>27. (\A y \in sent : OrgSendPacket[y] \in Sends)
         /\ (\A g \in Send!Threads : sPc[g] \in InSend => Head(array[g]) \in Sends)
    BY <1>1, <1>2, HeadsSent
  <1>4. PICK q : q = Packet[d]
    OBVIOUS
  <1>30. /\ q \in Sends /\ q \in given /\ Reported(q) /\ completed[q] = 0
         /\ \A g \in Send!Threads : ~Holds(g, q) /\ (Packet[g] = q => g = d)
         /\ \A u \in TCBs : OrgSendPacket[u] # q
         /\ q \notin Of(SendWaitList) \cup canceling \cup dropped /\ ~Written(q)
    <2>1. sPc[d] = "complete" /\ q # none
      BY <1>2, <1>4 DEF Send!WriteReports, Send!At, Carries, CarriedOnce
    <2>2. q \in Sends /\ q \in given /\ Reported(q)
      BY <1>1, <1>2, <1>4, <2>1 DEF LocalTypes, PacketPlaces, Reported
    <2>3. completed[q] = 0 /\ q \notin Of(SendWaitList) \cup canceling \cup dropped
      BY <1>2, <2>2 DEF Completions, PacketPlaces
    <2>4. \A g \in Send!Threads : ~Holds(g, q) /\ (Packet[g] = q => g = d)
      BY <1>2, <1>4, <2>1, <2>2 DEF OneThread, PacketPlaces
    <2>5. \A u \in TCBs : OrgSendPacket[u] # q
      BY <1>2, <1>4, <2>1 DEF Carries, CarriedAt
    <2>6. ~Written(q)
      BY <1>1, <2>5 DEF Written, TCBTypes
    <2> QED
      BY <2>2, <2>3, <2>4, <2>5, <2>6
  <1>3. /\ sPc[d] = "complete" /\ sPc' = [sPc EXCEPT ![d] = "pop"] /\ q = Packet[d]
        /\ completed' = [completed EXCEPT ![q] = 1] /\ Packet' = [Packet EXCEPT ![d] = none]
        /\ UNCHANGED <<SendFreeList, nBusySend, Ref, OrgSendPacket, SendWaitList, sent,
                       canceling, given, dropped, array, Status, pTCB>>
    BY <1>1, <1>4, <1>30
       DEF Send!WriteReports, Send!At, Send!Goto, Send!Complete, Send!lists, Send!packets,
           Send!locals, Send!device
  <1>29. Behind(array[d]) = {} /\ none \notin Sends /\ \A p : ~Leaving(d, p)
    BY <1>1, <1>3, NoneOf, SendersApart DEF SendPlaces, InSend, Leaving
  <1>5. Taken' = Taken
    BY <1>1, <1>3 DEF Taken, LocalTypes
  <1>20. \A g \in Send!Threads, p \in Sends : Holds(g, p)' <=> Holds(g, p)
    <2> SUFFICES ASSUME NEW g \in Send!Threads, NEW p \in Sends PROVE Holds(g, p)' <=> Holds(g, p)
      OBVIOUS
    <2>1. CASE g = d
      BY <1>1, <1>3, <1>29, <2>1 DEF Holds, Live, LocalTypes, InSend
    <2>2. CASE g # d
      BY <1>1, <1>3, <1>29, <2>2 DEF Holds, Live, LocalTypes, InSend
    <2> QED
      BY <2>1, <2>2
  <1>21. \A g \in Send!Threads, p \in Sends : Leaving(g, p)' <=> Leaving(g, p)
    BY <1>1, <1>3, <1>29, <1>30 DEF Leaving, LocalTypes, SendPlaces, InSend
  <1>22. \A p \in Sends : Written(p)' <=> Written(p)
    BY <1>1, <1>3, <1>29, <1>30 DEF Written, TCBTypes
  <1>23. \A p \in Sends : Reported(p)' <=> Reported(p) /\ p # q
    BY <1>1, <1>3, <1>29, <1>30 DEF Reported, LocalTypes, SendPlaces
  <1>24. \A g \in Send!Threads, u \in TCBs : HasTCB(g, u)' <=> HasTCB(g, u)
    BY <1>1, <1>3, <1>29, <1>30 DEF HasTCB, Prepared, LocalTypes, TCBTypes, InSend
  <1>10. OneThread'
    BY <1>2, <1>3, <1>20, <1>23, <1>29, <1>30 DEF OneThread, Reported
  <1>11. PacketPlaces'
    BY <1>1, <1>2, <1>3, <1>27, <1>20, <1>22, <1>23, <1>29, <1>30
       DEF PacketPlaces, TCBTypes, PacketTypes, LocalTypes
  <1>12. Completions'
    BY <1>1, <1>2, <1>3, <1>20, <1>21, <1>22, <1>23, <1>29, <1>30 DEF Completions, PacketTypes
  <1>13. KeptSomewhere'
    BY <1>1, <1>2, <1>3, <1>20, <1>22, <1>23, <1>29, <1>30 DEF KeptSomewhere, PacketTypes
  <1>14. OneUser'
    BY <1>1, <1>2, <1>3, <1>24, <1>29, <1>30 DEF OneUser, TCBTypes
  <1>15. Carries'
    <2>1. CarriedOnce'
      BY <1>1, <1>2, <1>3, SendersApart, <1>29, <1>27
         DEF Carries, CarriedOnce, CarriedAt, Prepared, LocalTypes, TCBTypes, PacketTypes,
             SendPlaces, InSend, Ending
    <2>2. ASSUME NEW g \in Send!Threads, NEW u \in TCBs PROVE CarriedAt(g, u)'
      <3>0. CarriedAt(g, u) /\ CarriedOnce
        BY <1>2 DEF Carries
      <3>1. CASE g = d
        BY <1>1, <1>2, <1>3, SendersApart, <1>29, <1>27, <3>0, <3>1
           DEF CarriedOnce, CarriedAt, Prepared, LocalTypes, TCBTypes, PacketTypes,
               SendPlaces, InSend, Ending
      <3>2. CASE g # d
        BY <1>1, <1>2, <1>3, SendersApart, <1>29, <1>27, <3>0, <3>2
           DEF CarriedOnce, CarriedAt, HasTCB, Prepared, LocalTypes, TCBTypes, PacketTypes,
               SendPlaces, InSend, Ending
      <3> QED
        BY <3>1, <3>2
    <2> QED
      BY <2>1, <2>2 DEF Carries
  <1>16. SendBusy'
    BY <1>2, <1>3, <1>5, <1>29, <1>30 DEF SendBusy
  <1> QED
    BY <1>10, <1>11, <1>12, <1>13, <1>14, <1>15, <1>16 DEF Accounts

LEMMA WritePopsNone ==
  ASSUME SendInv, ~stale, ~stale', NEW d \in Send!Threads, SendWaitList = <<>>, Send!WritePops(d)
  PROVE  Accounts'
  <1>1. LocalTypes /\ TCBTypes /\ PacketTypes /\ SendPlaces
    BY DEF SendInv, SendTypes
  <1>2. OneThread /\ PacketPlaces /\ Completions /\ KeptSomewhere /\ OneUser /\ Carries /\ SendBusy
    BY DEF SendInv
  <1>27. (\A y \in sent : OrgSendPacket[y] \in Sends)
         /\ (\A g \in Send!Threads : sPc[g] \in InSend => Head(array[g]) \in Sends)
    BY <1>1, <1>2, HeadsSent
  <1>3. /\ sPc[d] = "pop" /\ sPc' = [sPc EXCEPT ![d] = "idle"]
        /\ UNCHANGED <<SendFreeList, nBusySend, Ref, OrgSendPacket, SendWaitList, sent,
                       canceling, given, completed, dropped, array, Status, pTCB, Packet>>
    BY DEF Send!WritePops, Send!At, Send!Goto, Send!Complete, Send!lists, Send!packets,
       Send!locals, Send!device
  <1>29. Behind(array[d]) = {} /\ none \notin Sends /\ \A p : ~Leaving(d, p)
    BY <1>1, <1>3, NoneOf, SendersApart DEF SendPlaces, InSend, Leaving
  <1>5. Taken' = Taken
    BY <1>1, <1>3 DEF Taken, LocalTypes
  <1>20. \A g \in Send!Threads, p \in Sends : Holds(g, p)' <=> Holds(g, p)
    <2> SUFFICES ASSUME NEW g \in Send!Threads, NEW p \in Sends PROVE Holds(g, p)' <=> Holds(g, p)
      OBVIOUS
    <2>1. CASE g = d
      BY <1>1, <1>3, <1>29, <2>1 DEF Holds, Live, LocalTypes, InSend
    <2>2. CASE g # d
      BY <1>1, <1>3, <1>29, <2>2 DEF Holds, Live, LocalTypes, InSend
    <2> QED
      BY <2>1, <2>2
  <1>21. \A g \in Send!Threads, p \in Sends : Leaving(g, p)' <=> Leaving(g, p)
    BY <1>1, <1>3, <1>29 DEF Leaving, LocalTypes, SendPlaces, InSend
  <1>22. \A p \in Sends : Written(p)' <=> Written(p)
    BY <1>1, <1>3, <1>29 DEF Written, TCBTypes
  <1>23. \A p \in Sends : Reported(p)' <=> Reported(p)
    BY <1>1, <1>3, <1>29 DEF Reported, LocalTypes, SendPlaces
  <1>24. \A g \in Send!Threads, u \in TCBs : HasTCB(g, u)' <=> HasTCB(g, u)
    BY <1>1, <1>3, <1>29 DEF HasTCB, Prepared, LocalTypes, TCBTypes, InSend
  <1>10. OneThread'
    BY <1>2, <1>3, <1>20, <1>23, <1>29 DEF OneThread, Reported
  <1>11. PacketPlaces'
    BY <1>1, <1>2, <1>3, <1>27, <1>20, <1>22, <1>23, <1>29
       DEF PacketPlaces, TCBTypes, PacketTypes, LocalTypes
  <1>12. Completions'
    BY <1>1, <1>2, <1>3, <1>20, <1>21, <1>22, <1>23, <1>29 DEF Completions, PacketTypes
  <1>13. KeptSomewhere'
    BY <1>1, <1>2, <1>3, <1>20, <1>22, <1>23, <1>29 DEF KeptSomewhere, PacketTypes
  <1>14. OneUser'
    BY <1>1, <1>2, <1>3, <1>24, <1>29 DEF OneUser, TCBTypes
  <1>15. Carries'
    <2>1. CarriedOnce'
      BY <1>1, <1>2, <1>3, SendersApart, <1>29, <1>27
         DEF Carries, CarriedOnce, CarriedAt, Prepared, LocalTypes, TCBTypes, PacketTypes,
             SendPlaces, InSend, Ending
    <2>2. ASSUME NEW g \in Send!Threads, NEW u \in TCBs PROVE CarriedAt(g, u)'
      <3>0. CarriedAt(g, u) /\ CarriedOnce
        BY <1>2 DEF Carries
      <3>1. CASE g = d
        BY <1>1, <1>2, <1>3, SendersApart, <1>29, <1>27, <3>0, <3>1
           DEF CarriedOnce, CarriedAt, Prepared, LocalTypes, TCBTypes, PacketTypes,
               SendPlaces, InSend, Ending
      <3>2. CASE g # d
        BY <1>1, <1>2, <1>3, SendersApart, <1>29, <1>27, <3>0, <3>2
           DEF CarriedOnce, CarriedAt, HasTCB, Prepared, LocalTypes, TCBTypes, PacketTypes,
               SendPlaces, InSend, Ending
      <3> QED
        BY <3>1, <3>2
    <2> QED
      BY <2>1, <2>2 DEF Carries
  <1>16. SendBusy'
    BY <1>2, <1>3, <1>5, <1>29 DEF SendBusy
  <1> QED
    BY <1>10, <1>11, <1>12, <1>13, <1>14, <1>15, <1>16 DEF Accounts

LEMMA WritePopsNext ==
  ASSUME SendInv, ~stale, ~stale', NEW d \in Send!Threads, SendWaitList # <<>>, Send!WritePops(d)
  PROVE  Accounts'
  <1>1. LocalTypes /\ TCBTypes /\ PacketTypes /\ SendPlaces
    BY DEF SendInv, SendTypes
  <1>2. OneThread /\ PacketPlaces /\ Completions /\ KeptSomewhere /\ OneUser /\ Carries /\ SendBusy
    BY DEF SendInv
  <1>27. (\A y \in sent : OrgSendPacket[y] \in Sends)
         /\ (\A g \in Send!Threads : sPc[g] \in InSend => Head(array[g]) \in Sends)
    BY <1>1, <1>2, HeadsSent
  <1>6. PICK q : q = Head(SendWaitList)
    OBVIOUS
  <1>7. /\ q \in Sends /\ Of(SendWaitList) = {q} \cup Behind(SendWaitList)
        /\ Tail(SendWaitList) \in Seq(Sends) /\ Of(Tail(SendWaitList)) = Behind(SendWaitList)
        /\ q \notin Behind(SendWaitList) /\ Once(Tail(SendWaitList))
    BY <1>1, <1>2, <1>6, TailOf DEF PacketTypes, PacketPlaces
  <1>8. PICK s : s = <<q>>
    OBVIOUS
  <1>34. Of(s) = {q} /\ Behind(s) = {} /\ Head(s) = q /\ Once(s)
    BY <1>7, <1>8, SingleOf
  <1>3. /\ sPc[d] = "pop" /\ sPc' = [sPc EXCEPT ![d] = "test"] /\ array' = [array EXCEPT ![d] = s]
        /\ Status' = [Status EXCEPT ![d] = "failure"] /\ pTCB' = [pTCB EXCEPT ![d] = none]
        /\ Behind(s) = {} /\ Head(s) = q /\ Once(s) /\ q \in Sends
        /\ Of(SendWaitList) = {q} \cup Of(SendWaitList') /\ q \notin Of(SendWaitList') /\ Once(SendWaitList')
        /\ UNCHANGED <<SendFreeList, nBusySend, Ref, OrgSendPacket, sent, canceling, given,
                       completed, dropped, Packet>>
    BY <1>6, <1>7, <1>8, <1>34
       DEF Send!WritePops, Send!Begins, Send!Goto, Send!At, Send!lists, Send!packets,
           Send!device
  <1>29. Behind(array[d]) = {} /\ none \notin Sends /\ \A p : ~Leaving(d, p)
    BY <1>1, <1>3, NoneOf, SendersApart DEF SendPlaces, InSend, Leaving
  <1>30. /\ q \in given /\ q \notin canceling /\ q \notin dropped /\ completed[q] = 0
         /\ ~Reported(q) /\ \A u \in TCBs : OrgSendPacket[u] # q
    BY <1>2, <1>3 DEF PacketPlaces, Completions
  <1>31. ~Written(q) /\ \A g \in Send!Threads : ~Holds(g, q)
    BY <1>1, <1>2, <1>3, <1>30 DEF Written, PacketPlaces, TCBTypes
  <1>5. Taken' = Taken
    BY <1>1, <1>3 DEF Taken, LocalTypes
  <1>20. \A g \in Send!Threads, p \in Sends : Holds(g, p)' <=> Holds(g, p) \/ (g = d /\ p = q)
    <2> SUFFICES ASSUME NEW g \in Send!Threads, NEW p \in Sends PROVE Holds(g, p)' <=> Holds(g, p) \/ (g = d /\ p = q)
      OBVIOUS
    <2>1. CASE g = d
      BY <1>1, <1>3, <1>29, <2>1 DEF Holds, Live, LocalTypes, InSend
    <2>2. CASE g # d
      BY <1>1, <1>3, <1>29, <2>2 DEF Holds, Live, LocalTypes, InSend
    <2> QED
      BY <2>1, <2>2
  <1>21. \A g \in Send!Threads, p \in Sends : Leaving(g, p)' <=> Leaving(g, p)
    BY <1>1, <1>3, <1>29, <1>30, <1>31 DEF Leaving, LocalTypes, SendPlaces, InSend
  <1>22. \A p \in Sends : Written(p)' <=> Written(p)
    BY <1>1, <1>3, <1>29, <1>30, <1>31 DEF Written, TCBTypes
  <1>23. \A p \in Sends : Reported(p)' <=> Reported(p)
    BY <1>1, <1>3, <1>29, <1>30, <1>31 DEF Reported, LocalTypes, SendPlaces
  <1>24. \A g \in Send!Threads, u \in TCBs : HasTCB(g, u)' <=> HasTCB(g, u)
    BY <1>1, <1>3, <1>29, <1>30, <1>31 DEF HasTCB, Prepared, LocalTypes, TCBTypes, InSend
  <1>10. OneThread'
    BY <1>2, <1>3, <1>20, <1>23, <1>29, <1>30, <1>31 DEF OneThread, Reported
  <1>11. PacketPlaces'
    BY <1>1, <1>2, <1>3, <1>27, <1>20, <1>22, <1>23, <1>29, <1>30, <1>31
       DEF PacketPlaces, TCBTypes, PacketTypes, LocalTypes
  <1>12. Completions'
    BY <1>1, <1>2, <1>3, <1>20, <1>21, <1>22, <1>23, <1>29, <1>30, <1>31
       DEF Completions, PacketTypes
  <1>13. KeptSomewhere'
    BY <1>1, <1>2, <1>3, <1>20, <1>22, <1>23, <1>29, <1>30, <1>31
       DEF KeptSomewhere, PacketTypes
  <1>14. OneUser'
    BY <1>1, <1>2, <1>3, <1>24, <1>29, <1>30, <1>31 DEF OneUser, TCBTypes
  <1>15. Carries'
    <2>1. CarriedOnce'
      BY <1>1, <1>2, <1>3, SendersApart, <1>29, <1>30, <1>27
         DEF Carries, CarriedOnce, CarriedAt, Prepared, LocalTypes, TCBTypes, PacketTypes,
             SendPlaces, InSend, Ending
    <2>2. ASSUME NEW g \in Send!Threads, NEW u \in TCBs PROVE CarriedAt(g, u)'
      <3>0. CarriedAt(g, u) /\ CarriedOnce
        BY <1>2 DEF Carries
      <3>1. CASE g = d
        BY <1>1, <1>2, <1>3, SendersApart, <1>29, <1>30, <1>27, <3>0, <3>1
           DEF CarriedOnce, CarriedAt, Prepared, LocalTypes, TCBTypes, PacketTypes,
               SendPlaces, InSend, Ending
      <3>2. CASE g # d
        BY <1>1, <1>2, <1>3, SendersApart, <1>29, <1>30, <1>27, <3>0, <3>2
           DEF CarriedOnce, CarriedAt, HasTCB, Prepared, LocalTypes, TCBTypes, PacketTypes,
               SendPlaces, InSend, Ending
      <3> QED
        BY <3>1, <3>2
    <2> QED
      BY <2>1, <2>2 DEF Carries
  <1>16. SendBusy'
    BY <1>2, <1>3, <1>5, <1>29, <1>30, <1>31 DEF SendBusy
  <1> QED
    BY <1>10, <1>11, <1>12, <1>13, <1>14, <1>15, <1>16 DEF Accounts

LEMMA WritePopsKeeps ==
  ASSUME SendInv, ~stale, ~stale', NEW d \in Send!Threads, Send!WritePops(d)
  PROVE  Accounts'
  BY WritePopsNone, WritePopsNext


\* Most of what MPHalt does, and the changes of the media's state, leave packets and TCBs alone.
LEMMA AccountsFrame ==
  ASSUME SendInv, ~stale,
         UNCHANGED <<SendFreeList, nBusySend, Ref, OrgSendPacket, SendWaitList, sent, canceling,
                     given, completed, dropped, array, Status, pTCB, Packet, sPc>>
  PROVE  Accounts'
  <1>1. OneThread /\ PacketPlaces /\ Completions /\ KeptSomewhere /\ OneUser /\ Carries /\ SendBusy
    BY DEF SendInv
  <1>2. \A h \in Send!Threads : \A p \in Sends :
            (Holds(h, p)' <=> Holds(h, p)) /\ (Leaving(h, p)' <=> Leaving(h, p))
    BY DEF Holds, Live, Leaving
  <1>3. \A p : (Written(p)' <=> Written(p)) /\ (Reported(p)' <=> Reported(p))
    BY DEF Written, Reported
  <1>4. \A h \in Send!Threads : \A t \in TCBs : HasTCB(h, t)' <=> HasTCB(h, t)
    BY DEF HasTCB, Prepared
  <1>5. Taken' = Taken
    BY DEF Taken
  <1>6. OneThread' /\ OneUser'
    BY <1>1, <1>2, <1>4 DEF OneThread, OneUser
  <1>7. PacketPlaces'
    BY <1>1, <1>2, <1>3 DEF PacketPlaces
  <1>8. Completions'
    BY <1>1, <1>2, <1>3 DEF Completions
  <1>11. KeptSomewhere'
    <2>1. given \subseteq Sends
      BY DEF SendInv, SendTypes, PacketTypes
    <2> QED
      BY <1>1, <1>2, <1>3, <2>1 DEF KeptSomewhere
  <1>9. Carries'
    BY <1>1 DEF Carries, CarriedOnce, CarriedAt, Prepared
  <1>10. SendBusy'
    BY <1>1, <1>5 DEF SendBusy
  <1> QED
    BY <1>6, <1>7, <1>8, <1>9, <1>10, <1>11 DEF Accounts

LEMMA CancelsKeeps ==
  ASSUME SendInv, ~stale, ~stale', Send!Cancels
  PROVE  Accounts'
  <1>1. LocalTypes /\ TCBTypes /\ PacketTypes /\ SendPlaces
    BY DEF SendInv, SendTypes
  <1>2. OneThread /\ PacketPlaces /\ Completions /\ KeptSomewhere /\ OneUser /\ Carries /\ SendBusy
    BY DEF SendInv
  <1>27. (\A y \in sent : OrgSendPacket[y] \in Sends)
         /\ (\A g \in Send!Threads : sPc[g] \in InSend => Head(array[g]) \in Sends)
    BY <1>1, <1>2, HeadsSent
  <1>32. PICK ps \in SUBSET {SendWaitList[i] : i \in DOMAIN SendWaitList} \ {{}} :
               canceling' = ps /\ SendWaitList' = Send!WaitListWithout(ps)
    BY DEF Send!Cancels
  <1>33. ps \subseteq Of(SendWaitList)
    BY <1>1, LenProperties DEF PacketTypes, Of
  <1>34. Of(SendWaitList') = Of(SendWaitList) \ ps /\ Once(SendWaitList')
    BY <1>1, <1>2, <1>32, WithoutOf DEF PacketTypes, PacketPlaces
  <1>3. /\ canceling = {} /\ canceling' = ps /\ ps \subseteq Of(SendWaitList)
        /\ Of(SendWaitList') = Of(SendWaitList) \ ps /\ Once(SendWaitList')
        /\ UNCHANGED <<SendFreeList, nBusySend, Ref, OrgSendPacket, sent, given, completed,
                       dropped, array, Status, pTCB, Packet, sPc>>
    BY <1>32, <1>33, <1>34 DEF Send!Cancels, Send!locals, Send!device, Send!lists, Send!packets
  <1>5. Taken' = Taken
    BY <1>3 DEF Taken
  <1>20. \A g \in Send!Threads, p \in Sends : Holds(g, p)' <=> Holds(g, p)
    BY <1>1, <1>3 DEF Holds, Live, LocalTypes, InSend
  <1>21. \A g \in Send!Threads, p \in Sends : Leaving(g, p)' <=> Leaving(g, p)
    BY <1>1, <1>3 DEF Leaving, LocalTypes, SendPlaces, InSend
  <1>22. \A p \in Sends : Written(p)' <=> Written(p)
    BY <1>1, <1>3 DEF Written, TCBTypes
  <1>23. \A p \in Sends : Reported(p)' <=> Reported(p)
    BY <1>1, <1>3 DEF Reported, LocalTypes, SendPlaces
  <1>24. \A g \in Send!Threads, u \in TCBs : HasTCB(g, u)' <=> HasTCB(g, u)
    BY <1>1, <1>3 DEF HasTCB, Prepared, LocalTypes, TCBTypes, InSend
  <1>10. OneThread'
    BY <1>2, <1>3, <1>20, <1>23 DEF OneThread, Reported
  <1>11. PacketPlaces'
    BY <1>1, <1>2, <1>3, <1>27, <1>20, <1>22, <1>23
       DEF PacketPlaces, TCBTypes, PacketTypes, LocalTypes
  <1>12. Completions'
    BY <1>1, <1>2, <1>3, <1>20, <1>21, <1>22, <1>23 DEF Completions, PacketTypes
  <1>13. KeptSomewhere'
    BY <1>1, <1>2, <1>3, <1>20, <1>22, <1>23 DEF KeptSomewhere, PacketTypes
  <1>14. OneUser'
    BY <1>1, <1>2, <1>3, <1>24 DEF OneUser, TCBTypes
  <1>15. Carries'
    BY <1>1, <1>2, <1>3, SendersApart
       DEF Carries, CarriedOnce, CarriedAt, Prepared, LocalTypes, TCBTypes, PacketTypes,
           SendPlaces, InSend, Ending
  <1>16. SendBusy'
    BY <1>2, <1>3, <1>5 DEF SendBusy
  <1> QED
    BY <1>10, <1>11, <1>12, <1>13, <1>14, <1>15, <1>16 DEF Accounts

LEMMA CancelCompletesKeeps ==
  ASSUME SendInv, ~stale, ~stale', Send!CancelCompletes
  PROVE  Accounts'
  <1>1. LocalTypes /\ TCBTypes /\ PacketTypes /\ SendPlaces
    BY DEF SendInv, SendTypes
  <1>2. OneThread /\ PacketPlaces /\ Completions /\ KeptSomewhere /\ OneUser /\ Carries /\ SendBusy
    BY DEF SendInv
  <1>27. (\A y \in sent : OrgSendPacket[y] \in Sends)
         /\ (\A g \in Send!Threads : sPc[g] \in InSend => Head(array[g]) \in Sends)
    BY <1>1, <1>2, HeadsSent
  <1>4. PICK q : q = CHOOSE p \in canceling : TRUE
    OBVIOUS
  <1>30. /\ q \in canceling /\ q \in Sends /\ q \in given /\ completed[q] = 0 /\ q \notin Of(SendWaitList) /\ q \notin dropped
         /\ ~Reported(q) /\ \A u \in TCBs : OrgSendPacket[u] # q
    <2>1. q \in canceling
      BY <1>4 DEF Send!CancelCompletes
    <2>2. q \in Sends /\ completed[q] = 0
      BY <1>1, <1>2, <2>1 DEF PacketTypes, Completions
    <2> QED
      BY <1>2, <2>1, <2>2 DEF PacketPlaces
  <1>31. ~Written(q) /\ \A g \in Send!Threads : ~Holds(g, q)
    BY <1>1, <1>2, <1>30 DEF Written, PacketPlaces, TCBTypes
  <1>3. /\ canceling' = canceling \ {q} /\ completed' = [completed EXCEPT ![q] = 1]
        /\ UNCHANGED <<SendFreeList, nBusySend, Ref, OrgSendPacket, SendWaitList, sent, given,
                       dropped, array, Status, pTCB, Packet, sPc>>
    BY <1>1, <1>4, <1>30
       DEF Send!CancelCompletes, Send!Complete, Send!locals, Send!device, Send!lists,
           PacketTypes
  <1>5. Taken' = Taken
    BY <1>3 DEF Taken
  <1>20. \A g \in Send!Threads, p \in Sends : Holds(g, p)' <=> Holds(g, p)
    BY <1>1, <1>3, <1>30, <1>31 DEF Holds, Live, LocalTypes, InSend
  <1>21. \A g \in Send!Threads, p \in Sends : Leaving(g, p)' <=> Leaving(g, p)
    BY <1>1, <1>3, <1>30, <1>31 DEF Leaving, LocalTypes, SendPlaces, InSend
  <1>22. \A p \in Sends : Written(p)' <=> Written(p)
    BY <1>1, <1>3, <1>30, <1>31 DEF Written, TCBTypes
  <1>23. \A p \in Sends : Reported(p)' <=> Reported(p)
    BY <1>1, <1>3, <1>30, <1>31 DEF Reported, LocalTypes, SendPlaces
  <1>24. \A g \in Send!Threads, u \in TCBs : HasTCB(g, u)' <=> HasTCB(g, u)
    BY <1>1, <1>3, <1>30, <1>31 DEF HasTCB, Prepared, LocalTypes, TCBTypes, InSend
  <1>10. OneThread'
    BY <1>2, <1>3, <1>20, <1>23, <1>30, <1>31 DEF OneThread, Reported
  <1>11. PacketPlaces'
    BY <1>1, <1>2, <1>3, <1>27, <1>20, <1>22, <1>23, <1>30, <1>31
       DEF PacketPlaces, TCBTypes, PacketTypes, LocalTypes
  <1>12. Completions'
    BY <1>1, <1>2, <1>3, <1>20, <1>21, <1>22, <1>23, <1>30, <1>31 DEF Completions, PacketTypes
  <1>13. KeptSomewhere'
    BY <1>1, <1>2, <1>3, <1>20, <1>22, <1>23, <1>30, <1>31 DEF KeptSomewhere, PacketTypes
  <1>14. OneUser'
    BY <1>1, <1>2, <1>3, <1>24, <1>30, <1>31 DEF OneUser, TCBTypes
  <1>15. Carries'
    BY <1>1, <1>2, <1>3, SendersApart, <1>30, <1>31
       DEF Carries, CarriedOnce, CarriedAt, Prepared, LocalTypes, TCBTypes, PacketTypes,
           SendPlaces, InSend, Ending
  <1>16. SendBusy'
    BY <1>2, <1>3, <1>5, <1>30, <1>31 DEF SendBusy
  <1> QED
    BY <1>10, <1>11, <1>12, <1>13, <1>14, <1>15, <1>16 DEF Accounts

LEMMA HaltFlushesNext ==
  ASSUME SendInv, ~stale, ~stale', SendWaitList # <<>>, Send!HaltFlushes
  PROVE  Accounts'
  <1>1. LocalTypes /\ TCBTypes /\ PacketTypes /\ SendPlaces
    BY DEF SendInv, SendTypes
  <1>2. OneThread /\ PacketPlaces /\ Completions /\ KeptSomewhere /\ OneUser /\ Carries /\ SendBusy
    BY DEF SendInv
  <1>27. (\A y \in sent : OrgSendPacket[y] \in Sends)
         /\ (\A g \in Send!Threads : sPc[g] \in InSend => Head(array[g]) \in Sends)
    BY <1>1, <1>2, HeadsSent
  <1>6. PICK q : q = Head(SendWaitList)
    OBVIOUS
  <1>7. /\ q \in Sends /\ Of(SendWaitList) = {q} \cup Behind(SendWaitList)
        /\ Tail(SendWaitList) \in Seq(Sends) /\ Of(Tail(SendWaitList)) = Behind(SendWaitList)
        /\ q \notin Behind(SendWaitList) /\ Once(Tail(SendWaitList))
    BY <1>1, <1>2, <1>6, TailOf DEF PacketTypes, PacketPlaces
  <1>30. /\ completed[q] = 0 /\ q \in given /\ q \notin canceling /\ q \notin dropped
         /\ ~Reported(q) /\ \A u \in TCBs : OrgSendPacket[u] # q
    BY <1>2, <1>7 DEF PacketPlaces, Completions
  <1>31. ~Written(q) /\ \A g \in Send!Threads : ~Holds(g, q)
    BY <1>1, <1>2, <1>7, <1>30 DEF Written, PacketPlaces, TCBTypes
  <1>3. /\ completed' = [completed EXCEPT ![q] = 1] /\ q \in Sends
        /\ Of(SendWaitList) = {q} \cup Of(SendWaitList') /\ q \notin Of(SendWaitList') /\ Once(SendWaitList')
        /\ UNCHANGED <<SendFreeList, nBusySend, Ref, OrgSendPacket, sent, canceling, given,
                       dropped, array, Status, pTCB, Packet, sPc>>
    <2>1. /\ completed' = [completed EXCEPT ![q] = @ + 1] /\ SendWaitList' = Tail(SendWaitList)
          /\ UNCHANGED <<sPc, array, Status, pTCB, Packet>>
      BY <1>6 DEF Send!HaltFlushes, Send!Complete, Send!locals
    <2>2. UNCHANGED <<SendFreeList, nBusySend, Ref, OrgSendPacket, sent, canceling, given, dropped>>
      BY DEF Send!HaltFlushes, Send!lists
    <2>3. completed' = [completed EXCEPT ![q] = 1]
      BY <1>1, <1>7, <1>30, <2>1 DEF PacketTypes
    <2> QED
      BY <1>7, <2>1, <2>2, <2>3
  <1>5. Taken' = Taken
    BY <1>3 DEF Taken
  <1>20. \A g \in Send!Threads, p \in Sends : Holds(g, p)' <=> Holds(g, p)
    BY <1>1, <1>3, <1>30, <1>31 DEF Holds, Live, LocalTypes, InSend
  <1>21. \A g \in Send!Threads, p \in Sends : Leaving(g, p)' <=> Leaving(g, p)
    BY <1>1, <1>3, <1>30, <1>31 DEF Leaving, LocalTypes, SendPlaces, InSend
  <1>22. \A p \in Sends : Written(p)' <=> Written(p)
    BY <1>1, <1>3, <1>30, <1>31 DEF Written, TCBTypes
  <1>23. \A p \in Sends : Reported(p)' <=> Reported(p)
    BY <1>1, <1>3, <1>30, <1>31 DEF Reported, LocalTypes, SendPlaces
  <1>24. \A g \in Send!Threads, u \in TCBs : HasTCB(g, u)' <=> HasTCB(g, u)
    BY <1>1, <1>3, <1>30, <1>31 DEF HasTCB, Prepared, LocalTypes, TCBTypes, InSend
  <1>10. OneThread'
    BY <1>2, <1>3, <1>20, <1>23, <1>30, <1>31 DEF OneThread, Reported
  <1>11. PacketPlaces'
    BY <1>1, <1>2, <1>3, <1>27, <1>20, <1>22, <1>23, <1>30, <1>31
       DEF PacketPlaces, TCBTypes, PacketTypes, LocalTypes
  <1>12. Completions'
    BY <1>1, <1>2, <1>3, <1>20, <1>21, <1>22, <1>23, <1>30, <1>31 DEF Completions, PacketTypes
  <1>13. KeptSomewhere'
    BY <1>1, <1>2, <1>3, <1>20, <1>22, <1>23, <1>30, <1>31 DEF KeptSomewhere, PacketTypes
  <1>14. OneUser'
    BY <1>1, <1>2, <1>3, <1>24, <1>30, <1>31 DEF OneUser, TCBTypes
  <1>15. Carries'
    BY <1>1, <1>2, <1>3, SendersApart, <1>30, <1>31
       DEF Carries, CarriedOnce, CarriedAt, Prepared, LocalTypes, TCBTypes, PacketTypes,
           SendPlaces, InSend, Ending
  <1>16. SendBusy'
    BY <1>2, <1>3, <1>5, <1>30, <1>31 DEF SendBusy
  <1> QED
    BY <1>10, <1>11, <1>12, <1>13, <1>14, <1>15, <1>16 DEF Accounts

LEMMA HaltFlushesKeeps ==
  ASSUME SendInv, ~stale, ~stale', Send!HaltFlushes
  PROVE  Accounts'
  <1>1. CASE SendWaitList = <<>>
    <2>1. UNCHANGED <<SendFreeList, nBusySend, Ref, OrgSendPacket, SendWaitList, sent, canceling,
                      given, completed, dropped, array, Status, pTCB, Packet, sPc>>
      BY <1>1 DEF Send!HaltFlushes, Send!locals, Send!lists
    <2> QED
      BY <2>1, AccountsFrame
  <1>2. CASE SendWaitList # <<>>
    BY <1>2, HaltFlushesNext
  <1> QED
    BY <1>1, <1>2


LEMMA AccountsStep ==
  ASSUME SendInv, [Send!Next]_(Send!vars), ~stale'
  PROVE  Accounts'
  <1>1. ~stale
    <2>1. ASSUME Send!Next PROVE stale => stale'
      BY <2>1 DEF Send!Next, Send!MPSendPackets, Send!Send, Send!SendTests, Send!SendTakes,
           Send!SendQueues, Send!SendCopies, Send!SendPosts, Send!SendGoesOn, Send!SendFails,
           Send!SendDerefs, Send!SendReclaims, Send!WriteCompletion, Send!WriteFrees,
           Send!WriteReports, Send!WritePops, Send!WriteCompletes, Send!Cancels,
           Send!CancelCompletes, Send!MediaReads, Send!MediaWrites, Send!SurpriseRemoved,
           Send!HaltBegins, Send!Halts, Send!HaltStops, Send!HaltFlushes, Send!HaltFrees, Send!packets
    <2>2. ASSUME UNCHANGED Send!vars PROVE stale => stale'
      BY <2>2 DEF Send!vars, Send!packets
    <2> QED
      BY <2>1, <2>2
  <1>2. CASE UNCHANGED Send!vars
    <2>1. UNCHANGED <<SendFreeList, nBusySend, Ref, OrgSendPacket, SendWaitList, sent, canceling,
                      given, completed, dropped, array, Status, pTCB, Packet, sPc>>
      BY <1>2 DEF Send!vars, Send!device, Send!lists, Send!packets, Send!locals
    <2> QED
      BY <1>1, <2>1, AccountsFrame
  <1>3. ASSUME NEW h \in Send!Threads, Send!MPSendPackets(h) PROVE Accounts'
    BY <1>1, <1>3, MPSendPacketsKeeps
  <1>4. ASSUME NEW h \in Send!Threads, Send!Send(h) PROVE Accounts'
    BY <1>1, <1>4, SendTestsKeeps, SendTakesKeeps, SendQueuesKeeps, SendCopiesKeeps,
       SendPostsKeeps, SendGoesOnKeeps, SendFailsKeeps, SendDerefsKeeps, SendReclaimsKeeps
       DEF Send!Send
  <1>5. ASSUME NEW d \in Dpcs, Send!WriteCompletion(d) PROVE Accounts'
    <2>1. d \in Send!Threads
      BY SendersApart
    <2> QED
      BY <1>1, <1>5, <2>1, WriteFreesKeeps, WriteReportsKeeps, WritePopsKeeps
         DEF Send!WriteCompletion
  <1>6. ASSUME NEW d \in Dpcs, NEW t \in TCBs, Send!WriteCompletes(d, t) PROVE Accounts'
    <2>1. d \in Send!Threads
      BY SendersApart
    <2> QED
      BY <1>1, <1>6, <2>1, WriteCompletesKeeps
  <1>7. CASE Send!Cancels \/ Send!CancelCompletes
    BY <1>1, <1>7, CancelsKeeps, CancelCompletesKeeps
  <1>8. CASE Send!MediaReads \/ Send!MediaWrites \/ Send!SurpriseRemoved \/ Send!HaltBegins
             \/ Send!HaltStops \/ Send!HaltFrees
    <2>1. UNCHANGED <<SendFreeList, nBusySend, Ref, OrgSendPacket, SendWaitList, sent, canceling,
                      given, completed, dropped, array, Status, pTCB, Packet, sPc>>
      BY <1>8 DEF Send!MediaReads, Send!MediaWrites, Send!SurpriseRemoved, Send!HaltBegins,
           Send!HaltStops, Send!HaltFrees, Send!lists, Send!packets, Send!locals
    <2> QED
      BY <1>1, <2>1, AccountsFrame
  <1>9. CASE Send!HaltFlushes
    BY <1>1, <1>9, HaltFlushesKeeps
  <1> QED
    BY <1>2, <1>3, <1>4, <1>5, <1>6, <1>7, <1>8, <1>9 DEF Send!Next, Send!Halts

LEMMA SendStep == SendInv /\ [Send!Next]_(Send!vars) => SendInv'
  BY SendTypesStep, SendPlacesStep, HaltStagesStep, AccountsStep DEF SendInv, Accounts

LEMMA WaitsOf ==
  ASSUME PacketTypes, NEW p
  PROVE  Send!Waits(p) <=> p \in Of(SendWaitList)
  <1>1. DOMAIN SendWaitList = 1 .. Len(SendWaitList)
    BY LenProperties DEF PacketTypes
  <1> QED
    BY <1>1 DEF Send!Waits, Of

LEMMA SendersAccounted == SendInv => Send!SendsAccounted
  <1> SUFFICES ASSUME SendInv PROVE Send!SendsAccounted
    OBVIOUS
  <1>1. SendTypes /\ DeviceTypes /\ TCBTypes /\ PacketTypes /\ LocalTypes /\ SendPlaces /\ HaltStages
    BY DEF SendInv, SendTypes
  <1>2. ~stale => OneThread /\ PacketPlaces /\ Completions /\ KeptSomewhere /\ OneUser /\ Carries /\ SendBusy
    BY DEF SendInv
  <1>3. Send!TypeOK
    <2>1. \A h \in Send!Threads : Send!At(h, "idle") => array[h] = <<>> /\ Packet[h] = none
      BY <1>1 DEF SendPlaces, Send!At, InSend
    <2> QED
      BY <1>1, <2>1 DEF Send!TypeOK, DeviceTypes, TCBTypes, PacketTypes, Bits
  <1>4. Send!Kept
    <2> SUFFICES ASSUME ~stale, NEW p \in given, completed[p] = 0
                 PROVE  Send!Held(p) \/ p \in dropped
      BY DEF Send!Kept
    <2>1. p \in Sends
      BY <1>1 DEF PacketTypes
    <2>2. CASE p \in Of(SendWaitList) \cup canceling \cup dropped
      BY <1>1, <2>2, WaitsOf DEF Send!Held
    <2>3. CASE Written(p) \/ Reported(p)
      BY <1>1, <2>3 DEF Send!Held, Written, Reported, TCBTypes
    <2>4. ASSUME NEW h \in Send!Threads, Holds(h, p) PROVE Send!Held(p)
      <3>1. array[h] # <<>> /\ array[h] \in Seq(Sends)
        <4>1. array[h] \in Seq(Sends)
          BY <1>1 DEF LocalTypes
        <4>2. array[h] # <<>>
          BY <1>1, <2>4, NoneOf DEF Holds, SendPlaces
        <4> QED
          BY <4>1, <4>2
      <3>2. p \in Of(array[h])
        BY <2>4, <3>1, TailOf DEF Holds
      <3>3. DOMAIN array[h] = 1 .. Len(array[h])
        BY <3>1, LenProperties
      <3> QED
        BY <3>2, <3>3 DEF Send!Held, Of
    <2> QED
      BY <1>2, <2>2, <2>3, <2>4 DEF KeptSomewhere
  <1>5. Send!ReturnedUntouched
    <2> SUFFICES ASSUME ~stale, NEW p \in Sends, completed[p] > 0
                 PROVE  /\ completed[p] = 1 /\ ~Send!Waits(p) /\ p \notin canceling
                        /\ \A t \in sent : OrgSendPacket[t] # p
      BY DEF Send!ReturnedUntouched
    <2>1. completed[p] = 1
      BY <1>2 DEF Completions
    <2>2. p \notin Of(SendWaitList) \cup canceling /\ ~Written(p)
      BY <1>2, <2>1 DEF Completions
    <2> QED
      BY <1>1, <2>1, <2>2, WaitsOf DEF Written
  <1>6. Send!BusyExact
    <2> SUFFICES ASSUME ~stale
                 PROVE  /\ nBusySend + Send!Cardinality(SendFreeList \cup {pTCB[h] : h \in {g \in Send!Threads : Send!At(g, "copy")}})
                             = Send!Cardinality(TCBs)
                        /\ \A t \in sent : t \notin SendFreeList /\ Ref[t] = 1
      BY DEF Send!BusyExact
    <2>1. {pTCB[h] : h \in {g \in Send!Threads : Send!At(g, "copy")}} = Taken
      BY DEF Taken, Send!At
    <2>2. PICK X : X = SendFreeList \cup Taken
      OBVIOUS
    <2>3. X \subseteq TCBs
      BY <1>1, <2>2 DEF Taken, TCBTypes, SendPlaces
    <2>4. nBusySend = Cardinality(TCBs \ X)
      BY <1>2, <2>2 DEF SendBusy
    <2>5. Cardinality(TCBs \ X) + Cardinality(X) = Cardinality(TCBs)
      <3>1. IsFiniteSet(TCBs) /\ IsFiniteSet(X) /\ IsFiniteSet(TCBs \ X)
        BY <2>3, SendersApart, FS_Subset
      <3>2. /\ Cardinality(TCBs \ X) = Cardinality(TCBs) - Cardinality(TCBs \cap X)
            /\ TCBs \cap X = X
        BY <2>3, <3>1, FS_Difference
      <3>3. Cardinality(TCBs) \in Nat /\ Cardinality(X) \in Nat /\ Cardinality(TCBs \ X) \in Nat
        BY <3>1, FS_CardinalityType
      <3> QED
        BY <3>2, <3>3
    <2>6. \A t \in sent : t \notin SendFreeList /\ Ref[t] = 1
      BY <1>2 DEF OneUser, Carries, CarriedOnce
    <2> QED
      BY <2>1, <2>2, <2>4, <2>5, <2>6, SendCardinality
  <1>7. Send!FreedClean
    <2> SUFFICES ASSUME halt = "freed", ~stale
                 PROVE  /\ SendFreeList = TCBs /\ SendWaitList = <<>> /\ sent = {}
                        /\ \A h \in Send!Threads : Send!At(h, "idle")
                        /\ \A p \in given \ dropped : completed[p] = 1
      BY DEF Send!FreedClean
    <2>1. /\ SendFreeList = TCBs /\ SendWaitList = <<>> /\ sent = {} /\ canceling = {}
          /\ \A h \in Send!Threads : sPc[h] = "idle"
      BY <1>1 DEF HaltStages
    <2>2. ASSUME NEW p \in given \ dropped PROVE completed[p] = 1
      <3>1. p \in Sends /\ p \notin Of(SendWaitList) /\ ~Written(p)
        BY <1>1, <2>1, NoneOf DEF PacketTypes, Written
      <3>2. ~Reported(p)
        BY <1>1, <2>1, <3>1, SendersApart DEF Reported, SendPlaces
      <3>3. \A h \in Send!Threads : ~Holds(h, p)
        BY <1>1, <2>1, NoneOf DEF Holds, SendPlaces, InSend
      <3>4. completed[p] # 0
        BY <1>2, <2>1, <3>1, <3>2, <3>3 DEF KeptSomewhere
      <3> QED
        BY <1>2, <3>1, <3>4 DEF Completions
    <2> QED
      BY <2>1, <2>2 DEF Send!At
  <1> QED
    BY <1>3, <1>4, <1>5, <1>6, <1>7 DEF Send!SendsAccounted

\* NdisEdgeSend: a packet that was handed to MPSendPackets is kept until it is
\* completed, and completed once; the references of a TCB and nBusySend are those
\* of the writes that are out; the halt frees TCBs that nobody uses.  The threads
\* of the sends, the completions and the cancellations take steps in any order.
THEOREM SendsAlwaysAccounted == Send!Spec => []SendsAccounted
  <1>1. Send!Init => SendInv
    BY SendInit
  <1>2. SendInv /\ [Send!Next]_(Send!vars) => SendInv'
    BY SendStep
  <1>3. SendInv => SendsAccounted
    BY SendersAccounted DEF SendsAccounted
  <1> QED
    BY <1>1, <1>2, <1>3, PTL DEF Send!Spec

================================================================================
