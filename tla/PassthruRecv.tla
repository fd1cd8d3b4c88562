----------------------------- MODULE PassthruRecv -----------------------------
(***************************************************************************)
(* Packets that passthru receives (protocol.c: PtReceivePacket, PtReceive; *)
(* miniport.c: MPReturnPacket) while its miniport is halted (MPHalt).      *)
(*                                                                         *)
(* A packet of the miniport below is indicated above as it is, if it has   *)
(* packet stack left, or by a packet of the driver's pool.  Its status     *)
(* says whether the protocols above may keep it.  NDIS halts a miniport    *)
(* when everything indicated through it has been returned, and closes the  *)
(* binding when the calls of the receive handlers have returned.           *)
(* AnalysisPacket lets every packet pass.                                  *)
(***************************************************************************)
EXTENDS Naturals, FiniteSets

CONSTANTS
    Packets,
    PoolSize            \* of RecvPacketPoolHandle

RecvAssumption == IsFiniteSet(Packets) /\ PoolSize \in Nat

VARIABLES
    MiniportHandle,     \* not NULL?
    halt,               \* where MPHalt is
    pool,               \* packets left in the pool; the pool itself is freed by MPHalt
    at,                 \* where the call of a receive handler, or the packet, is
    keepable,           \* the packet's status is not NDIS_STATUS_RESOURCES
    mine,               \* is it indicated by a packet of the pool?
    late                \* history: the packets that MPHalt came upon between
                        \* the handler's test of MiniportHandle and its use

vars == <<MiniportHandle, halt, pool, at, keepable, mine, late>>

Move(p, from, to) == at[p] = from /\ at' = [at EXCEPT ![p] = to]
Still == UNCHANGED <<MiniportHandle, halt, late>>

\* The handlers drop it at once if there is no miniport or it sleeps.  In
\* PtReceive, where a packet need not come along, the status does not matter.
Receives(p) ==
    /\ halt \notin {"free", "done"}
    /\ MiniportHandle
    /\ Move(p, "below", "looked")
    /\ keepable' \in {[keepable EXCEPT ![p] = k] : k \in BOOLEAN}
    /\ UNCHANGED <<pool, mine>> /\ Still

\* NdisMIndicateReceivePacket of the packet itself: MiniportHandle is not
\* looked at again.
IndicatesSame(p) ==
    /\ Move(p, "looked", "above")
    /\ mine' = [mine EXCEPT ![p] = FALSE]
    /\ UNCHANGED <<pool, keepable>> /\ Still

Allocates(p) ==
    /\ pool > 0
    /\ Move(p, "looked", "packed")
    /\ pool' = pool - 1
    /\ mine' = [mine EXCEPT ![p] = TRUE]
    /\ UNCHANGED keepable /\ Still

\* PtReceivePacket drops it; PtReceive indicates the data instead.
Drops(p) ==
    /\ pool = 0
    /\ Move(p, "looked", "below")
    /\ UNCHANGED <<pool, keepable, mine>> /\ Still

\* Mutant: it is not asked whether there is still a miniport.
TestsMiniport_Not(p) ==
    /\ Move(p, "packed", "going")
    /\ UNCHANGED <<pool, keepable, mine>> /\ Still

\* If the miniport is gone, a packet that may be kept counts as kept.
TestsMiniport(p) ==
    /\ Move(p, "packed", IF MiniportHandle THEN "going"
                         ELSE IF keepable[p] THEN "kept" ELSE "back")
    /\ UNCHANGED <<pool, keepable, mine>> /\ Still

\* NdisMIndicateReceivePacket; MPHalt, which takes no lock, may have set
\* MiniportHandle to NULL since it was tested.
IndicatesMine(p) ==
    /\ Move(p, "going", "above")
    /\ UNCHANGED <<pool, keepable, mine>> /\ Still

\* The protocols have not kept it: the handler frees MyPacket and returns 0.
Reclaims(p) ==
    /\ at[p] = "back" \/ (at[p] = "above" /\ ~keepable[p])
    /\ at' = [at EXCEPT ![p] = "below"]
    /\ pool' = IF mine[p] THEN pool + 1 ELSE pool
    /\ UNCHANGED <<keepable, mine>> /\ Still

\* MPReturnPacket frees MyPacket and returns the packet below.
MPReturnPacket(p) ==
    /\ at[p] = "above" /\ keepable[p]
    /\ at' = [at EXCEPT ![p] = "below"]
    /\ pool' = IF mine[p] THEN pool + 1 ELSE pool
    /\ UNCHANGED <<keepable, mine>> /\ Still

\* MPHalt.
HaltBegins ==
    /\ MiniportHandle
    /\ \A p \in Packets : at[p] # "above"
    /\ MiniportHandle' = FALSE
    /\ halt' = "close"
    /\ late' = {p \in Packets : at[p] = "going"}
    /\ UNCHANGED <<pool, at, keepable, mine>>

HaltCloses ==
    /\ halt = "close"
    /\ \A p \in Packets : at[p] \in {"below", "kept"}
    /\ halt' = "free"
    /\ UNCHANGED <<MiniportHandle, pool, at, keepable, mine, late>>

\* MPFreeAllPacketPools.
HaltFrees ==
    /\ halt = "free"
    /\ halt' = "done"
    /\ UNCHANGED <<MiniportHandle, pool, at, keepable, mine, late>>

Init ==
    /\ MiniportHandle = TRUE
    /\ halt = "out"
    /\ pool = PoolSize
    /\ at = [p \in Packets |-> "below"]
    /\ keepable = [p \in Packets |-> TRUE]
    /\ mine = [p \in Packets |-> FALSE]
    /\ late = {}

Next ==
    \/ \E p \in Packets :
           \/ Receives(p) \/ IndicatesSame(p) \/ Allocates(p) \/ Drops(p)
           \/ TestsMiniport(p) \/ IndicatesMine(p) \/ Reclaims(p) \/ MPReturnPacket(p)
    \/ HaltBegins \/ HaltCloses \/ HaltFrees

Spec == Init /\ [][Next]_vars

-----------------------------------------------------------------------------
\* The types; the pool and what is out of it are the whole pool.
TypeOK ==
    /\ MiniportHandle \in BOOLEAN
    /\ halt \in {"out", "close", "free", "done"}
    /\ at \in [Packets -> {"below", "looked", "packed", "going", "above", "back", "kept"}]
    /\ keepable \in [Packets -> BOOLEAN] /\ mine \in [Packets -> BOOLEAN]
    /\ late \subseteq Packets
    /\ pool + Cardinality({p \in Packets :
                 mine[p] /\ at[p] \in {"packed", "going", "above", "back", "kept"}}) = PoolSize

\* A packet of the pool that met the halt is not indicated, but for one that
\* was past the test when MPHalt set the handle to NULL (protocol.c:1280-1282,
\* 1045-1047): the code has no lock there.  One that is indicated as it is may
\* go to a miniport that is gone (protocol.c:1240).
IndicatedToMiniport ==
    \A p \in Packets : at[p] = "above" /\ mine[p] => MiniportHandle \/ p \in late

\* The pool is freed when no call of a receive handler can touch it; a packet
\* that met the halt keeps its place in it (protocol.c:1280-1299).
PoolOutlivesCalls ==
    halt \in {"free", "done"} =>
        /\ \A p \in Packets : at[p] \in {"below", "kept"}
        /\ \A p \in Packets : at[p] = "kept" => mine[p] /\ keepable[p]

\* "We will keep the packet and call NdisReturnPackets() this many times when
\* done" (protocol.c:1200-1202): what counts as kept is with a protocol above.
\* Not so for a packet that met a halt.
KeptIsAbove == \A p \in Packets : at[p] # "kept"

\* A halt does not take the pool from under a packet that is being received or
\* is with the protocols above, and takes the miniport from under none but those
\* between test and use.
FramesSafe == TypeOK /\ IndicatedToMiniport /\ PoolOutlivesCalls

===============================================================================
