--------------------------- MODULE MCNdisProtRecv ---------------------------
(***************************************************************************)
(* Instances of NdisProtRecv for TLC.  A behaviour has either every read   *)
(* IRP, or one of them and a device that loses power: the loss concerns    *)
(* the queue of packets and not the reads.                                 *)
(***************************************************************************)
EXTENDS NdisProtRecv, TLC

CONSTANTS i1, i2, p1, p2, none

VARIABLE used       \* the read IRPs of the behaviour

MCIrps    == {i1, i2}
MCPackets == {p1, p2}

MCInit == Init /\ used \in {MCIrps, {i1}, {i2}}

MCNext ==
    /\ Next /\ UNCHANGED used
    /\ \A i \in Irps : irp'[i] # "idle" => i \in used
    /\ powerings' > 0 => used # Irps

MCSpec == MCInit /\ [][MCNext]_<<vars, used>>

Symmetry == Permutations(MCIrps) \cup Permutations(MCPackets)
=============================================================================
