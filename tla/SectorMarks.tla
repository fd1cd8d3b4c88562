----------------------------- MODULE SectorMarks -----------------------------
(***************************************************************************)
(* What the bitmap of the filter promises its user, DPVolume: a set of     *)
(* marked sectors.  Marking a range marks all of it, or fails and marks    *)
(* none of it; nothing is ever unmarked.                                   *)
(***************************************************************************)
EXTENDS Naturals

CONSTANT Requests   \* the ranges users mark: <<first sector, length>>

VARIABLES marked, status

Range(o, l) == o .. (o + l - 1)

Mark(o, l) == marked' = marked \cup Range(o, l) /\ status' = "success"
Fail       == UNCHANGED marked /\ status' = "insufficient"

Init == marked = {} /\ status = "success"
Next == Fail \/ \E q \in Requests : Mark(q[1], q[2])
Spec == Init /\ [][Next]_<<marked, status>>
=============================================================================
