----------------------------- MODULE MCDPVolume -----------------------------
(* Instances of DPVolume for TLC: two IRPs, one or two sectors.            *)
EXTENDS DPVolume, TLC

CONSTANTS r1, r2, s1, s2, zero, a, unknown

MCIrps   == {r1, r2}
MCValues == {zero, a}
NoValues == {zero}      \* where the contents do not matter

\* Two sectors, and a range of both: reads may blend disk and file.
TwoSectors  == {s1, s2}
TwoExtents  == {{s1}, {s1, s2}}

\* One sector, with or without requests that have no length.
OneSector   == {s1}
OneExtents  == {{}, {s1}}
FullExtents == {{s1}}

Symmetry == Permutations(MCIrps)
=============================================================================
