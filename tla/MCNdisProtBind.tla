--------------------------- MODULE MCNdisProtBind ---------------------------
(* Instances of NdisProtBind for TLC.                                      *)
EXTENDS NdisProtBind, TLC

CONSTANTS i1, i2, f1, f2, none

Symmetry == Permutations(Irps) \cup Permutations(Files)
=============================================================================
