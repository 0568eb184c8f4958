--------------------------- MODULE MCDiskManager ---------------------------
(* Instances of DiskManager for TLC. *)
EXTENDS DiskManager, TLC

CONSTANTS p1, p2, p3, v1, v2

MCPages == {p1, p2, p3}
MCValues == {v1, v2}

Symmetry == Permutations(MCPages) \cup Permutations(MCValues)
=============================================================================
