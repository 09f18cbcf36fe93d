--------------------------- MODULE MCScanControl ---------------------------
(* Small instances of ScanControl for TLC. *)
EXTENDS ScanControl, TLC

CONSTANTS c1, i1, i2

(* The callers of Trigger are interchangeable, and so are the items.       *)
Symmetry == Permutations(Callers) \cup Permutations(Items)
=============================================================================
