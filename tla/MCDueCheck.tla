----------------------------- MODULE MCDueCheck -----------------------------
(* Small instances of DueCheck for TLC. *)
EXTENDS DueCheck

CONSTANTS d1, u1, s1, s2
=============================================================================
