------------------------------- MODULE MCSweep -------------------------------
(* Small instances of Sweep for TLC. *)
EXTENDS Sweep

CONSTANTS s1, s2, u1, u2, u3
=============================================================================
