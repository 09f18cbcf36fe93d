----------------------------- MODULE MCProgress -----------------------------
(* The progress stream with one viewer and one run, and channels that never *)
(* fill: a viewer misses a payload only by the order of things.            *)
EXTENDS Progress
=============================================================================
