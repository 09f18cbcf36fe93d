------------------------------- MODULE Outbox -------------------------------
(***************************************************************************)
(* What a sweep promises about its results, without saying how they come   *)
(* about: they leave in batches, one batch in flight at a time, each       *)
(* result in one batch, and the sweep is over only when every result has   *)
(* left.  What fails to leave is known to be lost.                         *)
(***************************************************************************)
CONSTANT Items

VARIABLES
  unsent,    (* Results still to come, or waiting to leave.      *)
  inFlight,  (* The batch being sent.                            *)
  lost,      (* Results whose batch failed.                      *)
  over       (* The sweep has returned.                          *)

vars == <<unsent, inFlight, lost, over>>

Init ==
  /\ unsent = Items
  /\ inFlight = {}
  /\ lost = {}
  /\ over = FALSE

Send ==
  /\ inFlight = {}
  /\ \E batch \in (SUBSET unsent) \ {{}} :
       /\ inFlight' = batch
       /\ unsent' = unsent \ batch
  /\ UNCHANGED <<lost, over>>

Arrive ==
  /\ inFlight # {}
  /\ inFlight' = {}
  /\ UNCHANGED <<unsent, lost, over>>

Fail ==
  /\ inFlight # {}
  /\ inFlight' = {}
  /\ lost' = lost \cup inFlight
  /\ UNCHANGED <<unsent, over>>

(* A batch that fails before it is in flight.                     *)
Drop ==
  /\ inFlight = {}
  /\ \E batch \in (SUBSET unsent) \ {{}} :
       /\ lost' = lost \cup batch
       /\ unsent' = unsent \ batch
  /\ UNCHANGED <<inFlight, over>>

Finish ==
  /\ ~over
  /\ unsent = {}
  /\ inFlight = {}
  /\ over' = TRUE
  /\ UNCHANGED <<unsent, inFlight, lost>>

Next == Send \/ Arrive \/ Fail \/ Drop \/ Finish

Spec == Init /\ [][Next]_vars

=============================================================================
