---------------------------- MODULE ScanLedger -----------------------------
(***************************************************************************)
(* What the dashboard promises about scans, without saying how: one slot,  *)
(* and a ledger of runs.  Whoever holds the slot may open one run and      *)
(* close it with a final status; nobody else ever touches the ledger; the  *)
(* slot is given back, and a run left open stays as it is.                 *)
(***************************************************************************)
EXTENDS Naturals

CONSTANT MaxScans   (* Bound: scans over the whole behaviour. *)

VARIABLES
  seen,     (* Scans admitted so far.                            *)
  holder,   (* The scan that holds the slot, or 0.               *)
  ledger    (* The status of each scan's run.                    *)

vars == <<seen, holder, ledger>>

Init ==
  /\ seen = 0
  /\ holder = 0
  /\ ledger = [g \in 1..MaxScans |-> "none"]

Acquire ==
  /\ holder = 0
  /\ seen < MaxScans
  /\ seen' = seen + 1
  /\ holder' = seen + 1
  /\ UNCHANGED ledger

Open ==
  /\ holder # 0
  /\ ledger[holder] = "none"
  /\ ledger' = [ledger EXCEPT ![holder] = "running"]
  /\ UNCHANGED <<seen, holder>>

Close ==
  /\ holder # 0
  /\ ledger[holder] = "running"
  /\ \E final \in {"completed", "failed", "cancelled"} :
       ledger' = [ledger EXCEPT ![holder] = final]
  /\ UNCHANGED <<seen, holder>>

Release ==
  /\ holder # 0
  /\ holder' = 0
  /\ UNCHANGED <<seen, ledger>>

Next == Acquire \/ Open \/ Close \/ Release

Spec == Init /\ [][Next]_vars

=============================================================================
