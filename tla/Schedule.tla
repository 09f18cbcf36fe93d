------------------------------ MODULE Schedule ------------------------------
(***************************************************************************)
(* The two scan schedules: StartScheduler's loop ("scan") and that of      *)
(* StartSLAScheduler ("sla") wait for their interval, are woken early by a *)
(* channel of one when an administrator saves the settings.  What a loop   *)
(* does when its time is up is in Selection.  SetScanInterval writes its   *)
(* settings one by one and may fail between any two; the switch, the DNS   *)
(* workers and the streak threshold matter only when a loop or a scan      *)
(* reads them, and are left out.                                           *)
(***************************************************************************)
EXTENDS Naturals

CONSTANTS
  Admins,       (* Who may be saving the settings at once.                 *)
  Minutes,      (* Intervals; a save asks for one for both loops.          *)
  Default,      (* The interval of a loop that cannot read its setting.    *)
  MaxSettings   (* Bound: saves.                                           *)

ASSUME ScheduleConstants == Minutes # {} /\ MaxSettings \in Nat

VARIABLES
  minutes,      (* scan_settings: the interval of each loop.               *)
  request,      (* What each administrator is saving.                      *)
  settings,     (* Saves begun.                                            *)
  at,           (* Where each loop is.                                     *)
  interval,     (* What it waits for.                                      *)
  reset,        (* The channel that wakes it holds a signal.               *)
  torn          (* History: a save that wrote its interval, since it read  *)
                (* it, failed before it could wake the loop.               *)

scheduleVars == <<minutes, request, settings, at, interval, reset, torn>>

Loops == {"scan", "sla"}
NoRequest == [step |-> "none", minutes |-> Default]

ScheduleTypeOK ==
  /\ minutes \in [Loops -> Minutes]
  /\ request \in [Admins -> [step : {"none", "scan", "sla", "wakeScan", "wakeSLA"},
                             minutes : Minutes \cup {Default}]]
  /\ settings \in 0..MaxSettings
  /\ at \in [Loops -> {"reading", "read", "waiting"}]
  /\ interval \in [Loops -> Minutes \cup {Default}]
  /\ reset \in [Loops -> BOOLEAN] /\ torn \in [Loops -> BOOLEAN]

ScheduleInit ==
  /\ minutes = [l \in Loops |-> CHOOSE m \in Minutes : TRUE]
  /\ request = [a \in Admins |-> NoRequest]
  /\ settings = 0
  /\ at = [l \in Loops |-> "reading"]
  /\ interval = [l \in Loops |-> Default]
  /\ reset = [l \in Loops |-> FALSE]
  /\ torn = [l \in Loops |-> FALSE]
-----------------------------------------------------------------------------
(* SetScanInterval. *)

Save(a, m) ==
  /\ request[a].step = "none"
  /\ settings < MaxSettings
  /\ settings' = settings + 1
  /\ request' = [request EXCEPT ![a] = [step |-> "scan", minutes |-> m]]
  /\ UNCHANGED <<minutes, at, interval, reset, torn>>

Then(a, step) == request' = [request EXCEPT ![a].step = step]

WriteScanInterval(a) ==
  /\ request[a].step = "scan"
  /\ minutes' = [minutes EXCEPT !["scan"] = request[a].minutes]
  /\ Then(a, "sla")
  /\ UNCHANGED <<settings, at, interval, reset, torn>>

WriteSLAInterval(a) ==
  /\ request[a].step = "sla"
  /\ minutes' = [minutes EXCEPT !["sla"] = request[a].minutes]
  /\ Then(a, "wakeScan")
  /\ UNCHANGED <<settings, at, interval, reset, torn>>

(* The intervals a has written and not woken the loops for.                *)
Written(a) ==
  (IF request[a].step \in {"sla", "wakeScan"} THEN {"scan"} ELSE {})
    \cup (IF request[a].step \in {"wakeScan", "wakeSLA"} THEN {"sla"} ELSE {})

(* A write fails, the last one after the second interval too: nobody is    *)
(* woken.                                                                  *)
SaveFails(a) ==
  /\ request[a].step \in {"scan", "sla", "wakeScan"}
  /\ torn' = [l \in Loops |-> torn[l] \/ l \in Written(a)]
  /\ request' = [request EXCEPT ![a] = NoRequest]
  /\ UNCHANGED <<minutes, settings, at, interval, reset>>

(* Mistake: a signal nobody waits for just then is lost.                   *)
SignalIfWaiting(l) == reset' = [reset EXCEPT ![l] = at[l] = "waiting"]

(* A signal that is pending is enough.                                     *)
Signal(l) == reset' = [reset EXCEPT ![l] = TRUE]

(* NotifyScheduleChanged.                                                  *)
WakeScan(a) ==
  /\ request[a].step = "wakeScan"
  /\ Signal("scan")
  /\ Then(a, "wakeSLA")
  /\ UNCHANGED <<minutes, settings, at, interval, torn>>

WakeSLA(a) ==
  /\ request[a].step = "wakeSLA"
  /\ Signal("sla")
  /\ request' = [request EXCEPT ![a] = NoRequest]
  /\ UNCHANGED <<minutes, settings, at, interval, torn>>
-----------------------------------------------------------------------------
(* A loop. *)

Goto(l, place) == at' = [at EXCEPT ![l] = place]

(* Or the setting cannot be read.                                          *)
ReadInterval(l) ==
  /\ at[l] = "reading"
  /\ \E m \in {minutes[l], Default} : interval' = [interval EXCEPT ![l] = m]
  /\ torn' = [torn EXCEPT ![l] = FALSE]
  /\ Goto(l, "read")
  /\ UNCHANGED <<minutes, request, settings, reset>>

Wait(l) ==
  /\ at[l] = "read"
  /\ Goto(l, "waiting")
  /\ UNCHANGED <<minutes, request, settings, interval, reset, torn>>

(* The interval may be over when a signal is there: select takes either.   *)
(* The loop does what it has to do and comes back for its setting.         *)
TimeIsUp(l) ==
  /\ at[l] = "waiting"
  /\ Goto(l, "reading")
  /\ UNCHANGED <<minutes, request, settings, interval, reset, torn>>

Woken(l) ==
  /\ at[l] = "waiting"
  /\ reset[l]
  /\ reset' = [reset EXCEPT ![l] = FALSE]
  /\ Goto(l, "reading")
  /\ UNCHANGED <<minutes, request, settings, interval, torn>>
-----------------------------------------------------------------------------
ScheduleNext ==
  \/ \E a \in Admins :
       \/ \E m \in Minutes : Save(a, m)
       \/ WriteScanInterval(a) \/ WriteSLAInterval(a)
       \/ SaveFails(a) \/ WakeScan(a) \/ WakeSLA(a)
  \/ \E l \in Loops :
       \/ ReadInterval(l) \/ Wait(l) \/ TimeIsUp(l) \/ Woken(l)

ScheduleSpec == ScheduleInit /\ [][ScheduleNext]_scheduleVars
-----------------------------------------------------------------------------
(* "a save actually starts the cadence from that moment rather than        *)
(* finishing out the stale one": a loop that waits and has no signal to    *)
(* take waits for the interval that is stored, whoever saved last and      *)
(* wherever the loop was then, unless it could not read it, the save is    *)
(* still going on, or it failed halfway.                                   *)
LoopsFollowSettings ==
  \A l \in Loops :
    at[l] = "waiting" /\ ~reset[l] /\ ~torn[l] /\ (\A a \in Admins : l \notin Written(a))
      => interval[l] \in {minutes[l], Default}
=============================================================================
