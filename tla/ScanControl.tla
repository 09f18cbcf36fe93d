---------------------------- MODULE ScanControl ----------------------------
(***************************************************************************)
(* The control path of one scan: the dashboard's Scanner, the scan_runs    *)
(* and scan_results tables, the crawler's StartSweep and runSweep, and the *)
(* Submit calls the crawler streams its results back with.                 *)
(*                                                                         *)
(* A scan is a number: Trigger and TriggerScreenshot give the scan they    *)
(* start the next one.  The scan_runs row a scan creates has the number of *)
(* its scan; ids are only compared, and scans create rows in their order.  *)
(* 0 stands for "no scan" (Go's nil or zero id).                           *)
(***************************************************************************)
EXTENDS Naturals, FiniteSets

CONSTANTS
  Callers,      (* Goroutines that may be inside Scanner.Trigger.           *)
  Items,        (* What one sweep checks: its (url, DNS server) pairs.      *)
  MaxScans,     (* Bound: scans started over the whole behaviour.           *)
  FaultBudget   (* Bound: crashes, broken or late RPCs, failed writes.      *)

ASSUME MaxScansAssumption == MaxScans \in Nat
ASSUME FaultBudgetAssumption == FaultBudget \in Nat

Scans == 1..MaxScans

VARIABLES
  (* The Scanner of the dashboard process and the goroutines it starts.     *)
  running,      (* Scanner.running.                                         *)
  cancelRun,    (* The scan whose context Scanner.cancelRun cancels, or 0.  *)
  caller,       (* Where each goroutine is in Trigger.                      *)
  launched,     (* Scans started so far.                                    *)
  kind,         (* The goroutine a scan runs: run or runScreenshot.         *)
  pc,           (* Where each scan's goroutine is.                          *)
  ctxDone,      (* Scans whose context has been cancelled.                  *)
  outcome,      (* runCrawler's local variable status.                      *)
  (* PostgreSQL.                                                            *)
  status,       (* scan_runs.status of each scan's row.                     *)
  rows,         (* scan_results: who checked what, and its scan_run_id.     *)
  (* The crawler process.                                                   *)
  crawlerBusy,  (* controlServer.running.                                   *)
  sweep,        (* Each scan's StartSweep call, seen from the crawler.      *)
  todo,         (* Items whose result the sweep has not sent yet.           *)
  waiting,      (* Items of the Submit call the sweep is blocked in.        *)
  (* Submit handlers running in the dashboard.                              *)
  submits,
  (* History.                                                               *)
  orphans,      (* Rows whose goroutine ended without closing them.         *)
  disturbed,    (* Scans one of whose calls was cut short or failed.        *)
  dropped,      (* Results a log line reports as not stored.                *)
  faultsLeft

dashboard == <<running, cancelRun, caller, launched, kind, pc, ctxDone, outcome>>
crawler   == <<crawlerBusy, sweep, todo, waiting>>
history   == <<orphans, disturbed, dropped, faultsLeft>>
vars      == <<dashboard, status, rows, crawler, submits, history>>

Final     == {"completed", "failed", "cancelled"}
RowStatus == {"none", "running"} \cup Final
Kinds     == {"run", "runScreenshot"}

(* "loading": before CreateScanRun; "opened": before StartSweep; "calling":*)
(* blocked in StartSweep; "ended": before CompleteScanRun; "releasing":    *)
(* before the deferred setRunning(false).                                  *)
PCs  == {"unused", "loading", "opened", "calling", "ended", "releasing", "over"}
Live == {g \in Scans : pc[g] \in PCs \ {"unused", "over"}}

(* "requested": sent, handler not started; "winding": the handler's        *)
(* context is done; "lost": no answer will come.                           *)
SweepStates == {"none", "requested", "streaming", "winding",
                "accepted", "refused", "lost"}
Sweeping    == {g \in Scans : sweep[g] \in {"streaming", "winding"}}

SubmitCall == [scan : Scans, items : SUBSET Items,
               pc : {"read", "insert"}, run : 0..MaxScans]
ResultRow  == [scan : Scans, item : Items, run : 0..MaxScans]

TypeOK ==
  /\ running \in BOOLEAN
  /\ cancelRun \in 0..MaxScans
  /\ caller \in [Callers -> {"idle", "prechecked"}]
  /\ launched \in 0..MaxScans
  /\ kind \in [Scans -> Kinds]
  /\ pc \in [Scans -> PCs]
  /\ ctxDone \in SUBSET Scans
  /\ outcome \in [Scans -> {"none"} \cup Final]
  /\ status \in [Scans -> RowStatus]
  /\ rows \in SUBSET ResultRow
  /\ crawlerBusy \in BOOLEAN
  /\ sweep \in [Scans -> SweepStates]
  /\ todo \in [Scans -> SUBSET Items]
  /\ waiting \in [Scans -> SUBSET Items]
  /\ submits \in SUBSET SubmitCall
  /\ orphans \in SUBSET Scans
  /\ disturbed \in SUBSET Scans
  /\ dropped \in SUBSET (Scans \X Items)
  /\ faultsLeft \in 0..FaultBudget

Init ==
  /\ running = FALSE
  /\ cancelRun = 0
  /\ caller = [c \in Callers |-> "idle"]
  /\ launched = 0
  /\ kind = [g \in Scans |-> "run"]
  /\ pc = [g \in Scans |-> "unused"]
  /\ ctxDone = {}
  /\ outcome = [g \in Scans |-> "none"]
  /\ status = [g \in Scans |-> "none"]
  /\ rows = {}
  /\ crawlerBusy = FALSE
  /\ sweep = [g \in Scans |-> "none"]
  /\ todo = [g \in Scans |-> {}]
  /\ waiting = [g \in Scans |-> {}]
  /\ submits = {}
  /\ orphans = {}
  /\ disturbed = {}
  /\ dropped = {}
  /\ faultsLeft = FaultBudget

Fault == faultsLeft > 0 /\ faultsLeft' = faultsLeft - 1

(* What the logs of the sweep of g, or of its Submit handlers, lose.       *)
DroppedFrom(g, items) == {g} \X items

Goto(g, label) == pc' = [pc EXCEPT ![g] = label]

----------------------------------------------------------------------------
(* Mutated forms: mistakes the code could make, each in the place of the   *)
(* action it is named after.  Spec uses none of them.                      *)

(* The start of a scan that does not look at Scanner.running again.        *)
LaunchUnchecked(k) ==
  /\ launched < MaxScans
  /\ launched' = launched + 1
  /\ running' = TRUE
  /\ cancelRun' = launched + 1
  /\ kind' = [kind EXCEPT ![launched + 1] = k]
  /\ pc' = [pc EXCEPT ![launched + 1] = "loading"]
  /\ UNCHANGED <<ctxDone, outcome, status, rows, crawler, submits, history>>

(* A return on a done context that leaves the row as it is.                *)
StartSweepCancelledForgetsRow(g) ==
  /\ pc[g] = "opened"
  /\ g \in ctxDone
  /\ Goto(g, "releasing")
  /\ UNCHANGED <<running, cancelRun, caller, launched, kind, ctxDone, outcome,
                 status, rows, crawler, submits, history>>

(* No look at the Accepted field of the Ack.                               *)
SweepAnsweredUnread(g) ==
  /\ pc[g] = "calling"
  /\ sweep[g] \in {"accepted", "refused"}
  /\ Goto(g, "ended")
  /\ outcome' = [outcome EXCEPT ![g] = "completed"]
  /\ UNCHANGED <<running, cancelRun, caller, launched, kind, ctxDone,
                 status, rows, crawler, submits, history>>

(* A misspelt status, which no reader of scan_runs knows.                  *)
SweepErrorMisspelt(g) ==
  /\ pc[g] = "calling"
  /\ Goto(g, "ended")
  /\ outcome' = [outcome EXCEPT ![g] = IF g \in ctxDone THEN "canceled" ELSE "failed"]
  /\ disturbed' = disturbed \cup {g}
  /\ UNCHANGED <<running, cancelRun, caller, launched, kind, ctxDone,
                 status, rows, crawler, submits, orphans, dropped>>

(* Every error of StartSweep taken for a cancellation.                     *)
SweepErrorIsCancel(g) ==
  /\ pc[g] = "calling"
  /\ Goto(g, "ended")
  /\ outcome' = [outcome EXCEPT ![g] = "cancelled"]
  /\ disturbed' = disturbed \cup {g}
  /\ UNCHANGED <<running, cancelRun, caller, launched, kind, ctxDone,
                 status, rows, crawler, submits, orphans, dropped>>

(* An UPDATE of every running row.                                         *)
CompleteScanRunAll(g) ==
  /\ pc[g] = "ended"
  /\ Goto(g, "releasing")
  /\ status' = [h \in Scans |-> IF status[h] = "running" THEN outcome[g] ELSE status[h]]
  /\ UNCHANGED <<running, cancelRun, caller, launched, kind, ctxDone, outcome,
                 rows, crawler, submits, history>>

(* The UPDATE under the scan's own context: a cancelled one writes nothing.*)
CompleteScanRunCtx(g) ==
  /\ pc[g] = "ended"
  /\ Goto(g, "releasing")
  /\ status' = [status EXCEPT ![g] = IF g \in ctxDone THEN @ ELSE outcome[g]]
  /\ UNCHANGED <<running, cancelRun, caller, launched, kind, ctxDone, outcome,
                 rows, crawler, submits, history>>

(* A refusal that clears the flag, as the accepted path's defer does.      *)
RefuseSweepClears(g) ==
  /\ sweep[g] = "requested"
  /\ crawlerBusy
  /\ crawlerBusy' = FALSE
  /\ sweep' = [sweep EXCEPT ![g] = "refused"]
  /\ UNCHANGED <<dashboard, status, rows, todo, waiting, submits, history>>

(* runSweep returns without waiting for the streamer's last Submit.        *)
FinishSweepEarly(g) ==
  /\ g \in Sweeping
  /\ todo[g] = {}
  /\ crawlerBusy' = FALSE
  /\ sweep' = [sweep EXCEPT ![g] = "accepted"]
  /\ UNCHANGED <<dashboard, status, rows, todo, waiting, submits, history>>

----------------------------------------------------------------------------
(* The Scanner: Trigger, TriggerScreenshot and Cancel.                     *)

(* The common end of Trigger and TriggerScreenshot, under the lock: claim  *)
(* the slot, remember the context's cancel function, start the goroutine.  *)
Launch(k) ==
  /\ ~running
  /\ launched < MaxScans
  /\ launched' = launched + 1
  /\ running' = TRUE
  /\ cancelRun' = launched + 1
  /\ kind' = [kind EXCEPT ![launched + 1] = k]
  /\ pc' = [pc EXCEPT ![launched + 1] = "loading"]
  /\ UNCHANGED <<ctxDone, outcome, status, rows, crawler, submits, history>>

(* Trigger's first critical section and its pre-checks, which read the     *)
(* watchlist and the enabled servers without the lock.  A call refused     *)
(* here changes nothing.                                                   *)
Precheck(c) ==
  /\ caller[c] = "idle"
  /\ ~running
  /\ caller' = [caller EXCEPT ![c] = "prechecked"]
  /\ UNCHANGED <<running, cancelRun, launched, kind, pc, ctxDone, outcome,
                 status, rows, crawler, submits, history>>

Trigger(c) ==
  /\ caller[c] = "prechecked"
  /\ caller' = [caller EXCEPT ![c] = "idle"]
  /\ Launch("run")

TriggerRefused(c) ==
  /\ caller[c] = "prechecked"
  /\ running
  /\ caller' = [caller EXCEPT ![c] = "idle"]
  /\ UNCHANGED <<running, cancelRun, launched, kind, pc, ctxDone, outcome,
                 status, rows, crawler, submits, history>>

TriggerScreenshot ==
  /\ Launch("runScreenshot")
  /\ UNCHANGED caller

Cancel ==
  /\ running
  /\ cancelRun # 0
  /\ ctxDone' = ctxDone \cup {cancelRun}
  /\ UNCHANGED <<running, cancelRun, caller, launched, kind, pc, outcome,
                 status, rows, crawler, submits, history>>

----------------------------------------------------------------------------
(* The goroutine of scan g: run or runScreenshot, then runCrawler.         *)

(* The early returns of run and runScreenshot: nothing to scan, no server, *)
(* or a query that fails (its context may be done).                        *)
NothingToScan(g) ==
  /\ pc[g] = "loading"
  /\ Goto(g, "releasing")
  /\ UNCHANGED <<running, cancelRun, caller, launched, kind, ctxDone, outcome,
                 status, rows, crawler, submits, history>>

CreateScanRun(g) ==
  /\ pc[g] = "loading"
  /\ g \notin ctxDone
  /\ Goto(g, "opened")
  /\ status' = [status EXCEPT ![g] = "running"]
  /\ UNCHANGED <<running, cancelRun, caller, launched, kind, ctxDone, outcome,
                 rows, crawler, submits, history>>

StartSweep(g) ==
  /\ pc[g] = "opened"
  /\ g \notin ctxDone
  /\ Goto(g, "calling")
  /\ sweep' = [sweep EXCEPT ![g] = "requested"]
  /\ UNCHANGED <<running, cancelRun, caller, launched, kind, ctxDone, outcome,
                 status, rows, crawlerBusy, todo, waiting, submits, history>>

(* StartSweep on a context that is already done fails without a call.      *)
StartSweepCancelled(g) ==
  /\ pc[g] = "opened"
  /\ g \in ctxDone
  /\ Goto(g, "ended")
  /\ outcome' = [outcome EXCEPT ![g] = "cancelled"]
  /\ UNCHANGED <<running, cancelRun, caller, launched, kind, ctxDone,
                 status, rows, crawler, submits, history>>

(* StartSweep returns an Ack: its Accepted field decides.                  *)
SweepAnswered(g) ==
  /\ pc[g] = "calling"
  /\ sweep[g] \in {"accepted", "refused"}
  /\ Goto(g, "ended")
  /\ outcome' = [outcome EXCEPT
       ![g] = IF sweep[g] = "accepted" THEN "completed" ELSE "failed"]
  /\ UNCHANGED <<running, cancelRun, caller, launched, kind, ctxDone,
                 status, rows, crawler, submits, history>>

(* StartSweep returns an error, and ctx.Err() decides.  The call is over   *)
(* for the dashboard as soon as its context is done; the crawler may go on.*)
SweepError(g) ==
  /\ pc[g] = "calling"
  /\ Goto(g, "ended")
  /\ outcome' = [outcome EXCEPT
       ![g] = IF g \in ctxDone THEN "cancelled" ELSE "failed"]
  /\ disturbed' = disturbed \cup {g}
  /\ UNCHANGED <<running, cancelRun, caller, launched, kind, ctxDone,
                 status, rows, crawler, submits, orphans, dropped>>

(* Mutated: a call that Cancel does not reach, only a broken connection.   *)
SweepAbortedByLoss(g) ==
  /\ sweep[g] = "lost"
  /\ SweepError(g)
  /\ UNCHANGED faultsLeft

SweepAborted(g) ==
  /\ \/ g \in ctxDone
     \/ sweep[g] = "lost"
  /\ SweepError(g)
  /\ UNCHANGED faultsLeft

SweepCallBroken(g) ==
  /\ g \notin ctxDone
  /\ SweepError(g)
  /\ Fault

(* An UPDATE by id under a context Cancel does not reach.                  *)
CompleteScanRun(g) ==
  /\ pc[g] = "ended"
  /\ Goto(g, "releasing")
  /\ status' = [status EXCEPT ![g] = outcome[g]]
  /\ UNCHANGED <<running, cancelRun, caller, launched, kind, ctxDone, outcome,
                 rows, crawler, submits, history>>

(* The error of CompleteScanRun is ignored.                                *)
CompleteScanRunFails(g) ==
  /\ pc[g] = "ended"
  /\ Goto(g, "releasing")
  /\ orphans' = orphans \cup {g}
  /\ Fault
  /\ UNCHANGED <<running, cancelRun, caller, launched, kind, ctxDone, outcome,
                 status, rows, crawler, submits, disturbed, dropped>>

SetRunningFalse(g) ==
  /\ pc[g] = "releasing"
  /\ Goto(g, "over")
  /\ running' = FALSE
  /\ cancelRun' = 0
  /\ UNCHANGED <<caller, launched, kind, ctxDone, outcome,
                 status, rows, crawler, submits, history>>

----------------------------------------------------------------------------
(* The crawler: controlServer.StartSweep and runSweep.                     *)

BeginSweep(g) ==
  /\ sweep[g] = "requested"
  /\ ~crawlerBusy
  /\ crawlerBusy' = TRUE
  /\ sweep' = [sweep EXCEPT ![g] = "streaming"]
  /\ todo' = [todo EXCEPT ![g] = Items]
  /\ UNCHANGED <<dashboard, status, rows, waiting, submits, history>>

RefuseSweep(g) ==
  /\ sweep[g] = "requested"
  /\ crawlerBusy
  /\ sweep' = [sweep EXCEPT ![g] = "refused"]
  /\ UNCHANGED <<dashboard, status, rows, crawlerBusy, todo, waiting,
                 submits, history>>

(* The request of a call its caller has given up may never be delivered.   *)
RequestLost(g) ==
  /\ sweep[g] = "requested"
  /\ pc[g] # "calling"
  /\ sweep' = [sweep EXCEPT ![g] = "lost"]
  /\ UNCHANGED <<dashboard, status, rows, crawlerBusy, todo, waiting,
                 submits, history>>

(* streamResults sends whatever a tick or a full batch has gathered; a     *)
(* screenshot sweep sends everything in one Submit at its end.             *)
NextBatch(g) ==
  {batch \in SUBSET todo[g] :
     batch # {} /\ (kind[g] = "runScreenshot" => batch = todo[g])}

SendBatch(g) ==
  /\ sweep[g] = "streaming"
  /\ waiting[g] = {}
  /\ \E batch \in NextBatch(g) :
       /\ todo' = [todo EXCEPT ![g] = @ \ batch]
       /\ waiting' = [waiting EXCEPT ![g] = batch]
       /\ submits' = submits \cup
            {[scan |-> g, items |-> batch, pc |-> "read", run |-> 0]}
  /\ UNCHANGED <<dashboard, status, rows, crawlerBusy, sweep, history>>

(* Submit has returned, or failed with the process that served it.         *)
SendReturns(g) ==
  /\ waiting[g] # {}
  /\ \A s \in submits : s.scan = g => s.items # waiting[g]
  /\ waiting' = [waiting EXCEPT ![g] = {}]
  /\ UNCHANGED <<dashboard, status, rows, crawlerBusy, sweep, todo,
                 submits, history>>

(* The sender's deadline, or a connection that breaks: the batch is logged *)
(* and forgotten while its handler may still be at work.                   *)
SendFails(g) ==
  /\ waiting[g] # {}
  /\ waiting' = [waiting EXCEPT ![g] = {}]
  /\ dropped' = dropped \cup DroppedFrom(g, waiting[g])
  /\ disturbed' = disturbed \cup {g}
  /\ Fault
  /\ UNCHANGED <<dashboard, status, rows, crawlerBusy, sweep, todo,
                 submits, orphans>>

(* The handler's context is done, some time after its caller gave up: every*)
(* send fails at once, and the rest of the sweep is logged and forgotten.  *)
NoticeCancel(g) ==
  /\ sweep[g] = "streaming"
  /\ pc[g] # "calling"
  /\ sweep' = [sweep EXCEPT ![g] = "winding"]
  /\ dropped' = dropped \cup DroppedFrom(g, todo[g] \cup waiting[g])
  /\ todo' = [todo EXCEPT ![g] = {}]
  /\ waiting' = [waiting EXCEPT ![g] = {}]
  /\ UNCHANGED <<dashboard, status, rows, crawlerBusy, submits,
                 orphans, disturbed, faultsLeft>>

(* runSweep returns: the deferred unlock, then the Ack.                    *)
FinishSweep(g) ==
  /\ g \in Sweeping
  /\ todo[g] = {}
  /\ waiting[g] = {}
  /\ crawlerBusy' = FALSE
  /\ sweep' = [sweep EXCEPT ![g] = "accepted"]
  /\ UNCHANGED <<dashboard, status, rows, todo, waiting, submits, history>>

----------------------------------------------------------------------------
(* The dashboard's Submit handlers.                                        *)

(* r is what ActiveScanRun returns: the first running row by primary key.  *)
IsActiveScanRun(r) ==
  LET open == {g \in Scans : status[g] = "running"}
  IN  IF open = {} THEN r = 0
      ELSE r \in open /\ \A g \in open : r <= g

Abandoned(s) == waiting[s.scan] # s.items

Attribute(s, r) ==
  submits' = (submits \ {s}) \cup {[s EXCEPT !.pc = "insert", !.run = r]}

SubmitReads(s) ==
  /\ s.pc = "read"
  /\ \E r \in 0..MaxScans : IsActiveScanRun(r) /\ Attribute(s, r)
  /\ UNCHANGED <<dashboard, status, rows, crawler, history>>

(* ActiveScanRun fails: logged, and the results belong to no run.          *)
SubmitReadFails(s) ==
  /\ s.pc = "read"
  /\ Attribute(s, 0)
  /\ disturbed' = disturbed \cup {s.scan}
  /\ IF Abandoned(s) THEN UNCHANGED faultsLeft ELSE Fault
  /\ UNCHANGED <<dashboard, status, rows, crawler, orphans, dropped>>

(* InsertResults, or InsertResult for a row with a screenshot; stored is   *)
(* what reaches the table.  A result of a server renamed meanwhile, or a   *)
(* write that fails, is logged and left out; the reply is Ok either way.   *)
SubmitInserts(s, stored) ==
  /\ s.pc = "insert"
  /\ submits' = submits \ {s}
  /\ rows' = rows \cup {[scan |-> s.scan, item |-> i, run |-> s.run] : i \in stored}
  /\ dropped' = dropped \cup DroppedFrom(s.scan, s.items \ stored)
  /\ IF stored = s.items \/ Abandoned(s) THEN UNCHANGED faultsLeft ELSE Fault
  /\ UNCHANGED <<dashboard, status, crawler, orphans, disturbed>>

----------------------------------------------------------------------------
(* The two processes stop and start again.                                 *)

(* Every goroutine and Submit handler of the dashboard is gone; nothing in *)
(* its start-up looks at scan_runs rows left "running".                    *)
DashboardRestarts ==
  /\ Fault
  /\ running' = FALSE
  /\ cancelRun' = 0
  /\ caller' = [c \in Callers |-> "idle"]
  /\ pc' = [g \in Scans |-> IF g \in Live THEN "over" ELSE pc[g]]
  /\ submits' = {}
  /\ orphans' = orphans \cup {g \in Scans : status[g] = "running"}
  /\ disturbed' = disturbed \cup Live \cup Sweeping
  /\ dropped' = dropped \cup UNION {DroppedFrom(s.scan, s.items) : s \in submits}
  /\ UNCHANGED <<launched, kind, ctxDone, outcome, status, rows, crawler>>

CrawlerRestarts ==
  /\ Sweeping # {}
  /\ Fault
  /\ crawlerBusy' = FALSE
  /\ sweep' = [g \in Scans |-> IF g \in Sweeping THEN "lost" ELSE sweep[g]]
  /\ todo' = [g \in Scans |-> {}]
  /\ waiting' = [g \in Scans |-> {}]
  /\ disturbed' = disturbed \cup Sweeping
  /\ dropped' = dropped \cup
       UNION {DroppedFrom(g, todo[g] \cup waiting[g]) : g \in Scans}
  /\ UNCHANGED <<dashboard, status, rows, submits, orphans>>

----------------------------------------------------------------------------
(* Steps the scheduler of each process keeps taking: no fault, no request. *)

GoroutineStep(g) ==
  \/ NothingToScan(g)
  \/ CreateScanRun(g)
  \/ StartSweep(g)
  \/ StartSweepCancelled(g)
  \/ SweepAnswered(g)
  \/ SweepAborted(g)
  \/ CompleteScanRun(g)
  \/ SetRunningFalse(g)

CrawlerStep(g) ==
  \/ BeginSweep(g)
  \/ RefuseSweep(g)
  \/ RequestLost(g)
  \/ SendBatch(g)
  \/ SendReturns(g)
  \/ NoticeCancel(g)
  \/ FinishSweep(g)

SubmitStep(s) == SubmitReads(s) \/ SubmitInserts(s, s.items)

Request ==
  \/ \E c \in Callers : Precheck(c) \/ Trigger(c) \/ TriggerRefused(c)
  \/ TriggerScreenshot
  \/ Cancel

FaultStep ==
  \/ \E g \in Scans : SweepCallBroken(g) \/ CompleteScanRunFails(g) \/ SendFails(g)
  \/ \E s \in submits : SubmitReadFails(s)
  \/ \E s \in submits : \E stored \in SUBSET s.items : SubmitInserts(s, stored)
  \/ DashboardRestarts
  \/ CrawlerRestarts

Next ==
  \/ Request
  \/ \E g \in Scans : GoroutineStep(g) \/ CrawlerStep(g)
  \/ \E s \in submits : SubmitStep(s)
  \/ FaultStep

Spec == Init /\ [][Next]_vars

(* The dashboard's goroutines keep running; the crawler may hang.          *)
DashboardFairness == \A g \in Scans : WF_vars(GoroutineStep(g))

(* The crawler's checks and sends all have deadlines, and so do the calls  *)
(* to PostgreSQL of a Submit handler.                                      *)
CrawlerFairness ==
  /\ \A g \in Scans : WF_vars(CrawlerStep(g))
  /\ WF_vars(\E s \in submits : SubmitStep(s))

(* Fair to the dashboard; what needs a fair crawler says so.               *)
DashboardSpec == Spec /\ DashboardFairness

----------------------------------------------------------------------------
(* Properties.                                                             *)

(* At most one scan goroutine lives between Trigger and the deferred       *)
(* setRunning(false); running says whether one does, and cancelRun is its  *)
(* context and never the context of a scan that is over (scanner.go).      *)
OneScanAtATime ==
  IF running THEN cancelRun # 0 /\ Live = {cancelRun}
             ELSE cancelRun = 0 /\ Live = {}

(* The crawler runs at most one sweep, and its busy flag is set exactly    *)
(* while one runs, also when a second request was refused meanwhile        *)
(* (control.go).                                                           *)
OneSweepAtATime ==
  /\ crawlerBusy <=> Sweeping # {}
  /\ \A g, h \in Sweeping : g = h

(* A scan_runs row says "running" only while the goroutine that opened it  *)
(* is before CompleteScanRun, unless the process died or that UPDATE was   *)
(* lost: no path of runCrawler, cancelled or refused, forgets the row.     *)
RunningRowHasOwner ==
  \A g \in Scans : status[g] = "running" =>
    pc[g] \in {"opened", "calling", "ended"} \/ g \in orphans

(* Submit finds the run its results belong to by asking for the oldest     *)
(* running row, not by being told: a result lands in the wrong run only if *)
(* a call of its scan was cut short or failed, or if the row it lands in   *)
(* was left behind by a crash or a lost update (grpc.go, scanner.go).      *)
ResultsInTheirOwnRun ==
  \A r \in rows : r.run = r.scan \/ r.scan \in disturbed \/ r.run \in orphans

(* A run marked "completed" has every result of its sweep accounted for:   *)
(* stored, or reported as lost in a log; nothing is still to come          *)
(* (runCrawler calls CompleteScanRun after StartSweep has returned).       *)
CompletedIsComplete ==
  \A g \in Scans : status[g] = "completed" =>
    \A i \in Items : \/ <<g, i>> \in dropped
                     \/ \E r \in rows : r.scan = g /\ r.item = i

(* "cancelled" is recorded only for the scan somebody cancelled: a broken  *)
(* connection, or the end of the request that triggered the scan, is not   *)
(* taken for a cancellation, nor a cancellation of an earlier scan.        *)
CancelledWasAsked == \A g \in Scans : status[g] = "cancelled" => g \in ctxDone

(* StartSweep only returns once the crawler has finished streaming results *)
(* via Submit, says runCrawler's comment on its last Publish.              *)
StreamingEndsFirst == \A s \in submits : pc[s.scan] = "calling"

(* The row Submit inserts for a screenshot belongs to "this request's scan *)
(* run, which is a screenshot run", says its comment.                      *)
ScreenshotRowInScreenshotRun ==
  \A r \in rows : kind[r.scan] = "runScreenshot" =>
    r.run # 0 /\ kind[r.run] = "runScreenshot"

(* A scan always ends and gives the Scanner back, whatever is cancelled,   *)
(* lost or restarted, when goroutines, the crawler and Submit keep going.  *)
ScannerIsReleased == CrawlerFairness => (running ~> ~running)

(* The crawler does not stay busy with a sweep nobody waits for, as long   *)
(* as it keeps going.                                                      *)
CrawlerIsReleased == CrawlerFairness => (crawlerBusy ~> ~crawlerBusy)

(* Every row opened is closed, or was left behind by a lost update or a    *)
(* crash, as long as the crawler keeps going.                              *)
RunsAreClosed ==
  CrawlerFairness =>
    \A g \in Scans : status[g] = "running" ~> (status[g] # "running" \/ g \in orphans)

(* All that is started ends: the three together, the scan and its sweep    *)
(* being as fair as each of them assumes.                                  *)
ScansEnd == ScannerIsReleased /\ CrawlerIsReleased /\ RunsAreClosed

(* Cancel needs nothing of the crawler: the scan it was called for ends    *)
(* even if the crawler has hung.                                           *)
CancelNeedsNoCrawler == \A g \in Scans : g \in ctxDone ~> pc[g] = "over"

(* The Scanner and scan_runs implement a slot and a ledger of runs: only   *)
(* the scan in progress opens or closes a row, its own, once, and a closed *)
(* row never changes again (ScanLedger).                                   *)
Ledger == INSTANCE ScanLedger
  WITH seen <- launched, holder <- cancelRun, ledger <- status

ImplementsLedger == Ledger!Spec

----------------------------------------------------------------------------
(* The inductive invariants behind the properties: see ScanControlProofs.  *)

(* The goroutine of a scan and the row it owns move together.              *)
RowFollowsGoroutine ==
  \A g \in Scans :
    /\ pc[g] = "unused" <=> g > launched
    /\ pc[g] \in {"unused", "loading"} => status[g] = "none"
    /\ pc[g] \in {"opened", "calling", "ended"} => status[g] = "running"
    /\ pc[g] = "ended" => outcome[g] \in Final

Control == OneScanAtATime /\ RowFollowsGoroutine /\ RunningRowHasOwner

(* A sweep runs on behalf of a goroutine blocked in StartSweep, and a      *)
(* Submit handler on behalf of a sweep blocked in Send, until a call is    *)
(* cut short.                                                              *)
SweepHasCaller ==
  \A g \in Scans :
    /\ pc[g] \in {"unused", "loading", "opened"} => sweep[g] = "none"
    /\ sweep[g] \in {"requested", "streaming"} => pc[g] = "calling" \/ g \in disturbed
    /\ sweep[g] = "winding" => g \in disturbed

SubmitHasCaller ==
  \A s \in submits : s.scan \notin disturbed =>
    /\ sweep[s.scan] = "streaming"
    /\ waiting[s.scan] = s.items
    /\ s.items # {}

(* The run a handler has read is right unless something went wrong.        *)
SubmitInItsOwnRun ==
  \A s \in submits : s.pc = "insert" =>
    s.run = s.scan \/ s.scan \in disturbed \/ s.run \in orphans

Delivery == SweepHasCaller /\ SubmitHasCaller /\ SubmitInItsOwnRun /\ ResultsInTheirOwnRun

(* Every item of a sweep is still to be sent, in a Submit the sweep waits  *)
(* for, stored, or reported lost.                                          *)
Accounted(g, i) ==
  \/ i \in todo[g]
  \/ <<g, i>> \in dropped
  \/ \E r \in rows : r.scan = g /\ r.item = i
  \/ \E s \in submits : s.scan = g /\ i \in s.items /\ waiting[g] = s.items

NothingForgotten ==
  \A g \in Scans :
    /\ sweep[g] \in {"streaming", "winding", "accepted"} =>
         \A i \in Items : Accounted(g, i)
    /\ sweep[g] = "accepted" => todo[g] = {} /\ waiting[g] = {}
    /\ \A s \in submits : s.scan = g => s.items # {}
    /\ pc[g] = "ended" /\ outcome[g] = "completed" => sweep[g] = "accepted"
    /\ status[g] = "completed" => sweep[g] = "accepted"

=============================================================================
