------------------------------ MODULE DueCheck ------------------------------
(***************************************************************************)
(* The due-date task of a domain, from the task queue to the notification: *)
(* handleDueDateCheck triggers a scan of the domain, polls until no scan   *)
(* runs, reads back the results since it began and records the verdict.    *)
(* The queue runs a task again when its handler fails or dies.             *)
(*                                                                         *)
(* The Scanner and the crawler are the ones of ScanControl, seen from      *)
(* here: one scan at a time, one sweep at a time, and a sweep that may     *)
(* outlive its scan.  Other scans compete for both.                        *)
(*                                                                         *)
(* Time passes in ticks of the dashboard's clock.  A result is stamped by  *)
(* the crawler, on a machine of its own, with the second of its check: the *)
(* tick that began it on a clock that is ahead by one of Skews.            *)
(***************************************************************************)
EXTENDS Integers, FiniteSets

CONSTANTS
  Departments,     (* Departments with a due date.                          *)
  Urls,            (* The domains.                                          *)
  Servers,         (* Enabled DNS servers.                                  *)
  Verdicts,        (* Verdicts a check can give: TRUE is compliant.         *)
  MaxRetry,        (* Retries of a task before the queue gives it up.       *)
  TicksPerSecond,  (* Bound: how finely time is seen.                       *)
  Skews,           (* Ticks by which the crawler's clock may be ahead.      *)
  MaxTime,         (* Bound: time stands still after it.                    *)
  OtherScans,      (* Bound: scheduled and manual scans.                    *)
  FaultBudget      (* Bound: failures, restarts and cancellations.          *)

ASSUME DataAssumption ==
  /\ IsFiniteSet(Departments) /\ IsFiniteSet(Urls) /\ IsFiniteSet(Servers)
  /\ Verdicts \subseteq BOOLEAN
ASSUME NumberAssumption ==
  /\ MaxRetry \in Nat /\ MaxTime \in Nat /\ OtherScans \in Nat
  /\ FaultBudget \in Nat /\ TicksPerSecond \in Nat \ {0} /\ Skews \subseteq Int

(* dueDatePayload: one task for each department and domain.                *)
Tasks == Departments \X Urls
UrlOf(t) == t[2]

(* Bound: a task triggers at most one scan each time it runs.              *)
Scans == 1..(OtherScans + (MaxRetry + 1) * Cardinality(Tasks))

VARIABLES
  now,
  scan,        (* The scan that holds the Scanner, 0 if none.               *)
  scans,       (* Scans started.                                            *)
  openRuns,    (* Their rows of scan_runs that say running.                 *)
  sweep,       (* The scan the crawler sweeps for, 0 if none.               *)
  left,        (* Checks that sweep has still to do.                        *)
  results,     (* scan_results.                                             *)
  cut,         (* History: scans some of whose results did not come in time.*)
  queue,       (* Each task in the queue.                                   *)
  retried,     (* Times each was tried again.                               *)
  pc,          (* Where its handler is.                                     *)
  before,      (* When the handler began.                                   *)
  mine,        (* The scan the handler triggered.                           *)
  until,       (* When it read the results back.                            *)
  found,       (* The results it read back.                                 *)
  told,        (* Notifications ever created.                               *)
  brokenOff,   (* History: how often a task's handler died, or did not hear *)
               (* that its notification was stored.                         *)
  purged,      (* Domains an administrator deleted.                         *)
  othersLeft, faultsLeft

scanner == <<scan, scans, openRuns, sweep, left, results, cut>>
handler == <<queue, retried, pc, before, mine, until, found, told, brokenOff>>
vars == <<now, scanner, handler, purged, othersLeft, faultsLeft>>

QueueStates == {"scheduled", "active", "retry", "archived", "gone"}
PCs == {"idle", "triggering", "waiting", "reading", "telling", "told"}

(* The timestamp of the crawler's report: the second a tick lies in.       *)
Unix(tick) == tick - (tick % TicksPerSecond)

Results == [sweep : Scans, run : Scans \cup {0}, url : Urls, server : Servers,
            compliant : Verdicts, checkedAt : 0..MaxTime,
            scannedAt : {Unix(tick + skew) : tick \in 0..MaxTime, skew \in Skews}]

TypeOK ==
  /\ now \in 0..MaxTime
  /\ scan \in Scans \cup {0}
  /\ scans \in Scans \cup {0}
  /\ openRuns \subseteq Scans
  /\ sweep \in Scans \cup {0}
  /\ left \subseteq Urls \X Servers
  /\ results \subseteq Results
  /\ cut \subseteq Scans
  /\ queue \in [Tasks -> QueueStates]
  /\ retried \in [Tasks -> 0..MaxRetry]
  /\ pc \in [Tasks -> PCs]
  /\ before \in [Tasks -> 0..MaxTime]
  /\ until \in [Tasks -> 0..MaxTime]
  /\ mine \in [Tasks -> Scans \cup {0}]
  /\ found \in [Tasks -> SUBSET Results]
  /\ \A n \in told : n.task \in Tasks /\ n.scan \in Scans /\ n.found \subseteq Results
  /\ brokenOff \in [Tasks -> 0..FaultBudget]
  /\ purged \subseteq Urls
  /\ othersLeft \in 0..OtherScans
  /\ faultsLeft \in 0..FaultBudget

Init ==
  /\ now = 0
  /\ scan = 0 /\ scans = 0 /\ openRuns = {} /\ sweep = 0 /\ left = {}
  /\ results = {} /\ cut = {}
  /\ queue = [t \in Tasks |-> "scheduled"]
  /\ retried = [t \in Tasks |-> 0]
  /\ pc = [t \in Tasks |-> "idle"]
  /\ before = [t \in Tasks |-> 0]
  /\ until = [t \in Tasks |-> 0]
  /\ mine = [t \in Tasks |-> 0]
  /\ found = [t \in Tasks |-> {}]
  /\ told = {}
  /\ brokenOff = [t \in Tasks |-> 0]
  /\ purged = {}
  /\ othersLeft = OtherScans
  /\ faultsLeft = FaultBudget

(* ActiveScanRun: the first running row.                                   *)
ActiveScanRun ==
  IF openRuns = {} THEN 0 ELSE CHOOSE r \in openRuns : \A q \in openRuns : r <= q

Fault == faultsLeft > 0 /\ faultsLeft' = faultsLeft - 1

(* Trigger gets the Scanner, and the crawler takes the sweep unless it is  *)
(* busy with one whose scan was cut short.                                 *)
StartScan(checks) ==
  /\ scan = 0
  /\ scans' = scans + 1
  /\ scan' = scans'
  /\ openRuns' = openRuns \cup {scans'}
  /\ IF sweep = 0
     THEN sweep' = scans' /\ left' = checks /\ UNCHANGED cut
     ELSE cut' = cut \cup {scans'} /\ UNCHANGED <<sweep, left>>

(* The handler of t returns, and its variables are gone.                   *)
Return(t) ==
  /\ pc' = [pc EXCEPT ![t] = "idle"]
  /\ before' = [before EXCEPT ![t] = 0]
  /\ until' = [until EXCEPT ![t] = 0]
  /\ mine' = [mine EXCEPT ![t] = 0]
  /\ found' = [found EXCEPT ![t] = {}]

(* A mistake in the place of Retry: the count has no limit.                *)
RetryUncounted(t) ==
  /\ Return(t)
  /\ retried' = [retried EXCEPT ![t] = @ + 1]
  /\ queue' = [queue EXCEPT ![t] = "retry"]

(* It returns an error: the queue tries again, unless it has too often.    *)
Retry(t) ==
  /\ Return(t)
  /\ IF retried[t] < MaxRetry
     THEN /\ retried' = [retried EXCEPT ![t] = @ + 1]
          /\ queue' = [queue EXCEPT ![t] = "retry"]
     ELSE /\ queue' = [queue EXCEPT ![t] = "archived"]
          /\ UNCHANGED retried

(* ResultsByURL from the start of the handler to now, on its clock.        *)
ResultsByURL(t) ==
  {r \in results : r.url = UrlOf(t) /\ before[t] <= r.scannedAt /\ r.scannedAt <= now}

(* What is stored; history: by which try, for which scan and from when to  *)
(* when it read.                                                           *)
Note(t) == [task |-> t, try |-> retried[t], scan |-> mine[t],
            before |-> before[t], until |-> until[t], found |-> found[t]]

----------------------------------------------------------------------------
(* Mutated forms: mistakes the code could make, each in the place of the   *)
(* definition it is named after.  Spec uses none of them.                  *)

(* No results, no error.                                                   *)
ReadResultsGivesUp(t) ==
  /\ pc[t] = "reading"
  /\ \/ /\ ResultsByURL(t) = {}
        /\ Return(t)
        /\ queue' = [queue EXCEPT ![t] = "gone"]
     \/ /\ ResultsByURL(t) # {}
        /\ found' = [found EXCEPT ![t] = ResultsByURL(t)]
        /\ until' = [until EXCEPT ![t] = now]
        /\ pc' = [pc EXCEPT ![t] = "telling"]
        /\ UNCHANGED <<queue, before, mine>>
  /\ UNCHANGED <<now, scanner, retried, told, brokenOff, purged,
                 othersLeft, faultsLeft>>

(* No wait for the end of the scan.                                        *)
SeesNoScanAtOnce(t) ==
  /\ pc[t] = "waiting"
  /\ pc' = [pc EXCEPT ![t] = "reading"]
  /\ UNCHANGED <<now, scanner, queue, retried, before, mine, until, found, told,
                 brokenOff, purged, othersLeft, faultsLeft>>

(* An error after the notification was created.                            *)
CreateNotificationLate(t) ==
  /\ pc[t] = "telling"
  /\ UrlOf(t) \notin purged
  /\ told' = told \cup {Note(t)}
  /\ \/ /\ pc' = [pc EXCEPT ![t] = "told"]
        /\ UNCHANGED <<queue, retried, before, mine, until, found>>
     \/ Retry(t)
  /\ UNCHANGED <<now, scanner, brokenOff, purged, othersLeft, faultsLeft>>

(* It waits for results instead of failing.                                *)
ReadResultsWaits(t) ==
  /\ pc[t] = "reading"
  /\ ResultsByURL(t) # {}
  /\ found' = [found EXCEPT ![t] = ResultsByURL(t)]
  /\ until' = [until EXCEPT ![t] = now]
  /\ pc' = [pc EXCEPT ![t] = "telling"]
  /\ UNCHANGED <<now, scanner, queue, retried, before, mine, told, brokenOff,
                 purged, othersLeft, faultsLeft>>

----------------------------------------------------------------------------
(* The handler of task t.                                                  *)

(* GetURLByID of a purged domain ends the task.                            *)
TakeTask(t) ==
  /\ queue[t] \in {"scheduled", "retry"}
  /\ IF UrlOf(t) \in purged
     THEN queue' = [queue EXCEPT ![t] = "gone"] /\ UNCHANGED <<pc, before>>
     ELSE /\ queue' = [queue EXCEPT ![t] = "active"]
          /\ pc' = [pc EXCEPT ![t] = "triggering"]
          /\ before' = [before EXCEPT ![t] = now]
  /\ UNCHANGED <<now, scanner, retried, mine, until, found, told, brokenOff, purged,
                 othersLeft, faultsLeft>>

Trigger(t) ==
  /\ pc[t] = "triggering"
  /\ StartScan({UrlOf(t)} \X Servers)
  /\ mine' = [mine EXCEPT ![t] = scans']
  /\ pc' = [pc EXCEPT ![t] = "waiting"]
  /\ UNCHANGED <<now, results, queue, retried, before, until, found, told, brokenOff,
                 purged, othersLeft, faultsLeft>>

TriggerBusy(t) ==
  /\ pc[t] = "triggering"
  /\ scan # 0
  /\ Retry(t)
  /\ UNCHANGED <<now, scanner, told, brokenOff, purged,
                 othersLeft, faultsLeft>>

(* The polling loop ends: IsRunning says no.                               *)
SeesNoScan(t) ==
  /\ pc[t] = "waiting"
  /\ scan = 0
  /\ pc' = [pc EXCEPT ![t] = "reading"]
  /\ UNCHANGED <<now, scanner, queue, retried, before, mine, until, found, told,
                 brokenOff, purged, othersLeft, faultsLeft>>

ReadResults(t) ==
  /\ pc[t] = "reading"
  /\ \/ /\ ResultsByURL(t) = {}
        /\ Retry(t)
     \/ /\ ResultsByURL(t) # {}
        /\ found' = [found EXCEPT ![t] = ResultsByURL(t)]
        /\ until' = [until EXCEPT ![t] = now]
        /\ pc' = [pc EXCEPT ![t] = "telling"]
        /\ UNCHANGED <<queue, retried, before, mine>>
  /\ UNCHANGED <<now, scanner, told, brokenOff, purged, othersLeft, faultsLeft>>

CreateNotification(t) ==
  /\ pc[t] = "telling"
  /\ UrlOf(t) \notin purged
  /\ told' = told \cup {Note(t)}
  /\ pc' = [pc EXCEPT ![t] = "told"]
  /\ UNCHANGED <<now, scanner, queue, retried, before, mine, until, found, brokenOff,
                 purged, othersLeft, faultsLeft>>

(* The INSERT is done, and its reply is lost: an error is returned.        *)
CreateNotificationUnheard(t) ==
  /\ pc[t] = "telling"
  /\ UrlOf(t) \notin purged
  /\ Fault
  /\ told' = told \cup {Note(t)}
  /\ brokenOff' = [brokenOff EXCEPT ![t] = @ + 1]
  /\ Retry(t)
  /\ UNCHANGED <<now, scanner, purged, othersLeft>>

(* A foreign key refuses a notification on a domain that is gone.          *)
CreateNotificationFails(t) ==
  /\ pc[t] = "telling"
  /\ UrlOf(t) \in purged
  /\ Retry(t)
  /\ UNCHANGED <<now, scanner, told, brokenOff, purged,
                 othersLeft, faultsLeft>>

(* nil is returned, and the queue drops the task.                          *)
TaskDone(t) ==
  /\ pc[t] = "told"
  /\ Return(t)
  /\ queue' = [queue EXCEPT ![t] = "gone"]
  /\ UNCHANGED <<now, scanner, retried, told, brokenOff, purged, othersLeft,
                 faultsLeft>>

(* Any other error return: a query fails, or ctx ends in the poll loop.    *)
HandlerFails(t) ==
  /\ pc[t] \in PCs \ {"idle", "told"}
  /\ Fault
  /\ Retry(t)
  /\ UNCHANGED <<now, scanner, told, brokenOff, purged,
                 othersLeft>>

----------------------------------------------------------------------------
(* Scans, as ScanControl describes them.                                   *)

OtherScan ==
  /\ othersLeft > 0
  /\ othersLeft' = othersLeft - 1
  /\ StartScan(Urls \X Servers)
  /\ UNCHANGED <<now, results, handler, purged, faultsLeft>>

(* The crawler's clock is skew ticks off when it stamps the result.        *)
Check(u, s) ==
  /\ <<u, s>> \in left
  /\ left' = left \ {<<u, s>>}
  /\ \E v \in Verdicts, skew \in Skews :
       results' = results \cup
         {[sweep |-> sweep, run |-> ActiveScanRun, url |-> u, server |-> s,
           compliant |-> v, checkedAt |-> now, scannedAt |-> Unix(now + skew)]}
  /\ UNCHANGED <<now, scan, scans, openRuns, sweep, cut, handler, purged,
                 othersLeft, faultsLeft>>

(* A check whose result is lost on its way.                                *)
LoseCheck(u, s) ==
  /\ <<u, s>> \in left
  /\ Fault
  /\ left' = left \ {<<u, s>>}
  /\ cut' = cut \cup {sweep}
  /\ UNCHANGED <<now, scan, scans, openRuns, sweep, results, handler, purged,
                 othersLeft>>

SweepEnds ==
  /\ sweep # 0
  /\ left = {}
  /\ sweep' = 0
  /\ UNCHANGED <<now, scan, scans, openRuns, left, results, cut, handler,
                 purged, othersLeft, faultsLeft>>

ScanEnds ==
  /\ scan # 0
  /\ sweep # scan
  /\ scan' = 0
  /\ openRuns' = openRuns \ {scan}
  /\ UNCHANGED <<now, scans, sweep, left, results, cut, handler, purged,
                 othersLeft, faultsLeft>>

(* Cancel, or a broken call: the sweep goes on by itself.                  *)
ScanCutShort ==
  /\ scan # 0
  /\ sweep = scan
  /\ Fault
  /\ scan' = 0
  /\ openRuns' = openRuns \ {scan}
  /\ cut' = cut \cup {scan}
  /\ UNCHANGED <<now, scans, sweep, left, results, handler, purged, othersLeft>>

(* The handlers live in the dashboard.  Their leases run out, and the      *)
(* queue gives their tasks to new ones.                                    *)
DashboardRestarts ==
  /\ Fault
  /\ LET active == {t \in Tasks : queue[t] = "active"}
     IN /\ queue' = [t \in Tasks |->
                       IF t \in active
                       THEN IF retried[t] < MaxRetry THEN "retry" ELSE "archived"
                       ELSE queue[t]]
        /\ retried' = [t \in Tasks |->
                         IF t \in active /\ retried[t] < MaxRetry
                         THEN retried[t] + 1 ELSE retried[t]]
        /\ brokenOff' = [t \in Tasks |->
                           IF t \in active THEN brokenOff[t] + 1 ELSE brokenOff[t]]
  /\ pc' = [t \in Tasks |-> "idle"]
  /\ before' = [t \in Tasks |-> 0]
  /\ until' = [t \in Tasks |-> 0]
  /\ mine' = [t \in Tasks |-> 0]
  /\ found' = [t \in Tasks |-> {}]
  /\ scan' = 0
  /\ cut' = IF scan = 0 THEN cut ELSE cut \cup {scan}
  /\ UNCHANGED <<now, scans, openRuns, sweep, left, results, told, purged,
                 othersLeft>>

(* DeleteURL takes the results of the domain with it.                      *)
PurgeURL(u) ==
  /\ u \notin purged
  /\ purged' = purged \cup {u}
  /\ results' = {r \in results : r.url # u}
  /\ UNCHANGED <<now, scan, scans, openRuns, sweep, left, cut, handler,
                 othersLeft, faultsLeft>>

Tick ==
  /\ now < MaxTime
  /\ now' = now + 1
  /\ UNCHANGED <<scanner, handler, purged, othersLeft, faultsLeft>>

----------------------------------------------------------------------------
HandlerStep(t) ==
  \/ TakeTask(t)
  \/ Trigger(t)
  \/ TriggerBusy(t)
  \/ SeesNoScan(t)
  \/ ReadResults(t)
  \/ CreateNotification(t)
  \/ CreateNotificationFails(t)
  \/ TaskDone(t)

CrawlerStep ==
  \/ \E u \in Urls, s \in Servers : Check(u, s)
  \/ SweepEnds

Next ==
  \/ \E t \in Tasks :
       HandlerStep(t) \/ CreateNotificationUnheard(t) \/ HandlerFails(t)
  \/ OtherScan
  \/ CrawlerStep
  \/ ScanEnds
  \/ \E u \in Urls, s \in Servers : LoseCheck(u, s)
  \/ ScanCutShort
  \/ DashboardRestarts
  \/ \E u \in Urls : PurgeURL(u)
  \/ Tick

Spec == Init /\ [][Next]_vars

(* The queue runs what is due, handlers go on, and sweeps and scans end    *)
(* (ScannerIsReleased and CrawlerIsReleased of ScanControl).               *)
Fairness ==
  /\ \A t \in Tasks : WF_vars(HandlerStep(t))
  /\ WF_vars(CrawlerStep)
  /\ WF_vars(ScanEnds)

FairSpec == Spec /\ Fairness

----------------------------------------------------------------------------
(* Properties.                                                             *)

NotesOf(t) == {n \in told : n.task = t}

(* A task leaves the queue for good only when its notification exists or   *)
(* its domain does not (handleDueDateCheck's returns of nil).              *)
DoneMeansTold ==
  \A t \in Tasks :
    queue[t] = "gone" => NotesOf(t) # {} \/ UrlOf(t) \in purged

(* A due date is announced once, and once more at most for each time the   *)
(* dashboard died under the handler, or the handler did not hear that the  *)
(* notification was stored: no other error and no retry of the queue       *)
(* repeats a notification.                                                 *)
ToldOnce ==
  \A t \in Tasks : Cardinality(NotesOf(t)) <= 1 + brokenOff[t]

(* The check of r was made between the two times, but so near to one of    *)
(* them that its stamp may lie outside: within the second of the first, or *)
(* as near to either as the clocks are apart.                              *)
OutOfReach(r, since, upTo) ==
  /\ since <= r.checkedAt /\ r.checkedAt <= upTo
  /\ \E skew \in Skews : \/ Unix(r.checkedAt + skew) < since
                         \/ Unix(r.checkedAt + skew) > upTo

(* A verdict rests on every server of the handler's own scan, except those *)
(* whose stamps may be out of reach of the query, and those whose results  *)
(* were cut short, lost or deleted.  Nor does it rest on a check made      *)
(* earlier, before its handler began, than the clocks are apart.           *)
ReportsItsScan ==
  \A n \in told :
    /\ \A r \in n.found : \E skew \in Skews : n.before <= r.checkedAt + skew
    /\ \/ n.scan \in cut \/ n.task[2] \in purged
       \/ \A s \in Servers :
            \E r \in results :
              /\ r.sweep = n.scan /\ r.url = n.task[2] /\ r.server = s
              /\ r \in n.found \/ OutOfReach(r, n.before, n.until)

(* However often it is refused or fails, a task comes to an end.           *)
TasksEnd == \A t \in Tasks : <>(queue[t] \in {"gone", "archived"})

(* notify/server.go:124: all results share one ScanRunID, because one      *)
(* Trigger produces one ScanRun.                                           *)
OneScanRun == \A n \in told : \A r, q \in n.found : r.run = q.run

(* notify/server.go:77: a targeted scan is run and its outcome recorded.   *)
(* The verdict is the one of all that the scan found.                      *)
VerdictIsTheOutcome ==
  \A n \in told :
    (\A r \in n.found : r.compliant) =>
      \A r \in results : r.sweep = n.scan /\ r.url = n.task[2] => r.compliant

----------------------------------------------------------------------------
(* Why DoneMeansTold and ToldOnce hold, for the proofs.                    *)

QueueTypes ==
  /\ queue \in [Tasks -> QueueStates]
  /\ retried \in [Tasks -> 0..MaxRetry]
  /\ pc \in [Tasks -> PCs]
  /\ brokenOff \in [Tasks -> Nat]
  /\ IsFiniteSet(told)

(* The queue knows which tasks have a handler.                             *)
ActiveHasHandler == \A t \in Tasks : queue[t] = "active" <=> pc[t] # "idle"

ToldHasNote == \A t \in Tasks : pc[t] = "told" => NotesOf(t) # {}

(* A task that may still be run, or is before its notification, has been   *)
(* told only by handlers that died or heard nothing.                       *)
ToldByTheBroken ==
  \A t \in Tasks :
    (queue[t] \in {"scheduled", "retry", "active"} /\ pc[t] # "told") =>
      Cardinality(NotesOf(t)) <= brokenOff[t]

(* The inductive invariant.                                                *)
Bookkeeping ==
  /\ QueueTypes /\ ActiveHasHandler
  /\ ToldHasNote /\ DoneMeansTold
  /\ ToldByTheBroken /\ ToldOnce

----------------------------------------------------------------------------
(* Why ReportsItsScan holds, for the proofs.                               *)

ClockTypes ==
  /\ now \in Nat /\ scans \in Nat
  /\ pc \in [Tasks -> PCs]
  /\ before \in [Tasks -> Nat] /\ mine \in [Tasks -> Nat]
  /\ until \in [Tasks -> Nat]
  /\ DOMAIN found = Tasks
  /\ \A t \in Tasks : before[t] <= now

(* The stamp of a result is its check's second, on the crawler's clock.    *)
RowsAreStamped ==
  \A r \in results :
    /\ r.checkedAt \in Nat
    /\ \E skew \in Skews : r.scannedAt = Unix(r.checkedAt + skew)

(* A sweep outlives its scan only when that was cut short.                 *)
SweepHasScan == sweep # 0 => sweep = scan \/ sweep \in cut

Excused(t) == mine[t] \in cut \/ UrlOf(t) \in purged

(* The scan of t has a result of server s, made while its handler ran ...  *)
Covered(t, s) ==
  \E r \in results :
    /\ r.sweep = mine[t] /\ r.url = UrlOf(t) /\ r.server = s
    /\ before[t] <= r.checkedAt /\ r.checkedAt <= now

(* ... or the crawler has still to come to it.                             *)
Coming(t, s) ==
  \/ Covered(t, s)
  \/ sweep = mine[t] /\ <<UrlOf(t), s>> \in left

Waits(t) ==
  pc[t] = "waiting" =>
    mine[t] # 0 /\ (Excused(t) \/ \A s \in Servers : Coming(t, s))

Reads(t) == pc[t] = "reading" => Excused(t) \/ \A s \in Servers : Covered(t, s)

Tells(t) ==
  pc[t] = "telling" =>
    /\ \A r \in found[t] : \E skew \in Skews : before[t] <= r.checkedAt + skew
    /\ \/ Excused(t)
       \/ \A s \in Servers :
            \E r \in results :
              /\ r.sweep = mine[t] /\ r.url = UrlOf(t) /\ r.server = s
              /\ r \in found[t] \/ OutOfReach(r, before[t], until[t])

(* The inductive invariant.                                                *)
Evidence ==
  /\ ClockTypes /\ RowsAreStamped /\ SweepHasScan
  /\ \A t \in Tasks : Waits(t) /\ Reads(t) /\ Tells(t)
  /\ ReportsItsScan

----------------------------------------------------------------------------
(* Why TypeOK holds, for the proofs.                                       *)

(* A try of a task triggers once: it has triggered, or never will.         *)
Spent(t) ==
  \/ queue[t] \in {"archived", "gone"}
  \/ pc[t] \in {"waiting", "reading", "telling", "told"}

Tries ==
  {try \in Tasks \X (0..MaxRetry) :
     \/ try[2] < retried[try[1]]
     \/ try[2] = retried[try[1]] /\ Spent(try[1])}

ScansAreCounted == scans <= (OtherScans - othersLeft) + Cardinality(Tries)

(* Each time a handler breaks off, that is one of the faults.              *)
BreaksAreCounted == \A t \in Tasks : brokenOff[t] + faultsLeft <= FaultBudget

HasScan(t) == pc[t] \in {"waiting", "reading", "telling"} => mine[t] # 0

(* The inductive invariant.                                                *)
Counted ==
  /\ TypeOK /\ ActiveHasHandler
  /\ ScansAreCounted /\ BreaksAreCounted
  /\ \A t \in Tasks : HasScan(t)
  /\ left # {} => sweep # 0

=============================================================================
