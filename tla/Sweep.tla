------------------------------- MODULE Sweep -------------------------------
(***************************************************************************)
(* Inside one sweep of the crawler: runSweep starts a pipeline.Run per DNS *)
(* server, each with a pool of DNS workers and a pool of screenshot        *)
(* workers joined by channels, and one goroutine, streamResults, that      *)
(* sends what they find to the dashboard in batches.                       *)
(*                                                                         *)
(* An item is a URL checked through a server.  stage says where it is: in  *)
(* a channel, in the hands of a goroutine, or gone.  The workers of a pool *)
(* are interchangeable, so they are counted: one is free when the pool has *)
(* more workers left than items in its workers' hands.                     *)
(***************************************************************************)
EXTENDS Naturals, FiniteSets

CONSTANTS
  Servers,            (* DNS servers of the sweep.                          *)
  Urls,               (* URLs of the sweep.                                 *)
  DNSWorkers,         (* pipeline.Config.DNSWorkers.                        *)
  ScreenshotWorkers,  (* pipeline.Config.ScreenshotWorkers.                 *)
  streamBatchSize,    (* Results per Submit, and the capacity of sendCh.    *)
  FaultBudget         (* Bound: Submit calls that fail.                     *)

ASSUME InputAssumption == IsFiniteSet(Servers) /\ IsFiniteSet(Urls)
ASSUME PoolAssumption ==
  /\ DNSWorkers \in Nat \ {0}
  /\ ScreenshotWorkers \in Nat \ {0}
ASSUME BatchAssumption == streamBatchSize \in Nat \ {0}
ASSUME BudgetAssumption == FaultBudget \in Nat

Items == Servers \X Urls

VARIABLES
  takeScreenshots,  (* A screenshot sweep sends everything at its end.      *)
  ctxDone,          (* The context of the sweep is cancelled.               *)
  stage,            (* Where each item is.                                  *)
  verdict,          (* What its check found.                                *)
  dnsLeft,          (* DNS workers of each Run that have not returned.      *)
  shotsLeft,        (* Screenshot workers of each Run that have not.        *)
  screenshotClosed, (* screenshotCh of each Run is closed.                  *)
  resultClosed,     (* resultCh of each Run is closed.                      *)
  returned,         (* Runs that have returned.                             *)
  sendClosed,       (* sendCh is closed.                                    *)
  streaming,        (* streamResults has not returned.                      *)
  main,             (* Where runSweep is.                                   *)
  faultsLeft

runs == <<dnsLeft, shotsLeft, screenshotClosed, resultClosed, returned>>
vars == <<takeScreenshots, ctxDone, stage, verdict, runs,
          sendClosed, streaming, main, faultsLeft>>

(* "checking" and "checked": in a DNS worker's hands, before and after the *)
(* check; "captured": in a screenshot worker's; "onResult": in the hands of*)
(* the Run itself, which calls OnResult; "collected": only in allResults;  *)
(* "batch" and "sending": in the hands of the streamer.                    *)
Stages == {"urlCh", "checking", "checked", "screenshotCh", "captured",
           "resultCh", "onResult", "collected", "sendCh", "batch",
           "sending", "sent", "lost"}

(* "cut": an error of a check whose context was already done.              *)
Verdicts == {"none", "resolved", "unresolved", "cut"}

Mains == {"sweeping", "draining", "capturing", "reporting", "over"}

TypeOK ==
  /\ takeScreenshots \in BOOLEAN
  /\ ctxDone \in BOOLEAN
  /\ stage \in [Items -> Stages]
  /\ verdict \in [Items -> Verdicts]
  /\ dnsLeft \in [Servers -> 0..DNSWorkers]
  /\ shotsLeft \in [Servers -> 0..ScreenshotWorkers]
  /\ screenshotClosed \in [Servers -> BOOLEAN]
  /\ resultClosed \in [Servers -> BOOLEAN]
  /\ returned \in [Servers -> BOOLEAN]
  /\ sendClosed \in BOOLEAN
  /\ streaming \in BOOLEAN
  /\ main \in Mains
  /\ faultsLeft \in 0..FaultBudget

(* sendCh and streamResults exist only when results are streamed.          *)
Init ==
  /\ takeScreenshots \in BOOLEAN
  /\ ctxDone = FALSE
  /\ stage = [i \in Items |-> "urlCh"]
  /\ verdict = [i \in Items |-> "none"]
  /\ dnsLeft = [s \in Servers |-> DNSWorkers]
  /\ shotsLeft = [s \in Servers |-> ScreenshotWorkers]
  /\ screenshotClosed = [s \in Servers |-> FALSE]
  /\ resultClosed = [s \in Servers |-> FALSE]
  /\ returned = [s \in Servers |-> FALSE]
  /\ sendClosed = FALSE
  /\ streaming = ~takeScreenshots
  /\ main = "sweeping"
  /\ faultsLeft = FaultBudget

(* The URLs of server s, and the items of any server, at one of places.    *)
UrlsAt(s, places) == {u \in Urls : stage[<<s, u>>] \in places}
At(places) == {i \in Items : stage[i] \in places}

Move(i, place) == stage' = [stage EXCEPT ![i] = place]
MoveAll(from, place) ==
  stage' = [i \in Items |-> IF stage[i] = from THEN place ELSE stage[i]]

FreeDNSWorker(s) ==
  Cardinality(UrlsAt(s, {"checking", "checked"})) < dnsLeft[s]
FreeScreenshotWorker(s) ==
  Cardinality(UrlsAt(s, {"captured"})) < shotsLeft[s]

----------------------------------------------------------------------------
(* Mutated forms: mistakes the code could make, each in the place of the   *)
(* definition it is named after.  Spec uses none of them.                  *)

(* A Submit on a context that Cancel does not reach.                       *)
SubmitDetached(from) == MoveAll(from, "sending")

(* dnsWg.Done by a worker that still holds a result.                       *)
DNSWorkerReturnsEarly(s) ==
  /\ UrlsAt(s, {"urlCh"}) = {}
  /\ dnsLeft' = [dnsLeft EXCEPT ![s] = @ - 1]
  /\ UNCHANGED <<takeScreenshots, ctxDone, stage, verdict, shotsLeft,
                 screenshotClosed, resultClosed, returned, sendClosed,
                 streaming, main, faultsLeft>>

(* The closer of resultCh waiting for the DNS workers only.                *)
CloseResultChEarly(s) ==
  /\ dnsLeft[s] = 0
  /\ ~resultClosed[s]
  /\ resultClosed' = [resultClosed EXCEPT ![s] = TRUE]
  /\ UNCHANGED <<takeScreenshots, ctxDone, stage, verdict, dnsLeft, shotsLeft,
                 screenshotClosed, returned, sendClosed, streaming, main,
                 faultsLeft>>

(* The screenshot pool started after dnsWg.Wait.                           *)
TakeScreenshotLate(s, u) ==
  /\ stage[<<s, u>>] = "screenshotCh"
  /\ screenshotClosed[s]
  /\ FreeScreenshotWorker(s)
  /\ Move(<<s, u>>, "captured")
  /\ UNCHANGED <<takeScreenshots, ctxDone, verdict, runs, sendClosed,
                 streaming, main, faultsLeft>>

(* No wait for sendDone.                                                   *)
DrainedEarly ==
  /\ main = "draining"
  /\ main' = IF takeScreenshots THEN "capturing" ELSE "over"
  /\ UNCHANGED <<takeScreenshots, ctxDone, stage, verdict, runs, sendClosed,
                 streaming, faultsLeft>>

----------------------------------------------------------------------------
(* pipeline.Run of server s.                                               *)

TakeURL(s, u) ==
  /\ stage[<<s, u>>] = "urlCh"
  /\ FreeDNSWorker(s)
  /\ Move(<<s, u>>, "checking")
  /\ UNCHANGED <<takeScreenshots, ctxDone, verdict, runs, sendClosed,
                 streaming, main, faultsLeft>>

(* A check that fails makes its URL compliant: "unresolved", unless only   *)
(* the end of the context made it fail.                                    *)
CheckDNS(s, u) ==
  /\ stage[<<s, u>>] = "checking"
  /\ Move(<<s, u>>, "checked")
  /\ \E v \in {"resolved", IF ctxDone THEN "cut" ELSE "unresolved"} :
       verdict' = [verdict EXCEPT ![<<s, u>>] = v]
  /\ UNCHANGED <<takeScreenshots, ctxDone, runs, sendClosed, streaming,
                 main, faultsLeft>>

SendScreenshotCh(s, u) ==
  /\ stage[<<s, u>>] = "checked"
  /\ verdict[<<s, u>>] = "resolved"
  /\ Cardinality(UrlsAt(s, {"screenshotCh"})) < 2 * DNSWorkers
  /\ Move(<<s, u>>, "screenshotCh")
  /\ UNCHANGED <<takeScreenshots, ctxDone, verdict, runs, sendClosed,
                 streaming, main, faultsLeft>>

SendResultCh(s, u) ==
  /\ \/ stage[<<s, u>>] = "checked" /\ verdict[<<s, u>>] # "resolved"
     \/ stage[<<s, u>>] = "captured"
  /\ Cardinality(UrlsAt(s, {"resultCh"})) < 2 * (DNSWorkers + ScreenshotWorkers)
  /\ Move(<<s, u>>, "resultCh")
  /\ UNCHANGED <<takeScreenshots, ctxDone, verdict, runs, sendClosed,
                 streaming, main, faultsLeft>>

DNSWorkerReturns(s) ==
  /\ UrlsAt(s, {"urlCh"}) = {}
  /\ FreeDNSWorker(s)
  /\ dnsLeft' = [dnsLeft EXCEPT ![s] = @ - 1]
  /\ UNCHANGED <<takeScreenshots, ctxDone, stage, verdict, shotsLeft,
                 screenshotClosed, resultClosed, returned, sendClosed,
                 streaming, main, faultsLeft>>

CloseScreenshotCh(s) ==
  /\ dnsLeft[s] = 0
  /\ ~screenshotClosed[s]
  /\ screenshotClosed' = [screenshotClosed EXCEPT ![s] = TRUE]
  /\ UNCHANGED <<takeScreenshots, ctxDone, stage, verdict, dnsLeft, shotsLeft,
                 resultClosed, returned, sendClosed, streaming, main, faultsLeft>>

(* In a sweep the capture of this pool does nothing and cannot fail.       *)
TakeScreenshot(s, u) ==
  /\ stage[<<s, u>>] = "screenshotCh"
  /\ FreeScreenshotWorker(s)
  /\ Move(<<s, u>>, "captured")
  /\ UNCHANGED <<takeScreenshots, ctxDone, verdict, runs, sendClosed,
                 streaming, main, faultsLeft>>

ScreenshotWorkerReturns(s) ==
  /\ screenshotClosed[s]
  /\ UrlsAt(s, {"screenshotCh"}) = {}
  /\ FreeScreenshotWorker(s)
  /\ shotsLeft' = [shotsLeft EXCEPT ![s] = @ - 1]
  /\ UNCHANGED <<takeScreenshots, ctxDone, stage, verdict, dnsLeft,
                 screenshotClosed, resultClosed, returned, sendClosed,
                 streaming, main, faultsLeft>>

CloseResultCh(s) ==
  /\ shotsLeft[s] = 0
  /\ ~resultClosed[s]
  /\ resultClosed' = [resultClosed EXCEPT ![s] = TRUE]
  /\ UNCHANGED <<takeScreenshots, ctxDone, stage, verdict, dnsLeft, shotsLeft,
                 screenshotClosed, returned, sendClosed, streaming, main,
                 faultsLeft>>

Collect(s, u) ==
  /\ stage[<<s, u>>] = "resultCh"
  /\ UrlsAt(s, {"onResult"}) = {}
  /\ Move(<<s, u>>, "onResult")
  /\ UNCHANGED <<takeScreenshots, ctxDone, verdict, runs, sendClosed,
                 streaming, main, faultsLeft>>

(* OnResult only logs, or blocks until sendCh has room.                    *)
OnResult(s, u) ==
  /\ stage[<<s, u>>] = "onResult"
  /\ \/ takeScreenshots /\ Move(<<s, u>>, "collected")
     \/ /\ ~takeScreenshots
        /\ Cardinality(At({"sendCh"})) < streamBatchSize
        /\ Move(<<s, u>>, "sendCh")
  /\ UNCHANGED <<takeScreenshots, ctxDone, verdict, runs, sendClosed,
                 streaming, main, faultsLeft>>

RunReturns(s) ==
  /\ resultClosed[s]
  /\ UrlsAt(s, {"resultCh", "onResult"}) = {}
  /\ ~returned[s]
  /\ returned' = [returned EXCEPT ![s] = TRUE]
  /\ UNCHANGED <<takeScreenshots, ctxDone, stage, verdict, dnsLeft, shotsLeft,
                 screenshotClosed, resultClosed, sendClosed, streaming, main,
                 faultsLeft>>

----------------------------------------------------------------------------
(* streamResults, and the Submit calls of both kinds of sweep.             *)

Gather(i) ==
  /\ stage[i] = "sendCh"
  /\ At({"sending"}) = {}
  /\ Cardinality(At({"batch"})) < streamBatchSize
  /\ Move(i, "batch")
  /\ UNCHANGED <<takeScreenshots, ctxDone, verdict, runs, sendClosed,
                 streaming, main, faultsLeft>>

(* A Submit on a context that is done fails without a call.                *)
Submit(from) == MoveAll(from, IF ctxDone THEN "lost" ELSE "sending")

(* A full batch, a tick, or the end of sendCh.                             *)
Flush ==
  /\ At({"batch"}) # {}
  /\ At({"sending"}) = {}
  /\ Submit("batch")
  /\ UNCHANGED <<takeScreenshots, ctxDone, verdict, runs, sendClosed,
                 streaming, main, faultsLeft>>

SubmitArrives ==
  /\ At({"sending"}) # {}
  /\ MoveAll("sending", "sent")
  /\ UNCHANGED <<takeScreenshots, ctxDone, verdict, runs, sendClosed,
                 streaming, main, faultsLeft>>

SubmitFails ==
  /\ At({"sending"}) # {}
  /\ MoveAll("sending", "lost")
  /\ \/ ctxDone /\ UNCHANGED faultsLeft
     \/ faultsLeft > 0 /\ faultsLeft' = faultsLeft - 1
  /\ UNCHANGED <<takeScreenshots, ctxDone, verdict, runs, sendClosed,
                 streaming, main>>

StreamerReturns ==
  /\ streaming
  /\ sendClosed
  /\ At({"sendCh", "batch", "sending"}) = {}
  /\ streaming' = FALSE
  /\ UNCHANGED <<takeScreenshots, ctxDone, stage, verdict, runs, sendClosed,
                 main, faultsLeft>>

----------------------------------------------------------------------------
(* runSweep itself.                                                        *)

(* wg.Wait returns, and sendCh is closed if there is one.                  *)
CloseSendCh ==
  /\ main = "sweeping"
  /\ \A s \in Servers : returned[s]
  /\ sendClosed' = ~takeScreenshots
  /\ main' = "draining"
  /\ UNCHANGED <<takeScreenshots, ctxDone, stage, verdict, runs, streaming,
                 faultsLeft>>

(* sendDone is closed.                                                     *)
Drained ==
  /\ main = "draining"
  /\ ~streaming
  /\ main' = IF takeScreenshots THEN "capturing" ELSE "over"
  /\ UNCHANGED <<takeScreenshots, ctxDone, stage, verdict, runs, sendClosed,
                 streaming, faultsLeft>>

(* captureResolved, assignScreenshots and frameScreenshots, which all end  *)
(* by a timeout, and then one Submit of all results.                       *)
SendReport ==
  /\ main = "capturing"
  /\ main' = "reporting"
  /\ Submit("collected")
  /\ UNCHANGED <<takeScreenshots, ctxDone, verdict, runs, sendClosed,
                 streaming, faultsLeft>>

ReportSent ==
  /\ main = "reporting"
  /\ At({"sending"}) = {}
  /\ main' = "over"
  /\ UNCHANGED <<takeScreenshots, ctxDone, stage, verdict, runs, sendClosed,
                 streaming, faultsLeft>>

Cancel ==
  /\ ~ctxDone
  /\ ctxDone' = TRUE
  /\ UNCHANGED <<takeScreenshots, stage, verdict, runs, sendClosed,
                 streaming, main, faultsLeft>>

----------------------------------------------------------------------------
RunStep(s) ==
  \/ \E u \in Urls :
       \/ TakeURL(s, u)
       \/ CheckDNS(s, u)
       \/ SendScreenshotCh(s, u)
       \/ SendResultCh(s, u)
       \/ TakeScreenshot(s, u)
       \/ Collect(s, u)
       \/ OnResult(s, u)
  \/ DNSWorkerReturns(s)
  \/ CloseScreenshotCh(s)
  \/ ScreenshotWorkerReturns(s)
  \/ CloseResultCh(s)
  \/ RunReturns(s)

StreamStep ==
  \/ \E i \in Items : Gather(i)
  \/ Flush
  \/ SubmitArrives
  \/ StreamerReturns

MainStep == CloseSendCh \/ Drained \/ SendReport \/ ReportSent

Step == (\E s \in Servers : RunStep(s)) \/ StreamStep \/ MainStep

Next == Step \/ SubmitFails \/ Cancel

Spec == Init /\ [][Next]_vars

(* Some goroutine that can go on does, and a Submit ends.                  *)
FairSpec == Spec /\ WF_vars(Step)

----------------------------------------------------------------------------
(* Properties.                                                             *)

(* No goroutine ever sends on a closed channel, which would end the        *)
(* process: screenshotCh, resultCh and sendCh are closed only when no      *)
(* sender is left (Run's two closers, runSweep's wg.Wait).                 *)
SendsOnOpenChannels ==
  \A s \in Servers :
    /\ UrlsAt(s, {"urlCh", "checking", "checked"}) # {} =>
         ~screenshotClosed[s] /\ ~resultClosed[s]
    /\ UrlsAt(s, {"screenshotCh", "captured"}) # {} => ~resultClosed[s]
    /\ UrlsAt(s, {"onResult"}) # {} => ~sendClosed

(* A failed look-up counts as compliant, and a cancelled context makes     *)
(* every look-up fail: no such verdict reaches the dashboard, because the  *)
(* same context stops the Submit that would carry it (checkDNS, flush).    *)
CutChecksStayHome == \A i \in Items : stage[i] = "sent" => verdict[i] # "cut"

(* Results leave in batches, each in one, and runSweep returns only when   *)
(* all have left or are logged as lost: this is what ScanControl assumes   *)
(* of a sweep.                                                             *)
Promise == INSTANCE Outbox WITH
  unsent   <- Items \ At({"sending", "sent", "lost"}),
  inFlight <- At({"sending"}),
  lost     <- At({"lost"}),
  over     <- main = "over"

ImplementsOutbox == Promise!Spec

(* runSweep always returns: the bounded channels and the two closers leave *)
(* no goroutine waiting for ever.                                          *)
SweepReturns == <>(main = "over")

----------------------------------------------------------------------------
(* The inductive invariants behind them.                                   *)

Held(s, places) == \E u \in Urls : stage[<<s, u>>] \in places

(* A worker holds at most one item.                                        *)
Pools ==
  \A s \in Servers :
    /\ Cardinality(UrlsAt(s, {"checking", "checked"})) <= dnsLeft[s]
    /\ Cardinality(UrlsAt(s, {"captured"})) <= shotsLeft[s]

(* The order in which a Run winds down.                                    *)
Order ==
  \A s \in Servers :
    /\ dnsLeft[s] < DNSWorkers => ~Held(s, {"urlCh"})
    /\ screenshotClosed[s] => dnsLeft[s] = 0
    /\ shotsLeft[s] < ScreenshotWorkers =>
         screenshotClosed[s] /\ ~Held(s, {"screenshotCh"})
    /\ resultClosed[s] => shotsLeft[s] = 0
    /\ returned[s] => resultClosed[s] /\ ~Held(s, {"resultCh", "onResult"})

(* The two ways results leave never mix, and each follows runSweep.        *)
Leaving ==
  /\ streaming => ~takeScreenshots
  /\ takeScreenshots \/ streaming \/ sendClosed
  /\ sendClosed => ~takeScreenshots /\ main # "sweeping"
  /\ main # "sweeping" => \A s \in Servers : returned[s]
  /\ main \in {"capturing", "reporting"} => takeScreenshots
  /\ main = "over" => ~streaming
  /\ \A i \in Items :
       /\ stage[i] \in {"sendCh", "batch"} => streaming
       /\ stage[i] = "collected" =>
            takeScreenshots /\ main \in {"sweeping", "draining", "capturing"}
       /\ stage[i] = "sending" => streaming \/ main = "reporting"

(* Only the end of the context cuts a check, and then nothing leaves.      *)
CutOff ==
  \A i \in Items :
    /\ verdict[i] = "cut" => ctxDone
    /\ stage[i] \in {"sending", "sent"} => verdict[i] # "cut"

=============================================================================
