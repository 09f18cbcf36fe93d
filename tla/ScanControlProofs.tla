------------------------- MODULE ScanControlProofs -------------------------
(***************************************************************************)
(* Proofs about ScanControl, for any number of callers, items and scans    *)
(* and any number of faults.                                               *)
(***************************************************************************)
EXTENDS ScanControl, TLAPS

(* The definitions every step proof needs open. *)
USE MaxScansAssumption, FaultBudgetAssumption DEF MaxScansAssumption, FaultBudgetAssumption

LEMMA InitTypeOK == Init => TypeOK
<1> SUFFICES ASSUME Init PROVE TypeOK
  OBVIOUS
<1>1. running \in BOOLEAN /\ crawlerBusy \in BOOLEAN
  BY DEF Init
<1> QED
  BY <1>1 DEF Init, TypeOK, Kinds, PCs, RowStatus, SweepStates

LEMMA RequestTypeOK == TypeOK /\ Request => TypeOK'
<1> SUFFICES ASSUME TypeOK, Request PROVE TypeOK'
  OBVIOUS
<1> USE DEF TypeOK, Scans, Kinds, PCs, crawler, history
<1>1. ASSUME NEW c \in Callers, Precheck(c) PROVE TypeOK'
  BY <1>1 DEF Precheck
<1>2. ASSUME NEW c \in Callers, Trigger(c) PROVE TypeOK'
  BY <1>2 DEF Trigger, Launch
<1>3. ASSUME NEW c \in Callers, TriggerRefused(c) PROVE TypeOK'
  BY <1>3 DEF TriggerRefused
<1>4. CASE TriggerScreenshot
  BY <1>4 DEF TriggerScreenshot, Launch
<1>5. CASE Cancel
  BY <1>5 DEF Cancel
<1> QED
  BY <1>1, <1>2, <1>3, <1>4, <1>5 DEF Request

LEMMA GoroutineTypeOK ==
  ASSUME TypeOK, NEW g \in Scans, GoroutineStep(g) PROVE TypeOK'
<1> USE DEF TypeOK, PCs, Goto, crawler, history
<1>1. CASE NothingToScan(g)
  BY <1>1 DEF NothingToScan
<1>2. CASE CreateScanRun(g)
  BY <1>2 DEF CreateScanRun, RowStatus
<1>3. CASE StartSweep(g)
  BY <1>3 DEF StartSweep, SweepStates
<1>4. CASE StartSweepCancelled(g)
  BY <1>4 DEF StartSweepCancelled, Final
<1>5. CASE SweepAnswered(g)
  BY <1>5 DEF SweepAnswered, Final
<1>6. CASE SweepAborted(g)
  BY <1>6 DEF SweepAborted, SweepError, Final
<1>7. CASE CompleteScanRun(g)
  BY <1>7 DEF CompleteScanRun, RowStatus
<1>8. CASE SetRunningFalse(g)
  <2>1. running' \in BOOLEAN
    BY <1>8 DEF SetRunningFalse
  <2> QED
    BY <1>8, <2>1 DEF SetRunningFalse
<1> QED
  BY <1>1, <1>2, <1>3, <1>4, <1>5, <1>6, <1>7, <1>8 DEF GoroutineStep

LEMMA CrawlerTypeOK ==
  ASSUME TypeOK, NEW g \in Scans, CrawlerStep(g) PROVE TypeOK'
<1> USE DEF TypeOK, SweepStates, dashboard, history
<1>1. CASE BeginSweep(g)
  <2>1. crawlerBusy' \in BOOLEAN
    BY <1>1 DEF BeginSweep
  <2> QED
    BY <1>1, <2>1 DEF BeginSweep
<1>2. CASE RefuseSweep(g)
  BY <1>2 DEF RefuseSweep
<1>3. CASE RequestLost(g)
  BY <1>3 DEF RequestLost
<1>4. CASE SendBatch(g)
  <2>1. PICK batch \in NextBatch(g) :
          /\ todo' = [todo EXCEPT ![g] = @ \ batch]
          /\ waiting' = [waiting EXCEPT ![g] = batch]
          /\ submits' = submits \cup
               {[scan |-> g, items |-> batch, pc |-> "read", run |-> 0]}
    BY <1>4 DEF SendBatch
  <2>2. batch \subseteq Items
    BY DEF NextBatch
  <2>3. [scan |-> g, items |-> batch, pc |-> "read", run |-> 0] \in SubmitCall
    BY <2>2 DEF SubmitCall
  <2> QED
    BY <1>4, <2>1, <2>2, <2>3 DEF SendBatch
<1>5. CASE SendReturns(g)
  BY <1>5 DEF SendReturns
<1>6. CASE NoticeCancel(g)
  BY <1>6 DEF NoticeCancel, DroppedFrom
<1>7. CASE FinishSweep(g)
  <2>1. crawlerBusy' \in BOOLEAN
    BY <1>7 DEF FinishSweep
  <2> QED
    BY <1>7, <2>1 DEF FinishSweep
<1> QED
  BY <1>1, <1>2, <1>3, <1>4, <1>5, <1>6, <1>7 DEF CrawlerStep

(* A call goes on with the run it was given, and stays a call.             *)
LEMMA AttributeTypeOK ==
  ASSUME TypeOK, NEW s \in submits, NEW r \in 0..MaxScans, Attribute(s, r)
  PROVE  submits' \in SUBSET SubmitCall
  BY DEF TypeOK, Attribute, SubmitCall

LEMMA SubmitTypeOK ==
  ASSUME TypeOK, NEW s \in submits,
         \/ SubmitReads(s)
         \/ SubmitReadFails(s)
         \/ \E stored \in SUBSET s.items : SubmitInserts(s, stored)
  PROVE  TypeOK'
<1> USE DEF dashboard, crawler, history
<1>0. s.scan \in Scans /\ s.items \in SUBSET Items /\ s.run \in 0..MaxScans
  BY DEF TypeOK, SubmitCall
<1>1. CASE SubmitReads(s)
  <2>1. submits' \in SUBSET SubmitCall
    BY <1>1, AttributeTypeOK DEF SubmitReads
  <2> QED
    BY <1>1, <2>1 DEF SubmitReads, TypeOK
<1>2. CASE SubmitReadFails(s)
  <2>1. submits' \in SUBSET SubmitCall
    BY <1>2, AttributeTypeOK DEF SubmitReadFails
  <2>2. faultsLeft' \in 0..FaultBudget
    BY <1>2 DEF SubmitReadFails, Fault, TypeOK
  <2> QED
    BY <1>0, <1>2, <2>1, <2>2 DEF SubmitReadFails, TypeOK
<1>3. ASSUME NEW stored \in SUBSET s.items, SubmitInserts(s, stored)
      PROVE  TypeOK'
  <2>1. rows' \in SUBSET ResultRow
    BY <1>0, <1>3 DEF SubmitInserts, TypeOK, ResultRow
  <2>2. faultsLeft' \in 0..FaultBudget
    BY <1>3 DEF SubmitInserts, Fault, TypeOK
  <2>3. dropped' \in SUBSET (Scans \X Items)
    BY <1>0, <1>3 DEF SubmitInserts, DroppedFrom, TypeOK
  <2>4. submits' \in SUBSET SubmitCall
    BY <1>3 DEF SubmitInserts, TypeOK
  <2> QED
    BY <1>3, <2>1, <2>2, <2>3, <2>4 DEF SubmitInserts, TypeOK
<1> QED
  BY <1>1, <1>2, <1>3

LEMMA ProcessFaultTypeOK ==
  ASSUME TypeOK, DashboardRestarts \/ CrawlerRestarts PROVE TypeOK'
<1> USE DEF dashboard, crawler
<1>1. CASE DashboardRestarts
  <2>0. running' \in BOOLEAN
    BY <1>1 DEF DashboardRestarts
  <2>1. faultsLeft' \in 0..FaultBudget
    BY <1>1 DEF DashboardRestarts, Fault, TypeOK
  <2>2. dropped' \in SUBSET (Scans \X Items)
    BY <1>1 DEF DashboardRestarts, DroppedFrom, TypeOK, SubmitCall
  <2>3. pc' \in [Scans -> PCs]
    BY <1>1 DEF DashboardRestarts, TypeOK, PCs
  <2>4. disturbed' \in SUBSET Scans /\ orphans' \in SUBSET Scans
    BY <1>1 DEF DashboardRestarts, TypeOK, Live, Sweeping
  <2> QED
    BY <1>1, <2>0, <2>1, <2>2, <2>3, <2>4 DEF DashboardRestarts, TypeOK
<1>2. CASE CrawlerRestarts
  <2>0. crawlerBusy' \in BOOLEAN
    BY <1>2 DEF CrawlerRestarts
  <2>1. faultsLeft' \in 0..FaultBudget
    BY <1>2 DEF CrawlerRestarts, Fault, TypeOK
  <2>2. dropped' \in SUBSET (Scans \X Items)
    BY <1>2 DEF CrawlerRestarts, DroppedFrom, TypeOK
  <2>3. sweep' \in [Scans -> SweepStates]
    BY <1>2 DEF CrawlerRestarts, TypeOK, SweepStates
  <2>4. disturbed' \in SUBSET Scans
    BY <1>2 DEF CrawlerRestarts, TypeOK, Sweeping
  <2> QED
    BY <1>2, <2>0, <2>1, <2>2, <2>3, <2>4 DEF CrawlerRestarts, TypeOK
<1> QED
  BY <1>1, <1>2

LEMMA CallFaultTypeOK ==
  ASSUME TypeOK, NEW g \in Scans,
         SweepCallBroken(g) \/ CompleteScanRunFails(g) \/ SendFails(g)
  PROVE  TypeOK'
<1> USE DEF TypeOK, dashboard, crawler, Fault
<1>1. CASE SweepCallBroken(g)
  BY <1>1 DEF SweepCallBroken, SweepError, Goto, PCs, Final
<1>2. CASE CompleteScanRunFails(g)
  BY <1>2 DEF CompleteScanRunFails, Goto, PCs
<1>3. CASE SendFails(g)
  BY <1>3 DEF SendFails, DroppedFrom
<1> QED
  BY <1>1, <1>2, <1>3

LEMMA StepTypeOK == TypeOK /\ [Next]_vars => TypeOK'
<1> SUFFICES ASSUME TypeOK, [Next]_vars PROVE TypeOK'
  OBVIOUS
<1>1. CASE Request
  BY <1>1, RequestTypeOK
<1>2. ASSUME NEW g \in Scans, GoroutineStep(g) \/ CrawlerStep(g) PROVE TypeOK'
  BY <1>2, GoroutineTypeOK, CrawlerTypeOK
<1>3. ASSUME NEW s \in submits, SubmitStep(s) PROVE TypeOK'
  BY <1>3, SubmitTypeOK DEF SubmitStep
<1>4. CASE FaultStep
  BY <1>4, CallFaultTypeOK, SubmitTypeOK, ProcessFaultTypeOK DEF FaultStep
<1>5. CASE UNCHANGED vars
  BY <1>5 DEF TypeOK, vars, dashboard, crawler, history
<1> QED
  BY <1>1, <1>2, <1>3, <1>4, <1>5 DEF Next

(* Every variable keeps its type.                                          *)
THEOREM TypeCorrect == Spec => []TypeOK
  BY InitTypeOK, StepTypeOK, PTL DEF Spec

----------------------------------------------------------------------------
(* Control: one goroutine holds the slot, and the row it owns moves with   *)
(* it.                                                                     *)

LEMMA InitControl == Init => Control
<1> SUFFICES ASSUME Init PROVE Control
  OBVIOUS
<1>1. OneScanAtATime
  BY DEF Init, OneScanAtATime, Live
<1>2. RowFollowsGoroutine
  BY DEF Init, RowFollowsGoroutine, Scans
<1>3. RunningRowHasOwner
  BY DEF Init, RunningRowHasOwner
<1> QED
  BY <1>1, <1>2, <1>3 DEF Control

(* Only steps of the dashboard that move a goroutine can break Control.    *)
controlVars == <<running, cancelRun, launched, pc, outcome, status>>

LEMMA ControlFrame ==
  ASSUME Control, UNCHANGED controlVars, orphans \subseteq orphans'
  PROVE  Control'
  BY DEF Control, OneScanAtATime, Live, RowFollowsGoroutine,
         RunningRowHasOwner, controlVars

LEMMA LaunchControl ==
  ASSUME TypeOK, Control, NEW k \in Kinds, Launch(k) PROVE Control'
<1> DEFINE new == launched + 1
<1>0. new \in Scans /\ pc[new] = "unused" /\ ~running /\ Live = {} /\ status[new] = "none"
  BY DEF Launch, TypeOK, Scans, Control, RowFollowsGoroutine, OneScanAtATime
<1>1. pc' = [pc EXCEPT ![new] = "loading"] /\ cancelRun' = new /\ launched' = new
  BY DEF Launch
<1>2. Live' = {new}
  BY <1>0, <1>1 DEF Live, TypeOK, PCs
<1>3. OneScanAtATime'
  BY <1>0, <1>1, <1>2 DEF OneScanAtATime, Launch, Scans
<1>4. RowFollowsGoroutine'
  BY <1>0, <1>1 DEF Launch, RowFollowsGoroutine, Control, TypeOK, Scans
<1>5. RunningRowHasOwner'
  BY <1>0, <1>1 DEF Launch, RunningRowHasOwner, Control, TypeOK, history
<1> QED
  BY <1>3, <1>4, <1>5 DEF Control

(* A goroutine that goes on without giving the slot back.                  *)
LEMMA GotoOneScan ==
  ASSUME TypeOK, OneScanAtATime, NEW g \in Live,
         NEW label \in PCs \ {"unused", "over"}, Goto(g, label),
         UNCHANGED <<running, cancelRun>>
  PROVE  OneScanAtATime'
<1>1. Live' = Live
  BY DEF Live, TypeOK, Goto
<1> QED
  BY <1>1 DEF OneScanAtATime

LEMMA GoroutineControl ==
  ASSUME TypeOK, Control, NEW g \in Scans,
         GoroutineStep(g) \/ SweepCallBroken(g) \/ CompleteScanRunFails(g)
  PROVE  Control'
<1> USE DEF history, Control
<1>1. CASE NothingToScan(g)
  <2>1. OneScanAtATime'
    BY <1>1, GotoOneScan DEF NothingToScan, Live, PCs
  <2> QED
    BY <1>1, <2>1 DEF NothingToScan, Goto, TypeOK, RowFollowsGoroutine, RunningRowHasOwner, Scans
<1>2. CASE CreateScanRun(g)
  <2>1. OneScanAtATime'
    BY <1>2, GotoOneScan DEF CreateScanRun, Live, PCs
  <2> QED
    BY <1>2, <2>1 DEF CreateScanRun, Goto, TypeOK, RowFollowsGoroutine, RunningRowHasOwner, Scans
<1>3. CASE StartSweep(g)
  <2>1. OneScanAtATime'
    BY <1>3, GotoOneScan DEF StartSweep, Live, PCs
  <2> QED
    BY <1>3, <2>1 DEF StartSweep, Goto, TypeOK, RowFollowsGoroutine, RunningRowHasOwner, Scans
<1>4. CASE StartSweepCancelled(g)
  <2>1. OneScanAtATime'
    BY <1>4, GotoOneScan DEF StartSweepCancelled, Live, PCs
  <2> QED
    BY <1>4, <2>1 DEF StartSweepCancelled, Goto, TypeOK, RowFollowsGoroutine, RunningRowHasOwner, Scans, Final
<1>5. CASE SweepAnswered(g)
  <2>1. OneScanAtATime'
    BY <1>5, GotoOneScan DEF SweepAnswered, Live, PCs
  <2> QED
    BY <1>5, <2>1 DEF SweepAnswered, Goto, TypeOK, RowFollowsGoroutine, RunningRowHasOwner, Scans, Final
<1>6. CASE SweepAborted(g) \/ SweepCallBroken(g)
  <2>0. SweepError(g)
    BY <1>6 DEF SweepAborted, SweepCallBroken
  <2>1. OneScanAtATime'
    BY <2>0, GotoOneScan DEF SweepError, Live, PCs
  <2>2. outcome'[g] \in Final
    BY <2>0 DEF SweepError, TypeOK, Final
  <2>3. RowFollowsGoroutine'
    BY <2>0, <2>2 DEF SweepError, Goto, TypeOK, RowFollowsGoroutine
  <2>4. RunningRowHasOwner'
    BY <2>0 DEF SweepError, Goto, TypeOK, RunningRowHasOwner
  <2> QED
    BY <2>1, <2>3, <2>4
<1>7. CASE CompleteScanRun(g)
  <2>1. OneScanAtATime'
    BY <1>7, GotoOneScan DEF CompleteScanRun, Live, PCs
  <2>2. outcome[g] \in Final
    BY <1>7 DEF CompleteScanRun, RowFollowsGoroutine
  <2> QED
    BY <1>7, <2>1, <2>2 DEF CompleteScanRun, Goto, TypeOK, RowFollowsGoroutine, RunningRowHasOwner, Scans, Final
<1>8. CASE CompleteScanRunFails(g)
  <2>1. OneScanAtATime'
    BY <1>8, GotoOneScan DEF CompleteScanRunFails, Live, PCs
  <2> QED
    BY <1>8, <2>1 DEF CompleteScanRunFails, Goto, TypeOK, RowFollowsGoroutine, RunningRowHasOwner, Scans
<1>9. CASE SetRunningFalse(g)
  <2>1. g \in Live
    BY <1>9 DEF SetRunningFalse, Live, PCs
  <2>2. Live' = Live \ {g}
    BY <1>9, <2>1 DEF SetRunningFalse, Goto, Live, TypeOK, PCs
  <2>3. OneScanAtATime'
    BY <1>9, <2>1, <2>2 DEF SetRunningFalse, OneScanAtATime
  <2> QED
    BY <1>9, <2>3 DEF SetRunningFalse, Goto, TypeOK, RowFollowsGoroutine, RunningRowHasOwner, Scans
<1> QED
  BY <1>1, <1>2, <1>3, <1>4, <1>5, <1>6, <1>7, <1>8, <1>9 DEF GoroutineStep

LEMMA RestartControl ==
  ASSUME TypeOK, Control, DashboardRestarts PROVE Control'
<1>1. Live' = {}
  BY DEF DashboardRestarts, Live, TypeOK, PCs
<1>2. OneScanAtATime'
  BY <1>1 DEF DashboardRestarts, OneScanAtATime
<1>3. RowFollowsGoroutine'
  BY DEF DashboardRestarts, Control, RowFollowsGoroutine, Live, TypeOK, PCs, Scans
<1>4. RunningRowHasOwner'
  BY DEF DashboardRestarts, Control, RunningRowHasOwner
<1> QED
  BY <1>2, <1>3, <1>4 DEF Control

LEMMA StepControl == TypeOK /\ Control /\ [Next]_vars => Control'
<1> SUFFICES ASSUME TypeOK, Control, [Next]_vars PROVE Control'
  OBVIOUS
<1> USE DEF controlVars, dashboard, crawler, history
<1>1. CASE Request
  <2>1. ASSUME NEW c \in Callers, Trigger(c) PROVE Control'
    BY <2>1, LaunchControl DEF Trigger, Kinds
  <2>2. CASE TriggerScreenshot
    BY <2>2, LaunchControl DEF TriggerScreenshot, Kinds
  <2>3. ASSUME NEW c \in Callers, Precheck(c) \/ TriggerRefused(c) PROVE Control'
    BY <2>3, ControlFrame DEF Precheck, TriggerRefused
  <2>4. CASE Cancel
    BY <2>4, ControlFrame DEF Cancel
  <2> QED
    BY <1>1, <2>1, <2>2, <2>3, <2>4 DEF Request
<1>2. ASSUME NEW g \in Scans, GoroutineStep(g) PROVE Control'
  BY <1>2, GoroutineControl
<1>3. ASSUME NEW g \in Scans, CrawlerStep(g) PROVE Control'
  BY <1>3, ControlFrame DEF CrawlerStep, BeginSweep, RefuseSweep, RequestLost,
                            SendBatch, SendReturns, NoticeCancel, FinishSweep
<1>4. ASSUME NEW s \in submits, SubmitStep(s) PROVE Control'
  BY <1>4, ControlFrame DEF SubmitStep, SubmitReads, SubmitInserts
<1>5. CASE FaultStep
  <2>1. ASSUME NEW g \in Scans, SweepCallBroken(g) \/ CompleteScanRunFails(g)
        PROVE  Control'
    BY <2>1, GoroutineControl
  <2>2. ASSUME NEW g \in Scans, SendFails(g) PROVE Control'
    BY <2>2, ControlFrame DEF SendFails
  <2>3. ASSUME NEW s \in submits, SubmitReadFails(s) PROVE Control'
    BY <2>3, ControlFrame DEF SubmitReadFails
  <2>4. ASSUME NEW s \in submits, NEW stored \in SUBSET s.items, SubmitInserts(s, stored)
        PROVE  Control'
    BY <2>4, ControlFrame DEF SubmitInserts
  <2>5. CASE DashboardRestarts
    BY <2>5, RestartControl
  <2>6. CASE CrawlerRestarts
    BY <2>6, ControlFrame DEF CrawlerRestarts
  <2> QED
    BY <1>5, <2>1, <2>2, <2>3, <2>4, <2>5, <2>6 DEF FaultStep
<1>6. CASE UNCHANGED vars
  BY <1>6, ControlFrame DEF vars
<1> QED
  BY <1>1, <1>2, <1>3, <1>4, <1>5, <1>6 DEF Next

(* At most one scan goroutine lives, running says whether one does, and    *)
(* cancelRun is its context.                                               *)
THEOREM OneScan == Spec => []OneScanAtATime
<1>1. Control => OneScanAtATime
  BY DEF Control
<1> QED
  BY <1>1, InitTypeOK, InitControl, StepTypeOK, StepControl, PTL DEF Spec

(* A row that says "running" has a goroutine that will close it, or was    *)
(* left behind by a crash or a lost update.                                *)
THEOREM RunningRowsAreOwned == Spec => []RunningRowHasOwner
<1>1. Control => RunningRowHasOwner
  BY DEF Control
<1> QED
  BY <1>1, InitTypeOK, InitControl, StepTypeOK, StepControl, PTL DEF Spec

----------------------------------------------------------------------------
(* Delivery: where results go.                                             *)

LEMMA InitDelivery == Init => Delivery
  BY DEF Init, Delivery, SweepHasCaller, SubmitHasCaller, SubmitInItsOwnRun,
         ResultsInTheirOwnRun, Scans

(* No handler moves, nothing that was disturbed or orphaned recovers, and  *)
(* the sweeps of undisturbed handlers stay where they are.                 *)
LEMMA SubmitFrame ==
  ASSUME SubmitHasCaller, SubmitInItsOwnRun, ResultsInTheirOwnRun,
         UNCHANGED <<submits, rows>>,
         disturbed \subseteq disturbed', orphans \subseteq orphans',
         \A s \in submits : s.scan \notin disturbed' =>
           sweep'[s.scan] = sweep[s.scan] /\ waiting'[s.scan] = waiting[s.scan]
  PROVE  SubmitHasCaller' /\ SubmitInItsOwnRun' /\ ResultsInTheirOwnRun'
<1>1. SubmitHasCaller'
  BY DEF SubmitHasCaller
<1>2. SubmitInItsOwnRun'
  BY DEF SubmitInItsOwnRun
<1>3. ResultsInTheirOwnRun'
  BY DEF ResultsInTheirOwnRun
<1> QED
  BY <1>1, <1>2, <1>3

LEMMA RequestDelivery ==
  ASSUME TypeOK, Control, Delivery, Request PROVE Delivery'
<1> USE DEF crawler, history
<1>1. UNCHANGED <<submits, rows, sweep, waiting, disturbed, orphans>>
  BY DEF Request, Precheck, Trigger, TriggerRefused, TriggerScreenshot, Launch, Cancel
<1>2. SubmitHasCaller' /\ SubmitInItsOwnRun' /\ ResultsInTheirOwnRun'
  BY <1>1, SubmitFrame DEF Delivery
<1>3. CASE UNCHANGED pc
  BY <1>1, <1>2, <1>3 DEF Delivery, SweepHasCaller
<1>4. ASSUME NEW k \in Kinds, Launch(k) PROVE SweepHasCaller'
  BY <1>1, <1>4 DEF Launch, Delivery, SweepHasCaller, Control,
                    RowFollowsGoroutine, TypeOK, Scans
<1> QED
  BY <1>2, <1>3, <1>4 DEF Request, Precheck, Trigger, TriggerRefused,
                          TriggerScreenshot, Cancel, Kinds, Delivery

LEMMA GoroutineDelivery ==
  ASSUME TypeOK, Control, Delivery, NEW g \in Scans,
         GoroutineStep(g) \/ SweepCallBroken(g) \/ CompleteScanRunFails(g)
  PROVE  Delivery'
<1> USE DEF crawler, history, Delivery
<1>1. CASE StartSweep(g)
  <2>1. sweep[g] = "none"
    BY <1>1 DEF StartSweep, SweepHasCaller
  <2>2. \A s \in submits : s.scan \notin disturbed => s.scan # g
    BY <2>1 DEF SubmitHasCaller
  <2>3. SubmitHasCaller' /\ SubmitInItsOwnRun' /\ ResultsInTheirOwnRun'
    BY <1>1, <2>2, SubmitFrame DEF StartSweep, TypeOK, SubmitCall
  <2> QED
    BY <1>1, <2>3 DEF StartSweep, Goto, SweepHasCaller, TypeOK
<1>2. CASE SweepAborted(g) \/ SweepCallBroken(g)
  <2>1. SweepError(g)
    BY <1>2 DEF SweepAborted, SweepCallBroken
  <2>2. SubmitHasCaller' /\ SubmitInItsOwnRun' /\ ResultsInTheirOwnRun'
    BY <2>1, SubmitFrame DEF SweepError
  <2> QED
    BY <2>1, <2>2 DEF SweepError, Goto, SweepHasCaller, TypeOK
<1>3. ASSUME \/ NothingToScan(g)
             \/ CreateScanRun(g)
             \/ StartSweepCancelled(g)
             \/ SweepAnswered(g)
             \/ CompleteScanRun(g)
             \/ CompleteScanRunFails(g)
             \/ SetRunningFalse(g)
      PROVE  Delivery'
  <2>1. UNCHANGED <<submits, rows, sweep, waiting, disturbed>> /\ orphans \subseteq orphans'
    BY <1>3 DEF NothingToScan, CreateScanRun, StartSweepCancelled, SweepAnswered,
                CompleteScanRun, CompleteScanRunFails, SetRunningFalse
  <2>2. SubmitHasCaller' /\ SubmitInItsOwnRun' /\ ResultsInTheirOwnRun'
    BY <2>1, SubmitFrame
  <2>3. SweepHasCaller'
    BY <1>3, <2>1 DEF NothingToScan, CreateScanRun, StartSweepCancelled, SweepAnswered,
                CompleteScanRun, CompleteScanRunFails, SetRunningFalse,
                Goto, SweepHasCaller, TypeOK
  <2> QED
    BY <2>2, <2>3
<1> QED
  BY <1>1, <1>2, <1>3 DEF GoroutineStep

LEMMA CrawlerDelivery ==
  ASSUME TypeOK, Delivery, NEW g \in Scans, CrawlerStep(g) \/ SendFails(g)
  PROVE  Delivery'
<1> USE DEF dashboard, history, Delivery
<1>1. CASE BeginSweep(g) \/ RefuseSweep(g) \/ RequestLost(g)
  <2>1. sweep[g] = "requested"
    BY <1>1 DEF BeginSweep, RefuseSweep, RequestLost
  <2>2. \A s \in submits : s.scan \notin disturbed => s.scan # g
    BY <2>1 DEF SubmitHasCaller
  <2>3. /\ UNCHANGED <<submits, rows, waiting, pc, disturbed, orphans>>
        /\ \/ sweep' = [sweep EXCEPT ![g] = "streaming"]
           \/ sweep' = [sweep EXCEPT ![g] = "refused"]
           \/ sweep' = [sweep EXCEPT ![g] = "lost"]
    BY <1>1 DEF BeginSweep, RefuseSweep, RequestLost
  <2>4. SubmitHasCaller' /\ SubmitInItsOwnRun' /\ ResultsInTheirOwnRun'
    BY <2>2, <2>3, SubmitFrame DEF TypeOK, SubmitCall
  <2> QED
    BY <2>1, <2>3, <2>4 DEF SweepHasCaller, TypeOK
<1>2. CASE SendBatch(g)
  <2>1. PICK batch \in NextBatch(g) :
          /\ waiting' = [waiting EXCEPT ![g] = batch]
          /\ submits' = submits \cup
               {[scan |-> g, items |-> batch, pc |-> "read", run |-> 0]}
    BY <1>2 DEF SendBatch
  <2>2. batch # {}
    BY <2>1 DEF NextBatch
  <2>3. \A s \in submits : s.scan \notin disturbed => s.scan # g
    BY <1>2 DEF SendBatch, SubmitHasCaller
  <2>4. SubmitHasCaller'
    BY <1>2, <2>1, <2>2, <2>3 DEF SendBatch, SubmitHasCaller, TypeOK, SubmitCall
  <2> QED
    BY <1>2, <2>1, <2>4 DEF SendBatch, SweepHasCaller, SubmitInItsOwnRun, ResultsInTheirOwnRun
<1>3. CASE SendReturns(g)
  <2>1. \A s \in submits : s.scan \notin disturbed => s.scan # g
    BY <1>3 DEF SendReturns, SubmitHasCaller
  <2>2. SubmitHasCaller' /\ SubmitInItsOwnRun' /\ ResultsInTheirOwnRun'
    BY <1>3, <2>1, SubmitFrame DEF SendReturns, TypeOK, SubmitCall
  <2> QED
    BY <1>3, <2>2 DEF SendReturns, SweepHasCaller
<1>4. CASE NoticeCancel(g)
  <2>1. g \in disturbed
    BY <1>4 DEF NoticeCancel, SweepHasCaller
  <2>2. SubmitHasCaller' /\ SubmitInItsOwnRun' /\ ResultsInTheirOwnRun'
    BY <1>4, <2>1, SubmitFrame DEF NoticeCancel, TypeOK, SubmitCall
  <2> QED
    BY <1>4, <2>1, <2>2 DEF NoticeCancel, SweepHasCaller, TypeOK
<1>5. CASE FinishSweep(g)
  <2>1. \A s \in submits : s.scan \notin disturbed => s.scan # g
    BY <1>5 DEF FinishSweep, SubmitHasCaller
  <2>2. SubmitHasCaller' /\ SubmitInItsOwnRun' /\ ResultsInTheirOwnRun'
    BY <1>5, <2>1, SubmitFrame DEF FinishSweep, TypeOK, SubmitCall
  <2> QED
    BY <1>5, <2>2 DEF FinishSweep, SweepHasCaller, TypeOK, Sweeping
<1>6. CASE SendFails(g)
  <2>1. SubmitHasCaller' /\ SubmitInItsOwnRun' /\ ResultsInTheirOwnRun'
    BY <1>6, SubmitFrame DEF SendFails, TypeOK, SubmitCall
  <2> QED
    BY <1>6, <2>1 DEF SendFails, SweepHasCaller
<1> QED
  BY <1>1, <1>2, <1>3, <1>4, <1>5, <1>6 DEF CrawlerStep

(* While its scan is undisturbed, a handler reads the run of its own scan, *)
(* or an older one that was left behind.                                   *)
LEMMA ReadsOwnRun ==
  ASSUME TypeOK, Control, Delivery, NEW s \in submits, NEW r \in 0..MaxScans,
         s.scan \notin disturbed, IsActiveScanRun(r)
  PROVE  r = s.scan \/ r \in orphans
<1>1. s.scan \in Scans
  BY DEF TypeOK, SubmitCall
<1>2. pc[s.scan] = "calling"
  BY <1>1 DEF Delivery, SubmitHasCaller, SweepHasCaller
<1>3. status[s.scan] = "running" /\ s.scan \in Live
  BY <1>1, <1>2 DEF Control, RowFollowsGoroutine, Live, PCs
<1>4. r \in Scans /\ status[r] = "running"
  BY <1>1, <1>3 DEF IsActiveScanRun
<1>5. r \in orphans \/ r \in Live
  BY <1>4 DEF Control, RunningRowHasOwner, Live, PCs
<1>6. r \in Live => r = s.scan
  BY <1>3 DEF Control, OneScanAtATime
<1> QED
  BY <1>5, <1>6

LEMMA SubmitDelivery ==
  ASSUME TypeOK, Control, Delivery, NEW s \in submits,
         \/ SubmitReads(s)
         \/ SubmitReadFails(s)
         \/ \E stored \in SUBSET s.items : SubmitInserts(s, stored)
  PROVE  Delivery'
<1> USE DEF dashboard, crawler, history, Delivery
<1>0. s.scan \in Scans /\ s.items \in SUBSET Items
  BY DEF TypeOK, SubmitCall
<1>1. ASSUME NEW r \in 0..MaxScans, Attribute(s, r), UNCHANGED <<rows, sweep, waiting, pc, orphans>>,
             disturbed \subseteq disturbed',
             r = s.scan \/ s.scan \in disturbed' \/ r \in orphans
      PROVE  Delivery'
  <2> DEFINE t == [s EXCEPT !.pc = "insert", !.run = r]
  <2>1. submits' = (submits \ {s}) \cup {t}
    BY <1>1 DEF Attribute
  <2>2. t.scan = s.scan /\ t.items = s.items /\ t.run = r
    BY DEF TypeOK, SubmitCall
  <2>3. SubmitHasCaller'
    BY <1>1, <2>1, <2>2 DEF SubmitHasCaller
  <2>4. SubmitInItsOwnRun'
    BY <1>1, <2>1, <2>2 DEF SubmitInItsOwnRun
  <2>5. SweepHasCaller' /\ ResultsInTheirOwnRun'
    BY <1>1 DEF SweepHasCaller, ResultsInTheirOwnRun
  <2> QED
    BY <2>3, <2>4, <2>5
<1>2. CASE SubmitReads(s)
  BY <1>1, <1>2, ReadsOwnRun DEF SubmitReads
<1>3. CASE SubmitReadFails(s)
  BY <1>1, <1>3 DEF SubmitReadFails
<1>4. ASSUME NEW stored \in SUBSET s.items, SubmitInserts(s, stored)
      PROVE  Delivery'
  <2>1. s.run = s.scan \/ s.scan \in disturbed \/ s.run \in orphans
    BY <1>4 DEF SubmitInserts, SubmitInItsOwnRun
  <2>2. ResultsInTheirOwnRun'
    BY <1>4, <2>1 DEF SubmitInserts, ResultsInTheirOwnRun
  <2>3. SubmitHasCaller' /\ SubmitInItsOwnRun' /\ SweepHasCaller'
    BY <1>4 DEF SubmitInserts, SubmitHasCaller, SubmitInItsOwnRun, SweepHasCaller
  <2> QED
    BY <2>2, <2>3
<1> QED
  BY <1>2, <1>3, <1>4

LEMMA RestartDelivery ==
  ASSUME TypeOK, Delivery, DashboardRestarts \/ CrawlerRestarts PROVE Delivery'
<1> USE DEF Delivery, dashboard, crawler
<1>1. CASE DashboardRestarts
  <2>1. SweepHasCaller'
    BY <1>1 DEF DashboardRestarts, SweepHasCaller, Live, Sweeping, TypeOK, PCs
  <2>2. SubmitHasCaller' /\ SubmitInItsOwnRun' /\ ResultsInTheirOwnRun'
    BY <1>1 DEF DashboardRestarts, SubmitHasCaller, SubmitInItsOwnRun, ResultsInTheirOwnRun
  <2> QED
    BY <2>1, <2>2
<1>2. CASE CrawlerRestarts
  <2>1. \A s \in submits : s.scan \in disturbed'
    BY <1>2 DEF CrawlerRestarts, SubmitHasCaller, Sweeping, TypeOK, SubmitCall
  <2>2. SubmitHasCaller' /\ SubmitInItsOwnRun' /\ ResultsInTheirOwnRun'
    BY <1>2, <2>1, SubmitFrame DEF CrawlerRestarts
  <2>3. SweepHasCaller'
    <3>1. \A h \in Scans : sweep'[h] \in {"requested", "streaming", "winding"} => sweep'[h] = sweep[h]
      BY <1>2 DEF CrawlerRestarts
    <3>2. \A h \in Scans : sweep[h] = "none" => sweep'[h] = "none"
      BY <1>2 DEF CrawlerRestarts, Sweeping
    <3> QED
      BY <1>2, <3>1, <3>2 DEF CrawlerRestarts, SweepHasCaller
  <2> QED
    BY <2>2, <2>3
<1> QED
  BY <1>1, <1>2

LEMMA StepDelivery == TypeOK /\ Control /\ Delivery /\ [Next]_vars => Delivery'
<1> SUFFICES ASSUME TypeOK, Control, Delivery, [Next]_vars PROVE Delivery'
  OBVIOUS
<1>1. CASE UNCHANGED vars
  BY <1>1 DEF vars, dashboard, crawler, history, Delivery, SweepHasCaller,
              SubmitHasCaller, SubmitInItsOwnRun, ResultsInTheirOwnRun
<1>2. CASE FaultStep
  BY <1>2, GoroutineDelivery, CrawlerDelivery, SubmitDelivery, RestartDelivery DEF FaultStep
<1> QED
  BY <1>1, <1>2, RequestDelivery, GoroutineDelivery, CrawlerDelivery, SubmitDelivery
     DEF Next, SubmitStep

(* A result lands in a run other than its own only after a call of its     *)
(* scan was cut short or failed, or in a run that was left behind.         *)
THEOREM OwnRun == Spec => []ResultsInTheirOwnRun
<1>1. Delivery => ResultsInTheirOwnRun
  BY DEF Delivery
<1> QED
  BY <1>1, InitTypeOK, InitControl, InitDelivery, StepTypeOK, StepControl,
     StepDelivery, PTL DEF Spec

----------------------------------------------------------------------------
(* Completeness: no item of a completed sweep is unaccounted for.          *)

LEMMA InitNothingForgotten == Init => NothingForgotten
  BY DEF Init, NothingForgotten

(* The crawler and the handlers stand still, and nothing stored or logged  *)
(* is taken back.                                                          *)
LEMMA AccountedFrame ==
  ASSUME NEW g \in Scans, NEW i \in Items, Accounted(g, i),
         UNCHANGED <<todo, waiting, submits>>,
         rows \subseteq rows', dropped \subseteq dropped'
  PROVE  Accounted(g, i)'
  BY DEF Accounted

LEMMA DashboardNothingForgotten ==
  ASSUME TypeOK, Control, NothingForgotten,
         \/ Request
         \/ \E g \in Scans : GoroutineStep(g) \/ SweepCallBroken(g) \/ CompleteScanRunFails(g)
  PROVE  NothingForgotten'
<1> USE DEF crawler, history
<1>1. UNCHANGED <<todo, waiting, submits, rows, dropped>>
  BY DEF Request, Precheck, Trigger, TriggerRefused, TriggerScreenshot, Launch, Cancel,
         GoroutineStep, NothingToScan, CreateScanRun, StartSweep, StartSweepCancelled,
         SweepAnswered, SweepAborted, SweepCallBroken, SweepError, CompleteScanRun,
         CompleteScanRunFails, SetRunningFalse
<1>2. \A g \in Scans, i \in Items : Accounted(g, i) => Accounted(g, i)'
  BY <1>1, AccountedFrame
<1>3. CASE UNCHANGED <<sweep, pc, outcome, status>>
  BY <1>1, <1>2, <1>3 DEF NothingForgotten
<1>4. ASSUME NEW k \in Kinds, Launch(k) PROVE NothingForgotten'
  <2>1. \A g \in Scans : pc'[g] = "ended" => pc[g] = "ended"
    BY <1>4 DEF Launch, TypeOK
  <2> QED
    BY <1>1, <1>2, <1>4, <2>1 DEF Launch, NothingForgotten
<1>5. CASE Request
  BY <1>3, <1>4, <1>5 DEF Request, Precheck, Trigger, TriggerRefused, TriggerScreenshot,
                          Cancel, Kinds
<1>6. ASSUME NEW g \in Scans, StartSweep(g) PROVE NothingForgotten'
  <2>1. status[g] = "running" /\ pc'[g] = "calling" /\ sweep'[g] = "requested"
    BY <1>6 DEF StartSweep, Control, RowFollowsGoroutine, Goto, TypeOK
  <2>2. /\ UNCHANGED <<status, outcome>>
        /\ \A h \in Scans \ {g} : sweep'[h] = sweep[h] /\ pc'[h] = pc[h]
    BY <1>6 DEF StartSweep, Goto, TypeOK
  <2> QED
    BY <1>1, <1>2, <2>1, <2>2 DEF NothingForgotten
<1>7. ASSUME NEW g \in Scans,
             \/ NothingToScan(g) \/ CreateScanRun(g) \/ StartSweepCancelled(g)
             \/ SweepAnswered(g) \/ SweepError(g) \/ CompleteScanRun(g)
             \/ CompleteScanRunFails(g) \/ SetRunningFalse(g)
      PROVE  NothingForgotten'
  <2>1. UNCHANGED sweep
    BY <1>7 DEF NothingToScan, CreateScanRun, StartSweepCancelled, SweepAnswered, SweepError,
                CompleteScanRun, CompleteScanRunFails, SetRunningFalse
  <2>2. \A h \in Scans : pc'[h] = "ended" /\ outcome'[h] = "completed" => sweep[h] = "accepted"
    BY <1>7 DEF NothingToScan, CreateScanRun, StartSweepCancelled, SweepAnswered, SweepError,
                CompleteScanRun, CompleteScanRunFails, SetRunningFalse, Goto, TypeOK,
                NothingForgotten
  <2>3. \A h \in Scans : status'[h] = "completed" => sweep[h] = "accepted"
    BY <1>7 DEF NothingToScan, CreateScanRun, StartSweepCancelled, SweepAnswered, SweepError,
                CompleteScanRun, CompleteScanRunFails, SetRunningFalse, TypeOK,
                NothingForgotten
  <2> QED
    BY <1>1, <1>2, <2>1, <2>2, <2>3 DEF NothingForgotten
<1> QED
  BY <1>5, <1>6, <1>7 DEF GoroutineStep, SweepAborted, SweepCallBroken

(* What is left to show when only the crawler's side of scan g moves.      *)
LEMMA CrawlerNothingForgotten ==
  ASSUME TypeOK, NothingForgotten, NEW g \in Scans, CrawlerStep(g) \/ SendFails(g)
  PROVE  NothingForgotten'
<1> USE DEF dashboard, history
<1>1. CASE BeginSweep(g) \/ RefuseSweep(g) \/ RequestLost(g)
  <2>1. /\ UNCHANGED <<pc, outcome, status, rows, waiting, submits, dropped>>
        /\ sweep[g] = "requested"
        /\ sweep'[g] \in {"streaming", "refused", "lost"}
        /\ sweep'[g] = "streaming" => todo'[g] = Items
        /\ \A h \in Scans \ {g} : sweep'[h] = sweep[h] /\ todo'[h] = todo[h]
    BY <1>1 DEF BeginSweep, RefuseSweep, RequestLost, TypeOK
  <2>2. \A h \in Scans \ {g}, i \in Items : Accounted(h, i) => Accounted(h, i)'
    BY <2>1 DEF Accounted
  <2>3. sweep'[g] = "streaming" => \A i \in Items : Accounted(g, i)'
    BY <2>1 DEF Accounted
  <2> QED
    BY <2>1, <2>2, <2>3 DEF NothingForgotten
<1>2. CASE SendBatch(g)
  <2>1. PICK batch \in NextBatch(g) :
          /\ todo' = [todo EXCEPT ![g] = @ \ batch]
          /\ waiting' = [waiting EXCEPT ![g] = batch]
          /\ submits' = submits \cup
               {[scan |-> g, items |-> batch, pc |-> "read", run |-> 0]}
    BY <1>2 DEF SendBatch
  <2>2. batch # {} /\ batch \subseteq todo[g]
    BY <2>1 DEF NextBatch
  <2>3. /\ UNCHANGED <<pc, outcome, status, rows, sweep, dropped>>
        /\ sweep[g] = "streaming" /\ waiting[g] = {}
    BY <1>2 DEF SendBatch
  <2>4. \A h \in Scans \ {g}, i \in Items : Accounted(h, i) => Accounted(h, i)'
    BY <2>1, <2>3 DEF Accounted, TypeOK
  <2>5. ASSUME NEW i \in Items PROVE Accounted(g, i)'
    <3>1. Accounted(g, i)
      BY <2>3 DEF NothingForgotten
    <3>2. CASE i \in batch
      <4> DEFINE s == [scan |-> g, items |-> batch, pc |-> "read", run |-> 0]
      <4>1. s \in submits' /\ s.scan = g /\ s.items = batch /\ waiting'[g] = batch
        BY <2>1 DEF TypeOK
      <4> HIDE DEF s
      <4> QED
        BY <3>2, <4>1 DEF Accounted
    <3>3. CASE i \notin batch
      BY <2>1, <2>3, <3>1, <3>3 DEF Accounted, NothingForgotten, TypeOK
    <3> QED
      BY <3>2, <3>3
  <2>6. \A s \in submits' : s.items # {}
    BY <2>1, <2>2 DEF NothingForgotten, TypeOK, SubmitCall
  <2> QED
    BY <2>1, <2>3, <2>4, <2>5, <2>6 DEF NothingForgotten, TypeOK
<1>3. CASE SendReturns(g) \/ SendFails(g)
  <2>1. /\ UNCHANGED <<pc, outcome, status, rows, sweep, todo, submits>>
        /\ waiting' = [waiting EXCEPT ![g] = {}]
        /\ dropped \subseteq dropped'
    BY <1>3 DEF SendReturns, SendFails
  <2>2. \A h \in Scans \ {g}, i \in Items : Accounted(h, i) => Accounted(h, i)'
    BY <2>1 DEF Accounted, TypeOK
  <2>3. ASSUME NEW i \in Items, Accounted(g, i) PROVE Accounted(g, i)'
    <3>1. CASE SendReturns(g)
      BY <2>1, <2>3, <3>1 DEF Accounted, SendReturns
    <3>2. CASE SendFails(g)
      BY <2>1, <2>3, <3>2 DEF Accounted, SendFails, DroppedFrom
    <3> QED
      BY <1>3, <3>1, <3>2
  <2> QED
    BY <2>1, <2>2, <2>3 DEF NothingForgotten, TypeOK
<1>4. CASE NoticeCancel(g)
  <2>1. \A h \in Scans \ {g}, i \in Items : Accounted(h, i) => Accounted(h, i)'
    BY <1>4 DEF NoticeCancel, Accounted, TypeOK
  <2>2. \A i \in Items : Accounted(g, i) => Accounted(g, i)'
    BY <1>4 DEF NoticeCancel, Accounted, DroppedFrom, TypeOK
  <2>3. /\ UNCHANGED <<pc, outcome, status, submits>>
        /\ sweep[g] = "streaming" /\ sweep'[g] = "winding"
        /\ \A h \in Scans \ {g} : sweep'[h] = sweep[h] /\ todo'[h] = todo[h] /\ waiting'[h] = waiting[h]
    BY <1>4 DEF NoticeCancel, TypeOK
  <2> QED
    BY <2>1, <2>2, <2>3 DEF NothingForgotten
<1>5. CASE FinishSweep(g)
  <2>1. \A h \in Scans, i \in Items : Accounted(h, i) => Accounted(h, i)'
    BY <1>5, AccountedFrame DEF FinishSweep
  <2>2. /\ UNCHANGED <<pc, outcome, status, todo, waiting, submits>>
        /\ sweep[g] \in {"streaming", "winding"} /\ sweep'[g] = "accepted"
        /\ todo[g] = {} /\ waiting[g] = {}
        /\ \A h \in Scans \ {g} : sweep'[h] = sweep[h]
    BY <1>5 DEF FinishSweep, Sweeping, TypeOK
  <2> QED
    BY <2>1, <2>2 DEF NothingForgotten
<1> QED
  BY <1>1, <1>2, <1>3, <1>4, <1>5 DEF CrawlerStep

LEMMA SubmitNothingForgotten ==
  ASSUME TypeOK, NothingForgotten, NEW s \in submits,
         \/ SubmitReads(s)
         \/ SubmitReadFails(s)
         \/ \E stored \in SUBSET s.items : SubmitInserts(s, stored)
  PROVE  NothingForgotten'
<1> USE DEF dashboard, crawler, history
<1>1. UNCHANGED <<pc, outcome, status, sweep, todo, waiting>>
  BY DEF SubmitReads, SubmitReadFails, SubmitInserts
<1>2. ASSUME NEW r \in 0..MaxScans, Attribute(s, r), UNCHANGED <<rows, dropped>>
      PROVE  NothingForgotten'
  <2> DEFINE t == [s EXCEPT !.pc = "insert", !.run = r]
  <2>1. submits' = (submits \ {s}) \cup {t} /\ t.scan = s.scan /\ t.items = s.items
    BY <1>2 DEF Attribute, TypeOK, SubmitCall
  <2>2. \A g \in Scans, i \in Items : Accounted(g, i) => Accounted(g, i)'
    BY <1>1, <1>2, <2>1 DEF Accounted
  <2>3. \A u \in submits' : u.items # {}
    BY ZenonT(30), <2>1 DEF NothingForgotten, TypeOK, SubmitCall
  <2> QED
    BY <1>1, <2>2, <2>3 DEF NothingForgotten
<1>3. ASSUME NEW stored \in SUBSET s.items, SubmitInserts(s, stored)
      PROVE  NothingForgotten'
  <2>1. ASSUME NEW g \in Scans, NEW i \in Items, Accounted(g, i)
        PROVE  Accounted(g, i)'
    <3>1. CASE s.scan = g /\ i \in stored
      <4>1. [scan |-> s.scan, item |-> i, run |-> s.run] \in rows'
        BY <1>3, <3>1 DEF SubmitInserts
      <4> QED
        BY <3>1, <4>1 DEF Accounted
    <3>2. CASE s.scan = g /\ i \in s.items \ stored
      BY <1>3, <3>2 DEF SubmitInserts, DroppedFrom, Accounted
    <3>3. CASE ~(s.scan = g /\ i \in s.items)
      BY <1>1, <1>3, <2>1, <3>3 DEF SubmitInserts, Accounted
    <3> QED
      BY <3>1, <3>2, <3>3
  <2>2. submits' \subseteq submits
    BY <1>3 DEF SubmitInserts
  <2> QED
    BY <1>1, <2>1, <2>2 DEF NothingForgotten
<1> QED
  BY <1>2, <1>3 DEF SubmitReads, SubmitReadFails

LEMMA RestartNothingForgotten ==
  ASSUME TypeOK, NothingForgotten, DashboardRestarts \/ CrawlerRestarts
  PROVE  NothingForgotten'
<1> USE DEF dashboard, crawler
<1>1. CASE DashboardRestarts
  <2>1. ASSUME NEW g \in Scans, NEW i \in Items, Accounted(g, i)
        PROVE  Accounted(g, i)'
    <3>1. ASSUME NEW s \in submits, s.scan = g, i \in s.items
          PROVE  <<g, i>> \in dropped'
      BY <1>1, <3>1 DEF DashboardRestarts, DroppedFrom
    <3> QED
      BY <1>1, <2>1, <3>1 DEF DashboardRestarts, Accounted
  <2>2. \A g \in Scans : pc'[g] = "ended" => pc[g] = "ended"
    BY <1>1 DEF DashboardRestarts, TypeOK
  <2> QED
    BY <1>1, <2>1, <2>2 DEF DashboardRestarts, NothingForgotten
<1>2. CASE CrawlerRestarts
  <2>1. UNCHANGED <<pc, outcome, status, rows, submits>> /\ dropped \subseteq dropped'
    BY <1>2 DEF CrawlerRestarts
  <2>2. \A g \in Scans : /\ sweep'[g] \notin {"streaming", "winding"}
                         /\ sweep'[g] = "accepted" <=> sweep[g] = "accepted"
                         /\ todo'[g] = {} /\ waiting'[g] = {}
    BY <1>2 DEF CrawlerRestarts, Sweeping
  <2>3. ASSUME NEW g \in Scans, NEW i \in Items, sweep[g] = "accepted"
        PROVE  Accounted(g, i)'
    BY <2>1, <2>3 DEF Accounted, NothingForgotten
  <2> QED
    BY <2>1, <2>2, <2>3 DEF NothingForgotten
<1> QED
  BY <1>1, <1>2

LEMMA StepNothingForgotten ==
  TypeOK /\ Control /\ NothingForgotten /\ [Next]_vars => NothingForgotten'
<1> SUFFICES ASSUME TypeOK, Control, NothingForgotten, [Next]_vars
             PROVE  NothingForgotten'
  OBVIOUS
<1>1. CASE UNCHANGED vars
  BY <1>1 DEF vars, dashboard, crawler, history, NothingForgotten, Accounted
<1>2. CASE FaultStep
  BY <1>2, DashboardNothingForgotten, CrawlerNothingForgotten, SubmitNothingForgotten,
     RestartNothingForgotten DEF FaultStep
<1> QED
  BY <1>1, <1>2, DashboardNothingForgotten, CrawlerNothingForgotten,
     SubmitNothingForgotten DEF Next, SubmitStep

(* A run marked "completed" has every result of its sweep stored, or       *)
(* reported as lost.                                                       *)
THEOREM CompletedRuns == Spec => []CompletedIsComplete
<1>1. NothingForgotten => CompletedIsComplete
  BY DEF NothingForgotten, CompletedIsComplete, Accounted
<1> QED
  BY <1>1, InitTypeOK, InitControl, InitNothingForgotten, StepTypeOK, StepControl,
     StepNothingForgotten, PTL DEF Spec

----------------------------------------------------------------------------
(* Cancellation, and the crawler's own exclusion.                          *)

(* The verdict of runCrawler before it reaches the row.                    *)
VerdictWasAsked ==
  /\ CancelledWasAsked
  /\ \A g \in Scans : pc[g] = "ended" /\ outcome[g] = "cancelled" => g \in ctxDone

LEMMA StepVerdict == TypeOK /\ VerdictWasAsked /\ [Next]_vars => VerdictWasAsked'
<1> SUFFICES ASSUME TypeOK, VerdictWasAsked, [Next]_vars PROVE VerdictWasAsked'
  OBVIOUS
<1> USE DEF VerdictWasAsked, CancelledWasAsked, dashboard, crawler, history
<1>1. CASE UNCHANGED <<pc, outcome, status>> /\ ctxDone \subseteq ctxDone'
  BY <1>1
<1>2. ASSUME NEW k \in Kinds, Launch(k) PROVE VerdictWasAsked'
  BY <1>2 DEF Launch, TypeOK
<1>3. ASSUME NEW g \in Scans,
             \/ NothingToScan(g) \/ CreateScanRun(g) \/ StartSweep(g)
             \/ StartSweepCancelled(g) \/ SweepAnswered(g) \/ SweepError(g)
             \/ CompleteScanRun(g) \/ CompleteScanRunFails(g) \/ SetRunningFalse(g)
      PROVE  VerdictWasAsked'
  <2>1. UNCHANGED ctxDone
    BY <1>3 DEF NothingToScan, CreateScanRun, StartSweep, StartSweepCancelled, SweepAnswered,
                SweepError, CompleteScanRun, CompleteScanRunFails, SetRunningFalse
  <2>2. CancelledWasAsked'
    BY <1>3, <2>1 DEF NothingToScan, CreateScanRun, StartSweep, StartSweepCancelled,
                SweepAnswered, SweepError, CompleteScanRun, CompleteScanRunFails,
                SetRunningFalse, TypeOK
  <2>3. \A h \in Scans : pc'[h] = "ended" /\ outcome'[h] = "cancelled" => h \in ctxDone
    BY <1>3 DEF NothingToScan, CreateScanRun, StartSweep, StartSweepCancelled,
                SweepAnswered, SweepError, CompleteScanRun, CompleteScanRunFails,
                SetRunningFalse, TypeOK, Goto
  <2> QED
    BY <2>1, <2>2, <2>3
<1>4. CASE DashboardRestarts
  BY <1>4 DEF DashboardRestarts, TypeOK
<1>5. CASE Request
  BY <1>1, <1>2, <1>5 DEF Request, Precheck, Trigger, TriggerRefused, TriggerScreenshot,
                          Cancel, Kinds
<1>6. ASSUME NEW g \in Scans, CrawlerStep(g) \/ SendFails(g) PROVE VerdictWasAsked'
  BY <1>1, <1>6 DEF CrawlerStep, BeginSweep, RefuseSweep, RequestLost, SendBatch,
                    SendReturns, SendFails, NoticeCancel, FinishSweep
<1>7. ASSUME NEW s \in submits,
             \/ SubmitReads(s) \/ SubmitReadFails(s)
             \/ \E stored \in SUBSET s.items : SubmitInserts(s, stored)
      PROVE  VerdictWasAsked'
  BY <1>1, <1>7 DEF SubmitReads, SubmitReadFails, SubmitInserts
<1>8. CASE CrawlerRestarts
  BY <1>1, <1>8 DEF CrawlerRestarts
<1>9. CASE UNCHANGED vars
  BY <1>1, <1>9 DEF vars
<1> QED
  BY <1>3, <1>4, <1>5, <1>6, <1>7, <1>8, <1>9
     DEF Next, GoroutineStep, SweepAborted, SweepCallBroken, SubmitStep, FaultStep

(* "cancelled" is recorded only for the scan somebody cancelled.           *)
THEOREM CancelledRuns == Spec => []CancelledWasAsked
<1>1. Init => VerdictWasAsked
  BY DEF Init, VerdictWasAsked, CancelledWasAsked
<1>2. VerdictWasAsked => CancelledWasAsked
  BY DEF VerdictWasAsked
<1> QED
  BY <1>1, <1>2, InitTypeOK, StepTypeOK, StepVerdict, PTL DEF Spec

LEMMA StepOneSweep ==
  TypeOK /\ Delivery /\ OneSweepAtATime /\ [Next]_vars => OneSweepAtATime'
<1> SUFFICES ASSUME TypeOK, Delivery, OneSweepAtATime, [Next]_vars PROVE OneSweepAtATime'
  OBVIOUS
<1> USE DEF OneSweepAtATime, dashboard, crawler, history
<1>1. CASE crawlerBusy' = crawlerBusy /\ Sweeping' = Sweeping
  BY <1>1
<1>2. CASE UNCHANGED <<crawlerBusy, sweep>>
  BY <1>1, <1>2 DEF Sweeping
<1>3. ASSUME NEW g \in Scans, CrawlerStep(g) PROVE OneSweepAtATime'
  <2>1. CASE BeginSweep(g)
    <3>1. Sweeping = {} /\ Sweeping' = {g}
      BY <2>1 DEF BeginSweep, Sweeping, TypeOK
    <3> QED
      BY <2>1, <3>1 DEF BeginSweep
  <2>2. CASE RefuseSweep(g) \/ RequestLost(g) \/ NoticeCancel(g)
    <3>1. Sweeping' = Sweeping /\ crawlerBusy' = crawlerBusy
      BY <2>2 DEF RefuseSweep, RequestLost, NoticeCancel, Sweeping, TypeOK
    <3> QED
      BY <1>1, <3>1
  <2>3. CASE SendBatch(g) \/ SendReturns(g)
    BY <1>2, <2>3 DEF SendBatch, SendReturns
  <2>4. CASE FinishSweep(g)
    <3>1. Sweeping = {g} /\ Sweeping' = {}
      BY <2>4 DEF FinishSweep, Sweeping, TypeOK
    <3> QED
      BY <2>4, <3>1 DEF FinishSweep
  <2> QED
    BY <1>3, <2>1, <2>2, <2>3, <2>4 DEF CrawlerStep
<1>4. ASSUME NEW g \in Scans, GoroutineStep(g) \/ SweepCallBroken(g) \/ CompleteScanRunFails(g) \/ SendFails(g)
      PROVE  OneSweepAtATime'
  <2>1. CASE StartSweep(g)
    <3>1. sweep[g] = "none"
      BY <2>1 DEF StartSweep, Delivery, SweepHasCaller
    <3>2. Sweeping' = Sweeping /\ crawlerBusy' = crawlerBusy
      BY <2>1, <3>1 DEF StartSweep, Sweeping, TypeOK
    <3> QED
      BY <1>1, <3>2
  <2>2. CASE UNCHANGED <<crawlerBusy, sweep>>
    BY <1>2, <2>2
  <2> QED
    BY <1>4, <2>1, <2>2 DEF GoroutineStep, NothingToScan, CreateScanRun,
       StartSweepCancelled, SweepAnswered, SweepAborted, SweepCallBroken, SweepError,
       CompleteScanRun, CompleteScanRunFails, SetRunningFalse, SendFails
<1>5. CASE Request
  BY <1>2, <1>5 DEF Request, Precheck, Trigger, TriggerRefused, TriggerScreenshot, Launch, Cancel
<1>6. ASSUME NEW s \in submits,
             \/ SubmitReads(s) \/ SubmitReadFails(s)
             \/ \E stored \in SUBSET s.items : SubmitInserts(s, stored)
      PROVE  OneSweepAtATime'
  BY <1>2, <1>6 DEF SubmitReads, SubmitReadFails, SubmitInserts
<1>7. CASE DashboardRestarts
  BY <1>2, <1>7 DEF DashboardRestarts
<1>8. CASE CrawlerRestarts
  <2>1. Sweeping' = {}
    BY <1>8 DEF CrawlerRestarts, Sweeping
  <2> QED
    BY <1>8, <2>1 DEF CrawlerRestarts
<1>9. CASE UNCHANGED vars
  BY <1>2, <1>9 DEF vars
<1> QED
  BY <1>3, <1>4, <1>5, <1>6, <1>7, <1>8, <1>9 DEF Next, SubmitStep, FaultStep

(* The crawler runs at most one sweep, and its busy flag says whether.     *)
THEOREM OneSweep == Spec => []OneSweepAtATime
<1>1. Init => OneSweepAtATime
  BY DEF Init, OneSweepAtATime, Sweeping
<1> QED
  BY <1>1, InitTypeOK, InitControl, InitDelivery, StepTypeOK, StepControl, StepDelivery,
     StepOneSweep, PTL DEF Spec

----------------------------------------------------------------------------
(* ScanControl implements ScanLedger.                                      *)

LEMMA LedgerInit == Init => Ledger!Init
  BY DEF Init, Ledger!Init, Scans

(* Every step is a step of the ledger, or leaves it alone.                 *)
LEMMA LedgerStep == TypeOK /\ Control /\ [Next]_vars => [Ledger!Next]_(Ledger!vars)
<1> SUFFICES ASSUME TypeOK, Control, [Next]_vars
             PROVE  Ledger!Next \/ UNCHANGED <<launched, cancelRun, status>>
  BY DEF Ledger!vars
<1> USE DEF dashboard, crawler, history
<1>1. ASSUME NEW k \in Kinds, Launch(k) PROVE Ledger!Acquire
  BY <1>1 DEF Launch, Ledger!Acquire, Control, OneScanAtATime
<1>2. ASSUME NEW g \in Live PROVE cancelRun = g /\ cancelRun # 0
  BY <1>2 DEF Control, OneScanAtATime
<1>3. ASSUME NEW g \in Scans, CreateScanRun(g) PROVE Ledger!Open
  <2>1. g \in Live /\ status[g] = "none"
    BY <1>3 DEF CreateScanRun, Live, PCs, Control, RowFollowsGoroutine
  <2> QED
    BY <1>2, <1>3, <2>1 DEF CreateScanRun, Ledger!Open
<1>4. ASSUME NEW g \in Scans, CompleteScanRun(g) PROVE Ledger!Close
  <2>1. g \in Live /\ status[g] = "running" /\ outcome[g] \in Final
    BY <1>4 DEF CompleteScanRun, Live, PCs, Control, RowFollowsGoroutine
  <2> QED
    BY <1>2, <1>4, <2>1 DEF CompleteScanRun, Ledger!Close, Final
<1>5. ASSUME NEW g \in Scans, SetRunningFalse(g) PROVE Ledger!Release
  <2>1. g \in Live
    BY <1>5 DEF SetRunningFalse, Live, PCs
  <2> QED
    BY <1>2, <1>5, <2>1 DEF SetRunningFalse, Ledger!Release
<1>6. ASSUME NEW g \in Scans, GoroutineStep(g) \/ SweepCallBroken(g) \/ CompleteScanRunFails(g)
      PROVE  Ledger!Next \/ UNCHANGED <<launched, cancelRun, status>>
  BY <1>3, <1>4, <1>5, <1>6 DEF Ledger!Next, GoroutineStep, NothingToScan, StartSweep,
     StartSweepCancelled, SweepAnswered, SweepAborted, SweepCallBroken, SweepError,
     CompleteScanRunFails
<1>7. CASE Request
  BY <1>1, <1>7 DEF Ledger!Next, Request, Precheck, Trigger, TriggerRefused,
                    TriggerScreenshot, Cancel, Kinds
<1>8. ASSUME NEW g \in Scans, CrawlerStep(g) \/ SendFails(g)
      PROVE  UNCHANGED <<launched, cancelRun, status>>
  BY <1>8 DEF CrawlerStep, BeginSweep, RefuseSweep, RequestLost, SendBatch, SendReturns,
              SendFails, NoticeCancel, FinishSweep
<1>9. ASSUME NEW s \in submits,
             \/ SubmitReads(s) \/ SubmitReadFails(s)
             \/ \E stored \in SUBSET s.items : SubmitInserts(s, stored)
      PROVE  UNCHANGED <<launched, cancelRun, status>>
  BY <1>9 DEF SubmitReads, SubmitReadFails, SubmitInserts
<1>10. CASE DashboardRestarts
  BY <1>10 DEF DashboardRestarts, Ledger!Next, Ledger!Release
<1>11. CASE CrawlerRestarts
  BY <1>11 DEF CrawlerRestarts
<1>12. CASE UNCHANGED vars
  BY <1>12 DEF vars
<1> QED
  BY <1>6, <1>7, <1>8, <1>9, <1>10, <1>11, <1>12 DEF Next, SubmitStep, FaultStep

(* The Scanner and scan_runs implement the slot and the ledger of runs.    *)
THEOREM LedgerRefinement == Spec => ImplementsLedger
  BY InitTypeOK, InitControl, LedgerInit, StepTypeOK, StepControl, LedgerStep, PTL
  DEF Spec, ImplementsLedger, Ledger!Spec

=============================================================================
