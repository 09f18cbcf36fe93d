---------------------------- MODULE SweepProofs ----------------------------
(***************************************************************************)
(* Sweep keeps its channels in order and implements Outbox, for any number *)
(* of servers, URLs and workers and any batch size.                        *)
(***************************************************************************)
EXTENDS Sweep, FiniteSetTheorems, TLAPS

USE InputAssumption, PoolAssumption, BatchAssumption, BudgetAssumption
    DEF InputAssumption, PoolAssumption, BatchAssumption, BudgetAssumption

----------------------------------------------------------------------------
(* Type correctness.                                                       *)

LEMMA InitType == ASSUME Init PROVE TypeOK
<1>1. streaming \in BOOLEAN /\ takeScreenshots \in BOOLEAN
  BY Zenon DEF Init
<1>2. ctxDone \in BOOLEAN /\ sendClosed \in BOOLEAN
  BY DEF Init
<1>3. stage \in [Items -> Stages] /\ verdict \in [Items -> Verdicts]
  BY DEF Init, Stages, Verdicts
<1>4. /\ dnsLeft \in [Servers -> 0..DNSWorkers]
      /\ shotsLeft \in [Servers -> 0..ScreenshotWorkers]
      /\ faultsLeft \in 0..FaultBudget
  BY DEF Init
<1>5. /\ screenshotClosed \in [Servers -> BOOLEAN]
      /\ resultClosed \in [Servers -> BOOLEAN]
      /\ returned \in [Servers -> BOOLEAN]
      /\ main \in Mains
  BY DEF Init, Mains
<1>. QED  BY <1>1, <1>2, <1>3, <1>4, <1>5 DEF TypeOK

(* Moving one item, or all at one place, keeps stage well typed.           *)
LEMMA MoveType ==
  ASSUME stage \in [Items -> Stages], NEW i \in Items, NEW place \in Stages,
         Move(i, place)
  PROVE  stage' \in [Items -> Stages]
  BY DEF Move

LEMMA MoveAllType ==
  ASSUME stage \in [Items -> Stages], NEW from, NEW place \in Stages,
         MoveAll(from, place)
  PROVE  stage' \in [Items -> Stages]
  BY DEF MoveAll

LEMMA RunStepType ==
  ASSUME TypeOK, NEW s \in Servers, RunStep(s)
  PROVE  TypeOK'
<1>1. CASE DNSWorkerReturns(s)
  <2>1. dnsLeft[s] - 1 \in 0..DNSWorkers
    <3>1. IsFiniteSet(UrlsAt(s, {"checking", "checked"}))
      BY FS_Subset DEF UrlsAt
    <3>2. Cardinality(UrlsAt(s, {"checking", "checked"})) \in Nat
      BY <3>1, FS_CardinalityType
    <3>. QED  BY <1>1, <3>2 DEF DNSWorkerReturns, FreeDNSWorker, TypeOK
  <2>. QED  BY <1>1, <2>1 DEF DNSWorkerReturns, TypeOK
<1>2. CASE ScreenshotWorkerReturns(s)
  <2>1. shotsLeft[s] - 1 \in 0..ScreenshotWorkers
    <3>1. IsFiniteSet(UrlsAt(s, {"captured"}))
      BY FS_Subset DEF UrlsAt
    <3>2. Cardinality(UrlsAt(s, {"captured"})) \in Nat
      BY <3>1, FS_CardinalityType
    <3>. QED
      BY <1>2, <3>2 DEF ScreenshotWorkerReturns, FreeScreenshotWorker, TypeOK
  <2>. QED  BY <1>2, <2>1 DEF ScreenshotWorkerReturns, TypeOK
<1>3. CASE CloseScreenshotCh(s)
  BY <1>3 DEF CloseScreenshotCh, TypeOK
<1>4. CASE CloseResultCh(s)
  BY <1>4 DEF CloseResultCh, TypeOK
<1>5. CASE RunReturns(s)
  BY <1>5 DEF RunReturns, TypeOK
<1>6. ASSUME NEW u \in Urls,
             \/ TakeURL(s, u) \/ CheckDNS(s, u) \/ SendScreenshotCh(s, u)
             \/ SendResultCh(s, u) \/ TakeScreenshot(s, u) \/ Collect(s, u)
             \/ OnResult(s, u)
      PROVE  TypeOK'
  <2>1. PICK place \in Stages : Move(<<s, u>>, place)
    BY <1>6 DEF TakeURL, CheckDNS, SendScreenshotCh, SendResultCh,
                TakeScreenshot, Collect, OnResult, Stages
  <2>2. stage' \in [Items -> Stages]
    BY <2>1, MoveType DEF TypeOK, Items
  <2>3. verdict' \in [Items -> Verdicts]
    BY <1>6 DEF TakeURL, CheckDNS, SendScreenshotCh, SendResultCh,
                TakeScreenshot, Collect, OnResult, TypeOK, Verdicts
  <2>4. UNCHANGED <<takeScreenshots, ctxDone, runs, sendClosed, streaming,
                    main, faultsLeft>>
    BY <1>6 DEF TakeURL, CheckDNS, SendScreenshotCh, SendResultCh,
                TakeScreenshot, Collect, OnResult
  <2>. QED  BY <2>2, <2>3, <2>4 DEF TypeOK, runs
<1>. QED  BY <1>1, <1>2, <1>3, <1>4, <1>5, <1>6 DEF RunStep

LEMMA StepType == ASSUME TypeOK, [Next]_vars PROVE TypeOK'
<1>1. CASE \E s \in Servers : RunStep(s)
  BY <1>1, RunStepType
<1>2. CASE \E i \in Items : Gather(i)
  <2>1. stage' \in [Items -> Stages]
    BY <1>2, MoveType DEF Gather, TypeOK, Stages
  <2>. QED  BY <1>2, <2>1 DEF Gather, TypeOK, runs
<1>3. CASE Flush
  <2>1. stage' \in [Items -> Stages]
    BY <1>3, MoveAllType DEF Flush, Submit, TypeOK, Stages
  <2>. QED  BY <1>3, <2>1 DEF Flush, TypeOK, runs
<1>4. CASE SubmitArrives
  <2>1. stage' \in [Items -> Stages]
    BY <1>4, MoveAllType DEF SubmitArrives, TypeOK, Stages
  <2>. QED  BY <1>4, <2>1 DEF SubmitArrives, TypeOK, runs
<1>5. CASE SubmitFails
  <2>1. stage' \in [Items -> Stages]
    BY <1>5, MoveAllType DEF SubmitFails, TypeOK, Stages
  <2>. QED  BY <1>5, <2>1 DEF SubmitFails, TypeOK, runs
<1>6. CASE StreamerReturns
  BY <1>6 DEF StreamerReturns, TypeOK, runs
<1>7. CASE CloseSendCh
  BY <1>7 DEF CloseSendCh, TypeOK, runs, Mains
<1>8. CASE Drained
  BY <1>8 DEF Drained, TypeOK, runs, Mains
<1>9. CASE SendReport
  <2>1. stage' \in [Items -> Stages]
    BY <1>9, MoveAllType DEF SendReport, Submit, TypeOK, Stages
  <2>. QED  BY <1>9, <2>1 DEF SendReport, TypeOK, runs, Mains
<1>10. CASE ReportSent
  BY <1>10 DEF ReportSent, TypeOK, runs, Mains
<1>11. CASE Cancel
  BY <1>11 DEF Cancel, TypeOK, runs
<1>12. CASE UNCHANGED vars
  BY <1>12 DEF vars, TypeOK, runs
<1>. QED  BY <1>1, <1>2, <1>3, <1>4, <1>5, <1>6, <1>7, <1>8, <1>9, <1>10,
             <1>11, <1>12 DEF Next, Step, StreamStep, MainStep

(* Every variable keeps its type.                                          *)
THEOREM TypeCorrect == Spec => []TypeOK
<1>1. Init => TypeOK  BY InitType
<1>2. TypeOK /\ [Next]_vars => TypeOK'  BY StepType
<1>. QED  BY <1>1, <1>2, PTL DEF Spec

----------------------------------------------------------------------------
(* Workers hold at most one item each.                                     *)

(* Where the items of server s are after one item has moved.               *)
LEMMA MoveUrls ==
  ASSUME TypeOK, NEW s \in Servers, NEW u \in Urls, NEW place,
         Move(<<s, u>>, place), NEW t \in Servers, NEW places
  PROVE  /\ s # t => UrlsAt(t, places)' = UrlsAt(t, places)
         /\ place \in places =>
              UrlsAt(s, places)' = UrlsAt(s, places) \cup {u}
         /\ place \notin places =>
              UrlsAt(s, places)' = UrlsAt(s, places) \ {u}
<1>. DEFINE i == <<s, u>>
<1>1. i \in Items /\ \A v \in Urls : <<t, v>> \in Items /\ <<s, v>> \in Items
  BY DEF Items
<1>2. \A j \in Items : stage'[j] = IF j = i THEN place ELSE stage[j]
  BY <1>1 DEF Move, TypeOK
<1>3. ASSUME s # t PROVE UrlsAt(t, places)' = UrlsAt(t, places)
  BY <1>1, <1>2, <1>3 DEF UrlsAt
<1>4. ASSUME place \in places
      PROVE  UrlsAt(s, places)' = UrlsAt(s, places) \cup {u}
  BY <1>1, <1>2, <1>4 DEF UrlsAt
<1>5. ASSUME place \notin places
      PROVE  UrlsAt(s, places)' = UrlsAt(s, places) \ {u}
  BY <1>1, <1>2, <1>5 DEF UrlsAt
<1>. QED  BY <1>3, <1>4, <1>5

LEMMA FiniteUrls ==
  ASSUME NEW s \in Servers, NEW places
  PROVE  IsFiniteSet(UrlsAt(s, places)) /\ Cardinality(UrlsAt(s, places)) \in Nat
<1>1. IsFiniteSet(UrlsAt(s, places))
  BY FS_Subset DEF UrlsAt
<1>. QED  BY <1>1, FS_CardinalityType

(* A pool stays within its workers when an item enters it only through a   *)
(* free worker.                                                            *)
LEMMA PoolMove ==
  ASSUME TypeOK, NEW s \in Servers, NEW u \in Urls, NEW place,
         Move(<<s, u>>, place), NEW places, NEW left \in [Servers -> Nat],
         \A t \in Servers : Cardinality(UrlsAt(t, places)) <= left[t],
         place \in places =>
           \/ stage[<<s, u>>] \in places
           \/ Cardinality(UrlsAt(s, places)) < left[s],
         NEW t \in Servers
  PROVE  Cardinality(UrlsAt(t, places)') <= left[t]
<1>1. CASE s # t
  BY <1>1, MoveUrls
<1>2. CASE s = t /\ place \notin places
  <2>1. UrlsAt(s, places)' = UrlsAt(s, places) \ {u}
    BY <1>2, MoveUrls
  <2>2. /\ Cardinality(UrlsAt(s, places) \ {u}) <= Cardinality(UrlsAt(s, places))
        /\ Cardinality(UrlsAt(s, places) \ {u}) \in Nat
    BY FiniteUrls, FS_Subset, FS_CardinalityType, UrlsAt(s, places) \ {u} \subseteq UrlsAt(s, places)
  <2>. QED  BY <1>2, <2>1, <2>2, FiniteUrls
<1>3. CASE s = t /\ place \in places /\ stage[<<s, u>>] \in places
  <2>1. UrlsAt(s, places)' = UrlsAt(s, places) \cup {u}
    BY <1>3, MoveUrls
  <2>2. u \in UrlsAt(s, places)
    BY <1>3 DEF UrlsAt
  <2>3. UrlsAt(s, places)' = UrlsAt(s, places)
    BY <2>1, <2>2
  <2>. QED  BY <1>3, <2>3
<1>4. CASE /\ s = t /\ place \in places
           /\ Cardinality(UrlsAt(s, places)) < left[s]
  <2>1. UrlsAt(s, places)' = UrlsAt(s, places) \cup {u}
    BY <1>4, MoveUrls
  <2>2. IsFiniteSet(UrlsAt(s, places)) /\ Cardinality(UrlsAt(s, places)) \in Nat
    BY FiniteUrls
  <2>3. Cardinality(UrlsAt(s, places) \cup {u}) =
          IF u \in UrlsAt(s, places) THEN Cardinality(UrlsAt(s, places))
          ELSE Cardinality(UrlsAt(s, places)) + 1
    BY <2>2, FS_AddElement
  <2>. QED  BY <1>4, <2>1, <2>2, <2>3
<1>. QED  BY <1>1, <1>2, <1>3, <1>4

(* The items of the sweep that move as one are in no worker's hands.       *)
LEMMA MoveAllUrls ==
  ASSUME TypeOK, NEW from, NEW place, MoveAll(from, place),
         NEW s \in Servers, NEW places, from \notin places, place \notin places
  PROVE  UrlsAt(s, places)' = UrlsAt(s, places)
<1>1. \A v \in Urls : <<s, v>> \in Items
  BY DEF Items
<1>. QED  BY <1>1 DEF UrlsAt, MoveAll

LEMMA InitPools == ASSUME Init PROVE Pools
<1>. SUFFICES ASSUME NEW s \in Servers
              PROVE  /\ Cardinality(UrlsAt(s, {"checking", "checked"})) <= dnsLeft[s]
                     /\ Cardinality(UrlsAt(s, {"captured"})) <= shotsLeft[s]
  BY DEF Pools
<1>1. UrlsAt(s, {"checking", "checked"}) = {} /\ UrlsAt(s, {"captured"}) = {}
  BY DEF Init, UrlsAt, Items
<1>. QED  BY <1>1, FS_EmptySet DEF Init

LEMMA StepPools ==
  ASSUME TypeOK, Pools, [Next]_vars PROVE Pools'
<1>. DEFINE DNSHands == {"checking", "checked"}
            ShotHands == {"captured"}
<1>0. dnsLeft \in [Servers -> Nat] /\ shotsLeft \in [Servers -> Nat]
  BY DEF TypeOK
<1>1. ASSUME NEW s \in Servers, NEW u \in Urls,
             \/ TakeURL(s, u) \/ CheckDNS(s, u) \/ SendScreenshotCh(s, u)
             \/ SendResultCh(s, u) \/ TakeScreenshot(s, u) \/ Collect(s, u)
             \/ OnResult(s, u)
      PROVE  Pools'
  <2>1. PICK place : /\ Move(<<s, u>>, place)
                     /\ place \in DNSHands =>
                          \/ stage[<<s, u>>] \in DNSHands
                          \/ FreeDNSWorker(s)
                     /\ place \in ShotHands => FreeScreenshotWorker(s)
    BY <1>1 DEF TakeURL, CheckDNS, SendScreenshotCh, SendResultCh,
                TakeScreenshot, Collect, OnResult
  <2>2. UNCHANGED <<dnsLeft, shotsLeft>>
    BY <1>1 DEF TakeURL, CheckDNS, SendScreenshotCh, SendResultCh,
                TakeScreenshot, Collect, OnResult, runs
  <2>3. ASSUME NEW t \in Servers
        PROVE  Cardinality(UrlsAt(t, DNSHands)') <= dnsLeft[t]
    BY <1>0, <2>1, PoolMove DEF Pools, FreeDNSWorker
  <2>4. ASSUME NEW t \in Servers
        PROVE  Cardinality(UrlsAt(t, ShotHands)') <= shotsLeft[t]
    BY <1>0, <2>1, PoolMove DEF Pools, FreeScreenshotWorker
  <2>. QED  BY <2>2, <2>3, <2>4 DEF Pools
<1>2. ASSUME NEW s \in Servers, DNSWorkerReturns(s) PROVE Pools'
  <2>1. \A t \in Servers : /\ UrlsAt(t, DNSHands)' = UrlsAt(t, DNSHands)
                           /\ UrlsAt(t, ShotHands)' = UrlsAt(t, ShotHands)
    BY <1>2 DEF DNSWorkerReturns, UrlsAt
  <2>2. Cardinality(UrlsAt(s, DNSHands)) <= dnsLeft[s] - 1
    BY <1>0, <1>2, FiniteUrls DEF DNSWorkerReturns, FreeDNSWorker
  <2>. QED  BY <1>0, <1>2, <2>1, <2>2 DEF DNSWorkerReturns, Pools
<1>3. ASSUME NEW s \in Servers, ScreenshotWorkerReturns(s) PROVE Pools'
  <2>1. \A t \in Servers : /\ UrlsAt(t, DNSHands)' = UrlsAt(t, DNSHands)
                           /\ UrlsAt(t, ShotHands)' = UrlsAt(t, ShotHands)
    BY <1>3 DEF ScreenshotWorkerReturns, UrlsAt
  <2>2. Cardinality(UrlsAt(s, ShotHands)) <= shotsLeft[s] - 1
    BY <1>0, <1>3, FiniteUrls DEF ScreenshotWorkerReturns, FreeScreenshotWorker
  <2>. QED  BY <1>0, <1>3, <2>1, <2>2 DEF ScreenshotWorkerReturns, Pools
<1>4. ASSUME NEW i \in Items, Gather(i) PROVE Pools'
  <2>1. PICK s \in Servers, u \in Urls : i = <<s, u>>
    BY DEF Items
  <2>2. Move(<<s, u>>, "batch") /\ UNCHANGED <<dnsLeft, shotsLeft>>
    BY <1>4, <2>1 DEF Gather, runs
  <2>3. ASSUME NEW t \in Servers
        PROVE  Cardinality(UrlsAt(t, DNSHands)') <= dnsLeft[t]
    BY <1>0, <2>2, PoolMove DEF Pools
  <2>4. ASSUME NEW t \in Servers
        PROVE  Cardinality(UrlsAt(t, ShotHands)') <= shotsLeft[t]
    BY <1>0, <2>2, PoolMove DEF Pools
  <2>. QED  BY <2>2, <2>3, <2>4 DEF Pools
<1>5. CASE Flush \/ SubmitArrives \/ SubmitFails \/ SendReport
  <2>1. PICK from \in {"batch", "sending", "collected"},
             place \in {"sending", "sent", "lost"} : MoveAll(from, place)
    BY <1>5 DEF Flush, SubmitArrives, SubmitFails, SendReport, Submit
  <2>2. UNCHANGED <<dnsLeft, shotsLeft>>
    BY <1>5 DEF Flush, SubmitArrives, SubmitFails, SendReport, runs
  <2>3. \A s \in Servers : /\ UrlsAt(s, DNSHands)' = UrlsAt(s, DNSHands)
                           /\ UrlsAt(s, ShotHands)' = UrlsAt(s, ShotHands)
    BY <2>1, MoveAllUrls
  <2>. QED  BY <2>2, <2>3 DEF Pools
<1>6. ASSUME UNCHANGED <<stage, dnsLeft, shotsLeft>> PROVE Pools'
  BY <1>6 DEF Pools, UrlsAt
<1>7. CASE \E s \in Servers :
             CloseScreenshotCh(s) \/ CloseResultCh(s) \/ RunReturns(s)
  BY <1>6, <1>7 DEF CloseScreenshotCh, CloseResultCh, RunReturns
<1>8. CASE \/ StreamerReturns \/ CloseSendCh \/ Drained \/ ReportSent
           \/ Cancel \/ UNCHANGED vars
  BY <1>6, <1>8 DEF StreamerReturns, CloseSendCh, Drained, ReportSent, Cancel,
                    vars, runs
<1>. QED  BY <1>1, <1>2, <1>3, <1>4, <1>5, <1>7, <1>8
             DEF Next, Step, RunStep, StreamStep, MainStep

----------------------------------------------------------------------------
(* A Run winds down in order.                                              *)

LEMMA HandsEmpty ==
  ASSUME NEW s \in Servers, NEW places, Cardinality(UrlsAt(s, places)) <= 0
  PROVE  ~Held(s, places)
<1>1. IsFiniteSet(UrlsAt(s, places)) /\ Cardinality(UrlsAt(s, places)) = 0
  BY FiniteUrls
<1>2. UrlsAt(s, places) = {}
  BY <1>1, FS_EmptySet
<1>. QED  BY <1>2 DEF UrlsAt, Held

(* What is left behind each thing that has been closed: nothing.           *)
LEMMA Drainage ==
  ASSUME TypeOK, Pools, Order, NEW s \in Servers
  PROVE  /\ screenshotClosed[s] => ~Held(s, {"urlCh", "checking", "checked"})
         /\ resultClosed[s] =>
              screenshotClosed[s] /\ ~Held(s, {"screenshotCh", "captured"})
         /\ returned[s] => ~Held(s, {"resultCh", "onResult"})
<1>1. ASSUME screenshotClosed[s]
      PROVE  ~Held(s, {"urlCh", "checking", "checked"})
  <2>1. dnsLeft[s] = 0 /\ ~Held(s, {"urlCh"})
    BY <1>1 DEF Order
  <2>2. ~Held(s, {"checking", "checked"})
    BY <2>1, HandsEmpty DEF Pools
  <2>. QED  BY <2>1, <2>2 DEF Held
<1>2. ASSUME resultClosed[s]
      PROVE  screenshotClosed[s] /\ ~Held(s, {"screenshotCh", "captured"})
  <2>1. shotsLeft[s] = 0 /\ screenshotClosed[s] /\ ~Held(s, {"screenshotCh"})
    BY <1>2 DEF Order
  <2>2. ~Held(s, {"captured"})
    BY <2>1, HandsEmpty DEF Pools
  <2>. QED  BY <2>1, <2>2 DEF Held
<1>. QED  BY <1>1, <1>2 DEF Order

(* A Run that has returned has no item left anywhere in it.                *)
LEMMA ReturnedEmpty ==
  ASSUME TypeOK, Pools, Order, NEW s \in Servers, returned[s]
  PROVE  ~Held(s, {"urlCh", "checking", "checked", "screenshotCh", "captured",
                   "resultCh", "onResult"})
<1>1. resultClosed[s]
  BY DEF Order
<1>. QED  BY <1>1, Drainage DEF Held

LEMMA InitOrder == ASSUME Init PROVE Order
  BY DEF Init, Order

(* An item that moves keeps the order if it does not enter a channel       *)
(* behind its closing.                                                     *)
LEMMA OrderMove ==
  ASSUME TypeOK, Order, NEW s \in Servers, NEW u \in Urls, NEW place,
         Move(<<s, u>>, place), UNCHANGED runs, place # "urlCh",
         place = "screenshotCh" => ~screenshotClosed[s],
         place \in {"resultCh", "onResult"} => ~returned[s]
  PROVE  Order'
<1>1. \A t \in Servers : \A v \in Urls :
        stage'[<<t, v>>] = IF t = s /\ v = u THEN place ELSE stage[<<t, v>>]
  BY DEF Move, TypeOK, Items
<1>2. UNCHANGED <<dnsLeft, shotsLeft, screenshotClosed, resultClosed, returned>>
  BY DEF runs
<1>3. ASSUME NEW t \in Servers
      PROVE  /\ ~Held(t, {"urlCh"}) => ~Held(t, {"urlCh"})'
             /\ ~Held(t, {"screenshotCh"}) =>
                  ~Held(t, {"screenshotCh"})' \/ (s = t /\ ~screenshotClosed[t])
             /\ ~Held(t, {"resultCh", "onResult"}) =>
                  \/ ~Held(t, {"resultCh", "onResult"})'
                  \/ s = t /\ ~returned[t]
  BY <1>1 DEF Held
<1>. QED  BY <1>2, <1>3 DEF Order

LEMMA OrderMoveAll ==
  ASSUME TypeOK, Order, NEW from,
         NEW place \in {"sending", "sent", "lost"},
         MoveAll(from, place), UNCHANGED runs
  PROVE  Order'
<1>1. \A t \in Servers : \A v \in Urls :
        stage'[<<t, v>>] = IF stage[<<t, v>>] = from THEN place ELSE stage[<<t, v>>]
  BY DEF MoveAll, Items
<1>2. UNCHANGED <<dnsLeft, shotsLeft, screenshotClosed, resultClosed, returned>>
  BY DEF runs
<1>3. ASSUME NEW t \in Servers
      PROVE  /\ ~Held(t, {"urlCh"}) => ~Held(t, {"urlCh"})'
             /\ ~Held(t, {"screenshotCh"}) => ~Held(t, {"screenshotCh"})'
             /\ ~Held(t, {"resultCh", "onResult"}) =>
                  ~Held(t, {"resultCh", "onResult"})'
  BY <1>1 DEF Held
<1>. QED  BY <1>2, <1>3 DEF Order

LEMMA StepOrder ==
  ASSUME TypeOK, Pools, Order, [Next]_vars PROVE Order'
<1>0. ASSUME UNCHANGED stage, NEW t \in Servers
      PROVE  /\ Held(t, {"urlCh"})' <=> Held(t, {"urlCh"})
             /\ Held(t, {"screenshotCh"})' <=> Held(t, {"screenshotCh"})
             /\ Held(t, {"resultCh", "onResult"})' <=>
                  Held(t, {"resultCh", "onResult"})
  BY <1>0 DEF Held
<1>1. ASSUME NEW s \in Servers, RunStep(s) PROVE Order'
  <2>1. ASSUME NEW u \in Urls,
               \/ TakeURL(s, u) \/ CheckDNS(s, u) \/ SendScreenshotCh(s, u)
               \/ SendResultCh(s, u) \/ TakeScreenshot(s, u)
               \/ Collect(s, u) \/ OnResult(s, u)
        PROVE  Order'
    <3>1. UNCHANGED runs
      BY <2>1 DEF TakeURL, CheckDNS, SendScreenshotCh, SendResultCh,
                  TakeScreenshot, Collect, OnResult
    <3>2. CASE TakeURL(s, u) \/ CheckDNS(s, u) \/ TakeScreenshot(s, u)
      BY <3>1, <3>2, OrderMove DEF TakeURL, CheckDNS, TakeScreenshot
    <3>3. CASE SendScreenshotCh(s, u)
      <4>1. ~screenshotClosed[s]
        BY <3>3, Drainage DEF SendScreenshotCh, Held
      <4>. QED  BY <3>1, <3>3, <4>1, OrderMove DEF SendScreenshotCh
    <3>4. CASE SendResultCh(s, u)
      <4>1. ~returned[s]
        BY <3>4, ReturnedEmpty DEF SendResultCh, Held
      <4>. QED  BY <3>1, <3>4, <4>1, OrderMove DEF SendResultCh
    <3>5. CASE Collect(s, u)
      <4>1. ~returned[s]
        BY <3>5, ReturnedEmpty DEF Collect, Held
      <4>. QED  BY <3>1, <3>5, <4>1, OrderMove DEF Collect
    <3>6. CASE OnResult(s, u)
      BY <3>1, <3>6, OrderMove DEF OnResult
    <3>. QED  BY <2>1, <3>2, <3>3, <3>4, <3>5, <3>6
  <2>2. CASE DNSWorkerReturns(s)
    <3>0. ~Held(s, {"urlCh"})
      BY <2>2 DEF DNSWorkerReturns, UrlsAt, Held
    <3>1. dnsLeft[s] # 0
      BY <2>2, FiniteUrls DEF DNSWorkerReturns, FreeDNSWorker, TypeOK
    <3>2. ~screenshotClosed[s]
      BY <3>1 DEF Order
    <3>. QED  BY <1>0, <2>2, <3>0, <3>2 DEF DNSWorkerReturns, Order, TypeOK
  <2>3. CASE CloseScreenshotCh(s)
    BY <1>0, <2>3 DEF CloseScreenshotCh, Order, TypeOK
  <2>4. CASE ScreenshotWorkerReturns(s)
    <3>0. ~Held(s, {"screenshotCh"})
      BY <2>4 DEF ScreenshotWorkerReturns, UrlsAt, Held
    <3>1. shotsLeft[s] # 0
      BY <2>4, FiniteUrls
         DEF ScreenshotWorkerReturns, FreeScreenshotWorker, TypeOK
    <3>2. ~resultClosed[s]
      BY <3>1 DEF Order
    <3>. QED  BY <1>0, <2>4, <3>0, <3>2 DEF ScreenshotWorkerReturns, Order, TypeOK
  <2>5. CASE CloseResultCh(s)
    BY <1>0, <2>5 DEF CloseResultCh, Order, TypeOK
  <2>6. CASE RunReturns(s)
    <3>1. ~Held(s, {"resultCh", "onResult"})
      BY <2>6 DEF RunReturns, UrlsAt, Held
    <3>. QED  BY <1>0, <2>6, <3>1 DEF RunReturns, Order, TypeOK
  <2>. QED  BY <1>1, <2>1, <2>2, <2>3, <2>4, <2>5, <2>6 DEF RunStep
<1>2. ASSUME NEW i \in Items, Gather(i) PROVE Order'
  <2>1. PICK s \in Servers, u \in Urls : i = <<s, u>>
    BY DEF Items
  <2>. QED  BY <1>2, <2>1, OrderMove DEF Gather
<1>3. CASE Flush \/ SubmitArrives \/ SubmitFails \/ SendReport
  <2>1. PICK from \in {"batch", "sending", "collected"},
             place \in {"sending", "sent", "lost"} : MoveAll(from, place)
    BY <1>3 DEF Flush, SubmitArrives, SubmitFails, SendReport, Submit
  <2>2. UNCHANGED runs
    BY <1>3 DEF Flush, SubmitArrives, SubmitFails, SendReport
  <2>. QED  BY <2>1, <2>2, OrderMoveAll
<1>4. CASE \/ StreamerReturns \/ CloseSendCh \/ Drained \/ ReportSent
           \/ Cancel \/ UNCHANGED vars
  <2>1. UNCHANGED <<stage, dnsLeft, shotsLeft, screenshotClosed, resultClosed,
                    returned>>
    BY <1>4 DEF StreamerReturns, CloseSendCh, Drained, ReportSent, Cancel,
                vars, runs
  <2>. QED  BY <1>0, <2>1 DEF Order
<1>. QED  BY <1>1, <1>2, <1>3, <1>4 DEF Next, Step, StreamStep, MainStep

----------------------------------------------------------------------------
(* Results leave one way or the other, and never after runSweep.           *)

LEMMA InitLeaving == ASSUME Init PROVE Leaving
<1>1. takeScreenshots \/ streaming
  BY Zenon DEF Init
<1>2. streaming => ~takeScreenshots
  BY Zenon DEF Init
<1>. QED  BY <1>1, <1>2 DEF Init, Leaving

(* An item in the hands of a Run finds runSweep waiting for that Run, and  *)
(* sendCh open if there is one.                                            *)
LEMMA InRun ==
  ASSUME TypeOK, Pools, Order, Leaving, NEW s \in Servers,
         Held(s, {"urlCh", "checking", "checked", "screenshotCh", "captured",
                  "resultCh", "onResult"})
  PROVE  ~returned[s] /\ main = "sweeping" /\ ~sendClosed
<1>1. ~returned[s]
  BY ReturnedEmpty
<1>2. main = "sweeping"
  BY <1>1 DEF Leaving
<1>. QED  BY <1>1, <1>2 DEF Leaving

LEMMA LeavingMove ==
  ASSUME TypeOK, Leaving, NEW i \in Items, NEW place, Move(i, place),
         UNCHANGED <<takeScreenshots, returned, sendClosed, streaming, main>>,
         place \in {"sendCh", "batch"} => streaming,
         place = "collected" => takeScreenshots /\ main = "sweeping",
         place # "sending"
  PROVE  Leaving'
<1>1. \A j \in Items : stage'[j] = IF j = i THEN place ELSE stage[j]
  BY DEF Move, TypeOK
<1>2. \A j \in Items :
        /\ stage'[j] \in {"sendCh", "batch"} => streaming
        /\ stage'[j] = "collected" =>
             takeScreenshots /\ main \in {"sweeping", "draining", "capturing"}
        /\ stage'[j] = "sending" => streaming \/ main = "reporting"
  BY <1>1 DEF Leaving
<1>. QED  BY <1>2 DEF Leaving

LEMMA StepLeaving ==
  ASSUME TypeOK, Pools, Order, Leaving, [Next]_vars PROVE Leaving'
<1>1. ASSUME NEW s \in Servers, RunStep(s) PROVE Leaving'
  <2>1. ASSUME NEW u \in Urls,
               \/ TakeURL(s, u) \/ CheckDNS(s, u) \/ SendScreenshotCh(s, u)
               \/ SendResultCh(s, u) \/ TakeScreenshot(s, u)
               \/ Collect(s, u)
        PROVE  Leaving'
    <3>1. UNCHANGED <<takeScreenshots, returned, sendClosed, streaming, main>>
      BY <2>1 DEF TakeURL, CheckDNS, SendScreenshotCh, SendResultCh,
                  TakeScreenshot, Collect, runs
    <3>2. PICK place \in {"checking", "checked", "screenshotCh", "captured",
                          "resultCh", "onResult"} : Move(<<s, u>>, place)
      BY <2>1 DEF TakeURL, CheckDNS, SendScreenshotCh, SendResultCh,
                  TakeScreenshot, Collect
    <3>3. <<s, u>> \in Items
      BY DEF Items
    <3>. QED  BY <3>1, <3>2, <3>3, LeavingMove
  <2>2. ASSUME NEW u \in Urls, OnResult(s, u) PROVE Leaving'
    <3>1. main = "sweeping" /\ ~sendClosed
      BY <2>2, InRun DEF OnResult, Held
    <3>2. takeScreenshots \/ streaming
      BY <3>1 DEF Leaving
    <3>3. UNCHANGED <<takeScreenshots, returned, sendClosed, streaming, main>>
      BY <2>2 DEF OnResult, runs
    <3>4. \/ takeScreenshots /\ Move(<<s, u>>, "collected")
          \/ ~takeScreenshots /\ Move(<<s, u>>, "sendCh")
      BY <2>2 DEF OnResult
    <3>5. <<s, u>> \in Items
      BY DEF Items
    <3>6. CASE takeScreenshots /\ Move(<<s, u>>, "collected")
      BY <3>1, <3>3, <3>5, <3>6, LeavingMove
    <3>7. CASE ~takeScreenshots /\ Move(<<s, u>>, "sendCh")
      BY <3>2, <3>3, <3>5, <3>7, LeavingMove
    <3>. QED  BY <3>4, <3>6, <3>7
  <2>3. CASE RunReturns(s)
    <3>1. \A t \in Servers : returned[t] => returned'[t]
      BY <2>3 DEF RunReturns, TypeOK
    <3>2. UNCHANGED <<takeScreenshots, stage, sendClosed, streaming, main>>
      BY <2>3 DEF RunReturns
    <3>. QED  BY <3>1, <3>2 DEF Leaving
  <2>4. CASE \/ DNSWorkerReturns(s) \/ CloseScreenshotCh(s)
             \/ ScreenshotWorkerReturns(s) \/ CloseResultCh(s)
    <3>1. UNCHANGED <<takeScreenshots, stage, returned, sendClosed, streaming,
                      main>>
      BY <2>4 DEF DNSWorkerReturns, CloseScreenshotCh, ScreenshotWorkerReturns,
                  CloseResultCh
    <3>. QED  BY <3>1 DEF Leaving
  <2>. QED  BY <1>1, <2>1, <2>2, <2>3, <2>4 DEF RunStep
<1>2. ASSUME NEW i \in Items, Gather(i) PROVE Leaving'
  <2>1. streaming /\ Move(i, "batch")
    BY <1>2 DEF Gather, Leaving
  <2>2. UNCHANGED <<takeScreenshots, returned, sendClosed, streaming, main>>
    BY <1>2 DEF Gather, runs
  <2>. QED  BY <2>1, <2>2, LeavingMove
<1>3. CASE Flush
  <2>1. \A i \in Items : stage'[i] = IF stage[i] = "batch"
                                     THEN IF ctxDone THEN "lost" ELSE "sending"
                                     ELSE stage[i]
    BY <1>3 DEF Flush, Submit, MoveAll
  <2>2. UNCHANGED <<takeScreenshots, returned, sendClosed, streaming, main>>
    BY <1>3 DEF Flush, runs
  <2>. QED  BY <2>1, <2>2 DEF Leaving
<1>4. CASE SubmitArrives \/ SubmitFails
  <2>1. PICK place \in {"sent", "lost"} : MoveAll("sending", place)
    BY <1>4 DEF SubmitArrives, SubmitFails
  <2>2. \A i \in Items :
          stage'[i] = IF stage[i] = "sending" THEN place ELSE stage[i]
    BY <2>1 DEF MoveAll
  <2>3. UNCHANGED <<takeScreenshots, returned, sendClosed, streaming, main>>
    BY <1>4 DEF SubmitArrives, SubmitFails, runs
  <2>. QED  BY <2>2, <2>3 DEF Leaving
<1>5. CASE StreamerReturns
  <2>1. \A i \in Items : stage[i] \notin {"sendCh", "batch", "sending"}
    BY <1>5 DEF StreamerReturns, At
  <2>2. sendClosed /\ streaming' = FALSE
    BY <1>5 DEF StreamerReturns
  <2>3. UNCHANGED <<takeScreenshots, stage, returned, sendClosed, main>>
    BY <1>5 DEF StreamerReturns, runs
  <2>. QED  BY <2>1, <2>2, <2>3 DEF Leaving
<1>6. CASE CloseSendCh
  <2>1. \A s \in Servers : returned[s]
    BY <1>6 DEF CloseSendCh
  <2>2. main = "sweeping" /\ main' = "draining"
    BY <1>6 DEF CloseSendCh
  <2>3. sendClosed' <=> ~takeScreenshots
    BY <1>6, Zenon DEF CloseSendCh
  <2>4. UNCHANGED <<takeScreenshots, stage, returned, streaming>>
    BY <1>6 DEF CloseSendCh, runs
  <2>. QED  BY <2>1, <2>2, <2>3, <2>4 DEF Leaving
<1>7. CASE Drained
  <2>1. /\ main = "draining" /\ ~streaming
        /\ main' = IF takeScreenshots THEN "capturing" ELSE "over"
    BY <1>7 DEF Drained
  <2>2. UNCHANGED <<takeScreenshots, stage, returned, sendClosed, streaming>>
    BY <1>7 DEF Drained, runs
  <2>. QED  BY <2>1, <2>2 DEF Leaving
<1>8. CASE SendReport
  <2>1. \A i \in Items : stage'[i] = IF stage[i] = "collected"
                                     THEN IF ctxDone THEN "lost" ELSE "sending"
                                     ELSE stage[i]
    BY <1>8 DEF SendReport, Submit, MoveAll
  <2>2. main = "capturing" /\ main' = "reporting"
    BY <1>8 DEF SendReport
  <2>3. UNCHANGED <<takeScreenshots, returned, sendClosed, streaming>>
    BY <1>8 DEF SendReport, runs
  <2>. QED  BY <2>1, <2>2, <2>3 DEF Leaving
<1>9. CASE ReportSent
  <2>1. \A i \in Items : stage[i] # "sending"
    BY <1>9 DEF ReportSent, At
  <2>2. main = "reporting" /\ main' = "over"
    BY <1>9 DEF ReportSent
  <2>3. UNCHANGED <<takeScreenshots, stage, returned, sendClosed, streaming>>
    BY <1>9 DEF ReportSent, runs
  <2>. QED  BY <2>1, <2>2, <2>3 DEF Leaving
<1>10. CASE Cancel \/ UNCHANGED vars
  <2>1. UNCHANGED <<takeScreenshots, stage, returned, sendClosed, streaming, main>>
    BY <1>10 DEF Cancel, vars, runs
  <2>. QED  BY <2>1 DEF Leaving
<1>. QED  BY <1>1, <1>2, <1>3, <1>4, <1>5, <1>6, <1>7, <1>8, <1>9, <1>10
             DEF Next, Step, StreamStep, MainStep

----------------------------------------------------------------------------
(* A check cut short by the end of the context does not leave.             *)

LEMMA InitCutOff == ASSUME Init PROVE CutOff
  BY DEF Init, CutOff

LEMMA StepCutOff ==
  ASSUME TypeOK, CutOff, [Next]_vars PROVE CutOff'
<1>1. ASSUME NEW s \in Servers, NEW u \in Urls, CheckDNS(s, u) PROVE CutOff'
  <2>1. <<s, u>> \in Items
    BY DEF Items
  <2>2. PICK v \in {"resolved", IF ctxDone THEN "cut" ELSE "unresolved"} :
          verdict' = [verdict EXCEPT ![<<s, u>>] = v]
    BY <1>1 DEF CheckDNS
  <2>3. UNCHANGED ctxDone /\ stage' = [stage EXCEPT ![<<s, u>>] = "checked"]
    BY <1>1 DEF CheckDNS, Move
  <2>. QED  BY <2>1, <2>2, <2>3 DEF TypeOK, CutOff
<1>2. ASSUME NEW i \in Items, NEW place, place \notin {"sending", "sent"},
             Move(i, place), UNCHANGED <<verdict, ctxDone>>
      PROVE  CutOff'
  BY <1>2 DEF Move, TypeOK, CutOff
<1>3. ASSUME NEW s \in Servers, NEW u \in Urls,
             \/ TakeURL(s, u) \/ SendScreenshotCh(s, u) \/ SendResultCh(s, u)
             \/ TakeScreenshot(s, u) \/ Collect(s, u) \/ OnResult(s, u)
      PROVE  CutOff'
  <2>1. PICK place : place \notin {"sending", "sent"} /\ Move(<<s, u>>, place)
    BY <1>3 DEF TakeURL, SendScreenshotCh, SendResultCh, TakeScreenshot,
                Collect, OnResult
  <2>2. UNCHANGED <<verdict, ctxDone>>
    BY <1>3 DEF TakeURL, SendScreenshotCh, SendResultCh, TakeScreenshot,
                Collect, OnResult
  <2>. QED  BY <1>2, <2>1, <2>2 DEF Items
<1>4. ASSUME NEW i \in Items, Gather(i) PROVE CutOff'
  BY <1>2, <1>4 DEF Gather
<1>5. CASE Flush \/ SendReport
  <2>1. PICK from : MoveAll(from, IF ctxDone THEN "lost" ELSE "sending")
    BY <1>5 DEF Flush, SendReport, Submit
  <2>2. UNCHANGED <<verdict, ctxDone>>
    BY <1>5 DEF Flush, SendReport
  <2>. QED  BY <2>1, <2>2 DEF MoveAll, CutOff
<1>6. CASE SubmitArrives \/ SubmitFails
  <2>1. PICK place \in {"sent", "lost"} : MoveAll("sending", place)
    BY <1>6 DEF SubmitArrives, SubmitFails
  <2>2. UNCHANGED <<verdict, ctxDone>>
    BY <1>6 DEF SubmitArrives, SubmitFails
  <2>. QED  BY <2>1, <2>2 DEF MoveAll, CutOff
<1>7. CASE Cancel
  BY <1>7 DEF Cancel, CutOff
<1>8. CASE \/ StreamerReturns \/ CloseSendCh \/ Drained \/ ReportSent
           \/ UNCHANGED vars
           \/ \E s \in Servers :
                \/ DNSWorkerReturns(s) \/ CloseScreenshotCh(s)
                \/ ScreenshotWorkerReturns(s) \/ CloseResultCh(s)
                \/ RunReturns(s)
  <2>1. UNCHANGED <<stage, verdict, ctxDone>>
    BY <1>8 DEF StreamerReturns, CloseSendCh, Drained, ReportSent, vars,
                DNSWorkerReturns, CloseScreenshotCh, ScreenshotWorkerReturns,
                CloseResultCh, RunReturns
  <2>. QED  BY <2>1 DEF CutOff
<1>. QED  BY <1>1, <1>3, <1>4, <1>5, <1>6, <1>7, <1>8
             DEF Next, Step, RunStep, StreamStep, MainStep

----------------------------------------------------------------------------
(* The invariants together, and the safety properties they give.           *)

IInv == TypeOK /\ Pools /\ Order /\ Leaving /\ CutOff

LEMMA Invariance == Spec => []IInv
<1>1. Init => IInv
  BY InitType, InitPools, InitOrder, InitLeaving, InitCutOff DEF IInv
<1>2. IInv /\ [Next]_vars => IInv'
  BY StepType, StepPools, StepOrder, StepLeaving, StepCutOff DEF IInv
<1>. QED  BY <1>1, <1>2, PTL DEF Spec

(* No goroutine sends on a closed channel, whatever the sizes of the pools *)
(* and of the sweep.                                                       *)
THEOREM OpenChannels == Spec => []SendsOnOpenChannels
<1>1. ASSUME IInv PROVE SendsOnOpenChannels
  <2>. USE <1>1 DEF IInv
  <2>. SUFFICES ASSUME NEW s \in Servers
                PROVE  /\ UrlsAt(s, {"urlCh", "checking", "checked"}) # {} =>
                            ~screenshotClosed[s] /\ ~resultClosed[s]
                       /\ UrlsAt(s, {"screenshotCh", "captured"}) # {} =>
                            ~resultClosed[s]
                       /\ UrlsAt(s, {"onResult"}) # {} => ~sendClosed
    BY DEF SendsOnOpenChannels
  <2>1. ASSUME UrlsAt(s, {"urlCh", "checking", "checked"}) # {}
        PROVE  ~screenshotClosed[s] /\ ~resultClosed[s]
    <3>1. Held(s, {"urlCh", "checking", "checked"})
      BY <2>1 DEF UrlsAt, Held
    <3>. QED  BY <3>1, Drainage
  <2>2. ASSUME UrlsAt(s, {"screenshotCh", "captured"}) # {}
        PROVE  ~resultClosed[s]
    <3>1. Held(s, {"screenshotCh", "captured"})
      BY <2>2 DEF UrlsAt, Held
    <3>. QED  BY <3>1, Drainage
  <2>3. ASSUME UrlsAt(s, {"onResult"}) # {} PROVE ~sendClosed
    <3>1. Held(s, {"urlCh", "checking", "checked", "screenshotCh", "captured",
                   "resultCh", "onResult"})
      BY <2>3 DEF UrlsAt, Held
    <3>. QED  BY <3>1, InRun
  <2>. QED  BY <2>1, <2>2, <2>3
<1>2. IInv => SendsOnOpenChannels  BY <1>1
<1>. QED  BY <1>2, Invariance, PTL

(* No check cut short by a cancellation reaches the dashboard.             *)
THEOREM CutChecks == Spec => []CutChecksStayHome
<1>1. IInv => CutChecksStayHome
  BY DEF IInv, CutOff, CutChecksStayHome
<1>. QED  BY <1>1, Invariance, PTL

----------------------------------------------------------------------------
(* The sweep implements Outbox.                                            *)

Away == {"sending", "sent", "lost"}

(* Steps that neither bring an item to the streamer's call nor end the     *)
(* sweep are invisible.                                                    *)
LEMMA HomeMove ==
  ASSUME TypeOK, NEW i \in Items, NEW place, Move(i, place),
         stage[i] \notin Away, place \notin Away, UNCHANGED main
  PROVE  UNCHANGED Promise!vars
<1>1. \A j \in Items : stage'[j] = IF j = i THEN place ELSE stage[j]
  BY DEF Move, TypeOK
<1>2. At({"sending", "sent", "lost"})' = At({"sending", "sent", "lost"})
  BY <1>1 DEF At, Away
<1>3. At({"sending"})' = At({"sending"}) /\ At({"lost"})' = At({"lost"})
  BY <1>1 DEF At, Away
<1>. QED  BY <1>2, <1>3 DEF Promise!vars

LEMMA StillStage ==
  ASSUME UNCHANGED <<stage, main>> PROVE UNCHANGED Promise!vars
  BY DEF Promise!vars, At

(* The start of a Submit is a Send, or a Drop once the context is done.    *)
LEMMA SubmitStarts ==
  ASSUME TypeOK, NEW from \in {"batch", "collected"}, Submit(from),
         At({"sending"}) = {}, (main = "over")' <=> (main = "over")
  PROVE  [Promise!Next]_(Promise!vars)
<1>. DEFINE batch == At({from})
            unsent == Items \ At({"sending", "sent", "lost"})
<1>1. batch \in SUBSET unsent
  BY DEF At
<1>2. ASSUME ctxDone, batch # {} PROVE Promise!Drop
  <2>1. \A i \in Items : stage'[i] = IF stage[i] = from THEN "lost" ELSE stage[i]
    BY <1>2 DEF Submit, MoveAll
  <2>2. unsent' = unsent \ batch
    BY <2>1 DEF At
  <2>3. At({"sending"})' = {}
    BY <2>1 DEF At
  <2>4. At({"lost"})' = At({"lost"}) \cup batch
    BY <2>1 DEF At
  <2>. QED  BY <1>1, <1>2, <2>2, <2>3, <2>4 DEF Promise!Drop
<1>3. ASSUME ~ctxDone, batch # {} PROVE Promise!Send
  <2>1. \A i \in Items : stage'[i] = IF stage[i] = from THEN "sending" ELSE stage[i]
    BY <1>3 DEF Submit, MoveAll
  <2>2. unsent' = unsent \ batch
    BY <2>1 DEF At
  <2>3. At({"sending"})' = batch
    BY <2>1 DEF At
  <2>4. At({"lost"})' = At({"lost"})
    BY <2>1 DEF At
  <2>. QED  BY <1>1, <1>3, <2>2, <2>3, <2>4 DEF Promise!Send
<1>4. ASSUME batch = {} PROVE UNCHANGED Promise!vars
  <2>1. \A i \in Items : stage'[i] = stage[i]
    BY <1>4 DEF Submit, MoveAll, At
  <2>. QED  BY <2>1 DEF Promise!vars, At
<1>. QED  BY <1>2, <1>3, <1>4 DEF Promise!Next

LEMMA InitOutbox == ASSUME Init PROVE Promise!Init
  BY DEF Init, Promise!Init, At

LEMMA StepOutbox ==
  ASSUME IInv, [Next]_vars PROVE [Promise!Next]_(Promise!vars)
<1>. USE DEF IInv
<1>1. ASSUME NEW s \in Servers, NEW u \in Urls,
             \/ TakeURL(s, u) \/ CheckDNS(s, u) \/ SendScreenshotCh(s, u)
             \/ SendResultCh(s, u) \/ TakeScreenshot(s, u) \/ Collect(s, u)
             \/ OnResult(s, u)
      PROVE  UNCHANGED Promise!vars
  <2>1. PICK place : /\ place \notin Away
                     /\ stage[<<s, u>>] \notin Away
                     /\ Move(<<s, u>>, place)
    BY <1>1 DEF TakeURL, CheckDNS, SendScreenshotCh, SendResultCh,
                TakeScreenshot, Collect, OnResult, Away
  <2>2. UNCHANGED main /\ <<s, u>> \in Items
    BY <1>1 DEF TakeURL, CheckDNS, SendScreenshotCh, SendResultCh,
                TakeScreenshot, Collect, OnResult, Items
  <2>. QED  BY <2>1, <2>2, HomeMove
<1>2. ASSUME NEW i \in Items, Gather(i) PROVE UNCHANGED Promise!vars
  BY <1>2, HomeMove DEF Gather, Away
<1>3. CASE Flush
  BY <1>3, SubmitStarts DEF Flush
<1>4. CASE SubmitArrives
  <2>1. \A i \in Items :
          stage'[i] = IF stage[i] = "sending" THEN "sent" ELSE stage[i]
    BY <1>4 DEF SubmitArrives, MoveAll
  <2>2. /\ At({"sending", "sent", "lost"})' = At({"sending", "sent", "lost"})
        /\ At({"sending"})' = {}
        /\ At({"lost"})' = At({"lost"})
    BY <2>1 DEF At
  <2>3. At({"sending"}) # {} /\ UNCHANGED main
    BY <1>4 DEF SubmitArrives
  <2>4. Promise!Arrive
    BY <2>2, <2>3 DEF Promise!Arrive
  <2>. QED  BY <2>4 DEF Promise!Next
<1>5. CASE SubmitFails
  <2>1. \A i \in Items :
          stage'[i] = IF stage[i] = "sending" THEN "lost" ELSE stage[i]
    BY <1>5 DEF SubmitFails, MoveAll
  <2>2. /\ At({"sending", "sent", "lost"})' = At({"sending", "sent", "lost"})
        /\ At({"sending"})' = {}
        /\ At({"lost"})' = At({"lost"}) \cup At({"sending"})
    BY <2>1 DEF At
  <2>3. At({"sending"}) # {} /\ UNCHANGED main
    BY <1>5 DEF SubmitFails
  <2>4. Promise!Fail
    BY <2>2, <2>3 DEF Promise!Fail
  <2>. QED  BY <2>4 DEF Promise!Next
<1>6. CASE SendReport
  <2>1. At({"sending"}) = {}
    BY <1>6 DEF SendReport, Leaving, At
  <2>2. (main = "over")' <=> (main = "over")
    BY <1>6 DEF SendReport
  <2>. QED  BY <1>6, <2>1, <2>2, SubmitStarts DEF SendReport
<1>7. CASE CloseSendCh
  <2>1. UNCHANGED stage /\ main # "over" /\ main' # "over"
    BY <1>7 DEF CloseSendCh
  <2>. QED  BY <2>1 DEF Promise!vars, At
<1>8. CASE Drained /\ takeScreenshots
  <2>1. UNCHANGED stage /\ main # "over" /\ main' # "over"
    BY <1>8 DEF Drained
  <2>. QED  BY <2>1 DEF Promise!vars, At
<1>9. CASE \/ Drained /\ ~takeScreenshots
           \/ ReportSent
  <2>1. /\ UNCHANGED stage /\ main' = "over"
        /\ main \in {"draining", "reporting"}
        /\ ~streaming
        /\ main = "draining" => ~takeScreenshots
    BY <1>9 DEF Drained, ReportSent, Leaving
  <2>2. \A i \in Items : stage[i] \in {"sent", "lost"}
    <3>. SUFFICES ASSUME NEW i \in Items PROVE stage[i] \in {"sent", "lost"}
      OBVIOUS
    <3>1. PICK s \in Servers, u \in Urls : i = <<s, u>>
      BY DEF Items
    <3>2. returned[s]
      BY <2>1 DEF Leaving
    <3>3. stage[i] \notin {"urlCh", "checking", "checked", "screenshotCh",
                           "captured", "resultCh", "onResult"}
      BY <3>1, <3>2, ReturnedEmpty DEF Held
    <3>4. stage[i] \notin {"sendCh", "batch", "collected"}
      BY <2>1 DEF Leaving
    <3>5. stage[i] # "sending"
      BY <1>9, <2>1 DEF Leaving, ReportSent, At
    <3>. QED  BY <3>3, <3>4, <3>5 DEF TypeOK, Stages
  <2>3. /\ Items \ At({"sending", "sent", "lost"}) = {}
        /\ At({"sending"}) = {}
    BY <2>2 DEF At
  <2>4. UNCHANGED <<At({"sending", "sent", "lost"}), At({"sending"}), At({"lost"})>>
    BY <2>1 DEF At
  <2>5. Promise!Finish
    BY <2>1, <2>3, <2>4 DEF Promise!Finish
  <2>. QED  BY <2>5 DEF Promise!Next
<1>10. CASE \/ StreamerReturns \/ Cancel \/ UNCHANGED vars
            \/ \E s \in Servers :
                 \/ DNSWorkerReturns(s) \/ CloseScreenshotCh(s)
                 \/ ScreenshotWorkerReturns(s) \/ CloseResultCh(s)
                 \/ RunReturns(s)
  BY <1>10, StillStage
     DEF StreamerReturns, Cancel, vars, DNSWorkerReturns, CloseScreenshotCh,
         ScreenshotWorkerReturns, CloseResultCh, RunReturns
<1>. QED  BY <1>1, <1>2, <1>3, <1>4, <1>5, <1>6, <1>7, <1>8, <1>9, <1>10
             DEF Next, Step, RunStep, StreamStep, MainStep

(* Every result leaves in one batch or is known to be lost, and the sweep  *)
(* is over only when all have.                                             *)
THEOREM OutboxRefinement == Spec => ImplementsOutbox
<1>1. Init => Promise!Init
  BY InitOutbox
<1>2. IInv /\ [Next]_vars => [Promise!Next]_(Promise!vars)
  BY StepOutbox
<1>. QED  BY <1>1, <1>2, Invariance, PTL DEF Spec, ImplementsOutbox, Promise!Spec

=============================================================================
