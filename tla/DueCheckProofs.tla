--------------------------- MODULE DueCheckProofs ---------------------------
(***************************************************************************)
(* A due date is neither forgotten nor announced twice, for any number of  *)
(* departments, domains and retries, whatever other scans and failures do. *)
(***************************************************************************)
EXTENDS DueCheck, Integers, FiniteSetTheorems, WellFoundedInduction, TLAPS

USE NumberAssumption DEF NumberAssumption

----------------------------------------------------------------------------
(* The initial state.                                                      *)

LEMMA InitBookkeeping == ASSUME Init PROVE Bookkeeping
<1>1. told = {} /\ IsFiniteSet(told) /\ Cardinality(told) = 0
  BY FS_EmptySet DEF Init
<1>2. \A t \in Tasks : NotesOf(t) = {} /\ Cardinality(NotesOf(t)) = 0
  <2>1. \A t \in Tasks : NotesOf(t) = {}
    BY <1>1 DEF NotesOf
  <2>. QED  BY <2>1, FS_EmptySet
<1>3. QueueTypes
  BY <1>1 DEF Init, QueueTypes, QueueStates, PCs
<1>4. ActiveHasHandler /\ ToldHasNote /\ DoneMeansTold
  BY DEF Init, ActiveHasHandler, ToldHasNote, DoneMeansTold
<1>5. ToldByTheBroken /\ ToldOnce
  BY <1>2 DEF Init, ToldByTheBroken, ToldOnce
<1>. QED  BY <1>3, <1>4, <1>5 DEF Bookkeeping

----------------------------------------------------------------------------
(* How one task may move.                                                  *)

(* The notifications of each task are finitely many.                       *)
LEMMA NotesAreFinite ==
  ASSUME IsFiniteSet(told), NEW t \in Tasks
  PROVE  IsFiniteSet(NotesOf(t)) /\ Cardinality(NotesOf(t)) \in Nat
<1>1. NotesOf(t) \subseteq told
  BY DEF NotesOf
<1>2. IsFiniteSet(NotesOf(t))
  BY <1>1, FS_Subset
<1>. QED  BY <1>2, FS_CardinalityType

(* One notification more is one more of its own task at most.              *)
LEMMA OneMoreNote ==
  ASSUME Bookkeeping, NEW t \in Tasks, told' = told \cup {Note(t)}
  PROVE  /\ IsFiniteSet(told') /\ NotesOf(t)' # {}
         /\ Cardinality(NotesOf(t)') \in Nat
         /\ Cardinality(NotesOf(t)') <= Cardinality(NotesOf(t)) + 1
         /\ \A u \in Tasks \ {t} : NotesOf(u)' = NotesOf(u)
<1> DEFINE n == Note(t)
<1>1. n.task = t /\ told' = told \cup {n}
  BY DEF Note
<1> HIDE DEF n
<1>2. IsFiniteSet(told) /\ IsFiniteSet(NotesOf(t)) /\ Cardinality(NotesOf(t)) \in Nat
  BY NotesAreFinite DEF Bookkeeping, QueueTypes
<1>3. IsFiniteSet(told')
  BY <1>1, <1>2, FS_AddElement
<1>4. NotesOf(t)' = NotesOf(t) \cup {n} /\ \A u \in Tasks \ {t} : NotesOf(u)' = NotesOf(u)
  BY <1>1 DEF NotesOf
<1>5. Cardinality(NotesOf(t) \cup {n}) =
        IF n \in NotesOf(t) THEN Cardinality(NotesOf(t))
        ELSE Cardinality(NotesOf(t)) + 1
  BY <1>2, FS_AddElement, Zenon
<1>. QED  BY <1>2, <1>3, <1>4, <1>5

(* t goes from one place to another, and nobody is told anything.          *)
LEMMA MoveKeeps ==
  ASSUME Bookkeeping, NEW t \in Tasks,
         queue' \in [Tasks -> QueueStates], pc' \in [Tasks -> PCs],
         retried' \in [Tasks -> 0..MaxRetry],
         UNCHANGED <<told, brokenOff, purged>>,
         \A u \in Tasks \ {t} : queue'[u] = queue[u] /\ pc'[u] = pc[u],
         queue'[t] = "active" <=> pc'[t] # "idle",
         pc'[t] = "told" => NotesOf(t) # {},
         queue'[t] = "gone" => NotesOf(t) # {} \/ UrlOf(t) \in purged,
         queue'[t] \in {"scheduled", "retry", "active"} /\ pc'[t] # "told" =>
           queue[t] \in {"scheduled", "retry", "active"} /\ pc[t] # "told"
  PROVE  Bookkeeping'
<1>1. \A u \in Tasks : NotesOf(u)' = NotesOf(u)
  BY DEF NotesOf
<1>2. QueueTypes'
  BY DEF Bookkeeping, QueueTypes
<1>3. ActiveHasHandler'
  BY DEF Bookkeeping, ActiveHasHandler
<1>4. ToldHasNote'
  BY <1>1 DEF Bookkeeping, ToldHasNote
<1>5. DoneMeansTold'
  <2>. SUFFICES ASSUME NEW u \in Tasks, queue'[u] = "gone"
                PROVE  NotesOf(u) # {} \/ UrlOf(u) \in purged
    BY <1>1 DEF DoneMeansTold
  <2>. QED  BY DEF Bookkeeping, DoneMeansTold
<1>6. ToldByTheBroken'
  <2>. SUFFICES ASSUME NEW u \in Tasks,
                       queue'[u] \in {"scheduled", "retry", "active"},
                       pc'[u] # "told"
                PROVE  Cardinality(NotesOf(u)) <= brokenOff[u]
    BY <1>1 DEF ToldByTheBroken
  <2>1. queue[u] \in {"scheduled", "retry", "active"} /\ pc[u] # "told"
    BY Zenon
  <2>. QED  BY <2>1 DEF Bookkeeping, ToldByTheBroken
<1>7. ToldOnce'
  BY <1>1 DEF Bookkeeping, ToldOnce
<1>. QED  BY <1>2, <1>3, <1>4, <1>5, <1>6, <1>7 DEF Bookkeeping

(* The handler returns an error.                                           *)
LEMMA RetryKeeps ==
  ASSUME Bookkeeping, NEW t \in Tasks, pc[t] \in PCs \ {"idle", "told"},
         Retry(t), UNCHANGED <<told, brokenOff, purged>>
  PROVE  Bookkeeping'
<1>1. /\ queue \in [Tasks -> QueueStates] /\ pc \in [Tasks -> PCs]
      /\ retried \in [Tasks -> 0..MaxRetry]
  BY DEF Bookkeeping, QueueTypes
<1>2. pc' \in [Tasks -> PCs] /\ pc'[t] = "idle"
  BY <1>1 DEF Retry, Return, PCs
<1>3. queue' \in [Tasks -> QueueStates] /\ queue'[t] \in {"retry", "archived"}
  BY <1>1 DEF Retry, QueueStates
<1>4. retried' \in [Tasks -> 0..MaxRetry]
  BY <1>1 DEF Retry
<1>5. \A u \in Tasks \ {t} : queue'[u] = queue[u] /\ pc'[u] = pc[u]
  BY <1>1 DEF Retry, Return
<1>6. queue[t] = "active" /\ pc[t] # "told"
  BY DEF Bookkeeping, ActiveHasHandler, PCs
<1>. QED  BY <1>2, <1>3, <1>4, <1>5, <1>6, MoveKeeps

----------------------------------------------------------------------------
(* One action after the other.                                             *)

LEMMA HandlerStepKeeps ==
  ASSUME Bookkeeping, NEW t \in Tasks, HandlerStep(t)
  PROVE  Bookkeeping'
<1>. USE DEF QueueStates, PCs
<1>a. /\ queue \in [Tasks -> QueueStates] /\ pc \in [Tasks -> PCs]
      /\ retried \in [Tasks -> 0..MaxRetry] /\ brokenOff \in [Tasks -> Nat]
      /\ IsFiniteSet(told)
  BY DEF Bookkeeping, QueueTypes
<1>b. queue[t] = "active" <=> pc[t] # "idle"
  BY DEF Bookkeeping, ActiveHasHandler
<1>1. CASE TakeTask(t)
  <2>1. queue' \in [Tasks -> QueueStates] /\ pc' \in [Tasks -> PCs]
    BY <1>1, <1>a DEF TakeTask
  <2>2. retried' = retried /\ UNCHANGED <<told, brokenOff, purged>>
    BY <1>1 DEF TakeTask
  <2>3. \A u \in Tasks \ {t} : queue'[u] = queue[u] /\ pc'[u] = pc[u]
    BY <1>1, <1>a DEF TakeTask
  <2>4. \/ queue'[t] = "gone" /\ pc'[t] = pc[t] /\ UrlOf(t) \in purged
        \/ queue'[t] = "active" /\ pc'[t] = "triggering"
    BY <1>1, <1>a DEF TakeTask
  <2>5. queue[t] \in {"scheduled", "retry"} /\ pc[t] = "idle"
    BY <1>1, <1>b DEF TakeTask
  <2>. QED  BY <1>a, <2>1, <2>2, <2>3, <2>4, <2>5, MoveKeeps
<1>2. CASE Trigger(t)
  <2>1. pc' \in [Tasks -> PCs] /\ pc'[t] = "waiting" /\ pc[t] = "triggering"
    BY <1>2, <1>a DEF Trigger
  <2>2. \A u \in Tasks \ {t} : pc'[u] = pc[u]
    BY <1>2, <1>a DEF Trigger
  <2>3. UNCHANGED <<queue, retried, told, brokenOff, purged>>
    BY <1>2 DEF Trigger
  <2>. QED  BY <1>a, <1>b, <2>1, <2>2, <2>3, MoveKeeps
<1>3. CASE TriggerBusy(t)
  BY <1>3, RetryKeeps DEF TriggerBusy
<1>4. CASE SeesNoScan(t)
  <2>1. pc' \in [Tasks -> PCs] /\ pc'[t] = "reading" /\ pc[t] = "waiting"
    BY <1>4, <1>a DEF SeesNoScan
  <2>2. \A u \in Tasks \ {t} : pc'[u] = pc[u]
    BY <1>4, <1>a DEF SeesNoScan
  <2>3. UNCHANGED <<queue, retried, told, brokenOff, purged>>
    BY <1>4 DEF SeesNoScan
  <2>. QED  BY <1>a, <1>b, <2>1, <2>2, <2>3, MoveKeeps
<1>5. CASE ReadResults(t)
  <2>a. pc[t] = "reading" /\ UNCHANGED <<told, brokenOff, purged>>
    BY <1>5 DEF ReadResults
  <2>1. CASE Retry(t)
    BY <2>a, <2>1, RetryKeeps
  <2>2. CASE /\ pc' = [pc EXCEPT ![t] = "telling"]
             /\ UNCHANGED <<queue, retried>>
    <3>1. pc' \in [Tasks -> PCs] /\ pc'[t] = "telling"
      BY <2>2, <1>a
    <3>2. \A u \in Tasks \ {t} : pc'[u] = pc[u]
      BY <2>2, <1>a
    <3>. QED  BY <1>a, <1>b, <2>a, <2>2, <3>1, <3>2, MoveKeeps
  <2>. QED  BY <1>5, <2>1, <2>2 DEF ReadResults
<1>6. CASE CreateNotification(t)
  <2>1. /\ pc[t] = "telling" /\ queue[t] = "active" /\ pc'[t] = "told"
        /\ pc' \in [Tasks -> PCs] /\ told' = told \cup {Note(t)}
    BY <1>6, <1>a, <1>b DEF CreateNotification
  <2>2. \A u \in Tasks \ {t} : pc'[u] = pc[u]
    BY <1>6, <1>a DEF CreateNotification
  <2>3. UNCHANGED <<queue, retried, brokenOff, purged>>
    BY <1>6 DEF CreateNotification
  <2>4. NotesOf(t)' # {} /\ IsFiniteSet(told')
    BY <2>1, OneMoreNote
  <2>5. \A u \in Tasks \ {t} : NotesOf(u)' = NotesOf(u)
    BY <2>1, OneMoreNote
  <2>6. Cardinality(NotesOf(t)') <= 1 + brokenOff[t]
    <3>1. Cardinality(NotesOf(t)) \in Nat /\ brokenOff[t] \in Nat
      BY <1>a, NotesAreFinite
    <3>2. Cardinality(NotesOf(t)) <= brokenOff[t]
      BY <2>1 DEF Bookkeeping, ToldByTheBroken
    <3>. QED  BY <2>1, <3>1, <3>2, OneMoreNote
  <2>7. QueueTypes'
    BY <1>a, <2>1, <2>3, <2>4 DEF QueueTypes
  <2>8. ActiveHasHandler'
    BY <2>1, <2>2, <2>3 DEF Bookkeeping, ActiveHasHandler
  <2>9. ToldHasNote'
    BY <2>2, <2>4, <2>5 DEF Bookkeeping, ToldHasNote
  <2>10. DoneMeansTold'
    BY <2>1, <2>3, <2>5 DEF Bookkeeping, DoneMeansTold
  <2>11. ToldByTheBroken'
    BY <2>1, <2>2, <2>3, <2>5 DEF Bookkeeping, ToldByTheBroken
  <2>12. ToldOnce'
    BY <2>3, <2>5, <2>6 DEF Bookkeeping, ToldOnce
  <2>. QED  BY <2>7, <2>8, <2>9, <2>10, <2>11, <2>12 DEF Bookkeeping
<1>7. CASE CreateNotificationFails(t)
  BY <1>7, RetryKeeps DEF CreateNotificationFails
<1>8. CASE TaskDone(t)
  <2>1. /\ queue' \in [Tasks -> QueueStates] /\ pc' \in [Tasks -> PCs]
        /\ queue'[t] = "gone" /\ pc'[t] = "idle"
    BY <1>8, <1>a DEF TaskDone, Return
  <2>2. \A u \in Tasks \ {t} : queue'[u] = queue[u] /\ pc'[u] = pc[u]
    BY <1>8, <1>a DEF TaskDone, Return
  <2>3. retried' = retried /\ UNCHANGED <<told, brokenOff, purged>>
    BY <1>8 DEF TaskDone
  <2>4. NotesOf(t) # {}
    BY <1>8 DEF TaskDone, Bookkeeping, ToldHasNote
  <2>. QED  BY <1>a, <2>1, <2>2, <2>3, <2>4, MoveKeeps
<1>. QED
  BY <1>1, <1>2, <1>3, <1>4, <1>5, <1>6, <1>7, <1>8 DEF HandlerStep

(* The notification is stored, and its handler does not hear of it.        *)
LEMMA UnheardKeeps ==
  ASSUME Bookkeeping, NEW t \in Tasks, CreateNotificationUnheard(t)
  PROVE  Bookkeeping'
<1>1. /\ queue \in [Tasks -> QueueStates] /\ pc \in [Tasks -> PCs]
      /\ retried \in [Tasks -> 0..MaxRetry] /\ brokenOff \in [Tasks -> Nat]
  BY DEF Bookkeeping, QueueTypes
<1>2. /\ pc[t] = "telling" /\ Retry(t) /\ told' = told \cup {Note(t)}
      /\ brokenOff' = [brokenOff EXCEPT ![t] = @ + 1] /\ purged' = purged
  BY DEF CreateNotificationUnheard
<1>3. pc' \in [Tasks -> PCs] /\ pc'[t] = "idle"
  BY <1>1, <1>2 DEF Retry, Return, PCs
<1>4. queue' \in [Tasks -> QueueStates] /\ queue'[t] \in {"retry", "archived"}
  BY <1>1, <1>2 DEF Retry, QueueStates
<1>5. retried' \in [Tasks -> 0..MaxRetry]
  BY <1>1, <1>2 DEF Retry
<1>6. \A u \in Tasks \ {t} : /\ queue'[u] = queue[u] /\ pc'[u] = pc[u]
                             /\ brokenOff'[u] = brokenOff[u]
  BY <1>1, <1>2 DEF Retry, Return
<1>7. /\ IsFiniteSet(told') /\ NotesOf(t)' # {}
      /\ \A u \in Tasks \ {t} : NotesOf(u)' = NotesOf(u)
  BY <1>2, OneMoreNote
<1>8. Cardinality(NotesOf(t)') <= brokenOff'[t] /\ brokenOff'[t] \in Nat
  <2>1. queue[t] = "active"
    BY <1>2 DEF Bookkeeping, ActiveHasHandler
  <2>2. Cardinality(NotesOf(t)) <= brokenOff[t]
    BY <1>2, <2>1 DEF Bookkeeping, ToldByTheBroken
  <2>3. Cardinality(NotesOf(t)) \in Nat
    BY NotesAreFinite DEF Bookkeeping, QueueTypes
  <2>4. /\ Cardinality(NotesOf(t)') \in Nat
        /\ Cardinality(NotesOf(t)') <= Cardinality(NotesOf(t)) + 1
    BY <1>2, OneMoreNote
  <2>5. brokenOff'[t] = brokenOff[t] + 1 /\ brokenOff[t] \in Nat
    BY <1>1, <1>2
  <2>. QED  BY <2>2, <2>3, <2>4, <2>5
<1>9. QueueTypes'
  <2>1. brokenOff' \in [Tasks -> Nat]
    BY <1>1, <1>2
  <2>. QED  BY <1>3, <1>4, <1>5, <1>7, <2>1 DEF QueueTypes
<1>10. ActiveHasHandler' /\ ToldHasNote' /\ DoneMeansTold'
  BY <1>2, <1>3, <1>4, <1>6, <1>7
  DEF Bookkeeping, ActiveHasHandler, ToldHasNote, DoneMeansTold
<1>11. ToldByTheBroken'
  BY <1>6, <1>7, <1>8 DEF Bookkeeping, ToldByTheBroken
<1>12. ToldOnce'
  <2>1. Cardinality(NotesOf(t)') \in Nat
    BY <1>2, OneMoreNote
  <2>2. Cardinality(NotesOf(t)') <= 1 + brokenOff'[t]
    BY <1>8, <2>1
  <2>. QED  BY <1>6, <1>7, <2>2 DEF Bookkeeping, ToldOnce
<1>. QED  BY <1>9, <1>10, <1>11, <1>12 DEF Bookkeeping

LEMMA RestartKeeps == ASSUME Bookkeeping, DashboardRestarts PROVE Bookkeeping'
<1>. USE DEF QueueStates, PCs
<1>a. /\ queue \in [Tasks -> QueueStates] /\ pc \in [Tasks -> PCs]
      /\ retried \in [Tasks -> 0..MaxRetry] /\ brokenOff \in [Tasks -> Nat]
      /\ IsFiniteSet(told)
  BY DEF Bookkeeping, QueueTypes
<1>b. told' = told /\ purged' = purged /\ pc' = [t \in Tasks |-> "idle"]
  BY DEF DashboardRestarts
<1>c. \A t \in Tasks : NotesOf(t)' = NotesOf(t)
  BY <1>b DEF NotesOf
<1>1. \A t \in Tasks :
        queue'[t] = IF queue[t] = "active"
                    THEN IF retried[t] < MaxRetry THEN "retry" ELSE "archived"
                    ELSE queue[t]
  BY DEF DashboardRestarts
<1>2. \A t \in Tasks :
        brokenOff'[t] = IF queue[t] = "active" THEN brokenOff[t] + 1 ELSE brokenOff[t]
  BY DEF DashboardRestarts
<1>3. QueueTypes'
  <2>1. queue' \in [Tasks -> QueueStates]
    <3>1. \A t \in Tasks : queue'[t] \in QueueStates
      BY <1>1, <1>a
    <3>2. queue' = [t \in Tasks |-> queue'[t]]
      BY DEF DashboardRestarts
    <3>. QED  BY <3>1, <3>2
  <2>2. retried' \in [Tasks -> 0..MaxRetry]
    BY <1>a DEF DashboardRestarts
  <2>3. brokenOff' \in [Tasks -> Nat]
    BY <1>a DEF DashboardRestarts
  <2>. QED  BY <1>a, <1>b, <2>1, <2>2, <2>3 DEF QueueTypes
<1>4. ActiveHasHandler'
  BY <1>1, <1>b DEF ActiveHasHandler
<1>5. ToldHasNote'
  BY <1>b DEF ToldHasNote
<1>6. DoneMeansTold'
  BY <1>1, <1>b, <1>c DEF Bookkeeping, DoneMeansTold
<1>7. ASSUME NEW t \in Tasks
      PROVE  Cardinality(NotesOf(t)) \in Nat /\ brokenOff[t] \in Nat
  BY <1>a, NotesAreFinite
<1>8. ToldByTheBroken'
  <2>. SUFFICES ASSUME NEW t \in Tasks,
                       queue'[t] \in {"scheduled", "retry", "active"}
                PROVE  Cardinality(NotesOf(t)) <= brokenOff'[t]
    BY <1>c DEF ToldByTheBroken
  <2>1. CASE queue[t] = "active"
    <3>1. Cardinality(NotesOf(t)) <= 1 + brokenOff[t]
      BY DEF Bookkeeping, ToldOnce
    <3>. QED  BY <2>1, <3>1, <1>2, <1>7
  <2>2. CASE queue[t] # "active"
    <3>1. queue[t] \in {"scheduled", "retry"} /\ pc[t] = "idle"
      BY <2>2, <1>1 DEF Bookkeeping, ActiveHasHandler
    <3>2. Cardinality(NotesOf(t)) <= brokenOff[t]
      BY <3>1 DEF Bookkeeping, ToldByTheBroken
    <3>. QED  BY <2>2, <3>2, <1>2
  <2>. QED  BY <2>1, <2>2
<1>9. ToldOnce'
  <2>. SUFFICES ASSUME NEW t \in Tasks
                PROVE  Cardinality(NotesOf(t)) <= 1 + brokenOff'[t]
    BY <1>c DEF ToldOnce
  <2>1. Cardinality(NotesOf(t)) <= 1 + brokenOff[t]
    BY DEF Bookkeeping, ToldOnce
  <2>. QED  BY <2>1, <1>2, <1>7
<1>. QED  BY <1>3, <1>4, <1>5, <1>6, <1>8, <1>9 DEF Bookkeeping

(* A step of somebody else; the set of purged domains only grows.          *)
LEMMA OtherStepKeeps ==
  ASSUME Bookkeeping, UNCHANGED handler, purged \subseteq purged'
  PROVE  Bookkeeping'
<1>1. UNCHANGED <<queue, retried, pc, told, brokenOff>>
  BY DEF handler
<1>2. \A t \in Tasks : NotesOf(t)' = NotesOf(t)
  BY <1>1 DEF NotesOf
<1>3. DoneMeansTold'
  BY <1>1, <1>2 DEF Bookkeeping, DoneMeansTold
<1>4. QueueTypes' /\ ActiveHasHandler'
  BY <1>1 DEF Bookkeeping, QueueTypes, ActiveHasHandler
<1>5. ToldHasNote' /\ ToldByTheBroken' /\ ToldOnce'
  BY <1>1, <1>2 DEF Bookkeeping, ToldHasNote, ToldByTheBroken, ToldOnce
<1>. QED  BY <1>3, <1>4, <1>5 DEF Bookkeeping

LEMMA StepKeeps == ASSUME Bookkeeping, [Next]_vars PROVE Bookkeeping'
<1>1. CASE \E t \in Tasks : HandlerStep(t) \/ CreateNotificationUnheard(t)
  BY <1>1, HandlerStepKeeps, UnheardKeeps
<1>2. CASE \E t \in Tasks : HandlerFails(t)
  BY <1>2, RetryKeeps DEF HandlerFails
<1>3. CASE OtherScan
  BY <1>3, OtherStepKeeps DEF OtherScan
<1>4. CASE CrawlerStep
  BY <1>4, OtherStepKeeps DEF CrawlerStep, Check, SweepEnds
<1>5. CASE ScanEnds
  BY <1>5, OtherStepKeeps DEF ScanEnds
<1>6. CASE \E u \in Urls, s \in Servers : LoseCheck(u, s)
  BY <1>6, OtherStepKeeps DEF LoseCheck
<1>7. CASE ScanCutShort
  BY <1>7, OtherStepKeeps DEF ScanCutShort
<1>8. CASE DashboardRestarts
  BY <1>8, RestartKeeps
<1>9. CASE \E u \in Urls : PurgeURL(u)
  BY <1>9, OtherStepKeeps DEF PurgeURL
<1>10. CASE Tick
  BY <1>10, OtherStepKeeps DEF Tick
<1>11. CASE UNCHANGED vars
  BY <1>11, OtherStepKeeps DEF vars
<1>. QED
  BY <1>1, <1>2, <1>3, <1>4, <1>5, <1>6, <1>7, <1>8, <1>9, <1>10, <1>11
  DEF Next

----------------------------------------------------------------------------
(* Bookkeeping is an invariant of the specification.                       *)
THEOREM BookkeepingHolds == Spec => []Bookkeeping
BY InitBookkeeping, StepKeeps, PTL DEF Spec

(* A task leaves the queue for good only when its notification exists or   *)
(* its domain does not.                                                    *)
THEOREM NothingForgotten == Spec => []DoneMeansTold
<1>1. Bookkeeping => DoneMeansTold
  BY DEF Bookkeeping
<1>. QED  BY <1>1, BookkeepingHolds, PTL

(* A due date is announced at most once more than its handlers died or did *)
(* not hear that they had announced it.                                    *)
THEOREM NothingRepeated == Spec => []ToldOnce
<1>1. Bookkeeping => ToldOnce
  BY DEF Bookkeeping
<1>. QED  BY <1>1, BookkeepingHolds, PTL

----------------------------------------------------------------------------
(* A verdict rests on the whole of its scan.                               *)

(* A second does not begin after the tick that lies in it.                 *)
LEMMA UnixBefore ==
  ASSUME NEW x \in Int
  PROVE  Unix(x) \in Int /\ Unix(x) <= x
<1>1. x % TicksPerSecond \in 0..(TicksPerSecond - 1)
  OBVIOUS
<1>. QED  BY <1>1 DEF Unix

(* What every step does to the evidence: time goes on, results are lost    *)
(* only with their domain, and what was cut short remains so.              *)
Grows ==
  /\ now <= now'
  /\ cut \subseteq cut' /\ purged \subseteq purged'
  /\ \A r \in results : r \in results' \/ r.url \in purged'

(* A handler that is where it was.                                         *)
Rests(t) ==
  /\ pc'[t] = pc[t] /\ before'[t] = before[t]
  /\ mine'[t] = mine[t] /\ until'[t] = until[t] /\ found'[t] = found[t]

LEMMA StaysCovered ==
  ASSUME ClockTypes, RowsAreStamped, now' \in Nat, Grows, NEW t \in Tasks, NEW s \in Servers, Covered(t, s),
         before'[t] = before[t], mine'[t] = mine[t]
  PROVE  Covered(t, s)' \/ Excused(t)'
<1>1. PICK r \in results :
        /\ r.sweep = mine[t] /\ r.url = UrlOf(t) /\ r.server = s
        /\ before[t] <= r.checkedAt /\ r.checkedAt <= now
  BY DEF Covered
<1>2. r.checkedAt <= now'
  BY <1>1 DEF ClockTypes, Grows, RowsAreStamped
<1>3. CASE r \in results'
  BY <1>1, <1>2, <1>3 DEF Covered
<1>4. CASE r.url \in purged'
  BY <1>1, <1>4 DEF Excused
<1>. QED  BY <1>3, <1>4 DEF Grows

LEMMA RestingReads ==
  ASSUME ClockTypes, RowsAreStamped, now' \in Nat, Grows, NEW t \in Tasks, Rests(t), Reads(t)
  PROVE  Reads(t)'
<1>. SUFFICES ASSUME pc'[t] = "reading", ~Excused(t)'
              PROVE  \A s \in Servers : Covered(t, s)'
  BY DEF Reads
<1>1. ~Excused(t) /\ pc[t] = "reading"
  BY DEF Excused, Grows, Rests
<1>2. \A s \in Servers : Covered(t, s)
  BY <1>1 DEF Reads
<1>. QED  BY <1>2, StaysCovered DEF Rests

LEMMA RestingTells ==
  ASSUME Grows, NEW t \in Tasks, Rests(t), Tells(t)
  PROVE  Tells(t)'
<1>. SUFFICES ASSUME pc'[t] = "telling"
              PROVE  /\ \A r \in found'[t] :
                          \E skew \in Skews : before'[t] <= r.checkedAt + skew
                     /\ \/ Excused(t)'
                        \/ \A s \in Servers :
                             \E r \in results' :
                               /\ r.sweep = mine'[t] /\ r.url = UrlOf(t) /\ r.server = s
                               /\ \/ r \in found'[t]
                                  \/ OutOfReach(r, before'[t], until'[t])
  BY DEF Tells, OutOfReach, Unix
<1>1. /\ pc[t] = "telling" /\ before'[t] = before[t] /\ until'[t] = until[t]
      /\ mine'[t] = mine[t] /\ found'[t] = found[t]
  BY DEF Rests
<1>2. \A r \in found[t] : \E skew \in Skews : before[t] <= r.checkedAt + skew
  BY <1>1 DEF Tells
<1>3. ASSUME ~Excused(t)', NEW s \in Servers
      PROVE  \E r \in results' :
               /\ r.sweep = mine[t] /\ r.url = UrlOf(t) /\ r.server = s
               /\ r \in found[t] \/ OutOfReach(r, before[t], until[t])
  <2>1. ~Excused(t)
    BY <1>1, <1>3 DEF Excused, Grows
  <2>2. PICK r \in results :
          /\ r.sweep = mine[t] /\ r.url = UrlOf(t) /\ r.server = s
          /\ r \in found[t] \/ OutOfReach(r, before[t], until[t])
    BY <1>1, <2>1 DEF Tells
  <2>3. r \in results'
    BY <1>3, <2>2 DEF Grows, Excused
  <2>. QED  BY <2>2, <2>3
<1>. QED  BY <1>1, <1>2, <1>3

(* A scan is waited for while the crawler does not leave a domain out.     *)
LEMMA RestingWaits ==
  ASSUME ClockTypes, RowsAreStamped, now' \in Nat, Grows, NEW t \in Tasks, Rests(t), Waits(t),
         \A s \in Servers : sweep = mine[t] /\ <<UrlOf(t), s>> \in left =>
                              Coming(t, s)' \/ Excused(t)' \/ mine[t] = 0
  PROVE  Waits(t)'
<1>. SUFFICES ASSUME pc'[t] = "waiting"
              PROVE  mine'[t] # 0 /\ (Excused(t)' \/ \A s \in Servers : Coming(t, s)')
  BY DEF Waits
<1>1. pc[t] = "waiting" /\ mine[t] # 0 /\ mine'[t] # 0
  BY DEF Waits, Rests
<1>2. CASE Excused(t)
  BY <1>1, <1>2 DEF Excused, Grows, Rests
<1>3. CASE ~Excused(t)
  <2>1. ASSUME NEW s \in Servers PROVE Coming(t, s)' \/ Excused(t)'
    <3>1. Coming(t, s)
      BY <1>1, <1>3 DEF Waits
    <3>2. CASE Covered(t, s)
      <4>1. Covered(t, s)' \/ Excused(t)'
        BY <3>2, StaysCovered DEF Rests
      <4>. QED  BY <4>1 DEF Coming
    <3>3. CASE sweep = mine[t] /\ <<UrlOf(t), s>> \in left
      BY <1>1, <3>3
    <3>. QED  BY <3>1, <3>2, <3>3 DEF Coming
  <2>. QED  BY <1>1, <2>1
<1>. QED  BY <1>2, <1>3

(* What a notification has to say of its scan.                             *)
RestsOn(n, rows, excused) ==
  /\ \A r \in n.found : \E skew \in Skews : n.before <= r.checkedAt + skew
  /\ \/ excused
     \/ \A s \in Servers :
          \E r \in rows :
            /\ r.sweep = n.scan /\ r.url = n.task[2] /\ r.server = s
            /\ r \in n.found \/ OutOfReach(r, n.before, n.until)

LEMMA Reported ==
  /\ ReportsItsScan <=>
       \A n \in told : RestsOn(n, results, n.scan \in cut \/ n.task[2] \in purged)
  /\ ReportsItsScan' <=>
       \A n \in told' : RestsOn(n, results', n.scan \in cut' \/ n.task[2] \in purged')
BY DEF ReportsItsScan, RestsOn, OutOfReach, Unix

(* Nobody is told anything new.                                            *)
LEMMA TellingNothing ==
  ASSUME Grows, told' = told, ReportsItsScan
  PROVE  ReportsItsScan'
<1>. SUFFICES ASSUME NEW n \in told
              PROVE  RestsOn(n, results', n.scan \in cut' \/ n.task[2] \in purged')
  BY Reported
<1>1. RestsOn(n, results, n.scan \in cut \/ n.task[2] \in purged)
  BY Reported
<1>2. CASE n.scan \in cut' \/ n.task[2] \in purged'
  BY <1>1, <1>2 DEF RestsOn
<1>3. CASE ~(n.scan \in cut' \/ n.task[2] \in purged')
  <2>1. \A r \in results : r.url = n.task[2] => r \in results'
    BY <1>3 DEF Grows
  <2>2. ~(n.scan \in cut \/ n.task[2] \in purged)
    BY <1>3 DEF Grows
  <2>. QED  BY <1>1, <2>1, <2>2 DEF RestsOn
<1>. QED  BY <1>2, <1>3

(* A handler tells what it has found.                                      *)
LEMMA TellingKeeps ==
  ASSUME Evidence, NEW t \in Tasks, pc[t] = "telling",
         told' = told \cup {Note(t)}, UNCHANGED <<scanner, purged>>
  PROVE  ReportsItsScan'
<1> DEFINE n == Note(t)
<1>1. /\ n.task[2] = UrlOf(t) /\ n.scan = mine[t] /\ n.before = before[t]
      /\ n.until = until[t] /\ n.found = found[t]
  BY DEF Note, UrlOf
<1>2. told' = told \cup {n}
  OBVIOUS
<1> HIDE DEF n
<1>3. RestsOn(n, results, n.scan \in cut \/ n.task[2] \in purged)
  BY <1>1 DEF Evidence, Tells, Excused, RestsOn
<1>4. UNCHANGED <<results, cut, purged>>
  BY DEF scanner
<1>5. \A m \in told : RestsOn(m, results, m.scan \in cut \/ m.task[2] \in purged)
  BY Reported DEF Evidence
<1>. QED  BY <1>2, <1>3, <1>4, <1>5, Reported

(* Tasks whose handlers rest, while the crawler goes on as it did.         *)
LEMMA AllRest ==
  ASSUME Evidence, now' \in Nat, Grows, told' = told, \A t \in Tasks : Rests(t),
         \A t \in Tasks, s \in Servers :
           sweep = mine[t] /\ <<UrlOf(t), s>> \in left =>
             Coming(t, s)' \/ Excused(t)' \/ mine[t] = 0
  PROVE  /\ \A t \in Tasks : Waits(t)' /\ Reads(t)' /\ Tells(t)'
         /\ ReportsItsScan'
<1>1. /\ ClockTypes /\ RowsAreStamped /\ ReportsItsScan
      /\ \A t \in Tasks : Waits(t) /\ Reads(t) /\ Tells(t)
  BY DEF Evidence
<1>2. ASSUME NEW t \in Tasks PROVE Waits(t)' /\ Reads(t)' /\ Tells(t)'
  BY <1>1, RestingWaits, RestingReads, RestingTells
<1>. QED  BY <1>1, <1>2, TellingNothing

(* One handler moves, and the scanner does not.                            *)
LEMMA OneMoves ==
  ASSUME Evidence, UNCHANGED <<now, scanner, purged>>, NEW t \in Tasks,
         \A u \in Tasks \ {t} : Rests(u),
         ClockTypes', Waits(t)', Reads(t)', Tells(t)', ReportsItsScan'
  PROVE  Evidence'
<1>1. /\ ClockTypes /\ RowsAreStamped /\ SweepHasScan /\ now' \in Nat /\ Grows
      /\ UNCHANGED <<scan, sweep, left, results, cut>>
      /\ \A u \in Tasks : Waits(u) /\ Reads(u) /\ Tells(u)
  BY DEF Evidence, ClockTypes, Grows, scanner
<1>2. SweepHasScan' /\ RowsAreStamped'
  BY <1>1 DEF SweepHasScan, RowsAreStamped, Unix
<1>3. ASSUME NEW u \in Tasks \ {t} PROVE Waits(u)' /\ Reads(u)' /\ Tells(u)'
  <2>1. \A s \in Servers : sweep = mine[u] /\ <<UrlOf(u), s>> \in left => Coming(u, s)'
    BY <1>1 DEF Coming, Rests
  <2>. QED  BY <1>1, <2>1, RestingWaits, RestingReads, RestingTells
<1>. QED  BY <1>2, <1>3 DEF Evidence

(* A handler that returns has no variables left to be right about.         *)
LEMMA ReturnMoves ==
  ASSUME Evidence, UNCHANGED <<now, scanner, purged>>, NEW t \in Tasks, Return(t),
         ReportsItsScan'
  PROVE  Evidence'
<1>1. ClockTypes
  BY DEF Evidence
<1>2. /\ pc'[t] = "idle"
      /\ \A u \in Tasks \ {t} : Rests(u)
  BY <1>1 DEF Return, ClockTypes, Rests
<1>3. ClockTypes'
  BY <1>1 DEF Return, ClockTypes, PCs, scanner
<1>4. Waits(t)' /\ Reads(t)' /\ Tells(t)'
  BY <1>2 DEF Waits, Reads, Tells
<1>. QED  BY <1>2, <1>3, <1>4, OneMoves

LEMMA ReturnKeeps ==
  ASSUME Evidence, UNCHANGED <<now, scanner, told, purged>>, NEW t \in Tasks, Return(t)
  PROVE  Evidence'
<1>1. Grows
  BY DEF Evidence, ClockTypes, Grows, scanner
<1>2. ReportsItsScan'
  BY <1>1, TellingNothing DEF Evidence
<1>. QED  BY <1>2, ReturnMoves

LEMMA TakeTaskEvidence ==
  ASSUME Evidence, NEW t \in Tasks, TakeTask(t)
  PROVE  Evidence'
<1>1. ClockTypes /\ ReportsItsScan /\ Waits(t) /\ Reads(t) /\ Tells(t)
  BY DEF Evidence
<1>2. UNCHANGED <<now, scanner, mine, until, found, told, purged>>
  BY DEF TakeTask
<1>3. ReportsItsScan'
  BY <1>1, <1>2, TellingNothing DEF ClockTypes, Grows, scanner
<1>4. CASE UrlOf(t) \in purged
  <2>1. UNCHANGED <<pc, before>>
    BY <1>4 DEF TakeTask
  <2>2. ClockTypes' /\ Rests(t) /\ Grows
    BY <1>1, <1>2, <2>1 DEF ClockTypes, Rests, Grows, scanner
  <2>3. Waits(t)' /\ Reads(t)'
    BY <1>1, <1>2, <2>1 DEF Waits, Reads, Excused, Coming, Covered, scanner
  <2>4. Tells(t)'
    BY <1>1, <2>2, RestingTells
  <2>5. \A u \in Tasks \ {t} : Rests(u)
    BY <1>2, <2>1 DEF Rests
  <2>. QED  BY <1>2, <1>3, <2>2, <2>3, <2>4, <2>5, OneMoves
<1>5. CASE UrlOf(t) \notin purged
  <2>1. /\ pc' = [pc EXCEPT ![t] = "triggering"]
        /\ before' = [before EXCEPT ![t] = now]
    BY <1>5 DEF TakeTask
  <2>2. ClockTypes'
    BY <1>1, <1>2, <2>1 DEF ClockTypes, PCs, scanner
  <2>3. Waits(t)' /\ Reads(t)' /\ Tells(t)'
    BY <1>1, <2>1 DEF ClockTypes, Waits, Reads, Tells
  <2>4. \A u \in Tasks \ {t} : Rests(u)
    BY <1>1, <1>2, <2>1 DEF ClockTypes, Rests
  <2>. QED  BY <1>2, <1>3, <2>2, <2>3, <2>4, OneMoves
<1>. QED  BY <1>4, <1>5

(* The polling loop ends with no scan running: the sweep of the handler's  *)
(* own scan has been through its domain, or was left behind.               *)
LEMMA SeesNoScanEvidence ==
  ASSUME Evidence, NEW t \in Tasks, SeesNoScan(t)
  PROVE  Evidence'
<1>1. ClockTypes /\ ReportsItsScan /\ Waits(t) /\ SweepHasScan
  BY DEF Evidence
<1>2. /\ UNCHANGED <<now, scanner, before, mine, until, found, told, purged>>
      /\ pc[t] = "waiting" /\ scan = 0
      /\ pc' = [pc EXCEPT ![t] = "reading"]
  BY DEF SeesNoScan
<1>3. ReportsItsScan'
  BY <1>1, <1>2, TellingNothing DEF ClockTypes, Grows, scanner
<1>4. ClockTypes'
  BY <1>1, <1>2 DEF ClockTypes, PCs, scanner
<1>5. pc'[t] = "reading" /\ \A u \in Tasks \ {t} : Rests(u)
  BY <1>1, <1>2 DEF ClockTypes, Rests
<1>6. Excused(t) \/ \A s \in Servers : Covered(t, s)
  <2>1. mine[t] # 0 /\ (Excused(t) \/ \A s \in Servers : Coming(t, s))
    BY <1>1, <1>2 DEF Waits
  <2>2. sweep = mine[t] => Excused(t)
    BY <1>1, <1>2, <2>1 DEF SweepHasScan, Excused
  <2>. QED  BY <2>1, <2>2 DEF Coming
<1>7. Reads(t)'
  BY <1>2, <1>6 DEF Reads, Excused, Covered, scanner
<1>8. Waits(t)' /\ Tells(t)'
  BY <1>5 DEF Waits, Tells
<1>. QED  BY <1>2, <1>3, <1>4, <1>5, <1>7, <1>8, OneMoves

(* What it reads back since it began misses a result of its scan only if   *)
(* its stamp is out of reach, and takes in none that is older than the     *)
(* clocks are apart.                                                       *)
LEMMA ReadResultsEvidence ==
  ASSUME Evidence, NEW t \in Tasks, ReadResults(t)
  PROVE  Evidence'
<1>1. ClockTypes /\ RowsAreStamped /\ ReportsItsScan /\ Reads(t)
  BY DEF Evidence
<1>2. UNCHANGED <<now, scanner, told, purged>> /\ pc[t] = "reading"
  BY DEF ReadResults
<1>3. CASE Retry(t)
  BY <1>2, <1>3, ReturnKeeps DEF Retry
<1>4. CASE /\ found' = [found EXCEPT ![t] = ResultsByURL(t)]
           /\ until' = [until EXCEPT ![t] = now]
           /\ pc' = [pc EXCEPT ![t] = "telling"]
           /\ UNCHANGED <<before, mine>>
  <2>1. /\ pc'[t] = "telling" /\ found'[t] = ResultsByURL(t) /\ until'[t] = now
        /\ \A u \in Tasks \ {t} : Rests(u)
    BY <1>1, <1>4 DEF ClockTypes, Rests
  <2>2. ClockTypes'
    BY <1>1, <1>2, <1>4 DEF ClockTypes, PCs, scanner
  <2>3. ReportsItsScan'
    BY <1>1, <1>2, TellingNothing DEF ClockTypes, Grows, scanner
  <2>4. before[t] \in Nat /\ now \in Nat
    BY <1>1 DEF ClockTypes
  <2>5. \A r \in found'[t] : \E skew \in Skews : before[t] <= r.checkedAt + skew
    <3>. SUFFICES ASSUME NEW r \in results, before[t] <= r.scannedAt
                  PROVE  \E skew \in Skews : before[t] <= r.checkedAt + skew
      BY <2>1 DEF ResultsByURL
    <3>1. PICK skew \in Skews : r.scannedAt = Unix(r.checkedAt + skew)
      BY <1>1 DEF RowsAreStamped
    <3>2. r.checkedAt + skew \in Int
      BY <1>1 DEF RowsAreStamped
    <3>3. r.scannedAt \in Int /\ r.scannedAt <= r.checkedAt + skew
      BY <3>1, <3>2, UnixBefore
    <3>. QED  BY <2>4, <3>2, <3>3
  <2>6. ASSUME ~Excused(t), NEW s \in Servers
        PROVE  \E r \in results :
                 /\ r.sweep = mine[t] /\ r.url = UrlOf(t) /\ r.server = s
                 /\ r \in found'[t] \/ OutOfReach(r, before[t], now)
    <3>1. PICK r \in results :
            /\ r.sweep = mine[t] /\ r.url = UrlOf(t) /\ r.server = s
            /\ before[t] <= r.checkedAt /\ r.checkedAt <= now
      BY <1>1, <1>2, <2>6 DEF Reads, Covered
    <3>2. PICK skew \in Skews : r.scannedAt = Unix(r.checkedAt + skew)
      BY <1>1 DEF RowsAreStamped
    <3>3. r.scannedAt \in Int
      <4>1. r.checkedAt + skew \in Int
        BY <1>1 DEF RowsAreStamped
      <4>. QED  BY <3>2, <4>1, UnixBefore
    <3>4. CASE before[t] <= r.scannedAt /\ r.scannedAt <= now
      <4>1. r \in found'[t]
        BY <2>1, <3>1, <3>4 DEF ResultsByURL
      <4>. QED  BY <3>1, <4>1
    <3>5. CASE ~(before[t] <= r.scannedAt /\ r.scannedAt <= now)
      <4>1. OutOfReach(r, before[t], now)
        BY <2>4, <3>1, <3>2, <3>3, <3>5 DEF OutOfReach
      <4>. QED  BY <3>1, <4>1
    <3>. QED  BY <3>4, <3>5
  <2>7. Tells(t)'
    <3>1. UNCHANGED <<results, cut, purged>> /\ before' = before /\ mine' = mine
      BY <1>2, <1>4 DEF scanner
    <3>2. Excused(t)' = Excused(t)
      BY <3>1 DEF Excused
    <3>. QED  BY <2>1, <2>5, <2>6, <3>1, <3>2 DEF Tells, OutOfReach, Unix
  <2>8. Waits(t)' /\ Reads(t)'
    BY <2>1 DEF Waits, Reads
  <2>. QED  BY <1>2, <2>1, <2>2, <2>3, <2>7, <2>8, OneMoves
<1>. QED  BY <1>3, <1>4 DEF ReadResults

LEMMA CreateNotificationEvidence ==
  ASSUME Evidence, NEW t \in Tasks,
         CreateNotification(t) \/ CreateNotificationUnheard(t)
  PROVE  Evidence'
<1>1. ClockTypes
  BY DEF Evidence
<1>2. /\ UNCHANGED <<now, scanner, purged>>
      /\ pc[t] = "telling" /\ told' = told \cup {Note(t)}
  BY DEF CreateNotification, CreateNotificationUnheard
<1>3. ReportsItsScan'
  BY <1>2, TellingKeeps
<1>4. CASE CreateNotification(t)
  <2>1. UNCHANGED <<before, mine, until, found>> /\ pc' = [pc EXCEPT ![t] = "told"]
    BY <1>4 DEF CreateNotification
  <2>2. ClockTypes' /\ pc'[t] = "told" /\ \A u \in Tasks \ {t} : Rests(u)
    BY <1>1, <1>2, <2>1 DEF ClockTypes, PCs, scanner, Rests
  <2>3. Waits(t)' /\ Reads(t)' /\ Tells(t)'
    BY <2>2 DEF Waits, Reads, Tells
  <2>. QED  BY <1>2, <1>3, <2>2, <2>3, OneMoves
<1>5. CASE CreateNotificationUnheard(t)
  BY <1>2, <1>3, <1>5, ReturnMoves DEF CreateNotificationUnheard, Retry
<1>. QED  BY <1>4, <1>5

(* A scan begins: the crawler takes all its checks, or the scan is cut.    *)
LEMMA StartKeepsSweep ==
  ASSUME Evidence, NEW checks, StartScan(checks), UNCHANGED <<now, results, purged>>
  PROVE  /\ Grows /\ SweepHasScan' /\ scans' \in Nat /\ scans' # 0
         /\ (sweep' = scans' /\ left' = checks) \/ scans' \in cut'
         /\ \A t \in Tasks, s \in Servers :
              sweep = mine[t] /\ <<UrlOf(t), s>> \in left =>
                (sweep' = sweep /\ left' = left) \/ mine[t] = 0
<1>1. /\ ClockTypes /\ SweepHasScan
      /\ scan = 0 /\ scans' = scans + 1 /\ scan' = scans'
  BY DEF Evidence, StartScan
<1>2. scans' \in Nat /\ scans' # 0
  BY <1>1 DEF ClockTypes
<1>3. CASE sweep = 0
  <2>1. sweep' = scans' /\ left' = checks /\ cut' = cut
    BY <1>3 DEF StartScan
  <2>. QED  BY <1>1, <1>2, <1>3, <2>1 DEF Grows, SweepHasScan, ClockTypes
<1>4. CASE sweep # 0
  <2>1. cut' = cut \cup {scans'} /\ sweep' = sweep /\ left' = left
    BY <1>4 DEF StartScan
  <2>. QED  BY <1>1, <1>2, <1>4, <2>1 DEF Grows, SweepHasScan, ClockTypes
<1>. QED  BY <1>3, <1>4

LEMMA OtherScanEvidence ==
  ASSUME Evidence, OtherScan
  PROVE  Evidence'
<1>1. /\ StartScan(Urls \X Servers)
      /\ UNCHANGED <<now, results, purged, pc, before, mine, until, found, told>>
  BY DEF OtherScan, handler
<1>2. /\ Grows /\ SweepHasScan' /\ scans' \in Nat
      /\ \A t \in Tasks, s \in Servers :
           sweep = mine[t] /\ <<UrlOf(t), s>> \in left =>
             (sweep' = sweep /\ left' = left) \/ mine[t] = 0
  BY <1>1, StartKeepsSweep
<1>3. ClockTypes' /\ now' \in Nat /\ \A t \in Tasks : Rests(t)
  BY <1>1, <1>2 DEF Evidence, ClockTypes, Rests
<1>4. RowsAreStamped'
  BY <1>1 DEF Evidence, RowsAreStamped, Unix
<1>5. \A t \in Tasks, s \in Servers :
        sweep = mine[t] /\ <<UrlOf(t), s>> \in left => Coming(t, s)' \/ mine[t] = 0
  BY <1>1, <1>2 DEF Coming
<1>. QED  BY <1>1, <1>2, <1>3, <1>4, <1>5, AllRest DEF Evidence

(* The handler's own scan begins: all servers have still to come.          *)
LEMMA TriggerEvidence ==
  ASSUME Evidence, NEW t \in Tasks, Trigger(t)
  PROVE  Evidence'
<1>1. /\ StartScan({UrlOf(t)} \X Servers)
      /\ UNCHANGED <<now, results, purged, before, until, found, told>>
      /\ mine' = [mine EXCEPT ![t] = scans']
      /\ pc' = [pc EXCEPT ![t] = "waiting"]
  BY DEF Trigger
<1>2. /\ Grows /\ SweepHasScan' /\ scans' \in Nat /\ scans' # 0
      /\ (sweep' = scans' /\ left' = {UrlOf(t)} \X Servers) \/ scans' \in cut'
      /\ \A u \in Tasks, s \in Servers :
           sweep = mine[u] /\ <<UrlOf(u), s>> \in left =>
             (sweep' = sweep /\ left' = left) \/ mine[u] = 0
  BY <1>1, StartKeepsSweep
<1>3. /\ ClockTypes /\ RowsAreStamped /\ ReportsItsScan
      /\ \A u \in Tasks : Waits(u) /\ Reads(u) /\ Tells(u)
  BY DEF Evidence
<1>4. ClockTypes' /\ now' \in Nat /\ RowsAreStamped'
  BY <1>1, <1>2, <1>3 DEF ClockTypes, PCs, RowsAreStamped, Unix
<1>5. /\ pc'[t] = "waiting" /\ mine'[t] = scans'
      /\ \A u \in Tasks \ {t} : Rests(u)
  BY <1>1, <1>3 DEF ClockTypes, Rests
<1>6. ReportsItsScan'
  BY <1>1, <1>2, <1>3, TellingNothing
<1>7. Waits(t)' /\ Reads(t)' /\ Tells(t)'
  <2>1. Excused(t)' \/ \A s \in Servers : Coming(t, s)'
    BY <1>2, <1>5 DEF Excused, Coming
  <2>. QED  BY <1>2, <1>5, <2>1 DEF Waits, Reads, Tells
<1>8. ASSUME NEW u \in Tasks \ {t} PROVE Waits(u)' /\ Reads(u)' /\ Tells(u)'
  <2>1. \A s \in Servers : sweep = mine[u] /\ <<UrlOf(u), s>> \in left =>
                             Coming(u, s)' \/ mine[u] = 0
    BY <1>2, <1>5 DEF Coming, Rests
  <2>. QED  BY <1>2, <1>3, <1>4, <1>5, <2>1, RestingWaits, RestingReads, RestingTells
<1>. QED  BY <1>2, <1>4, <1>6, <1>7, <1>8 DEF Evidence

LEMMA HandlerEvidence ==
  ASSUME Evidence, NEW t \in Tasks,
         HandlerStep(t) \/ CreateNotificationUnheard(t) \/ HandlerFails(t)
  PROVE  Evidence'
<1>1. CASE TriggerBusy(t) \/ CreateNotificationFails(t) \/ HandlerFails(t)
  BY <1>1, ReturnKeeps DEF TriggerBusy, CreateNotificationFails, HandlerFails, Retry
<1>2. CASE TaskDone(t)
  BY <1>2, ReturnKeeps DEF TaskDone
<1>. QED
  BY <1>1, <1>2, TakeTaskEvidence, TriggerEvidence, SeesNoScanEvidence,
     ReadResultsEvidence, CreateNotificationEvidence DEF HandlerStep

(* What a check stores.                                                    *)
LEMMA CheckStores ==
  ASSUME NEW u \in Urls, NEW s \in Servers, Check(u, s)
  PROVE  \E r : /\ results' = results \cup {r}
                /\ r.sweep = sweep /\ r.url = u /\ r.server = s /\ r.checkedAt = now
                /\ \E skew \in Skews : r.scannedAt = Unix(now + skew)
<1>1. PICK v \in Verdicts, skew \in Skews :
        results' = results \cup
          {[sweep |-> sweep, run |-> ActiveScanRun, url |-> u, server |-> s,
            compliant |-> v, checkedAt |-> now, scannedAt |-> Unix(now + skew)]}
  BY DEF Check
<1> DEFINE r == [sweep |-> sweep, run |-> ActiveScanRun, url |-> u, server |-> s,
                 compliant |-> v, checkedAt |-> now, scannedAt |-> Unix(now + skew)]
<1>2. /\ results' = results \cup {r}
      /\ r.sweep = sweep /\ r.url = u /\ r.server = s /\ r.checkedAt = now
      /\ r.scannedAt = Unix(now + skew)
  BY <1>1
<1> HIDE DEF r
<1>. QED  BY <1>2

(* The crawler comes to a check: its result covers the tasks that wait.    *)
LEMMA CheckEvidence ==
  ASSUME Evidence, NEW u \in Urls, NEW s \in Servers, Check(u, s) \/ LoseCheck(u, s)
  PROVE  Evidence'
<1>1. /\ left' = left \ {<<u, s>>} /\ UNCHANGED <<now, scan, scans, sweep, purged>>
      /\ UNCHANGED <<pc, before, mine, until, found, told>>
      /\ cut \subseteq cut' /\ results \subseteq results'
  BY DEF Check, LoseCheck, handler
<1>2. /\ Grows /\ ClockTypes' /\ now' \in Nat /\ SweepHasScan'
      /\ \A t \in Tasks : Rests(t)
  BY <1>1 DEF Evidence, ClockTypes, Grows, SweepHasScan, Rests
<1>3. RowsAreStamped'
  <2>1. CASE LoseCheck(u, s)
    BY <2>1 DEF LoseCheck, Evidence, RowsAreStamped, Unix
  <2>2. CASE Check(u, s)
    <3>1. now \in Nat /\ RowsAreStamped
      BY DEF Evidence, ClockTypes
    <3>2. PICK r : /\ results' = results \cup {r} /\ r.checkedAt = now
                   /\ \E skew \in Skews : r.scannedAt = Unix(now + skew)
      BY <2>2, CheckStores
    <3>. QED  BY <3>1, <3>2 DEF RowsAreStamped, Unix
  <2>. QED  BY <2>1, <2>2
<1>4. ASSUME NEW t \in Tasks, NEW z \in Servers,
             sweep = mine[t], <<UrlOf(t), z>> \in left
      PROVE  Coming(t, z)' \/ Excused(t)'
  <2>1. CASE <<UrlOf(t), z>> # <<u, s>>
    BY <1>1, <1>4, <2>1 DEF Coming
  <2>2. CASE UrlOf(t) = u /\ z = s /\ LoseCheck(u, s)
    BY <1>1, <1>4, <2>2 DEF LoseCheck, Excused
  <2>3. CASE UrlOf(t) = u /\ z = s /\ Check(u, s)
    <3>1. PICK r : /\ results' = results \cup {r} /\ r.sweep = sweep
                   /\ r.url = u /\ r.server = s /\ r.checkedAt = now
      BY <2>3, CheckStores
    <3>2. now \in Nat /\ before[t] <= now
      BY DEF Evidence, ClockTypes
    <3>3. Covered(t, z)'
      BY <1>1, <1>4, <2>3, <3>1, <3>2 DEF Covered
    <3>. QED  BY <3>3 DEF Coming
  <2>. QED  BY <2>1, <2>2, <2>3
<1>5. told' = told
  BY <1>1
<1>. QED  BY <1>2, <1>3, <1>4, <1>5, AllRest DEF Evidence

(* The sweep ends with nothing left, or the scan ends after it.            *)
LEMMA EndsEvidence ==
  ASSUME Evidence, SweepEnds \/ ScanEnds \/ ScanCutShort
  PROVE  Evidence'
<1>1. UNCHANGED <<now, scans, left, results, purged, pc, before, mine, until, found, told>>
  BY DEF SweepEnds, ScanEnds, ScanCutShort, handler
<1>2. cut \subseteq cut' /\ ClockTypes /\ SweepHasScan
  BY DEF Evidence, SweepEnds, ScanEnds, ScanCutShort
<1>3. Grows /\ ClockTypes' /\ now' \in Nat /\ \A t \in Tasks : Rests(t)
  BY <1>1, <1>2 DEF ClockTypes, Grows, Rests
<1>4. SweepHasScan' /\ RowsAreStamped'
  <2>1. SweepHasScan'
    BY <1>2 DEF SweepHasScan, SweepEnds, ScanEnds, ScanCutShort
  <2>2. RowsAreStamped'
    BY <1>1 DEF Evidence, RowsAreStamped, Unix
  <2>. QED  BY <2>1, <2>2
<1>5. sweep' = sweep \/ left = {}
  BY DEF SweepEnds, ScanEnds, ScanCutShort
<1>6. \A t \in Tasks, s \in Servers :
        sweep = mine[t] /\ <<UrlOf(t), s>> \in left => Coming(t, s)'
  BY <1>1, <1>5 DEF Coming
<1>. QED  BY <1>1, <1>3, <1>4, <1>6, AllRest DEF Evidence

LEMMA RestartEvidence ==
  ASSUME Evidence, DashboardRestarts
  PROVE  Evidence'
<1>1. /\ pc' = [t \in Tasks |-> "idle"] /\ before' = [t \in Tasks |-> 0]
      /\ until' = [t \in Tasks |-> 0]
      /\ mine' = [t \in Tasks |-> 0] /\ found' = [t \in Tasks |-> {}]
      /\ scan' = 0 /\ cut' = (IF scan = 0 THEN cut ELSE cut \cup {scan})
      /\ UNCHANGED <<now, scans, sweep, results, told, purged>>
  BY DEF DashboardRestarts
<1>2. ClockTypes /\ SweepHasScan /\ ReportsItsScan
  BY DEF Evidence
<1>3. ClockTypes'
  BY <1>1, <1>2 DEF ClockTypes, PCs
<1>4. SweepHasScan' /\ RowsAreStamped'
  BY <1>1, <1>2 DEF Evidence, SweepHasScan, RowsAreStamped, Unix
<1>5. Grows
  BY <1>1, <1>2 DEF Grows, ClockTypes
<1>6. ReportsItsScan'
  BY <1>1, <1>2, <1>5, TellingNothing
<1>7. \A t \in Tasks : Waits(t)' /\ Reads(t)' /\ Tells(t)'
  BY <1>1 DEF Waits, Reads, Tells
<1>. QED  BY <1>3, <1>4, <1>6, <1>7 DEF Evidence

(* A domain is purged, or time passes, or nothing happens.                 *)
LEMMA IdleEvidence ==
  ASSUME Evidence, (\E u \in Urls : PurgeURL(u)) \/ Tick \/ UNCHANGED vars
  PROVE  Evidence'
<1>1. /\ UNCHANGED <<scan, scans, sweep, left, cut>>
      /\ UNCHANGED <<pc, before, mine, until, found, told>>
  BY DEF PurgeURL, Tick, vars, scanner, handler
<1>2. ClockTypes /\ SweepHasScan
  BY DEF Evidence
<1>3. now' \in Nat /\ now <= now'
  BY <1>2 DEF ClockTypes, PurgeURL, Tick, vars
<1>4. ClockTypes' /\ SweepHasScan' /\ \A t \in Tasks : Rests(t)
  BY <1>1, <1>2, <1>3 DEF ClockTypes, SweepHasScan, Rests
<1>5. Grows
  <2>1. purged \subseteq purged' /\ \A r \in results : r \in results' \/ r.url \in purged'
    BY DEF PurgeURL, Tick, vars, scanner
  <2>. QED  BY <1>1, <1>3, <2>1 DEF Grows
<1>6. \A t \in Tasks, s \in Servers :
        sweep = mine[t] /\ <<UrlOf(t), s>> \in left => Coming(t, s)'
  BY <1>1 DEF Coming
<1>7. RowsAreStamped'
  <2>1. results' \subseteq results
    BY DEF PurgeURL, Tick, vars, scanner
  <2>. QED  BY <2>1 DEF Evidence, RowsAreStamped, Unix
<1>. QED  BY <1>1, <1>3, <1>4, <1>5, <1>6, <1>7, AllRest DEF Evidence

LEMMA EvidenceSteps == ASSUME Evidence, [Next]_vars PROVE Evidence'
<1>1. CASE \E t \in Tasks :
             HandlerStep(t) \/ CreateNotificationUnheard(t) \/ HandlerFails(t)
  BY <1>1, HandlerEvidence
<1>2. CASE OtherScan
  BY <1>2, OtherScanEvidence
<1>3. CASE \E u \in Urls, s \in Servers : Check(u, s) \/ LoseCheck(u, s)
  BY <1>3, CheckEvidence
<1>4. CASE SweepEnds \/ ScanEnds \/ ScanCutShort
  BY <1>4, EndsEvidence
<1>5. CASE DashboardRestarts
  BY <1>5, RestartEvidence
<1>6. CASE (\E u \in Urls : PurgeURL(u)) \/ Tick \/ UNCHANGED vars
  BY <1>6, IdleEvidence
<1>. QED  BY <1>1, <1>2, <1>3, <1>4, <1>5, <1>6 DEF Next, CrawlerStep

LEMMA EvidenceAtFirst == ASSUME Init PROVE Evidence
<1>1. ClockTypes
  BY DEF Init, ClockTypes, PCs
<1>2. SweepHasScan /\ RowsAreStamped /\ ReportsItsScan
  BY DEF Init, SweepHasScan, RowsAreStamped, ReportsItsScan
<1>3. \A t \in Tasks : Waits(t) /\ Reads(t) /\ Tells(t)
  BY DEF Init, Waits, Reads, Tells
<1>. QED  BY <1>1, <1>2, <1>3 DEF Evidence

(* However the crawler's clock runs, a verdict rests on every server of    *)
(* the handler's own scan, but for those checked so near to the handler's  *)
(* beginning or reading that the stamp may lie outside, and those whose    *)
(* results were cut short, lost or deleted; and it rests on no check that  *)
(* came before the handler by more than the clocks are apart.              *)
THEOREM VerdictsRestOnTheScan == Spec => []ReportsItsScan
<1>1. Evidence => ReportsItsScan
  BY DEF Evidence
<1>. QED  BY <1>1, EvidenceAtFirst, EvidenceSteps, PTL DEF Spec

----------------------------------------------------------------------------
(* Every scan is one of the bounded number that there can be.              *)

(* A set of numbers that is not empty has a least one.                     *)
LEMMA LeastOf ==
  ASSUME NEW T, T \subseteq Nat, T # {}
  PROVE  \E x \in T : \A y \in T : x <= y
<1> DEFINE R == {ss \in Nat \X Nat : ss[1] < ss[2]}
<1>1. IsWellFoundedOn(R, Nat)
  BY NatLessThanWellFounded DEF OpToRel
<1> HIDE DEF R
<1>2. PICK x \in T : \A y \in T : ~ (<<y, x>> \in R)
  BY <1>1, WFMin
<1>3. \A y \in T : ~(y < x)
  BY <1>2 DEF R
<1>. QED  BY <1>3

(* The run a result is filed under is one that is open.                    *)
LEMMA ActiveRunIsOpen ==
  ASSUME openRuns \subseteq Scans
  PROVE  ActiveScanRun \in Scans \cup {0}
<1>1. CASE openRuns = {}
  BY <1>1 DEF ActiveScanRun
<1>2. CASE openRuns # {}
  <2>1. openRuns \subseteq Nat
    BY DEF Scans
  <2>2. \E r \in openRuns : \A q \in openRuns : r <= q
    BY <1>2, <2>1, LeastOf
  <2>3. ActiveScanRun \in openRuns
    BY <1>2, <2>2 DEF ActiveScanRun
  <2>. QED  BY <2>3
<1>. QED  BY <1>1, <1>2

(* How many tries there can be.                                            *)
LEMMA TriesAreFew ==
  /\ IsFiniteSet(Tries) /\ IsFiniteSet(Tries')
  /\ Cardinality(Tasks) \in Nat
  /\ Cardinality(Tries) \in Nat /\ Cardinality(Tries') \in Nat
  /\ Cardinality(Tries) <= (MaxRetry + 1) * Cardinality(Tasks)
  /\ Cardinality(Tries') <= (MaxRetry + 1) * Cardinality(Tasks)
<1> DEFINE all == Tasks \X (0..MaxRetry)
<1>1. IsFiniteSet(Tasks) /\ Cardinality(Tasks) \in Nat
  BY DataAssumption, FS_Product, FS_CardinalityType DEF Tasks
<1>2. IsFiniteSet(0..MaxRetry) /\ Cardinality(0..MaxRetry) = MaxRetry + 1
  BY FS_Interval
<1>3. IsFiniteSet(all) /\ Cardinality(all) = Cardinality(Tasks) * (MaxRetry + 1)
  BY <1>1, <1>2, FS_Product
<1>4. Tries \in SUBSET all /\ Tries' \in SUBSET all
  BY DEF Tries
<1> HIDE DEF all
<1>5. /\ IsFiniteSet(Tries) /\ Cardinality(Tries) <= Cardinality(all)
      /\ IsFiniteSet(Tries') /\ Cardinality(Tries') <= Cardinality(all)
  BY <1>3, <1>4, FS_Subset
<1>6. Cardinality(Tasks) * (MaxRetry + 1) = (MaxRetry + 1) * Cardinality(Tasks)
  BY <1>1
<1>. QED  BY <1>1, <1>3, <1>5, <1>6, FS_CardinalityType

(* No try is taken back.                                                   *)
LEMMA TriesGrow ==
  ASSUME retried \in [Tasks -> 0..MaxRetry], retried' \in [Tasks -> 0..MaxRetry],
         \A t \in Tasks : \/ retried[t] < retried'[t]
                          \/ retried[t] = retried'[t] /\ (Spent(t) => Spent(t)')
  PROVE  Tries \subseteq Tries'
<1> SUFFICES ASSUME NEW t \in Tasks, NEW i \in 0..MaxRetry,
                    i < retried[t] \/ (i = retried[t] /\ Spent(t))
             PROVE  i < retried'[t] \/ (i = retried'[t] /\ Spent(t)')
  BY DEF Tries
<1>1. retried[t] \in Nat /\ retried'[t] \in Nat
  OBVIOUS
<1>. QED  BY <1>1

LEMMA NoNewScan ==
  ASSUME TypeOK, ScansAreCounted, Tries \subseteq Tries',
         UNCHANGED <<scans, othersLeft>>
  PROVE  ScansAreCounted'
<1>1. /\ IsFiniteSet(Tries') /\ Tries \in SUBSET Tries'
      /\ Cardinality(Tries) \in Nat /\ Cardinality(Tries') \in Nat
  BY TriesAreFew
<1>2. Cardinality(Tries) <= Cardinality(Tries')
  BY <1>1, FS_Subset
<1>3. scans \in Nat /\ othersLeft \in Nat
  BY DEF TypeOK, Scans
<1>. QED  BY <1>1, <1>2, <1>3 DEF ScansAreCounted

(* A scan more than the tries and the other scans that were used would be  *)
(* one too many.                                                           *)
LEMMA ScanHasNumber ==
  ASSUME ScansAreCounted', scans' \in Nat \ {0}, othersLeft' \in 0..OtherScans
  PROVE  scans' \in Scans
<1>1. /\ Cardinality(Tries') \in Nat /\ Cardinality(Tasks) \in Nat
      /\ Cardinality(Tries') <= (MaxRetry + 1) * Cardinality(Tasks)
  BY TriesAreFew
<1>2. (MaxRetry + 1) * Cardinality(Tasks) \in Nat
  BY <1>1
<1> DEFINE most == (MaxRetry + 1) * Cardinality(Tasks)
<1>3. scans' <= OtherScans + most
  <2> HIDE DEF most
  <2>. QED  BY <1>1, <1>2 DEF ScansAreCounted, most
<1>. QED  BY <1>2, <1>3 DEF Scans

----------------------------------------------------------------------------
(* The types, step by step.                                                *)

ScannerTypes ==
  /\ now \in 0..MaxTime
  /\ scan \in Scans \cup {0} /\ scans \in Scans \cup {0} /\ openRuns \subseteq Scans
  /\ sweep \in Scans \cup {0} /\ left \subseteq Urls \X Servers
  /\ results \subseteq Results /\ cut \subseteq Scans /\ purged \subseteq Urls
  /\ othersLeft \in 0..OtherScans /\ faultsLeft \in 0..FaultBudget
  /\ left # {} => sweep # 0

HandlerTypes ==
  /\ queue \in [Tasks -> QueueStates] /\ retried \in [Tasks -> 0..MaxRetry]
  /\ pc \in [Tasks -> PCs] /\ before \in [Tasks -> 0..MaxTime]
  /\ until \in [Tasks -> 0..MaxTime]
  /\ mine \in [Tasks -> Scans \cup {0}] /\ found \in [Tasks -> SUBSET Results]

ToldTypes ==
  \A n \in told : n.task \in Tasks /\ n.scan \in Scans /\ n.found \subseteq Results

LEMMA CountedParts ==
  /\ Counted <=> /\ ScannerTypes /\ HandlerTypes /\ ToldTypes
                 /\ brokenOff \in [Tasks -> 0..FaultBudget]
                 /\ ActiveHasHandler /\ ScansAreCounted /\ BreaksAreCounted
                 /\ \A t \in Tasks : HasScan(t)
  /\ Counted' <=> /\ ScannerTypes' /\ HandlerTypes' /\ ToldTypes'
                  /\ brokenOff' \in [Tasks -> 0..FaultBudget]
                  /\ ActiveHasHandler' /\ ScansAreCounted' /\ BreaksAreCounted'
                  /\ \A t \in Tasks : HasScan(t)'
BY DEF Counted, TypeOK, ScannerTypes, HandlerTypes, ToldTypes

(* A step of the scanner, the crawler, an administrator or the clock.      *)
LEMMA ScannerMoves ==
  ASSUME Counted, UNCHANGED handler, UNCHANGED <<scans, othersLeft>>, ScannerTypes',
         faultsLeft' <= faultsLeft
  PROVE  Counted'
<1>1. UNCHANGED <<queue, retried, pc, before, mine, until, found, told, brokenOff>>
  BY DEF handler
<1>2. /\ ScannerTypes /\ HandlerTypes /\ ToldTypes /\ brokenOff \in [Tasks -> 0..FaultBudget]
      /\ ActiveHasHandler /\ ScansAreCounted /\ BreaksAreCounted
      /\ \A t \in Tasks : HasScan(t)
  BY CountedParts
<1>3. HandlerTypes' /\ ToldTypes' /\ ActiveHasHandler' /\ \A t \in Tasks : HasScan(t)'
  BY <1>1, <1>2 DEF HandlerTypes, ToldTypes, ActiveHasHandler, HasScan
<1>4. ScansAreCounted'
  BY <1>1, <1>2 DEF ScansAreCounted, Tries, Spent
<1>5. BreaksAreCounted'
  <2>1. faultsLeft \in Nat /\ faultsLeft' \in Nat
    BY <1>2 DEF ScannerTypes
  <2>2. \A t \in Tasks : brokenOff[t] \in Nat
    BY <1>2
  <2>. QED  BY <1>1, <1>2, <2>1, <2>2 DEF BreaksAreCounted
<1>. QED  BY <1>1, <1>2, <1>3, <1>4, <1>5, CountedParts

LEMMA ScannerStepCounted ==
  ASSUME Counted,
         \/ \E u \in Urls, s \in Servers : Check(u, s) \/ LoseCheck(u, s)
         \/ SweepEnds \/ ScanEnds \/ ScanCutShort
         \/ \E u \in Urls : PurgeURL(u)
         \/ Tick \/ UNCHANGED vars
  PROVE  Counted'
<1>0. ScannerTypes
  BY CountedParts
<1>1. ASSUME NEW u \in Urls, NEW s \in Servers, Check(u, s)
      PROVE  Counted'
  <2>1. PICK v \in Verdicts, skew \in Skews :
          results' = results \cup
            {[sweep |-> sweep, run |-> ActiveScanRun, url |-> u, server |-> s,
              compliant |-> v, checkedAt |-> now, scannedAt |-> Unix(now + skew)]}
    BY <1>1 DEF Check
  <2>2. sweep \in Scans /\ now \in 0..MaxTime
    BY <1>0, <1>1 DEF Check, ScannerTypes
  <2>3. ActiveScanRun \in Scans \cup {0}
    BY <1>0, ActiveRunIsOpen DEF ScannerTypes
  <2>4. Unix(now + skew) \in {Unix(tick + k) : tick \in 0..MaxTime, k \in Skews}
    BY <2>2
  <2>5. results' \subseteq Results
    BY <1>0, <2>1, <2>2, <2>3, <2>4 DEF Results, ScannerTypes
  <2>6. ScannerTypes' /\ faultsLeft' <= faultsLeft
    BY <1>0, <1>1, <2>5 DEF Check, ScannerTypes
  <2>. QED  BY <1>1, <2>6, ScannerMoves DEF Check
<1>2. ASSUME NEW u \in Urls, NEW s \in Servers, LoseCheck(u, s)
      PROVE  Counted'
  <2>1. sweep \in Scans
    BY <1>0, <1>2 DEF LoseCheck, ScannerTypes
  <2>2. ScannerTypes' /\ faultsLeft' <= faultsLeft
    BY <1>0, <1>2, <2>1 DEF LoseCheck, Fault, ScannerTypes
  <2>. QED  BY <1>2, <2>2, ScannerMoves DEF LoseCheck
<1>3. CASE SweepEnds \/ ScanEnds
  <2>1. ScannerTypes' /\ faultsLeft' <= faultsLeft
    BY <1>0, <1>3 DEF SweepEnds, ScanEnds, ScannerTypes
  <2>. QED  BY <1>3, <2>1, ScannerMoves DEF SweepEnds, ScanEnds
<1>4. CASE ScanCutShort
  <2>1. ScannerTypes' /\ faultsLeft' <= faultsLeft
    BY <1>0, <1>4 DEF ScanCutShort, Fault, ScannerTypes
  <2>. QED  BY <1>4, <2>1, ScannerMoves DEF ScanCutShort
<1>5. ASSUME NEW u \in Urls, PurgeURL(u) PROVE Counted'
  <2>1. ScannerTypes' /\ faultsLeft' <= faultsLeft
    BY <1>0, <1>5 DEF PurgeURL, ScannerTypes
  <2>. QED  BY <1>5, <2>1, ScannerMoves DEF PurgeURL
<1>6. CASE Tick \/ UNCHANGED vars
  <2>1. ScannerTypes' /\ faultsLeft' <= faultsLeft
    BY <1>0, <1>6 DEF Tick, vars, scanner, ScannerTypes
  <2>. QED  BY <1>6, <2>1, ScannerMoves DEF Tick, vars, scanner
<1>. QED  BY <1>1, <1>2, <1>3, <1>4, <1>5, <1>6

(* A handler goes on: it gives back no try, and starts no scan.            *)
LEMMA HandlerGoesOn ==
  ASSUME Counted, Bookkeeping', NEW t \in Tasks,
         UNCHANGED <<now, scanner, purged, othersLeft>>,
         faultsLeft' \in 0..FaultBudget,
         brokenOff' \in [Tasks -> 0..FaultBudget], BreaksAreCounted',
         HandlerTypes', ToldTypes',
         \A u \in Tasks \ {t} : /\ queue'[u] = queue[u] /\ retried'[u] = retried[u]
                                /\ pc'[u] = pc[u] /\ mine'[u] = mine[u],
         retried[t] < retried'[t] \/ (retried[t] = retried'[t] /\ (Spent(t) => Spent(t)')),
         HasScan(t)'
  PROVE  Counted'
<1>1. /\ ScannerTypes /\ HandlerTypes /\ ScansAreCounted /\ TypeOK
      /\ \A u \in Tasks : HasScan(u)
  BY CountedParts DEF Counted
<1>2. ScannerTypes'
  BY <1>1 DEF ScannerTypes, scanner
<1>3. ActiveHasHandler'
  BY DEF Bookkeeping
<1>4. Tries \subseteq Tries'
  <2>1. \A u \in Tasks \ {t} : Spent(u) => Spent(u)'
    BY DEF Spent
  <2>. QED  BY <1>1, <2>1, TriesGrow DEF HandlerTypes
<1>5. ScansAreCounted'
  BY <1>1, <1>4, NoNewScan DEF scanner
<1>6. \A u \in Tasks : HasScan(u)'
  BY <1>1 DEF HasScan
<1>. QED  BY <1>2, <1>3, <1>5, <1>6, CountedParts

(* Faults that broke no handler off.                                       *)
LEMMA NothingBrokeOff ==
  ASSUME Counted, brokenOff' = brokenOff,
         faultsLeft' \in 0..FaultBudget, faultsLeft' <= faultsLeft
  PROVE  brokenOff' \in [Tasks -> 0..FaultBudget] /\ BreaksAreCounted'
<1>1. ScannerTypes /\ brokenOff \in [Tasks -> 0..FaultBudget] /\ BreaksAreCounted
  BY CountedParts
<1>2. faultsLeft \in Nat /\ faultsLeft' \in Nat /\ \A u \in Tasks : brokenOff[u] \in Nat
  BY <1>1 DEF ScannerTypes
<1>. QED  BY <1>1, <1>2 DEF BreaksAreCounted

LEMMA HandlerMoves ==
  ASSUME Counted, Bookkeeping', NEW t \in Tasks,
         UNCHANGED <<now, scanner, brokenOff, purged, othersLeft>>,
         faultsLeft' \in 0..FaultBudget, faultsLeft' <= faultsLeft,
         HandlerTypes', ToldTypes',
         \A u \in Tasks \ {t} : /\ queue'[u] = queue[u] /\ retried'[u] = retried[u]
                                /\ pc'[u] = pc[u] /\ mine'[u] = mine[u],
         retried[t] < retried'[t] \/ (retried[t] = retried'[t] /\ (Spent(t) => Spent(t)')),
         HasScan(t)'
  PROVE  Counted'
BY HandlerGoesOn, NothingBrokeOff

(* An error return: the try is spent, or the next one begins.              *)
LEMMA RetryMoves ==
  ASSUME Counted, Bookkeeping', NEW t \in Tasks, Retry(t),
         UNCHANGED <<now, scanner, purged, othersLeft>>,
         faultsLeft' \in 0..FaultBudget, ToldTypes',
         brokenOff' \in [Tasks -> 0..FaultBudget], BreaksAreCounted'
  PROVE  Counted'
<1>1. HandlerTypes
  BY CountedParts
<1>2. /\ pc' = [pc EXCEPT ![t] = "idle"] /\ before' = [before EXCEPT ![t] = 0]
      /\ until' = [until EXCEPT ![t] = 0]
      /\ mine' = [mine EXCEPT ![t] = 0] /\ found' = [found EXCEPT ![t] = {}]
  BY DEF Retry, Return
<1>3. \/ /\ retried[t] < MaxRetry /\ retried' = [retried EXCEPT ![t] = @ + 1]
         /\ queue' = [queue EXCEPT ![t] = "retry"]
      \/ retried' = retried /\ queue' = [queue EXCEPT ![t] = "archived"]
  BY DEF Retry
<1>4. HandlerTypes'
  <2>1. queue' \in [Tasks -> QueueStates]
    BY <1>1, <1>3 DEF HandlerTypes, QueueStates
  <2>2. retried' \in [Tasks -> 0..MaxRetry]
    BY <1>1, <1>3 DEF HandlerTypes
  <2>3. /\ pc' \in [Tasks -> PCs] /\ before' \in [Tasks -> 0..MaxTime]
        /\ until' \in [Tasks -> 0..MaxTime]
        /\ mine' \in [Tasks -> Scans \cup {0}] /\ found' \in [Tasks -> SUBSET Results]
    BY <1>1, <1>2 DEF HandlerTypes, PCs
  <2>. QED  BY <2>1, <2>2, <2>3 DEF HandlerTypes
<1>5. \A u \in Tasks \ {t} : /\ queue'[u] = queue[u] /\ retried'[u] = retried[u]
                             /\ pc'[u] = pc[u] /\ mine'[u] = mine[u]
  BY <1>1, <1>2, <1>3 DEF HandlerTypes
<1>6. retried[t] < retried'[t] \/ (retried[t] = retried'[t] /\ Spent(t)')
  BY <1>1, <1>3 DEF HandlerTypes, Spent
<1>7. HasScan(t)'
  BY <1>1, <1>2 DEF HasScan, HandlerTypes
<1>. QED  BY <1>4, <1>5, <1>6, <1>7, HandlerGoesOn

LEMMA RetryCounted ==
  ASSUME Counted, Bookkeeping, Bookkeeping', NEW t \in Tasks, Retry(t),
         UNCHANGED <<now, scanner, told, brokenOff, purged, othersLeft>>,
         faultsLeft' \in 0..FaultBudget, faultsLeft' <= faultsLeft
  PROVE  Counted'
<1>1. ToldTypes'
  BY CountedParts DEF ToldTypes
<1>. QED  BY <1>1, NothingBrokeOff, RetryMoves

(* What a handler stores is of the right type.                             *)
LEMMA NoteTyped ==
  ASSUME Counted, NEW t \in Tasks, pc[t] = "telling", told' = told \cup {Note(t)}
  PROVE  ToldTypes'
<1>1. HandlerTypes /\ ToldTypes /\ HasScan(t)
  BY CountedParts
<1> DEFINE n == Note(t)
<1>2. n.task = t /\ n.scan = mine[t] /\ n.found = found[t] /\ told' = told \cup {n}
  BY DEF Note
<1> HIDE DEF n
<1>3. mine[t] \in Scans /\ found[t] \subseteq Results
  BY <1>1 DEF HasScan, HandlerTypes
<1>. QED  BY <1>1, <1>2, <1>3 DEF ToldTypes

LEMMA UnheardCounted ==
  ASSUME Counted, Bookkeeping', NEW t \in Tasks, CreateNotificationUnheard(t)
  PROVE  Counted'
<1>1. /\ ScannerTypes /\ brokenOff \in [Tasks -> 0..FaultBudget] /\ BreaksAreCounted
  BY CountedParts
<1>2. /\ pc[t] = "telling" /\ Retry(t) /\ told' = told \cup {Note(t)}
      /\ brokenOff' = [brokenOff EXCEPT ![t] = @ + 1]
      /\ faultsLeft > 0 /\ faultsLeft' = faultsLeft - 1
      /\ UNCHANGED <<now, scanner, purged, othersLeft>>
  BY DEF CreateNotificationUnheard, Fault
<1>3. ToldTypes'
  BY <1>2, NoteTyped
<1>4. faultsLeft \in Nat /\ faultsLeft' \in 0..FaultBudget
  BY <1>1, <1>2 DEF ScannerTypes
<1>5. \A u \in Tasks : brokenOff[u] \in Nat
  BY <1>1
<1>6. BreaksAreCounted' /\ brokenOff' \in [Tasks -> 0..FaultBudget]
  <2>1. \A u \in Tasks : brokenOff'[u] \in Nat /\ brokenOff'[u] + faultsLeft' <= FaultBudget
    BY <1>1, <1>2, <1>4, <1>5 DEF BreaksAreCounted
  <2>2. \A u \in Tasks : brokenOff'[u] \in 0..FaultBudget
    BY <1>4, <2>1
  <2>. QED  BY <1>1, <1>2, <2>1, <2>2 DEF BreaksAreCounted
<1>. QED  BY <1>2, <1>3, <1>4, <1>6, RetryMoves

(* The handler's scan begins: it is the one that its try has coming.       *)
LEMMA TriggerCounted ==
  ASSUME Counted, Bookkeeping, Bookkeeping', NEW t \in Tasks, Trigger(t)
  PROVE  Counted'
<1>1. /\ ScannerTypes /\ HandlerTypes /\ ToldTypes
      /\ brokenOff \in [Tasks -> 0..FaultBudget]
      /\ ScansAreCounted /\ BreaksAreCounted /\ \A u \in Tasks : HasScan(u)
  BY CountedParts
<1>2. /\ StartScan({UrlOf(t)} \X Servers) /\ pc[t] = "triggering"
      /\ mine' = [mine EXCEPT ![t] = scans'] /\ pc' = [pc EXCEPT ![t] = "waiting"]
      /\ UNCHANGED <<now, results, queue, retried, before, until, found, told, brokenOff,
                     purged, othersLeft, faultsLeft>>
  BY DEF Trigger
<1>3. scans' = scans + 1 /\ scans \in Nat /\ scans' \in Nat \ {0}
  BY <1>1, <1>2 DEF StartScan, ScannerTypes, Scans
<1> DEFINE try == <<t, retried[t]>>
<1>4. ScansAreCounted'
  <2>1. queue[t] = "active"
    BY <1>2 DEF Bookkeeping, ActiveHasHandler
  <2>2. ~Spent(t)
    BY <1>2, <2>1 DEF Spent
  <2>3. retried[t] \in 0..MaxRetry /\ retried[t] \in Nat
    BY <1>1 DEF HandlerTypes
  <2>4. try \notin Tries
    BY <2>2, <2>3 DEF Tries
  <2>5. pc'[t] = "waiting" /\ \A u \in Tasks : Spent(u) => Spent(u)'
    BY <1>1, <1>2 DEF Spent, HandlerTypes
  <2>6. Tries \subseteq Tries'
    BY <1>1, <1>2, <2>5, TriesGrow DEF HandlerTypes
  <2>7. try \in Tries'
    BY <1>2, <2>3, <2>5 DEF Tries, Spent
  <2> HIDE DEF try
  <2>8. /\ IsFiniteSet(Tries) /\ IsFiniteSet(Tries')
        /\ Cardinality(Tries) \in Nat /\ Cardinality(Tries') \in Nat
    BY TriesAreFew
  <2>9. Cardinality(Tries \cup {try}) = Cardinality(Tries) + 1
    BY <2>4, <2>8, FS_AddElement
  <2>10. Cardinality(Tries \cup {try}) <= Cardinality(Tries')
    <3>1. Tries \cup {try} \in SUBSET Tries'
      BY <2>6, <2>7
    <3>. QED  BY <2>8, <3>1, FS_Subset
  <2>11. othersLeft \in Nat
    BY <1>1 DEF ScannerTypes
  <2>. QED  BY <1>1, <1>2, <1>3, <2>8, <2>9, <2>10, <2>11 DEF ScansAreCounted
<1>5. scans' \in Scans
  BY <1>1, <1>2, <1>3, <1>4, ScanHasNumber DEF ScannerTypes
<1>6. ScannerTypes'
  <2>1. {UrlOf(t)} \X Servers \subseteq Urls \X Servers
    BY DEF UrlOf, Tasks
  <2>2. 0 \notin Scans
    BY DEF Scans
  <2>. QED  BY <1>1, <1>2, <1>5, <2>1, <2>2 DEF StartScan, ScannerTypes
<1>7. HandlerTypes' /\ ToldTypes'
  BY <1>1, <1>2, <1>5 DEF HandlerTypes, ToldTypes, PCs
<1>8. ActiveHasHandler' /\ BreaksAreCounted'
  BY <1>1, <1>2 DEF Bookkeeping, BreaksAreCounted
<1>9. \A u \in Tasks : HasScan(u)'
  BY <1>1, <1>2, <1>3 DEF HasScan, HandlerTypes
<1>. QED  BY <1>1, <1>2, <1>4, <1>6, <1>7, <1>8, <1>9, CountedParts

LEMMA OtherScanCounted ==
  ASSUME Counted, Bookkeeping', OtherScan
  PROVE  Counted'
<1>1. /\ ScannerTypes /\ HandlerTypes /\ ToldTypes
      /\ brokenOff \in [Tasks -> 0..FaultBudget]
      /\ ScansAreCounted /\ BreaksAreCounted /\ \A u \in Tasks : HasScan(u)
  BY CountedParts
<1>2. /\ StartScan(Urls \X Servers)
      /\ othersLeft > 0 /\ othersLeft' = othersLeft - 1
      /\ UNCHANGED <<now, results, purged, faultsLeft>>
      /\ UNCHANGED <<queue, retried, pc, before, mine, until, found, told, brokenOff>>
  BY DEF OtherScan, handler
<1>3. scans' = scans + 1 /\ scans \in Nat /\ scans' \in Nat \ {0}
  BY <1>1, <1>2 DEF StartScan, ScannerTypes, Scans
<1>4. othersLeft \in Nat /\ othersLeft' \in 0..OtherScans
  BY <1>1, <1>2 DEF ScannerTypes
<1>5. ScansAreCounted'
  <2>1. Tries' = Tries
    BY <1>2 DEF Tries, Spent
  <2>2. Cardinality(Tries) \in Nat
    BY TriesAreFew
  <2>. QED  BY <1>1, <1>2, <1>3, <1>4, <2>1, <2>2 DEF ScansAreCounted
<1>6. scans' \in Scans
  BY <1>3, <1>4, <1>5, ScanHasNumber
<1>7. ScannerTypes'
  <2>1. 0 \notin Scans
    BY DEF Scans
  <2>. QED  BY <1>1, <1>2, <1>4, <1>6, <2>1 DEF StartScan, ScannerTypes
<1>8. HandlerTypes' /\ ToldTypes' /\ BreaksAreCounted' /\ \A u \in Tasks : HasScan(u)'
  BY <1>1, <1>2 DEF HandlerTypes, ToldTypes, BreaksAreCounted, HasScan
<1>9. ActiveHasHandler'
  BY DEF Bookkeeping
<1>. QED  BY <1>1, <1>2, <1>5, <1>7, <1>8, <1>9, CountedParts

(* The steps of a handler between its scan and its notification.           *)
LEMMA HandlerStepCounted ==
  ASSUME Counted, Bookkeeping, Bookkeeping', NEW t \in Tasks,
         HandlerStep(t) \/ CreateNotificationUnheard(t) \/ HandlerFails(t)
  PROVE  Counted'
<1>1. /\ ScannerTypes /\ HandlerTypes /\ ToldTypes /\ \A u \in Tasks : HasScan(u)
  BY CountedParts
<1>2. /\ queue \in [Tasks -> QueueStates] /\ retried \in [Tasks -> 0..MaxRetry]
      /\ pc \in [Tasks -> PCs] /\ before \in [Tasks -> 0..MaxTime]
      /\ until \in [Tasks -> 0..MaxTime]
      /\ mine \in [Tasks -> Scans \cup {0}] /\ found \in [Tasks -> SUBSET Results]
      /\ faultsLeft \in 0..FaultBudget /\ faultsLeft <= faultsLeft /\ now \in 0..MaxTime
  BY <1>1 DEF HandlerTypes, ScannerTypes
<1>3. queue[t] = "active" <=> pc[t] # "idle"
  BY DEF Bookkeeping, ActiveHasHandler
<1>4. CASE Trigger(t)
  BY <1>4, TriggerCounted
<1>5. CASE TriggerBusy(t) \/ CreateNotificationFails(t)
  BY <1>2, <1>5, RetryCounted DEF TriggerBusy, CreateNotificationFails
<1>6. CASE HandlerFails(t)
  <2>1. faultsLeft' \in 0..FaultBudget /\ faultsLeft' <= faultsLeft
    BY <1>2, <1>6 DEF HandlerFails, Fault
  <2>. QED  BY <1>6, <2>1, RetryCounted DEF HandlerFails
<1>7. CASE TakeTask(t)
  <2>1. UNCHANGED <<now, scanner, retried, mine, until, found, told, brokenOff, purged,
                    othersLeft, faultsLeft>>
    BY <1>7 DEF TakeTask
  <2>2. HandlerTypes' /\ ToldTypes'
    BY <1>1, <1>2, <1>7 DEF TakeTask, HandlerTypes, ToldTypes, QueueStates, PCs
  <2>3. \A u \in Tasks \ {t} : queue'[u] = queue[u] /\ pc'[u] = pc[u]
    BY <1>2, <1>7 DEF TakeTask
  <2>4. ~Spent(t)
    BY <1>3, <1>7 DEF TakeTask, Spent
  <2>5. HasScan(t)'
    BY <1>1, <1>2, <1>7 DEF TakeTask, HasScan
  <2>. QED  BY <1>2, <2>1, <2>2, <2>3, <2>4, <2>5, HandlerMoves
<1>8. CASE SeesNoScan(t)
  <2>1. UNCHANGED <<now, scanner, queue, retried, before, mine, until, found, told,
                    brokenOff, purged, othersLeft, faultsLeft>>
    BY <1>8 DEF SeesNoScan
  <2>2. pc[t] = "waiting" /\ pc'[t] = "reading" /\ \A u \in Tasks \ {t} : pc'[u] = pc[u]
    BY <1>2, <1>8 DEF SeesNoScan
  <2>3. HandlerTypes' /\ ToldTypes'
    BY <1>1, <1>2, <1>8, <2>1 DEF SeesNoScan, HandlerTypes, ToldTypes, PCs
  <2>4. Spent(t)' /\ HasScan(t)'
    BY <1>1, <2>1, <2>2 DEF Spent, HasScan
  <2>. QED  BY <1>2, <2>1, <2>2, <2>3, <2>4, HandlerMoves
<1>9. CASE ReadResults(t)
  <2>1. pc[t] = "reading" /\ UNCHANGED <<now, scanner, told, brokenOff, purged,
                                         othersLeft, faultsLeft>>
    BY <1>9 DEF ReadResults
  <2>2. CASE Retry(t)
    BY <1>2, <2>1, <2>2, RetryCounted
  <2>3. CASE /\ found' = [found EXCEPT ![t] = ResultsByURL(t)]
             /\ until' = [until EXCEPT ![t] = now]
             /\ pc' = [pc EXCEPT ![t] = "telling"]
             /\ UNCHANGED <<queue, retried, before, mine>>
    <3>1. ResultsByURL(t) \subseteq Results
      BY <1>1 DEF ResultsByURL, ScannerTypes
    <3>2. HandlerTypes' /\ ToldTypes'
      BY <1>1, <1>2, <2>1, <2>3, <3>1 DEF HandlerTypes, ToldTypes, PCs
    <3>3. pc'[t] = "telling" /\ \A u \in Tasks \ {t} : pc'[u] = pc[u]
      BY <1>2, <2>3
    <3>4. Spent(t)' /\ HasScan(t)'
      BY <1>1, <2>1, <2>3, <3>3 DEF Spent, HasScan
    <3>. QED  BY <1>2, <2>1, <2>3, <3>2, <3>3, <3>4, HandlerMoves
  <2>. QED  BY <1>9, <2>2, <2>3 DEF ReadResults
<1>10. CASE CreateNotification(t)
  <2>1. /\ pc[t] = "telling" /\ told' = told \cup {Note(t)}
        /\ pc' = [pc EXCEPT ![t] = "told"]
        /\ UNCHANGED <<now, scanner, queue, retried, before, mine, until, found,
                       brokenOff, purged, othersLeft, faultsLeft>>
    BY <1>10 DEF CreateNotification
  <2>4. ToldTypes'
    BY <2>1, NoteTyped
  <2>5. pc'[t] = "told" /\ \A u \in Tasks \ {t} : pc'[u] = pc[u]
    BY <1>2, <2>1
  <2>6. HandlerTypes'
    BY <1>1, <1>2, <2>1 DEF HandlerTypes, PCs
  <2>7. Spent(t)' /\ HasScan(t)'
    BY <2>5 DEF Spent, HasScan
  <2>. QED  BY <1>2, <2>1, <2>4, <2>5, <2>6, <2>7, HandlerMoves
<1>11. CASE TaskDone(t)
  <2>1. /\ UNCHANGED <<now, scanner, retried, told, brokenOff, purged, othersLeft,
                       faultsLeft>>
        /\ queue' = [queue EXCEPT ![t] = "gone"]
        /\ pc' = [pc EXCEPT ![t] = "idle"] /\ before' = [before EXCEPT ![t] = 0]
        /\ until' = [until EXCEPT ![t] = 0]
        /\ mine' = [mine EXCEPT ![t] = 0] /\ found' = [found EXCEPT ![t] = {}]
    BY <1>11 DEF TaskDone, Return
  <2>2. HandlerTypes' /\ ToldTypes'
    BY <1>1, <1>2, <2>1 DEF HandlerTypes, ToldTypes, QueueStates, PCs
  <2>3. /\ queue'[t] = "gone" /\ pc'[t] = "idle"
        /\ \A u \in Tasks \ {t} : /\ queue'[u] = queue[u] /\ pc'[u] = pc[u]
                                  /\ mine'[u] = mine[u]
    BY <1>2, <2>1
  <2>4. Spent(t)' /\ HasScan(t)'
    BY <2>3 DEF Spent, HasScan
  <2>. QED  BY <1>2, <2>1, <2>2, <2>3, <2>4, HandlerMoves
<1>. QED
  BY <1>4, <1>5, <1>6, <1>7, <1>8, <1>9, <1>10, <1>11, UnheardCounted DEF HandlerStep

(* A restart begins the next try of every task that had a handler, or      *)
(* archives it.                                                            *)
LEMMA RestartCounted ==
  ASSUME Counted, Bookkeeping, Bookkeeping', DashboardRestarts
  PROVE  Counted'
<1>1. /\ ScannerTypes /\ HandlerTypes /\ ToldTypes
      /\ brokenOff \in [Tasks -> 0..FaultBudget]
      /\ ScansAreCounted /\ BreaksAreCounted /\ TypeOK
  BY CountedParts DEF Counted
<1>2. /\ faultsLeft > 0 /\ faultsLeft' = faultsLeft - 1
      /\ scan' = 0 /\ cut' = (IF scan = 0 THEN cut ELSE cut \cup {scan})
      /\ pc' = [t \in Tasks |-> "idle"] /\ before' = [t \in Tasks |-> 0]
      /\ until' = [t \in Tasks |-> 0]
      /\ mine' = [t \in Tasks |-> 0] /\ found' = [t \in Tasks |-> {}]
      /\ UNCHANGED <<now, scans, openRuns, sweep, left, results, told, purged, othersLeft>>
  BY DEF DashboardRestarts, Fault
<1>3. \A t \in Tasks :
        /\ queue'[t] = IF queue[t] = "active"
                       THEN IF retried[t] < MaxRetry THEN "retry" ELSE "archived"
                       ELSE queue[t]
        /\ retried'[t] = IF queue[t] = "active" /\ retried[t] < MaxRetry
                         THEN retried[t] + 1 ELSE retried[t]
        /\ brokenOff'[t] = IF queue[t] = "active" THEN brokenOff[t] + 1 ELSE brokenOff[t]
  BY DEF DashboardRestarts
<1>4. ScannerTypes'
  BY <1>1, <1>2 DEF ScannerTypes
<1>5. HandlerTypes'
  <2>1. queue' \in [Tasks -> QueueStates] /\ retried' \in [Tasks -> 0..MaxRetry]
    BY DEF Bookkeeping, QueueTypes
  <2>2. /\ pc' \in [Tasks -> PCs] /\ before' \in [Tasks -> 0..MaxTime]
        /\ until' \in [Tasks -> 0..MaxTime]
        /\ mine' \in [Tasks -> Scans \cup {0}] /\ found' \in [Tasks -> SUBSET Results]
    BY <1>2 DEF PCs
  <2>. QED  BY <2>1, <2>2 DEF HandlerTypes
<1>6. faultsLeft \in Nat /\ \A t \in Tasks : brokenOff[t] \in Nat
  BY <1>1 DEF ScannerTypes
<1>7. BreaksAreCounted'
  BY <1>1, <1>2, <1>3, <1>6 DEF BreaksAreCounted
<1>8. brokenOff' \in [Tasks -> 0..FaultBudget]
  <2>1. \A t \in Tasks : brokenOff'[t] \in 0..FaultBudget
    BY <1>1, <1>2, <1>3, <1>6 DEF BreaksAreCounted
  <2>2. brokenOff' = [t \in Tasks |-> brokenOff'[t]]
    BY DEF DashboardRestarts
  <2>. QED  BY <2>1, <2>2
<1>9. Tries \subseteq Tries'
  <2>1. ASSUME NEW t \in Tasks
        PROVE  \/ retried[t] < retried'[t]
               \/ retried[t] = retried'[t] /\ (Spent(t) => Spent(t)')
    <3>1. retried[t] \in 0..MaxRetry /\ (queue[t] = "active" <=> pc[t] # "idle")
      BY <1>1 DEF HandlerTypes, Bookkeeping, ActiveHasHandler
    <3>. QED  BY <1>3, <3>1 DEF Spent
  <2>. QED  BY <1>1, <1>5, <2>1, TriesGrow DEF HandlerTypes
<1>10. ScansAreCounted'
  BY <1>1, <1>2, <1>9, NoNewScan
<1>11. ActiveHasHandler' /\ ToldTypes' /\ \A t \in Tasks : HasScan(t)'
  BY <1>1, <1>2 DEF Bookkeeping, ToldTypes, HasScan
<1>. QED  BY <1>4, <1>5, <1>7, <1>8, <1>10, <1>11, CountedParts

LEMMA CountedAtFirst == ASSUME Init PROVE Counted
<1>1. Cardinality(Tries) \in Nat
  BY TriesAreFew
<1>2. ScannerTypes /\ HandlerTypes /\ ToldTypes
  BY DEF Init, ScannerTypes, HandlerTypes, ToldTypes, QueueStates, PCs
<1>3. brokenOff \in [Tasks -> 0..FaultBudget] /\ BreaksAreCounted
  BY DEF Init, BreaksAreCounted
<1>4. ScansAreCounted
  BY <1>1 DEF Init, ScansAreCounted
<1>5. ActiveHasHandler /\ \A t \in Tasks : HasScan(t)
  BY DEF Init, ActiveHasHandler, HasScan
<1>. QED  BY <1>2, <1>3, <1>4, <1>5, CountedParts

LEMMA CountedSteps ==
  ASSUME Counted, Bookkeeping, Bookkeeping', [Next]_vars
  PROVE  Counted'
<1>1. CASE \E t \in Tasks :
             HandlerStep(t) \/ CreateNotificationUnheard(t) \/ HandlerFails(t)
  BY <1>1, HandlerStepCounted
<1>2. CASE OtherScan
  BY <1>2, OtherScanCounted
<1>3. CASE DashboardRestarts
  BY <1>3, RestartCounted
<1>. QED
  BY <1>1, <1>2, <1>3, ScannerStepCounted DEF Next, CrawlerStep

(* Every variable keeps its type: above all, there are never more scans    *)
(* than the other ones and one for each try of each task, and a handler    *)
(* always knows which scan it waits for.                                   *)
THEOREM DueCheckTypesKept == Spec => []TypeOK
<1>1. Counted => TypeOK
  BY DEF Counted
<1>2. Bookkeeping /\ Counted /\ [Next]_vars => Bookkeeping' /\ Counted'
  BY StepKeeps, CountedSteps
<1>3. Init => Bookkeeping /\ Counted
  BY InitBookkeeping, CountedAtFirst
<1>. QED  BY <1>1, <1>2, <1>3, PTL DEF Spec

=============================================================================
