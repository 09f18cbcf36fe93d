---------------------------- MODULE MCBackground ----------------------------
(***************************************************************************)
(* What runs in the background beside each other and shares no state: a    *)
(* sweep of the crawler, the two scan schedules, what these select, when a *)
(* domain leaves the second one, and the resurfaced sweep of the notifier. *)
(* As in MCConsole, one of them moves (focus) and the others rest.         *)
(***************************************************************************)
EXTENDS MCSweep, Schedule, Selection, Streak, Resurfaced, TLC

VARIABLE focus

backgroundVars == <<focus, vars, scheduleVars, selectionVars, streakVars, resurfacedVars>>

BackgroundInit ==
  /\ focus \in {"sweep", "schedule", "selection", "streak", "resurfaced"}
  /\ Init /\ ScheduleInit /\ SelectionInit /\ StreakInit /\ ResurfacedInit
  /\ focus # "sweep" => takeScreenshots
  /\ focus # "streak" => threshold = 1

(* One disjunct for the part that moves.                                   *)
BackgroundNext ==
  /\ UNCHANGED focus
  /\ \/ /\ focus = "sweep" /\ Next
        /\ UNCHANGED <<scheduleVars, selectionVars, streakVars, resurfacedVars>>
     \/ /\ focus = "schedule" /\ ScheduleNext
        /\ UNCHANGED <<vars, selectionVars, streakVars, resurfacedVars>>
     \/ /\ focus = "selection" /\ SelectionNext
        /\ UNCHANGED <<vars, scheduleVars, streakVars, resurfacedVars>>
     \/ /\ focus = "streak" /\ StreakNext
        /\ UNCHANGED <<vars, scheduleVars, selectionVars, resurfacedVars>>
     \/ /\ focus = "resurfaced" /\ ResurfacedNext
        /\ UNCHANGED <<vars, scheduleVars, selectionVars, streakVars>>

(* Servers and sweepers of the resurfaced sweep are all alike.             *)
ResurfacedSymmetry == Permutations(Resolvers) \cup Permutations(Sweepers)

BackgroundSpec == BackgroundInit /\ [][BackgroundNext]_backgroundVars
-----------------------------------------------------------------------------
(* Every variable of the parts beside the sweep keeps its type.            *)
BackgroundTypeOK == ScheduleTypeOK /\ SelectionTypeOK /\ StreakTypeOK /\ ResurfacedTypeOK

(* The schedules wait for what is stored and scan what is theirs, and a    *)
(* domain belongs to the second until it has its streak: see               *)
(* LoopsFollowSettings, EveryDomainHasItsLoop and StreakIsConsecutive.     *)
SchedulesAreKept == LoopsFollowSettings /\ EveryDomainHasItsLoop /\ StreakIsConsecutive
=============================================================================
