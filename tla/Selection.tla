----------------------------- MODULE Selection -----------------------------
(***************************************************************************)
(* What the two scan schedules select, while the domains they select from  *)
(* change: StartScheduler's loop takes the watched domains and takes out   *)
(* those that are under SLA tracking, StartSLAScheduler's loop takes these *)
(* alone, and Trigger takes an empty list for all that is watched.         *)
(*                                                                         *)
(* A domain is "off" (no department has it enabled), "watched" or, once    *)
(* its due date has passed and until it has its streak of compliant scans, *)
(* "sla".                                                                  *)
(***************************************************************************)
EXTENDS Naturals

CONSTANTS
  WatchedDomains,
  MaxMoves     (* Bound: changes of a domain's status.                     *)

ASSUME SelectionConstants == MaxMoves \in Nat

VARIABLES
  status,
  moves,
  picking,     (* "no", "watched" (ListWatchedURLs has been read) or "all".*)
  list,        (* What each loop has selected so far.                      *)
  covered,     (* What the last scan of each loop covers.                  *)
  stale        (* History: the domains of which this need not be true.     *)

selectionVars == <<status, moves, picking, list, covered, stale>>

Schedules == {"scan", "sla"}
Watched == {d \in WatchedDomains : status[d] # "off"}
SLAActive == {d \in WatchedDomains : status[d] = "sla"}

SelectionTypeOK ==
  /\ status \in [WatchedDomains -> {"off", "watched", "sla"}]
  /\ moves \in 0..MaxMoves
  /\ picking \in [Schedules -> {"no", "watched", "all"}]
  /\ list \in [Schedules -> SUBSET WatchedDomains]
  /\ covered \in [Schedules -> SUBSET WatchedDomains]
  /\ stale \in [Schedules -> SUBSET WatchedDomains]

SelectionInit ==
  /\ status = [d \in WatchedDomains |-> "off"]
  /\ moves = 0
  /\ picking = [l \in Schedules |-> "no"]
  /\ list = [l \in Schedules |-> {}]
  /\ covered = [l \in Schedules |-> {}]
  /\ stale = [l \in Schedules |-> WatchedDomains]

(* A department, a due date, a scan result or a setting.                   *)
StatusChanges(d) ==
  /\ moves < MaxMoves
  /\ moves' = moves + 1
  /\ \E new \in {"off", "watched", "sla"} \ {status[d]} : status' = [status EXCEPT ![d] = new]
  /\ stale' = [l \in Schedules |-> stale[l] \cup {d}]
  /\ UNCHANGED <<picking, list, covered>>
-----------------------------------------------------------------------------
(* A loop whose interval is over, with the schedule enabled.               *)

ListWatchedURLs ==
  /\ picking["scan"] = "no"
  /\ picking' = [picking EXCEPT !["scan"] = "watched"]
  /\ list' = [list EXCEPT !["scan"] = Watched]
  /\ stale' = [stale EXCEPT !["scan"] = {}]
  /\ UNCHANGED <<status, moves, covered>>

ExcludeSLAActive ==
  /\ picking["scan"] = "watched"
  /\ picking' = [picking EXCEPT !["scan"] = "all"]
  /\ list' = [list EXCEPT !["scan"] = @ \ SLAActive]
  /\ UNCHANGED <<status, moves, covered, stale>>

SelectSLAActive ==
  /\ picking["sla"] = "no"
  /\ picking' = [picking EXCEPT !["sla"] = "all"]
  /\ list' = [list EXCEPT !["sla"] = SLAActive]
  /\ stale' = [stale EXCEPT !["sla"] = {}]
  /\ UNCHANGED <<status, moves, covered>>

(* A read fails, or Trigger does: a scan is running, or there is no server.*)
(* The loop waits for its next turn.                                       *)
GiveUp(l) ==
  /\ picking[l] # "no"
  /\ picking' = [picking EXCEPT ![l] = "no"]
  /\ stale' = [stale EXCEPT ![l] = WatchedDomains]
  /\ UNCHANGED <<status, moves, list, covered>>

(* Mistake: a list that is empty is triggered too.                         *)
NeverSkips(l) == FALSE

Skips(l) == list[l] = {}

(* With no list it would be everything watched.                            *)
Scanned(urls) == IF urls = {} THEN Watched ELSE urls

SkipOrTrigger(l) ==
  /\ picking[l] = "all"
  /\ picking' = [picking EXCEPT ![l] = "no"]
  /\ covered' = [covered EXCEPT ![l] = IF Skips(l) THEN {} ELSE Scanned(list[l])]
  /\ UNCHANGED <<status, moves, list, stale>>
-----------------------------------------------------------------------------
SelectionNext ==
  \/ \E d \in WatchedDomains : StatusChanges(d)
  \/ ListWatchedURLs \/ ExcludeSLAActive \/ SelectSLAActive
  \/ \E l \in Schedules : GiveUp(l) \/ SkipOrTrigger(l)

SelectionSpec == SelectionInit /\ [][SelectionNext]_selectionVars
-----------------------------------------------------------------------------
(* "Each sweep excludes URLs StartSLAScheduler is actively covering": what *)
(* a loop has scanned last is, of the domains that have not changed since  *)
(* it began to select, those that belong to it and no others.              *)
EveryDomainHasItsLoop ==
  \A d \in WatchedDomains :
    /\ picking["scan"] = "no" /\ d \notin stale["scan"]
         => (d \in covered["scan"] <=> status[d] = "watched")
    /\ picking["sla"] = "no" /\ d \notin stale["sla"]
         => (d \in covered["sla"] <=> status[d] = "sla")
=============================================================================
