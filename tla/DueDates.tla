------------------------------ MODULE DueDates ------------------------------
(***************************************************************************)
(* Due dates and the queue: a case of one department has a due date, and   *)
(* each of its domains one task that is to be taken then.  The handlers of *)
(* cases.go and the watchlist write the date to PostgreSQL and the task to *)
(* Redis, one after the other and a domain at a time; the task is named by *)
(* department and domain.  What its handler does is in DueCheck.           *)
(***************************************************************************)
EXTENDS Naturals, FiniteSets

CONSTANTS
  DueDomains,
  MaxDueCases,   (* Bound: cases.                                          *)
  MaxTime,       (* Bound: the clock.                                      *)
  MaxUpdates     (* Bound: requests that write to the queue.               *)

ASSUME DueDatesConstants ==
  MaxDueCases \in Nat /\ MaxTime \in Nat /\ MaxUpdates \in Nat

VARIABLES
  now,
  created,       (* Cases there are: 1..created.                           *)
  dueDate,       (* cases.due_date, 0 for none.                            *)
  covers,        (* case_urls.                                             *)
  task,          (* The task of each domain and the date it is for.        *)
  updates,       (* Requests under way that change tasks.                  *)
  started,
  unsure         (* History: why the task of a domain may be a wrong one:  *)
                 (* "changed", case, domain or task did, or another request *)
                 (* was under way; "dropped", by watchlist or failure.     *)

dueVars == <<now, created, dueDate, covers, task, updates, started, unsure>>

DueCases == 1..MaxDueCases
Dates == 0..MaxTime
NoTask == [state |-> "none", at |-> 0]
(* A request: the domains to go, and the one at hand.                      *)
Update == [number : 1..MaxUpdates, case : 0..MaxDueCases, date : Dates,
           step : {"list", "delete", "enqueue"}, left : SUBSET DueDomains,
           at : SUBSET DueDomains, disturbed : BOOLEAN]

DueTypeOK ==
  /\ now \in Dates
  /\ created \in 0..MaxDueCases
  /\ dueDate \in [DueCases -> Dates]
  /\ covers \in [DueCases -> SUBSET DueDomains]
  /\ task \in [DueDomains -> [state : {"none", "waiting", "active"}, at : Dates]]
  /\ updates \subseteq Update
  /\ started \in 0..MaxUpdates
  /\ unsure \in [DueDomains -> SUBSET {"changed", "dropped"}]

DueInit ==
  /\ now = 0
  /\ created = 0
  /\ dueDate = [c \in DueCases |-> 0]
  /\ covers = [c \in DueCases |-> {}]
  /\ task = [n \in DueDomains |-> NoTask]
  /\ updates = {}
  /\ started = 0
  /\ unsure = [n \in DueDomains |-> {}]

CasesOf(n) == {c \in DueCases : n \in covers[c]}
Doubt(domains, cause) ==
  [n \in DueDomains |-> IF n \in domains THEN unsure[n] \cup {cause} ELSE unsure[n]]
-----------------------------------------------------------------------------
(* The rows. *)

(* Nobody tells the queue that n joins a case.                             *)
Joining(n, date) ==
  unsure' = IF date > now \/ CasesOf(n) # {} THEN Doubt({n}, "changed") ELSE unsure

(* CreateCaseForURL, with a due date or without.                           *)
CreateCaseForURL(n, date) ==
  /\ created < MaxDueCases
  /\ created' = created + 1
  /\ dueDate' = [dueDate EXCEPT ![created + 1] = date]
  /\ covers' = [covers EXCEPT ![created + 1] = {n}]
  /\ Joining(n, date)
  /\ UNCHANGED <<now, task, updates, started>>

AddCaseURL(c, n) ==
  /\ c <= created /\ n \notin covers[c]
  /\ covers' = [covers EXCEPT ![c] = @ \cup {n}]
  /\ Joining(n, dueDate[c])
  /\ UNCHANGED <<now, created, dueDate, task, updates, started>>

RemoveCaseURL(c, n) ==
  /\ n \in covers[c] /\ covers[c] # {n}
  /\ covers' = [covers EXCEPT ![c] = @ \ {n}]
  /\ unsure' = Doubt({n}, "changed")
  /\ UNCHANGED <<now, created, dueDate, task, updates, started>>
-----------------------------------------------------------------------------
(* The requests that change tasks. *)

Touches(r) == IF r.step = "list" THEN covers[r.case] ELSE r.left

(* Requests are disturbed if two of them have the case or a domain in      *)
(* common.                                                                 *)
Disturbed(c, domains, others) ==
  {r \in others : r.case = c \/ Touches(r) \cap domains # {}}
Disturb(requests, others) ==
  (others \ requests) \cup {[r EXCEPT !.disturbed = TRUE] : r \in requests}

Start(c, date, step, domains) ==
  LET others == Disturbed(c, domains, updates)
      request == [number |-> started + 1, case |-> c, date |-> date, step |-> step,
                  left |-> domains, at |-> {},
                  disturbed |-> others # {}]
  IN /\ started < MaxUpdates
     /\ started' = started + 1
     /\ updates' = Disturb(others, updates) \cup {request}

(* UpdateCase, up to its UPDATE.                                           *)
UpdateCase(c, date) ==
  /\ c <= created
  /\ Start(c, date, "list", covers[c])
  /\ dueDate' = [dueDate EXCEPT ![c] = date]
  /\ UNCHANGED <<now, created, covers, task, unsure>>

(* Its domains, or an error that is logged: then no task is changed.       *)
ListCaseURLIDs(r) ==
  LET domains == covers[r.case]
      others == Disturbed(r.case, domains, updates \ {r})
      rest == Disturb(others, updates \ {r})
  IN /\ r \in updates /\ r.step = "list"
     /\ \/ /\ updates' = rest \cup {[r EXCEPT !.step = "delete", !.left = domains,
                                             !.disturbed = @ \/ others # {}]}
           /\ UNCHANGED unsure
        \/ /\ updates' = rest
           /\ unsure' = Doubt(domains, "dropped")
     /\ UNCHANGED <<now, created, dueDate, covers, task, started>>

(* RemoveFromWatchlist, up to its DELETE.                                  *)
RemoveURLFromWatchlist(n) ==
  /\ Start(0, 0, "delete", {n})
  /\ unsure' = Doubt({n}, "dropped")
  /\ UNCHANGED <<now, created, dueDate, covers, task>>

(* r is done with n, and over with its last domain.  If nothing interfered *)
(* the task of n is the one n should have.                                 *)
Done(r, n, doubts) ==
  LET rest == r.left \ {n}
  IN /\ updates' = IF rest = {} THEN updates \ {r}
                   ELSE (updates \ {r}) \cup {[r EXCEPT !.step = "delete", !.left = rest, !.at = {}]}
     /\ unsure' = [unsure EXCEPT ![n] =
          IF doubts = {} /\ ~r.disturbed /\ CasesOf(n) = {r.case} THEN {}
          ELSE @ \cup doubts \cup (IF r.disturbed THEN {"changed"} ELSE {})]

DeleteNothing(n) == UNCHANGED task

(* Inspector.DeleteTask: a task that is active stays.                      *)
DeleteTask(n) ==
  task' = IF task[n].state = "active" THEN task ELSE [task EXCEPT ![n] = NoTask]

(* RescheduleDueDate, its first half.  No date, or one that has passed,    *)
(* ends it.                                                                *)
DeleteOld(r, n) ==
  LET active == task[n].state = "active"
  IN /\ r \in updates /\ r.step = "delete" /\ n \in r.left
     /\ DeleteTask(n)
     /\ IF r.date > now
        THEN /\ updates' = (updates \ {r}) \cup
                  {[r EXCEPT !.step = "enqueue", !.at = {n}, !.disturbed = @ \/ active]}
             /\ UNCHANGED unsure
        ELSE Done(r, n, IF active THEN {"changed"} ELSE {})
     /\ UNCHANGED <<now, created, dueDate, covers, started>>

(* Client.Enqueue: refused while the queue has a task of the name.         *)
EnqueueNew(r, n) ==
  /\ r \in updates /\ r.step = "enqueue" /\ n \in r.at
  /\ \/ /\ task[n].state = "none"
        /\ task' = [task EXCEPT ![n] = [state |-> "waiting", at |-> r.date]]
        /\ Done(r, n, {})
     \/ /\ task[n].state # "none"
        /\ UNCHANGED task
        /\ Done(r, n, {})
     \/ /\ UNCHANGED task
        /\ Done(r, n, {"dropped"})
  /\ UNCHANGED <<now, created, dueDate, covers, started>>
-----------------------------------------------------------------------------
(* Time, and the worker. *)

Tick ==
  /\ now < MaxTime
  /\ now' = now + 1
  /\ UNCHANGED <<created, dueDate, covers, task, updates, started, unsure>>

TakeTask(n) ==
  /\ task[n].state = "waiting" /\ task[n].at <= now
  /\ task' = [task EXCEPT ![n].state = "active"]
  /\ UNCHANGED <<now, created, dueDate, covers, updates, started, unsure>>

(* It is done, or fails and waits for its retry.                           *)
TaskReturns(n) ==
  /\ task[n].state = "active"
  /\ task' \in {[task EXCEPT ![n] = NoTask], [task EXCEPT ![n].state = "waiting"]}
  /\ UNCHANGED <<now, created, dueDate, covers, updates, started, unsure>>
-----------------------------------------------------------------------------
DueNext ==
  \/ \E n \in DueDomains :
       \/ \E date \in Dates : CreateCaseForURL(n, date)
       \/ \E c \in DueCases : AddCaseURL(c, n) \/ RemoveCaseURL(c, n)
       \/ RemoveURLFromWatchlist(n)
       \/ TakeTask(n) \/ TaskReturns(n)
  \/ \E c \in DueCases, date \in Dates : UpdateCase(c, date)
  \/ \E r \in updates :
       \/ ListCaseURLIDs(r)
       \/ \E n \in DueDomains : DeleteOld(r, n) \/ EnqueueNew(r, n)
  \/ Tick

DueSpec == DueInit /\ [][DueNext]_dueVars
-----------------------------------------------------------------------------
Wanted(n) == {dueDate[c] : c \in CasesOf(n)}

(* With no request under way the queue is right about every domain of one  *)
(* case: a task that waits is for the due date the case has, and one waits *)
(* if the date is to come.  Unless, since the last change of the date that *)
(* neither another request nor a task being handled disturbed, the case    *)
(* was opened, the domain came or went or has a second case, or Redis      *)
(* failed.                                                                 *)
TasksFollowDates ==
  updates = {} =>
    \A n \in DueDomains : unsure[n] = {} =>
      /\ task[n].state = "waiting" => task[n].at \in Wanted(n)
      /\ \A date \in Wanted(n) : date > now => task[n].state = "waiting"

(* "A domain's due date being reached triggers a targeted scan of that     *)
(* domain": with no request under way, a domain of a case whose due date   *)
(* is to come has a task, unless it was taken off the list or Redis failed.*)
DueDatesAreQueued ==
  updates = {} =>
    \A n \in DueDomains : "dropped" \notin unsure[n] =>
      \A date \in Wanted(n) : date > now => task[n].state # "none"
=============================================================================
