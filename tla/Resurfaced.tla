----------------------------- MODULE Resurfaced -----------------------------
(***************************************************************************)
(* The resurfaced sweep: every 15 minutes it notifies each department of   *)
(* domains that were compliant at one check and violating at the next, on  *)
(* any server.  It lists them, looks for a notification that is not older  *)
(* than the regression, and creates one if there is none; two sweeps may   *)
(* be at it at once, and users delete notifications.                       *)
(*                                                                         *)
(* A result has the second of its check on the crawler's clock, which may  *)
(* be ahead of the dashboard's, that of the notifications.  It is stored   *)
(* some time later, in any order, and another of its server may have the   *)
(* same second.                                                            *)
(*                                                                         *)
(* One department and one domain: sweeps treat them one by one.            *)
(***************************************************************************)
EXTENDS Naturals, FiniteSets

CONSTANTS
  Resolvers,    (* DNS servers.                                            *)
  Sweepers,     (* Workers of the queue that may run the task.             *)
  MaxResults,   (* Bound: results of checks.                               *)
  MaxClock,     (* Bound: the dashboard's clock, in seconds.               *)
  MaxAhead      (* Bound: how far ahead of it the crawler's may be.        *)

ASSUME ResurfacedConstants == MaxResults \in Nat /\ MaxClock \in Nat /\ MaxAhead \in Nat

VARIABLES
  clock,
  rows,         (* The domain's results, on all servers.                   *)
  sweeping,     (* What each worker has listed, and read of notifications. *)
  notified,     (* The notifications there are.                            *)
  seen,         (* History: the regressions whose sweep got through.       *)
  told          (* History: the notifications there ever were.             *)

resurfacedVars == <<clock, rows, sweeping, notified, seen, told>>

Seconds == 1..(MaxClock + MaxAhead)

(* A server, and the second of the check that found it violating again.    *)
Regressions == Resolvers \X Seconds

(* Regressions, and when a notification told of them.                      *)
Tellings == Regressions \X (0..MaxClock)

Idle == [step |-> "idle", flips |-> {}, before |-> {}]

ResurfacedTypeOK ==
  /\ clock \in 0..MaxClock
  /\ rows \subseteq [server : Resolvers, at : Seconds, compliant : BOOLEAN]
  /\ sweeping \in [Sweepers -> [step : {"idle", "listed", "new"},
                                flips : SUBSET Regressions, before : SUBSET Tellings]]
  /\ told \subseteq [flips : SUBSET Regressions, before : SUBSET Tellings,
                      created : 0..clock]
  /\ notified \subseteq told
  /\ seen \subseteq Regressions

ResurfacedInit ==
  /\ clock = 0
  /\ rows = {}
  /\ sweeping = [w \in Sweepers |-> Idle]
  /\ notified = {} /\ told = {}
  /\ seen = {}
-----------------------------------------------------------------------------
Tick ==
  /\ clock < MaxClock
  /\ clock' = clock + 1
  /\ UNCHANGED <<rows, sweeping, notified, seen, told>>

(* A result is stored, of a check that was made by now.                    *)
StoreResult(s) ==
  /\ Cardinality(rows) < MaxResults
  /\ \E t \in 1..(clock + MaxAhead), v \in BOOLEAN :
       rows' = rows \cup {[server |-> s, at |-> t, compliant |-> v]}
  /\ UNCHANGED <<clock, sweeping, notified, seen, told>>

(* The rows of the last second on a server, and of the one before.         *)
Last(results) == {r \in results : \A q \in results : q.at <= r.at}
LatestRows(s) == Last({r \in rows : r.server = s})
PreviousRows(s) == Last({r \in rows : r.server = s} \ LatestRows(s))

(* Mistake: a server without a check passes for one that is violating.     *)
UncheckedFlips ==
  {f \in Resolvers \X (0..MaxClock + MaxAhead) :
     \A l \in LatestRows(f[1]) : l.at = f[2] /\ ~l.compliant}

(* resurfacedDomains: the servers whose latest check is a regression.  Of  *)
(* two rows of one second either may be the one.                           *)
Flips ==
  {f \in Regressions :
     \E l \in LatestRows(f[1]), p \in PreviousRows(f[1]) :
       l.at = f[2] /\ ~l.compliant /\ p.compliant}

(* Mistake: the time of the first server.                                  *)
AnyFlip(flips) == CHOOSE t \in {f[2] : f \in flips} : \A f \in flips : t <= f[2]

(* The time of a domain is that of its latest server.                      *)
ResurfacedAt(flips) == CHOOSE t \in {f[2] : f \in flips} : \A f \in flips : f[2] <= t
-----------------------------------------------------------------------------
(* handleResurfacedSweep.  Whatever fails, the sweep goes on to the next   *)
(* domain and the next department.                                         *)

ListResurfaced(w) ==
  /\ sweeping[w].step = "idle"
  /\ Flips # {}
  /\ sweeping' = [sweeping EXCEPT ![w] = [step |-> "listed", flips |-> Flips, before |-> {}]]
  /\ UNCHANGED <<clock, rows, notified, seen, told>>

HasRecentNotification(flips) == \E n \in notified : n.created >= ResurfacedAt(flips)

AlreadyNotified(w) ==
  /\ sweeping[w].step = "listed"
  /\ HasRecentNotification(sweeping[w].flips)
  /\ sweeping' = [sweeping EXCEPT ![w] = Idle]
  /\ seen' = seen \cup sweeping[w].flips
  /\ UNCHANGED <<clock, rows, notified, told>>

NotYetNotified(w) ==
  /\ sweeping[w].step = "listed"
  /\ ~HasRecentNotification(sweeping[w].flips)
  /\ sweeping' = [sweeping EXCEPT ![w].step = "new",
                                  ![w].before = UNION {n.flips \X {n.created} :
                                                         n \in notified}]
  /\ UNCHANGED <<clock, rows, notified, seen, told>>

CreateNotification(w) ==
  /\ sweeping[w].step = "new"
  /\ LET n == [flips |-> sweeping[w].flips, before |-> sweeping[w].before, created |-> clock]
     IN notified' = notified \cup {n} /\ told' = told \cup {n}
  /\ seen' = seen \cup sweeping[w].flips
  /\ sweeping' = [sweeping EXCEPT ![w] = Idle]
  /\ UNCHANGED <<clock, rows>>

(* An error, or the domain was purged.                                     *)
SkipDomain(w) ==
  /\ sweeping[w].step # "idle"
  /\ sweeping' = [sweeping EXCEPT ![w] = Idle]
  /\ UNCHANGED <<clock, rows, notified, seen, told>>

(* DeleteNotification and ClearAllNotifications.                           *)
Delete(n) ==
  /\ n \in notified
  /\ notified' = notified \ {n}
  /\ UNCHANGED <<clock, rows, sweeping, seen, told>>
-----------------------------------------------------------------------------
ResurfacedNext ==
  \/ Tick
  \/ \E s \in Resolvers : StoreResult(s)
  \/ \E w \in Sweepers :
       \/ ListResurfaced(w) \/ AlreadyNotified(w) \/ NotYetNotified(w)
       \/ CreateNotification(w) \/ SkipDomain(w)
  \/ \E n \in notified : Delete(n)

ResurfacedSpec == ResurfacedInit /\ [][ResurfacedNext]_resurfacedVars
-----------------------------------------------------------------------------
(* "stops the same regression event from spamming a new notification":     *)
(* every notification tells of a regression that those its sweep found did *)
(* not tell of, in whatever order and with whatever second results were    *)
(* stored; or that they told of before its second had come on the clock of *)
(* the dashboard, which a crawler whose clock is ahead makes possible.     *)
(* And none is passed over: a regression that a sweep has got through is   *)
(* told, unless a notification was created after it (then it may be lost,  *)
(* if its result was stored too late for that one).                        *)
EachFlipIsToldOnce ==
  /\ \A n \in told : \E f \in n.flips : \A b \in n.before :
       b[1] = f => b[2] < f[2] /\ f[2] <= b[2] + MaxAhead
  /\ \A f \in seen : \E n \in told : f \in n.flips \/ n.created >= f[2]
=============================================================================
