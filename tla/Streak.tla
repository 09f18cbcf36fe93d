------------------------------- MODULE Streak -------------------------------
(***************************************************************************)
(* When a domain whose due date has passed leaves SLA tracking: after a    *)
(* number of consecutive compliant scans on every enabled DNS server.      *)
(* SLAActiveURLs asks SQL for the results that fewer than that number are  *)
(* newer than, and looks whether there are so many and all compliant.      *)
(* Results carry the second of their check, and a batch of a scan that was *)
(* cut short may be stored after those of a later one.  One domain.        *)
(***************************************************************************)
EXTENDS Naturals, Sequences, FiniteSets

CONSTANTS
  Nameservers,
  MaxSecond,     (* Bound: seconds in which checks are made.               *)
  MaxChecks,     (* Bound: results of a server.                             *)
  MaxThreshold   (* Bound: SLAStreakThreshold.                             *)

ASSUME StreakConstants == MaxThreshold \in Nat

VARIABLES
  stored,        (* scan_results of each server, in the order of their ids.*)
  enabled,       (* The DNS servers that are enabled.                      *)
  threshold      (* SLAStreakThreshold.                                    *)

streakVars == <<stored, enabled, threshold>>

StreakTypeOK ==
  /\ stored \in [Nameservers -> Seq([second : 1..MaxSecond, compliant : BOOLEAN])]
  /\ enabled \subseteq Nameservers
  /\ threshold \in 1..MaxThreshold

StreakInit ==
  /\ stored = [s \in Nameservers |-> <<>>]
  /\ enabled = Nameservers
  /\ threshold \in 1..MaxThreshold

InsertResult(s, r) ==
  /\ Len(stored[s]) < MaxChecks
  /\ stored' = [stored EXCEPT ![s] = Append(@, r)]
  /\ UNCHANGED <<enabled, threshold>>

Toggle(s) ==
  /\ enabled' = (enabled \cup {s}) \ (enabled \cap {s})
  /\ UNCHANGED <<stored, threshold>>

SetThreshold(n) ==
  /\ threshold' = n
  /\ UNCHANGED <<stored, enabled>>
-----------------------------------------------------------------------------
(* SLAActiveURLs. *)

(* Mistake: results of one second do not count against each other.         *)
NewerBySecond(s, i, j) == stored[s][i].second > stored[s][j].second

(* Result i is newer than result j; the id breaks a tie.                   *)
Newer(s, i, j) ==
  \/ stored[s][i].second > stored[s][j].second
  \/ stored[s][i].second = stored[s][j].second /\ i > j

Top(s) == {j \in DOMAIN stored[s] : Cardinality({i \in DOMAIN stored[s] : Newer(s, i, j)}) < threshold}

Graduated(s) == Cardinality(Top(s)) = threshold /\ \A i \in Top(s) : stored[s][i].compliant

UnderTracking == \E s \in enabled : ~Graduated(s)
-----------------------------------------------------------------------------
StreakNext ==
  \/ \E s \in Nameservers, r \in [second : 1..MaxSecond, compliant : BOOLEAN] : InsertResult(s, r)
  \/ \E s \in Nameservers : Toggle(s)
  \/ \E n \in 1..MaxThreshold : SetThreshold(n)

StreakSpec == StreakInit /\ [][StreakNext]_streakVars
-----------------------------------------------------------------------------
(* The threshold's number of compliant results, with none outside that is  *)
(* of a later second, or of the same second and stored later.              *)
EndsCompliant(s) ==
  \E last \in SUBSET DOMAIN stored[s] :
    /\ Cardinality(last) = threshold
    /\ \A i \in last : stored[s][i].compliant
    /\ \A i \in last, j \in DOMAIN stored[s] \ last :
         /\ stored[s][j].second <= stored[s][i].second
         /\ stored[s][j].second = stored[s][i].second => j < i

(* "has passed and at least one enabled DNS server hasn't yet reached      *)
(* SLAStreakThreshold consecutive compliant scans": what the query counts  *)
(* is this, in whatever order results were stored and however many fall    *)
(* into one second.                                                        *)
StreakIsConsecutive ==
  UnderTracking <=> \E s \in enabled : ~EndsCompliant(s)
=============================================================================
