-------------------------- MODULE BackgroundProofs --------------------------
(***************************************************************************)
(* What runs beside the sweep, for any number of administrators, domains,  *)
(* servers and sweepers, and every bound.                                  *)
(***************************************************************************)
EXTENDS MCBackground, Integers, FiniteSetTheorems, SequenceTheorems, WellFoundedInduction, TLAPS

-----------------------------------------------------------------------------
(* The schedules. *)

(* What is saved was asked for.                                            *)
SavesAreAsked ==
  \A a \in Admins : request[a].step # "none" => request[a].minutes \in Minutes

(* A loop that has no signal to come and whose interval nobody is writing  *)
(* holds what is stored, from when it has read it.                         *)
ReadersFollow ==
  \A l \in Loops :
    at[l] \in {"read", "waiting"} /\ ~reset[l] /\ ~torn[l] /\ (\A a \in Admins : l \notin Written(a))
      => interval[l] \in {minutes[l], Default}

ScheduleInvariant == ScheduleTypeOK /\ SavesAreAsked /\ ReadersFollow

(* The first state: nobody saves, and the loops are about to read.         *)
LEMMA ScheduleInitially ==
  ASSUME ScheduleInit
  PROVE  ScheduleInvariant
<1>1. (CHOOSE m \in Minutes : TRUE) \in Minutes
  BY ScheduleConstants
<1>2. ScheduleTypeOK
  BY <1>1, ScheduleConstants DEF ScheduleInit, ScheduleTypeOK, NoRequest, Loops
<1>3. SavesAreAsked
  BY DEF ScheduleInit, SavesAreAsked, NoRequest
<1>4. ReadersFollow
  BY DEF ScheduleInit, ReadersFollow
<1>5. QED
  BY <1>2, <1>3, <1>4 DEF ScheduleInvariant

(* What a save has written, by the step it is at.                          *)
LEMMA WrittenSteps ==
  ASSUME NEW a \in Admins
  PROVE  /\ "scan" \in Written(a) <=> request[a].step \in {"sla", "wakeScan"}
         /\ "sla" \in Written(a) <=> request[a].step \in {"wakeScan", "wakeSLA"}
  BY DEF Written

(* An administrator's step.  It leaves where the loops are and what they   *)
(* hold; an interval that it changes it has then written, and it ceases to *)
(* have written one only with a signal, or torn.                           *)
LEMMA SaverSteps ==
  ASSUME ScheduleInvariant, NEW a \in Admins,
         \/ \E m \in Minutes : Save(a, m)
         \/ WriteScanInterval(a) \/ WriteSLAInterval(a)
         \/ SaveFails(a) \/ WakeScan(a) \/ WakeSLA(a)
  PROVE  ScheduleInvariant'
<1> USE DEF ScheduleInvariant
<1> DEFINE Steps == {"none", "scan", "sla", "wakeScan", "wakeSLA"}
           Request == [step : Steps, minutes : Minutes \cup {Default}]
<1>1. /\ request \in [Admins -> Request]
      /\ minutes \in [Loops -> Minutes] /\ "scan" \in Loops /\ "sla" \in Loops
      /\ Loops = {"scan", "sla"}
      /\ reset \in [Loops -> BOOLEAN] /\ torn \in [Loops -> BOOLEAN]
      /\ settings \in 0..MaxSettings /\ MaxSettings \in Nat
  BY ScheduleConstants DEF ScheduleTypeOK, Loops
<1>2. /\ \A b \in Admins \ {a} : request'[b] = request[b]
      /\ request'[a] \in Request
      /\ request'[a].step # "none" => request'[a].minutes \in Minutes
      /\ request' \in [Admins -> Request]
  <2>1. CASE \E m \in Minutes : Save(a, m)
    BY <1>1, <2>1 DEF Save
  <2>2. CASE WriteScanInterval(a) \/ WriteSLAInterval(a) \/ WakeScan(a)
    BY <1>1, <2>2 DEF WriteScanInterval, WriteSLAInterval, WakeScan, Then, SavesAreAsked
  <2>3. CASE SaveFails(a) \/ WakeSLA(a)
    BY <1>1, <2>3 DEF SaveFails, WakeSLA, NoRequest
  <2>. QED  BY <2>1, <2>2, <2>3
<1>3. ScheduleTypeOK'
  <2>1. /\ minutes' \in [Loops -> Minutes]
        /\ settings' \in 0..MaxSettings
        /\ reset' \in [Loops -> BOOLEAN] /\ torn' \in [Loops -> BOOLEAN]
        /\ at' = at /\ interval' = interval
    <3>1. CASE \E m \in Minutes : Save(a, m)
      BY <1>1, <3>1 DEF Save
    <3>2. CASE WriteScanInterval(a) \/ WriteSLAInterval(a)
      BY <1>1, <3>2 DEF WriteScanInterval, WriteSLAInterval, SavesAreAsked
    <3>3. CASE SaveFails(a) \/ WakeScan(a) \/ WakeSLA(a)
      BY <1>1, <3>3 DEF SaveFails, WakeScan, WakeSLA, Signal
    <3>. QED  BY <3>1, <3>2, <3>3
  <2>. QED  BY <1>2, <2>1 DEF ScheduleTypeOK
<1>4. SavesAreAsked'
  BY <1>2 DEF SavesAreAsked
<1>5. ASSUME NEW l \in Loops, ~reset'[l], ~torn'[l], \A b \in Admins : l \notin Written(b)'
      PROVE  /\ minutes'[l] = minutes[l] /\ ~reset[l] /\ ~torn[l]
             /\ \A b \in Admins : l \notin Written(b)
  <2>1. \A b \in Admins \ {a} : Written(b)' = Written(b)
    BY <1>2 DEF Written
  <2>2. /\ minutes'[l] = minutes[l] /\ ~reset[l] /\ ~torn[l]
        /\ l \notin Written(a)
    <3>1. CASE \E m \in Minutes : Save(a, m)
      BY <1>1, <1>5, <3>1 DEF Save, Written
    <3>2. CASE WriteScanInterval(a)
      BY <1>1, <1>5, <3>2 DEF WriteScanInterval, Then, Written
    <3>3. CASE WriteSLAInterval(a)
      BY <1>1, <1>5, <3>3 DEF WriteSLAInterval, Then, Written
    <3>4. CASE SaveFails(a)
      BY <1>1, <1>5, <3>4 DEF SaveFails
    <3>5. CASE WakeScan(a)
      BY <1>1, <1>5, <3>5 DEF WakeScan, Then, Written, Signal
    <3>6. CASE WakeSLA(a)
      BY <1>1, <1>5, <3>6 DEF WakeSLA, Written, Signal
    <3>. QED  BY <3>1, <3>2, <3>3, <3>4, <3>5, <3>6
  <2>. QED  BY <1>5, <2>1, <2>2
<1>6. at' = at /\ interval' = interval
  BY DEF Save, WriteScanInterval, WriteSLAInterval, SaveFails, WakeScan, WakeSLA
<1>7. ReadersFollow'
  BY <1>5, <1>6 DEF ReadersFollow
<1>8. QED
  BY <1>3, <1>4, <1>7

(* A loop's step: it takes what is stored, or gives up what it holds.      *)
LEMMA LoopSteps ==
  ASSUME ScheduleInvariant, NEW l \in Loops,
         ReadInterval(l) \/ Wait(l) \/ TimeIsUp(l) \/ Woken(l)
  PROVE  ScheduleInvariant'
<1> USE DEF ScheduleInvariant
<1>1. minutes' = minutes /\ request' = request /\ settings' = settings
  BY DEF ReadInterval, Wait, TimeIsUp, Woken
<1>2. ScheduleTypeOK'
  BY ZenonT(30), <1>1 DEF ScheduleTypeOK, ReadInterval, Wait, TimeIsUp, Woken, Goto
<1>3. SavesAreAsked'
  BY <1>1 DEF SavesAreAsked
<1>4. \A a \in Admins : Written(a)' = Written(a)
  BY <1>1 DEF Written
<1>5. ReadersFollow'
  <2>1. CASE ReadInterval(l)
    BY <1>1, <1>4, <2>1 DEF ReadersFollow, ReadInterval, Goto, ScheduleTypeOK
  <2>2. CASE Wait(l)
    BY <1>1, <1>4, <2>2 DEF ReadersFollow, Wait, Goto, ScheduleTypeOK
  <2>3. CASE TimeIsUp(l)
    BY <1>1, <1>4, <2>3 DEF ReadersFollow, TimeIsUp, Goto, ScheduleTypeOK
  <2>4. CASE Woken(l)
    BY <1>1, <1>4, <2>4 DEF ReadersFollow, Woken, Goto, ScheduleTypeOK
  <2>. QED  BY <2>1, <2>2, <2>3, <2>4
<1>6. QED
  BY <1>2, <1>3, <1>5

LEMMA ScheduleSteps ==
  ASSUME ScheduleInvariant, ScheduleNext
  PROVE  ScheduleInvariant'
  BY SaverSteps, LoopSteps DEF ScheduleNext

LEMMA ScheduleRests ==
  ASSUME ScheduleInvariant, UNCHANGED scheduleVars
  PROVE  ScheduleInvariant'
  BY DEF ScheduleInvariant, ScheduleTypeOK, SavesAreAsked, ReadersFollow, Written, scheduleVars

LEMMA LoopsFollow ==
  ASSUME ScheduleInvariant
  PROVE  LoopsFollowSettings
  BY DEF ScheduleInvariant, ReadersFollow, LoopsFollowSettings
-----------------------------------------------------------------------------
(* What the schedules select. *)

(* Of a domain that has not changed since the loop listed it, the loop of  *)
(* the watched domains knows as much as it has read.                       *)
ScanLoopKnows ==
  \A d \in WatchedDomains \ stale["scan"] :
    /\ picking["scan"] = "no" => (d \in covered["scan"] <=> status[d] = "watched")
    /\ picking["scan"] = "watched" => (d \in list["scan"] <=> status[d] # "off")
    /\ picking["scan"] = "all" => (d \in list["scan"] <=> status[d] = "watched")

(* And that of the domains under SLA tracking, which reads once.           *)
SLALoopKnows ==
  /\ picking["sla"] # "watched"
  /\ \A d \in WatchedDomains \ stale["sla"] :
       /\ picking["sla"] = "no" => (d \in covered["sla"] <=> status[d] = "sla")
       /\ picking["sla"] = "all" => (d \in list["sla"] <=> status[d] = "sla")

SelectionInvariant == SelectionTypeOK /\ ScanLoopKnows /\ SLALoopKnows

(* The first state: no loop has listed anything.                           *)
LEMMA SelectionInitially ==
  ASSUME SelectionInit
  PROVE  SelectionInvariant
  BY SelectionConstants
     DEF SelectionInit, SelectionInvariant, SelectionTypeOK, ScanLoopKnows, SLALoopKnows, Schedules

(* A domain that changes is no longer known.                               *)
LEMMA StatusSteps ==
  ASSUME SelectionInvariant, NEW d \in WatchedDomains, StatusChanges(d)
  PROVE  SelectionInvariant'
<1> USE DEF SelectionInvariant
<1>1. SelectionTypeOK'
  BY SelectionConstants DEF SelectionTypeOK, StatusChanges
<1>2. /\ stale'["scan"] = stale["scan"] \cup {d} /\ stale'["sla"] = stale["sla"] \cup {d}
      /\ \A e \in WatchedDomains \ {d} : status'[e] = status[e]
      /\ picking' = picking /\ list' = list /\ covered' = covered
  BY DEF SelectionTypeOK, StatusChanges, Schedules
<1>3. ScanLoopKnows' /\ SLALoopKnows'
  BY <1>2 DEF ScanLoopKnows, SLALoopKnows
<1>4. QED
  BY <1>1, <1>3

(* A loop's reads: what it lists holds at that moment.                     *)
LEMMA ReadingSteps ==
  ASSUME SelectionInvariant, ListWatchedURLs \/ ExcludeSLAActive \/ SelectSLAActive
  PROVE  SelectionInvariant'
<1> USE DEF SelectionInvariant
<1>1. CASE ListWatchedURLs
  <2>1. SelectionTypeOK' /\ SLALoopKnows'
    BY <1>1 DEF SelectionTypeOK, SLALoopKnows, ListWatchedURLs, Schedules, Watched
  <2>2. ScanLoopKnows'
    BY <1>1 DEF SelectionTypeOK, ScanLoopKnows, ListWatchedURLs, Schedules, Watched
  <2>. QED  BY <2>1, <2>2
<1>2. CASE ExcludeSLAActive
  <2>1. SelectionTypeOK' /\ SLALoopKnows'
    BY <1>2 DEF SelectionTypeOK, SLALoopKnows, ExcludeSLAActive, Schedules, SLAActive
  <2>2. ScanLoopKnows'
    BY <1>2 DEF SelectionTypeOK, ScanLoopKnows, ExcludeSLAActive, Schedules, SLAActive
  <2>. QED  BY <2>1, <2>2
<1>3. CASE SelectSLAActive
  <2>1. SelectionTypeOK' /\ ScanLoopKnows'
    BY <1>3 DEF SelectionTypeOK, ScanLoopKnows, SelectSLAActive, Schedules, SLAActive
  <2>2. SLALoopKnows'
    BY <1>3 DEF SelectionTypeOK, SLALoopKnows, SelectSLAActive, Schedules, SLAActive
  <2>. QED  BY <2>1, <2>2
<1>4. QED
  BY <1>1, <1>2, <1>3

(* A list that is scanned is what it was; an empty one is not scanned, and *)
(* then no domain of the loop is known.                                    *)
LEMMA TriggerSteps ==
  ASSUME SelectionInvariant, NEW l \in Schedules, SkipOrTrigger(l)
  PROVE  SelectionInvariant'
<1> USE DEF SelectionInvariant
<1>1. covered' = [covered EXCEPT ![l] = list[l]]
  BY DEF SkipOrTrigger, Skips, Scanned
<1>2. /\ picking[l] = "all" /\ picking' = [picking EXCEPT ![l] = "no"]
      /\ status' = status /\ moves' = moves /\ list' = list /\ stale' = stale
  BY DEF SkipOrTrigger
<1>3. SelectionTypeOK'
  BY <1>1, <1>2 DEF SelectionTypeOK
<1>4. l = "scan" \/ l = "sla"
  BY DEF Schedules
<1>5. ScanLoopKnows' /\ SLALoopKnows'
  <2>1. CASE l = "scan"
    BY <1>1, <1>2, <2>1 DEF ScanLoopKnows, SLALoopKnows, SelectionTypeOK, Schedules
  <2>2. CASE l = "sla"
    BY <1>1, <1>2, <2>2 DEF ScanLoopKnows, SLALoopKnows, SelectionTypeOK, Schedules
  <2>. QED  BY <1>4, <2>1, <2>2
<1>6. QED
  BY <1>3, <1>5

(* A loop that gives up knows nothing.                                     *)
LEMMA GivingUpSteps ==
  ASSUME SelectionInvariant, NEW l \in Schedules, GiveUp(l)
  PROVE  SelectionInvariant'
  BY DEF SelectionInvariant, SelectionTypeOK, ScanLoopKnows, SLALoopKnows, GiveUp, Schedules

LEMMA SelectionSteps ==
  ASSUME SelectionInvariant, SelectionNext
  PROVE  SelectionInvariant'
  BY StatusSteps, ReadingSteps, TriggerSteps, GivingUpSteps DEF SelectionNext

LEMMA SelectionRests ==
  ASSUME SelectionInvariant, UNCHANGED selectionVars
  PROVE  SelectionInvariant'
  BY DEF SelectionInvariant, SelectionTypeOK, ScanLoopKnows, SLALoopKnows, selectionVars

LEMMA DomainsHaveLoops ==
  ASSUME SelectionInvariant
  PROVE  EveryDomainHasItsLoop
  BY DEF SelectionInvariant, ScanLoopKnows, SLALoopKnows, EveryDomainHasItsLoop
-----------------------------------------------------------------------------
(* The streak. *)

Result == [second : 1..MaxSecond, compliant : BOOLEAN]

(* A result is newer than another or older, and newer ones of newer ones   *)
(* are newer.                                                              *)
LEMMA NewerIsTotal ==
  ASSUME StreakTypeOK, NEW s \in Nameservers
  PROVE  /\ DOMAIN stored[s] \subseteq Nat /\ IsFiniteSet(DOMAIN stored[s])
         /\ \A i \in DOMAIN stored[s] : stored[s][i].second \in Nat
         /\ \A i, j \in DOMAIN stored[s] : Newer(s, i, j) <=> i # j /\ ~Newer(s, j, i)
         /\ \A i, j, k \in DOMAIN stored[s] : Newer(s, i, j) /\ Newer(s, j, k) => Newer(s, i, k)
<1>1. stored[s] \in Seq(Result)
  BY DEF StreakTypeOK, Result
<1>2. /\ DOMAIN stored[s] = 1..Len(stored[s]) /\ Len(stored[s]) \in Nat
      /\ \A i \in DOMAIN stored[s] : stored[s][i] \in Result
  BY <1>1
<1>3. IsFiniteSet(1..Len(stored[s]))
  <2>1. 1 \in Int /\ Len(stored[s]) \in Int
    BY <1>2
  <2>. QED  BY <2>1, FS_Interval
<1>4. /\ DOMAIN stored[s] \subseteq Nat /\ IsFiniteSet(DOMAIN stored[s])
      /\ \A i \in DOMAIN stored[s] : stored[s][i].second \in Nat
  BY <1>2, <1>3 DEF Result
<1>5. \A i, j \in DOMAIN stored[s] : Newer(s, i, j) <=> i # j /\ ~Newer(s, j, i)
  BY <1>4 DEF Newer
<1>6. \A i, j, k \in DOMAIN stored[s] : Newer(s, i, j) /\ Newer(s, j, k) => Newer(s, i, k)
  BY <1>4 DEF Newer
<1>7. QED
  BY <1>4, <1>5, <1>6

(* The set of the results that are newer than one.                         *)
Before(s, j) == {i \in DOMAIN stored[s] : Newer(s, i, j)}

(* The results that fewer than the threshold are newer than are closed: a  *)
(* result newer than one of them is one of them.                           *)
LEMMA TopIsClosed ==
  ASSUME StreakTypeOK, NEW s \in Nameservers,
         NEW i \in Top(s), NEW j \in DOMAIN stored[s], Newer(s, j, i)
  PROVE  j \in Top(s)
<1>1. i \in DOMAIN stored[s] /\ Cardinality(Before(s, i)) < threshold
  BY DEF Top, Before
<1>2. Before(s, j) \subseteq Before(s, i)
  BY <1>1, NewerIsTotal DEF Before
<1>3. IsFiniteSet(Before(s, i)) /\ Before(s, i) \subseteq DOMAIN stored[s]
  BY NewerIsTotal, FS_Subset DEF Before
<1>4. /\ Cardinality(Before(s, j)) <= Cardinality(Before(s, i))
      /\ Cardinality(Before(s, i)) \in Nat /\ Cardinality(Before(s, j)) \in Nat
  BY <1>2, <1>3, FS_Subset, FS_CardinalityType
<1>5. threshold \in Nat
  BY StreakConstants DEF StreakTypeOK
<1>6. Cardinality(Before(s, j)) < threshold
  BY <1>1, <1>4, <1>5
<1>7. QED
  BY <1>6 DEF Top, Before

(* What SLAActiveURLs counts is the set of the newest results.             *)
LEMMA GraduatedIsConsecutive ==
  ASSUME StreakTypeOK, NEW s \in Nameservers
  PROVE  Graduated(s) <=> EndsCompliant(s)
<1> DEFINE D == DOMAIN stored[s]
<1>0. threshold \in Nat
  BY StreakConstants DEF StreakTypeOK
<1>1. ASSUME Graduated(s)
      PROVE  EndsCompliant(s)
  <2>1. /\ Top(s) \in SUBSET D /\ Cardinality(Top(s)) = threshold
        /\ \A i \in Top(s) : stored[s][i].compliant
    BY <1>1 DEF Graduated, Top
  <2>2. \A i \in Top(s), j \in D \ Top(s) : ~Newer(s, j, i)
    BY TopIsClosed
  <2>3. \A i \in Top(s), j \in D \ Top(s) : Newer(s, i, j)
    BY <2>1, <2>2, NewerIsTotal
  <2>4. \A i \in Top(s), j \in D \ Top(s) :
          /\ stored[s][j].second <= stored[s][i].second
          /\ stored[s][j].second = stored[s][i].second => j < i
    BY <2>1, <2>3, NewerIsTotal DEF Newer
  <2>. QED  BY <2>1, <2>4 DEF EndsCompliant
<1>2. ASSUME EndsCompliant(s)
      PROVE  Graduated(s)
  <2>1. PICK last \in SUBSET D :
          /\ Cardinality(last) = threshold
          /\ \A i \in last : stored[s][i].compliant
          /\ \A i \in last, j \in D \ last :
               /\ stored[s][j].second <= stored[s][i].second
               /\ stored[s][j].second = stored[s][i].second => j < i
    BY <1>2 DEF EndsCompliant
  <2>2. \A i \in last, j \in D \ last : Newer(s, i, j)
    BY <2>1, NewerIsTotal DEF Newer
  <2>3. IsFiniteSet(last)
    BY NewerIsTotal, FS_Subset
  <2>4. ASSUME NEW i \in last
        PROVE  i \in Top(s)
    <3>1. i \in D /\ Before(s, i) \subseteq last \ {i}
      BY <2>2, NewerIsTotal DEF Before
    <3>2. IsFiniteSet(last \ {i}) /\ Cardinality(last \ {i}) = threshold - 1
      BY <2>1, <2>3, FS_RemoveElement
    <3>3. /\ Cardinality(Before(s, i)) <= Cardinality(last \ {i})
          /\ Cardinality(Before(s, i)) \in Nat
      BY <3>1, <3>2, FS_Subset, FS_CardinalityType
    <3>4. Cardinality(Before(s, i)) < threshold
      BY <1>0, <3>2, <3>3
    <3>. QED  BY <3>1, <3>4 DEF Top, Before
  <2>5. ASSUME NEW j \in D \ last
        PROVE  j \notin Top(s)
    <3>1. last \subseteq Before(s, j) /\ Before(s, j) \subseteq D
      BY <2>2 DEF Before
    <3>2. IsFiniteSet(Before(s, j))
      BY <3>1, NewerIsTotal, FS_Subset
    <3>3. /\ threshold <= Cardinality(Before(s, j))
          /\ Cardinality(Before(s, j)) \in Nat
      BY <2>1, <3>1, <3>2, FS_Subset, FS_CardinalityType
    <3>4. ~(Cardinality(Before(s, j)) < threshold)
      BY <1>0, <3>3
    <3>. QED  BY <3>4 DEF Top, Before
  <2>6. Top(s) = last
    BY <2>4, <2>5 DEF Top
  <2>. QED  BY <2>1, <2>6 DEF Graduated
<1>3. QED
  BY <1>1, <1>2

LEMMA StreakCounts ==
  ASSUME StreakTypeOK
  PROVE  StreakIsConsecutive
  BY GraduatedIsConsecutive DEF StreakIsConsecutive, UnderTracking, StreakTypeOK

LEMMA StreakInitially ==
  ASSUME StreakInit
  PROVE  StreakTypeOK
  BY DEF StreakInit, StreakTypeOK

LEMMA StreakSteps ==
  ASSUME StreakTypeOK, StreakNext
  PROVE  StreakTypeOK'
<1>1. CASE \E s \in Nameservers, r \in Result : InsertResult(s, r)
  <2>1. PICK s \in Nameservers, r \in Result : InsertResult(s, r)
    BY <1>1
  <2>2. stored[s] \in Seq(Result)
    BY DEF StreakTypeOK, Result
  <2>3. Append(stored[s], r) \in Seq(Result)
    BY <2>2, AppendProperties
  <2>4. stored' = [stored EXCEPT ![s] = Append(stored[s], r)] /\ UNCHANGED <<enabled, threshold>>
    BY <2>1 DEF InsertResult
  <2>. QED  BY <2>3, <2>4 DEF StreakTypeOK, Result
<1>2. CASE \E s \in Nameservers : Toggle(s)
  BY <1>2 DEF StreakTypeOK, Toggle
<1>3. CASE \E n \in 1..MaxThreshold : SetThreshold(n)
  BY <1>3 DEF StreakTypeOK, SetThreshold
<1>4. QED
  BY <1>1, <1>2, <1>3 DEF StreakNext, Result

LEMMA StreakRests ==
  ASSUME StreakTypeOK, UNCHANGED streakVars
  PROVE  StreakTypeOK'
  BY DEF StreakTypeOK, streakVars
-----------------------------------------------------------------------------
(* The resurfaced sweep. *)

(* A check that was made was made by now, on the crawler's clock.          *)
RowsAreDated == \A r \in rows : r.at <= clock + MaxAhead

(* A sweep has listed something, and all of it happened.                   *)
SweepsAreDated ==
  \A w \in Sweepers :
    sweeping[w].step # "idle" => /\ sweeping[w].flips # {}
                                 /\ \A f \in sweeping[w].flips : f[2] <= clock + MaxAhead

(* One of the regressions is not among what was told, or that was told     *)
(* before its second had come.                                             *)
News(flips, before) ==
  \E f \in flips : \A b \in before :
    b[1] = f => b[2] < f[2] /\ f[2] <= b[2] + MaxAhead

(* What a sweep is about to notify is news.                                *)
NewsIsNew ==
  \A w \in Sweepers :
    sweeping[w].step = "new" => News(sweeping[w].flips, sweeping[w].before)

(* A notification is younger than what it tells of, but for the clocks.    *)
ToldAfterwards == \A n \in told : \A f \in n.flips : f[2] <= n.created + MaxAhead

ResurfacedInvariant ==
  ResurfacedTypeOK /\ RowsAreDated /\ SweepsAreDated /\ NewsIsNew /\ ToldAfterwards
    /\ EachFlipIsToldOnce

(* A set of numbers that are not above a bound has a largest one: what is  *)
(* below the bound by the least.                                           *)
LEMMA Largest ==
  ASSUME NEW n \in Nat, NEW T \in SUBSET (0..n), T # {}
  PROVE  \E m \in T : \A t \in T : t <= m
<1> DEFINE R == OpToRel(<, Nat)
           U == {i \in Nat : \E t \in T : i + t = n}
<1>1. IsWellFoundedOn(R, Nat)
  BY NatLessThanWellFounded
<1>2. R = {ss \in Nat \X Nat : ss[1] < ss[2]}
  BY DEF OpToRel
<1>3. \A i, j \in Nat : i < j => <<i, j>> \in R
  BY <1>2
<1>4. \A t \in T : n - t \in U
  OBVIOUS
<1>5. U \subseteq Nat /\ U # {}
  BY <1>4
<1> HIDE DEF R, U
<1>6. PICK u \in U : \A v \in U : ~(<<v, u>> \in R)
  BY <1>1, <1>5, WFMin
<1>7. PICK m \in T : u + m = n /\ u \in Nat
  BY DEF U
<1>8. ASSUME NEW t \in T
      PROVE  t <= m
  <2>1. n - t \in U /\ n - t \in Nat
    BY <1>4, <1>5
  <2>2. ~(n - t < u)
    BY <1>3, <1>6, <1>7, <2>1
  <2>. QED  BY <1>7, <2>1, <2>2
<1>9. QED
  BY <1>8

(* The time of a domain is that of one of its servers, and of the latest.  *)
LEMMA LatestFlip ==
  ASSUME NEW flips \in SUBSET Regressions, flips # {}
  PROVE  /\ \E f \in flips : f[2] = ResurfacedAt(flips)
         /\ \A f \in flips : f[2] <= ResurfacedAt(flips)
<1> DEFINE T == {f[2] : f \in flips}
<1>1. MaxClock + MaxAhead \in Nat /\ \A f \in flips : f[2] \in 1..(MaxClock + MaxAhead)
  BY ResurfacedConstants DEF Regressions, Seconds
<1>2. T \in SUBSET (0..(MaxClock + MaxAhead)) /\ T # {}
  BY <1>1
<1> HIDE DEF T
<1>3. \E m \in T : \A t \in T : t <= m
  BY <1>1, <1>2, Largest
<1>4. \E m \in T : \A f \in flips : f[2] <= m
  BY <1>3 DEF T
<1>5. ResurfacedAt(flips) \in T /\ \A f \in flips : f[2] <= ResurfacedAt(flips)
  BY <1>4 DEF ResurfacedAt, T
<1>6. QED
  BY <1>5 DEF T

(* The first state: nothing is stored, listed or notified.                 *)
LEMMA ResurfacedInitially ==
  ASSUME ResurfacedInit
  PROVE  ResurfacedInvariant
<1>1. ResurfacedTypeOK
  BY ResurfacedConstants DEF ResurfacedInit, ResurfacedTypeOK, Idle
<1>2. RowsAreDated /\ SweepsAreDated /\ NewsIsNew
  BY DEF ResurfacedInit, RowsAreDated, SweepsAreDated, NewsIsNew, Idle
<1>3. ToldAfterwards /\ EachFlipIsToldOnce
  BY DEF ResurfacedInit, ToldAfterwards, EachFlipIsToldOnce
<1>4. QED
  BY <1>1, <1>2, <1>3 DEF ResurfacedInvariant

LEMMA TickSteps ==
  ASSUME ResurfacedInvariant, Tick
  PROVE  ResurfacedInvariant'
<1> USE DEF ResurfacedInvariant
<1>1. clock \in 0..MaxClock /\ clock' \in 0..MaxClock /\ clock' = clock + 1
  BY ResurfacedConstants DEF ResurfacedTypeOK, Tick
<1>2. told \subseteq [flips : SUBSET Regressions, before : SUBSET Tellings, created : 0..clock']
  <2>1. 0..clock \subseteq 0..clock'
    BY <1>1
  <2>. QED  BY <2>1 DEF ResurfacedTypeOK
<1>3. ResurfacedTypeOK'
  BY <1>1, <1>2 DEF ResurfacedTypeOK, Tick
<1>4. RowsAreDated'
  <2>1. \A r \in rows : r.at \in Nat
    BY ResurfacedConstants DEF ResurfacedTypeOK, Seconds
  <2>. QED  BY <1>1, <2>1, ResurfacedConstants DEF RowsAreDated, Tick
<1>5. SweepsAreDated'
  <2>1. \A w \in Sweepers : \A f \in sweeping[w].flips : f[2] \in Nat
    BY ResurfacedConstants DEF ResurfacedTypeOK, Regressions, Seconds
  <2>. QED  BY <1>1, <2>1, ResurfacedConstants DEF SweepsAreDated, Tick
<1>6. NewsIsNew' /\ ToldAfterwards' /\ EachFlipIsToldOnce'
  BY DEF NewsIsNew, ToldAfterwards, EachFlipIsToldOnce, Tick
<1>7. QED
  BY <1>3, <1>4, <1>5, <1>6

LEMMA StoreSteps ==
  ASSUME ResurfacedInvariant, NEW s \in Resolvers, StoreResult(s)
  PROVE  ResurfacedInvariant'
<1> USE DEF ResurfacedInvariant
<1>1. PICK t \in 1..(clock + MaxAhead), v \in BOOLEAN :
        rows' = rows \cup {[server |-> s, at |-> t, compliant |-> v]}
  BY DEF StoreResult
<1>2. UNCHANGED <<clock, sweeping, notified, seen, told>>
  BY DEF StoreResult
<1>3. t \in Seconds /\ t <= clock + MaxAhead
  BY <1>1, ResurfacedConstants DEF ResurfacedTypeOK, Seconds
<1>4. ResurfacedTypeOK'
  BY <1>1, <1>2, <1>3 DEF ResurfacedTypeOK
<1>5. RowsAreDated'
  BY <1>1, <1>2, <1>3 DEF RowsAreDated
<1>6. SweepsAreDated' /\ NewsIsNew' /\ ToldAfterwards' /\ EachFlipIsToldOnce'
  BY <1>2 DEF SweepsAreDated, NewsIsNew, News, ToldAfterwards, EachFlipIsToldOnce
<1>7. QED
  BY <1>4, <1>5, <1>6

(* What a sweep lists are regressions of the checks there are.             *)
LEMMA ListSteps ==
  ASSUME ResurfacedInvariant, NEW w \in Sweepers, ListResurfaced(w)
  PROVE  ResurfacedInvariant'
<1> USE DEF ResurfacedInvariant
<1>1. Flips # {} /\ UNCHANGED <<clock, rows, notified, seen, told>>
  BY DEF ListResurfaced
<1>2. \A f \in Flips : f \in Regressions /\ f[2] <= clock + MaxAhead
  BY DEF Flips, LatestRows, Last, RowsAreDated
<1>3. sweeping' = [sweeping EXCEPT ![w] = [step |-> "listed", flips |-> Flips, before |-> {}]]
  BY DEF ListResurfaced
<1>4. ResurfacedTypeOK'
  BY <1>1, <1>2, <1>3 DEF ResurfacedTypeOK
<1>5. RowsAreDated' /\ ToldAfterwards' /\ EachFlipIsToldOnce'
  BY <1>1 DEF RowsAreDated, ToldAfterwards, EachFlipIsToldOnce
<1>6. SweepsAreDated' /\ NewsIsNew'
  BY <1>1, <1>2, <1>3 DEF SweepsAreDated, NewsIsNew, ResurfacedTypeOK
<1>7. QED
  BY <1>4, <1>5, <1>6

(* A notification that is recent is younger than all that the sweep found. *)
LEMMA AlreadySteps ==
  ASSUME ResurfacedInvariant, NEW w \in Sweepers, AlreadyNotified(w)
  PROVE  ResurfacedInvariant'
<1> USE DEF ResurfacedInvariant
<1>1. /\ sweeping[w].step = "listed"
      /\ sweeping' = [sweeping EXCEPT ![w] = Idle]
      /\ seen' = seen \cup sweeping[w].flips
      /\ UNCHANGED <<clock, rows, notified, told>>
  BY DEF AlreadyNotified
<1>2. sweeping[w].flips \in SUBSET Regressions /\ sweeping[w].flips # {}
  BY <1>1 DEF ResurfacedTypeOK, SweepsAreDated
<1>3. PICK n \in notified : n.created >= ResurfacedAt(sweeping[w].flips)
  BY DEF AlreadyNotified, HasRecentNotification
<1>4. n \in told /\ n.created \in Nat
  BY DEF ResurfacedTypeOK
<1>5. \A f \in sweeping[w].flips : n.created >= f[2]
  <2>1. /\ \A f \in sweeping[w].flips : f[2] \in Nat /\ f[2] <= ResurfacedAt(sweeping[w].flips)
        /\ ResurfacedAt(sweeping[w].flips) \in Nat
    <3>1. /\ \E f \in sweeping[w].flips : f[2] = ResurfacedAt(sweeping[w].flips)
          /\ \A f \in sweeping[w].flips : f[2] <= ResurfacedAt(sweeping[w].flips)
      BY <1>2, LatestFlip
    <3>2. \A f \in sweeping[w].flips : f[2] \in Nat
      BY <1>2, ResurfacedConstants DEF Regressions, Seconds
    <3>. QED  BY <3>1, <3>2
  <2>. QED  BY <1>3, <1>4, <2>1
<1>6. ResurfacedTypeOK'
  BY <1>1, <1>2 DEF ResurfacedTypeOK, Idle
<1>7. RowsAreDated' /\ SweepsAreDated' /\ NewsIsNew' /\ ToldAfterwards'
  BY <1>1 DEF RowsAreDated, SweepsAreDated, NewsIsNew, ToldAfterwards, ResurfacedTypeOK, Idle
<1>8. EachFlipIsToldOnce'
  BY <1>1, <1>4, <1>5 DEF EachFlipIsToldOnce
<1>9. QED
  BY <1>6, <1>7, <1>8

(* With no recent notification none tells of the latest regression: it     *)
(* would be younger.                                                       *)
LEMMA NotYetSteps ==
  ASSUME ResurfacedInvariant, NEW w \in Sweepers, NotYetNotified(w)
  PROVE  ResurfacedInvariant'
<1> USE DEF ResurfacedInvariant
<1> DEFINE flips == sweeping[w].flips
           before == UNION {n.flips \X {n.created} : n \in notified}
<1>1. /\ sweeping[w].step = "listed"
      /\ \A n \in notified : ~(n.created >= ResurfacedAt(flips))
      /\ sweeping' = [sweeping EXCEPT ![w].step = "new", ![w].before = before]
      /\ UNCHANGED <<clock, rows, notified, seen, told>>
  BY DEF NotYetNotified, HasRecentNotification
<1>2. flips \in SUBSET Regressions /\ flips # {} /\ \A f \in flips : f[2] <= clock + MaxAhead
  BY <1>1 DEF ResurfacedTypeOK, SweepsAreDated
<1>3. PICK f \in flips : f[2] = ResurfacedAt(flips)
  BY <1>2, LatestFlip
<1>4. \A n \in notified : n \in told /\ n.created \in 0..MaxClock /\ n.flips \subseteq Regressions
  BY ResurfacedConstants DEF ResurfacedTypeOK
<1>5. News(flips, before)
  <2>1. ASSUME NEW b \in before, b[1] = f
        PROVE  b[2] < f[2] /\ f[2] <= b[2] + MaxAhead
    <3>1. PICK n \in notified : b \in n.flips \X {n.created}
      OBVIOUS
    <3>2. f \in n.flips /\ b[2] = n.created
      BY <2>1, <3>1
    <3>3. f[2] \in Nat /\ n.created \in Nat
      BY <1>4, <3>2, ResurfacedConstants DEF Regressions, Seconds
    <3>4. ~(n.created >= f[2]) /\ f[2] <= n.created + MaxAhead
      BY <1>1, <1>3, <1>4, <3>2 DEF ToldAfterwards
    <3>. QED  BY <3>2, <3>3, <3>4
  <2>. QED  BY <2>1 DEF News
<1>6. before \subseteq Tellings
  <2>1. ASSUME NEW n \in notified
        PROVE  n.flips \X {n.created} \subseteq Tellings
    BY <1>4 DEF Tellings
  <2>. QED  BY <2>1
<1>7. /\ sweeping'[w] = [step |-> "new", flips |-> flips, before |-> before]
      /\ \A x \in Sweepers \ {w} : sweeping'[x] = sweeping[x]
      /\ sweeping' \in [Sweepers -> [step : {"idle", "listed", "new"},
                                     flips : SUBSET Regressions, before : SUBSET Tellings]]
  BY ZenonT(30), <1>1, <1>6 DEF ResurfacedTypeOK
<1>8. ResurfacedTypeOK'
  BY <1>1, <1>7 DEF ResurfacedTypeOK
<1>9. RowsAreDated' /\ ToldAfterwards' /\ EachFlipIsToldOnce'
  BY <1>1 DEF RowsAreDated, ToldAfterwards, EachFlipIsToldOnce
<1>10. SweepsAreDated'
  <2>1. SUFFICES ASSUME NEW x \in Sweepers, sweeping'[x].step # "idle"
                 PROVE  /\ sweeping'[x].flips # {}
                        /\ \A e \in sweeping'[x].flips : e[2] <= clock + MaxAhead
    BY <1>1 DEF SweepsAreDated
  <2>2. CASE x = w
    BY <1>2, <1>7, <2>2
  <2>3. CASE x # w
    BY <1>7, <2>1, <2>3 DEF SweepsAreDated
  <2>. QED  BY <2>2, <2>3
<1>11. NewsIsNew'
  BY <1>5, <1>7 DEF NewsIsNew
<1>12. QED
  BY <1>8, <1>9, <1>10, <1>11

LEMMA CreateSteps ==
  ASSUME ResurfacedInvariant, NEW w \in Sweepers, CreateNotification(w)
  PROVE  ResurfacedInvariant'
<1> USE DEF ResurfacedInvariant
<1> DEFINE n == [flips |-> sweeping[w].flips, before |-> sweeping[w].before, created |-> clock]
<1>1. /\ sweeping[w].step = "new"
      /\ notified' = notified \cup {n} /\ told' = told \cup {n}
      /\ seen' = seen \cup sweeping[w].flips
      /\ sweeping' = [sweeping EXCEPT ![w] = Idle]
      /\ UNCHANGED <<clock, rows>>
  BY DEF CreateNotification
<1>2. /\ n \in [flips : SUBSET Regressions, before : SUBSET Tellings, created : 0..clock]
      /\ n.flips = sweeping[w].flips /\ n.created = clock
      /\ n.flips \subseteq Regressions /\ News(n.flips, n.before)
      /\ \A f \in n.flips : f[2] <= n.created + MaxAhead
  BY <1>1 DEF ResurfacedTypeOK, SweepsAreDated, NewsIsNew
<1> HIDE DEF n
<1>3. ResurfacedTypeOK'
  BY <1>1, <1>2 DEF ResurfacedTypeOK, Idle
<1>4. RowsAreDated' /\ SweepsAreDated' /\ NewsIsNew'
  BY <1>1 DEF RowsAreDated, SweepsAreDated, NewsIsNew, ResurfacedTypeOK, Idle
<1>5. ToldAfterwards' /\ EachFlipIsToldOnce'
  BY <1>1, <1>2 DEF ToldAfterwards, News, EachFlipIsToldOnce
<1>6. QED
  BY <1>3, <1>4, <1>5

(* A sweep that goes on and a notification that is deleted take nothing    *)
(* back that was told.                                                     *)
LEMMA LeavingSteps ==
  ASSUME ResurfacedInvariant,
         (\E w \in Sweepers : SkipDomain(w)) \/ (\E n \in notified : Delete(n))
  PROVE  ResurfacedInvariant'
<1> USE DEF ResurfacedInvariant
<1>1. CASE \E w \in Sweepers : SkipDomain(w)
  <2>1. ResurfacedTypeOK'
    BY <1>1 DEF ResurfacedTypeOK, SkipDomain, Idle
  <2>2. RowsAreDated' /\ SweepsAreDated' /\ NewsIsNew'
    BY <1>1 DEF RowsAreDated, SweepsAreDated, NewsIsNew, ResurfacedTypeOK, SkipDomain, Idle
  <2>3. ToldAfterwards' /\ EachFlipIsToldOnce'
    BY <1>1 DEF ToldAfterwards, EachFlipIsToldOnce, SkipDomain
  <2>. QED  BY <2>1, <2>2, <2>3
<1>2. CASE \E n \in notified : Delete(n)
  <2>1. ResurfacedTypeOK'
    BY <1>2 DEF ResurfacedTypeOK, Delete
  <2>2. RowsAreDated' /\ SweepsAreDated' /\ NewsIsNew'
    BY <1>2 DEF RowsAreDated, SweepsAreDated, NewsIsNew, Delete
  <2>3. ToldAfterwards' /\ EachFlipIsToldOnce'
    BY <1>2 DEF ToldAfterwards, EachFlipIsToldOnce, Delete
  <2>. QED  BY <2>1, <2>2, <2>3
<1>3. QED
  BY <1>1, <1>2

LEMMA ResurfacedSteps ==
  ASSUME ResurfacedInvariant, ResurfacedNext
  PROVE  ResurfacedInvariant'
<1>1. CASE Tick
  BY <1>1, TickSteps
<1>2. CASE \E s \in Resolvers : StoreResult(s)
  BY <1>2, StoreSteps
<1>3. CASE \E w \in Sweepers : \/ ListResurfaced(w) \/ AlreadyNotified(w) \/ NotYetNotified(w)
                               \/ CreateNotification(w) \/ SkipDomain(w)
  BY <1>3, ListSteps, AlreadySteps, NotYetSteps, CreateSteps, LeavingSteps
<1>4. CASE \E n \in notified : Delete(n)
  BY <1>4, LeavingSteps
<1>5. QED
  BY <1>1, <1>2, <1>3, <1>4 DEF ResurfacedNext

LEMMA ResurfacedRests ==
  ASSUME ResurfacedInvariant, UNCHANGED resurfacedVars
  PROVE  ResurfacedInvariant'
  BY DEF ResurfacedInvariant, ResurfacedTypeOK, RowsAreDated, SweepsAreDated, NewsIsNew,
         ToldAfterwards, EachFlipIsToldOnce, resurfacedVars
-----------------------------------------------------------------------------
(* The parts beside each other. *)

BackgroundInvariant ==
  ScheduleInvariant /\ SelectionInvariant /\ StreakTypeOK /\ ResurfacedInvariant

LEMMA BackgroundInitially ==
  ASSUME BackgroundInit
  PROVE  BackgroundInvariant
  BY ScheduleInitially, SelectionInitially, StreakInitially, ResurfacedInitially
     DEF BackgroundInit, BackgroundInvariant

(* One part moves and the others rest.                                     *)
LEMMA BackgroundSteps ==
  ASSUME BackgroundInvariant, [BackgroundNext]_backgroundVars
  PROVE  BackgroundInvariant'
<1> USE DEF BackgroundInvariant
<1>1. ScheduleInvariant'
  <2>1. ScheduleNext \/ UNCHANGED scheduleVars
    BY DEF BackgroundNext, backgroundVars
  <2>. QED  BY <2>1, ScheduleSteps, ScheduleRests
<1>2. SelectionInvariant'
  <2>1. SelectionNext \/ UNCHANGED selectionVars
    BY DEF BackgroundNext, backgroundVars
  <2>. QED  BY <2>1, SelectionSteps, SelectionRests
<1>3. StreakTypeOK'
  <2>1. StreakNext \/ UNCHANGED streakVars
    BY DEF BackgroundNext, backgroundVars
  <2>. QED  BY <2>1, StreakSteps, StreakRests
<1>4. ResurfacedInvariant'
  <2>1. ResurfacedNext \/ UNCHANGED resurfacedVars
    BY DEF BackgroundNext, backgroundVars
  <2>. QED  BY <2>1, ResurfacedSteps, ResurfacedRests
<1>5. QED
  BY <1>1, <1>2, <1>3, <1>4

LEMMA BackgroundHolds ==
  BackgroundSpec => []BackgroundInvariant
<1>1. BackgroundInit => BackgroundInvariant
  BY BackgroundInitially
<1>2. BackgroundInvariant /\ [BackgroundNext]_backgroundVars => BackgroundInvariant'
  BY BackgroundSteps
<1>3. QED
  BY <1>1, <1>2, PTL DEF BackgroundSpec

(* Every variable of the schedules, of what they select, of the results    *)
(* and of the resurfaced sweep keeps its type.                             *)
THEOREM BackgroundTypesKept ==
  BackgroundSpec => []BackgroundTypeOK
<1>1. BackgroundInvariant => BackgroundTypeOK
  BY DEF BackgroundInvariant, ScheduleInvariant, SelectionInvariant, ResurfacedInvariant,
         BackgroundTypeOK
<1>2. QED
  BY <1>1, BackgroundHolds, PTL

(* However saves of the settings cross each other and fail, a loop that    *)
(* waits waits for what is stored; however domains change while the loops  *)
(* select, each is scanned by the one that owns it; and in whatever order  *)
(* results were stored, a domain is owned by the second loop until its     *)
(* last results on every server are compliant.                             *)
THEOREM SchedulesKept ==
  BackgroundSpec => []SchedulesAreKept
<1>1. BackgroundInvariant => SchedulesAreKept
  BY LoopsFollow, DomainsHaveLoops, StreakCounts DEF BackgroundInvariant, SchedulesAreKept
<1>2. QED
  BY <1>1, BackgroundHolds, PTL

(* However many sweeps are at it at once, whatever seconds results have    *)
(* and in whatever order they are stored, a notification tells of a        *)
(* regression that none of those its sweep found told of, or that they     *)
(* told of before its second had come; and none is passed over.            *)
THEOREM FlipsToldOnce ==
  BackgroundSpec => []EachFlipIsToldOnce
<1>1. BackgroundInvariant => EachFlipIsToldOnce
  BY DEF BackgroundInvariant, ResurfacedInvariant
<1>2. QED
  BY <1>1, BackgroundHolds, PTL
=============================================================================
