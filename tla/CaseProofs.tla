----------------------------- MODULE CaseProofs -----------------------------
(***************************************************************************)
(* Cases for any number of tabs, every set of domains and every bound: the *)
(* cases stay whole, and a save that ends well has stored what it was to.  *)
(* And their due dates: the tasks in the queue follow them.                *)
(***************************************************************************)
EXTENDS Cases, DueDates, FiniteSetTheorems, TLAPS

(* What the requests of each stage are.                                    *)
KindsOf(stage) ==
  CASE stage = "update" -> {"update"}
    [] stage = "urls"   -> {"url"}
    [] stage = "open"   -> {"open"}
    [] stage = "adds"   -> {"add"}
    [] stage = "rest"   -> {"letter", "drop"}
    [] OTHER -> {}

(* What a save is about does not change but for its case, which it has     *)
(* from the start or from its stage "open" on.                             *)
Planned(s) ==
  /\ s.stage = "none" <=> s.number = 0
  /\ s.adds \cap s.drops = {}
  /\ s.editing => s.case # 0 /\ s.stage # "open"
  /\ ~s.editing /\ s.stage # "none" => s.adds # {} /\ s.stage # "update"
  /\ ~s.editing /\ s.stage \in {"urls", "open"} => s.case = 0
  /\ s.stage \in {"adds", "rest", "saved"} => s.case # 0

(* The requests of a save that are under way are those of its stage.       *)
Asked(s) ==
  /\ \A r \in s.waiting :
       /\ r.save = s.number /\ r.case = s.case /\ r.kind \in KindsOf(s.stage)
       /\ r.kind = "add" => r.domain \in s.adds
       /\ r.kind = "drop" => r.domain \in s.drops
       /\ r.kind = "open" => r.domain = Main(s)
  /\ s.stage = "open" => \A r, q \in s.waiting : r = q

(* A request of the save is still to add, or to drop, the domain.          *)
ToAdd(s, n) == \E r \in s.waiting : r.kind = "add" /\ r.domain = n /\ ~r.begun
ToDrop(s, n) == \E r \in s.waiting : r.kind = "drop" /\ r.domain = n

(* From the stage that adds, and that drops, on: what the case has of the  *)
(* domains nobody else has changed.                                        *)
Stored(s, domains) ==
  /\ s.stage \in {"adds", "rest", "saved"}
       => \A n \in s.adds \ s.meddled : n \in domains \/ ToAdd(s, n)
  /\ s.stage \in {"rest", "saved"}
       => \A n \in s.drops \ s.meddled : n \notin domains \/ ToDrop(s, n)

(* The parts of the invariant.                                             *)
CallsAreOurs ==
  \A r \in calls :
    /\ r.save \in 1..saves /\ r.case \in 0..opened
    /\ r.kind \in {"add", "drop"} => r.case # 0
FormsAreOurs == \A d \in Dialogs : form[d].case \in 0..opened
SavesAreOurs ==
  /\ \A d \in Dialogs :
       /\ save[d].number \in 0..saves /\ save[d].case \in 0..opened
       /\ save[d].waiting = {r \in calls : r.save = save[d].number}
  /\ \A d, e \in Dialogs : save[d].number = save[e].number /\ save[d].number # 0 => d = e
SavesAreRight ==
  \A d \in Dialogs :
    Planned(save[d]) /\ Asked(save[d]) /\ Stored(save[d], caseURLs[save[d].case])

CasesInvariant ==
  /\ CasesTypeOK /\ CallsAreOurs /\ FormsAreOurs /\ SavesAreOurs /\ SavesAreRight
  /\ CasesAreWhole
-----------------------------------------------------------------------------
(* The requests of a save. *)

(* The group of a stage x of the save s, whatever stage s is at.           *)
GroupAt(s, x) ==
  CASE x = "update" -> Whole(s, "update")
    [] x = "urls"   -> Requests(s, "url", s.adds)
    [] x = "open"   -> Requests(s, "open", {Main(s)})
    [] x = "adds"   -> Requests(s, "add", IF s.editing THEN s.adds ELSE s.adds \ {Main(s)})
    [] x = "rest"   -> Whole(s, "letter") \cup Requests(s, "drop", s.drops)
    [] OTHER -> {}

SentAt(s, x) == [s EXCEPT !.stage = x, !.waiting = GroupAt(s, x)]

LEMMA Sending ==
  ASSUME NEW s \in Save, NEW x \in Stages
  PROVE  SendGroup([s EXCEPT !.stage = x]) = SentAt(s, x)
<1> DEFINE t == [s EXCEPT !.stage = x]
<1>1. /\ t \in Save
      /\ t.stage = x /\ t.number = s.number /\ t.case = s.case /\ t.adds = s.adds
      /\ t.drops = s.drops /\ t.editing = s.editing
  BY DEF Save
<1> HIDE DEF t
<1>2. Main(t) = Main(s)
  BY <1>1 DEF Main
<1>3. GroupOf(t) = GroupAt(s, x)
  BY <1>1, <1>2 DEF GroupOf, GroupAt, Whole, Requests
<1>4. SendGroup(t) = [t EXCEPT !.waiting = GroupAt(s, x)]
  BY <1>3 DEF SendGroup
<1>5. QED
  BY <1>4 DEF t, SentAt, Save

(* A request is about its save, and about one domain.                      *)
LEMMA RequestsOf ==
  ASSUME NEW s \in Save, s.number # 0, NEW kind \in Kinds, NEW D \in SUBSET Domains
  PROVE  /\ Requests(s, kind, D) \in SUBSET Call
         /\ \A r \in Requests(s, kind, D) :
              /\ r.save = s.number /\ r.case = s.case /\ r.kind = kind
              /\ r.domain \in D /\ ~r.begun /\ r.counted = 0
         /\ \A n \in D : \E r \in Requests(s, kind, D) : r.domain = n
<1>1. /\ s.number \in 1..MaxSaves /\ s.case \in 0..MaxCases
      /\ 0 \in 0..Cardinality(Domains)
  <2>1. Cardinality(Domains) \in Nat
    BY CasesConstants, FS_CardinalityType
  <2>. QED  BY <2>1, CasesConstants DEF Save
<1> DEFINE R(n) == [save |-> s.number, kind |-> kind, case |-> s.case, domain |-> n,
                    counted |-> 0, begun |-> FALSE]
<1>2. \A n \in D : R(n) \in Call
  BY <1>1 DEF Call
<1>3. Requests(s, kind, D) = {R(n) : n \in D}
  BY DEF Requests
<1>4. \A n \in D : /\ R(n).save = s.number /\ R(n).case = s.case /\ R(n).kind = kind
                   /\ R(n).domain = n /\ ~R(n).begun /\ R(n).counted = 0
  OBVIOUS
<1> HIDE DEF R
<1>5. QED
  BY <1>2, <1>3, <1>4

(* The group of a stage.                                                   *)
LEMMA GroupsAt ==
  ASSUME NEW s \in Save, s.number # 0, NEW x \in Stages, x = "open" => s.adds # {}
  PROVE  /\ GroupAt(s, x) \in SUBSET Call
         /\ \A r \in GroupAt(s, x) :
              /\ r.save = s.number /\ r.case = s.case /\ r.kind \in KindsOf(x) /\ ~r.begun
              /\ r.kind = "add" => r.domain \in s.adds
              /\ r.kind = "drop" => r.domain \in s.drops
              /\ r.kind = "open" => r.domain = Main(s)
         /\ x = "open" => \A r, q \in GroupAt(s, x) : r = q
<1>1. (CHOOSE n \in Domains : TRUE) \in Domains
  BY CasesConstants
<1>2. s.adds \in SUBSET Domains /\ s.drops \in SUBSET Domains
  BY DEF Save
<1>3. "update" \in Kinds /\ "url" \in Kinds /\ "open" \in Kinds /\ "add" \in Kinds
      /\ "letter" \in Kinds /\ "drop" \in Kinds
  BY DEF Kinds
<1>4. CASE x = "update"
  BY <1>1, <1>3, <1>4, RequestsOf DEF GroupAt, Whole, KindsOf
<1>5. CASE x = "urls"
  BY <1>2, <1>3, <1>5, RequestsOf DEF GroupAt, KindsOf
<1>6. CASE x = "open"
  <2>1. Main(s) \in s.adds
    BY <1>6 DEF Main
  <2>2. GroupAt(s, x) = Requests(s, "open", {Main(s)})
    BY <1>6 DEF GroupAt
  <2>3. \A r, q \in GroupAt(s, x) : r = q
    BY <2>2 DEF Requests
  <2>. QED  BY <1>2, <1>3, <1>6, <2>1, <2>2, <2>3, RequestsOf DEF KindsOf
<1>7. CASE x = "adds"
  <2> DEFINE D == IF s.editing THEN s.adds ELSE s.adds \ {Main(s)}
  <2>1. D \in SUBSET Domains /\ D \subseteq s.adds
    BY <1>2
  <2>2. GroupAt(s, x) = Requests(s, "add", D)
    BY <1>7 DEF GroupAt
  <2> HIDE DEF D
  <2>. QED  BY <1>3, <1>7, <2>1, <2>2, RequestsOf DEF KindsOf
<1>8. CASE x = "rest"
  <2>1. GroupAt(s, x) = Whole(s, "letter") \cup Requests(s, "drop", s.drops)
    BY <1>8 DEF GroupAt
  <2>2. Whole(s, "letter") = Requests(s, "letter", {CHOOSE n \in Domains : TRUE})
    BY DEF Whole
  <2>3. /\ Whole(s, "letter") \in SUBSET Call
        /\ \A r \in Whole(s, "letter") :
             r.save = s.number /\ r.case = s.case /\ r.kind = "letter" /\ ~r.begun
    BY <1>1, <1>3, <2>2, RequestsOf
  <2>4. /\ Requests(s, "drop", s.drops) \in SUBSET Call
        /\ \A r \in Requests(s, "drop", s.drops) :
             /\ r.save = s.number /\ r.case = s.case /\ r.kind = "drop" /\ ~r.begun
             /\ r.domain \in s.drops
    BY <1>2, <1>3, RequestsOf
  <2>5. KindsOf(x) = {"letter", "drop"}
    BY <1>8 DEF KindsOf
  <2>. QED  BY <1>8, <2>1, <2>3, <2>4, <2>5
<1>9. CASE x \in {"none", "saved"}
  BY <1>9 DEF GroupAt
<1>10. QED
  BY <1>4, <1>5, <1>6, <1>7, <1>8, <1>9 DEF Stages

(* Every domain has its request, but for the one a new case is opened with.*)
LEMMA GroupsAreWhole ==
  ASSUME NEW s \in Save, s.number # 0
  PROVE  /\ \A n \in s.adds : s.editing \/ n # Main(s)
              => \E r \in GroupAt(s, "adds") : r.kind = "add" /\ r.domain = n /\ ~r.begun
         /\ \A n \in s.drops : \E r \in GroupAt(s, "rest") : r.kind = "drop" /\ r.domain = n
         /\ GroupAt(s, "rest") # {}
         /\ s.adds # {} => GroupAt(s, "open") # {}
         /\ GroupAt(s, "urls") = {} => s.adds = {}
<1>1. (CHOOSE n \in Domains : TRUE) \in Domains
  BY CasesConstants
<1>2. s.adds \in SUBSET Domains /\ s.drops \in SUBSET Domains
  BY DEF Save
<1>3. "url" \in Kinds /\ "open" \in Kinds /\ "add" \in Kinds
      /\ "letter" \in Kinds /\ "drop" \in Kinds
  BY DEF Kinds
<1>4. \A n \in s.adds : s.editing \/ n # Main(s)
        => \E r \in GroupAt(s, "adds") : r.kind = "add" /\ r.domain = n /\ ~r.begun
  <2> DEFINE D == IF s.editing THEN s.adds ELSE s.adds \ {Main(s)}
  <2>1. D \in SUBSET Domains /\ \A n \in s.adds : s.editing \/ n # Main(s) => n \in D
    BY <1>2
  <2>2. GroupAt(s, "adds") = Requests(s, "add", D)
    BY DEF GroupAt
  <2> HIDE DEF D
  <2>. QED  BY <1>3, <2>1, <2>2, RequestsOf
<1>5. GroupAt(s, "rest") = Whole(s, "letter") \cup Requests(s, "drop", s.drops)
  BY DEF GroupAt
<1>6. \A n \in s.drops : \E r \in GroupAt(s, "rest") : r.kind = "drop" /\ r.domain = n
  BY <1>2, <1>3, <1>5, RequestsOf
<1>7. GroupAt(s, "rest") # {}
  BY <1>1, <1>3, <1>5, RequestsOf DEF Whole
<1>8. s.adds # {} => GroupAt(s, "open") # {}
  <2>1. s.adds # {} => {Main(s)} \in SUBSET Domains
    BY <1>2 DEF Main
  <2>. QED  BY <1>3, <2>1, RequestsOf DEF GroupAt
<1>9. GroupAt(s, "urls") = {} => s.adds = {}
  BY <1>2, <1>3, RequestsOf DEF GroupAt
<1>10. QED
  BY <1>4, <1>6, <1>7, <1>8, <1>9
-----------------------------------------------------------------------------
(* A save goes on. *)

(* t is right, and is s further on.                                        *)
Follows(t, s, domains) ==
  /\ t \in Save /\ t.number = s.number /\ t.case = s.case
  /\ Planned(t) /\ Asked(t) /\ Stored(t, domains)

(* The save s may be at stage x, with these domains in its case.           *)
MayBeAt(s, x, domains) ==
  /\ x \in Stages \ {"none"} /\ s.number # 0 /\ s.adds \cap s.drops = {}
  /\ s.editing => s.case # 0 /\ x # "open"
  /\ ~s.editing => s.adds # {} /\ x # "update"
  /\ ~s.editing /\ x \in {"urls", "open"} => s.case = 0
  /\ x \in {"adds", "rest", "saved"} => s.case # 0
  /\ ~s.editing /\ x = "adds" => Main(s) \in domains
  /\ x \in {"rest", "saved"} => s.adds \ s.meddled \subseteq domains
  /\ x = "saved" => (s.drops \ s.meddled) \cap domains = {}

LEMMA SentIsRight ==
  ASSUME NEW s \in Save, NEW x, NEW domains, MayBeAt(s, x, domains)
  PROVE  Follows(SentAt(s, x), s, domains) /\ SentAt(s, x).waiting = GroupAt(s, x)
<1> DEFINE t == SentAt(s, x)
<1>1. x \in Stages /\ x # "none" /\ s.number # 0 /\ (x = "open" => s.adds # {})
  BY DEF MayBeAt
<1>2. GroupAt(s, x) \in SUBSET Call
  BY <1>1, GroupsAt
<1>3. /\ t \in Save /\ t.stage = x /\ t.waiting = GroupAt(s, x)
      /\ t.number = s.number /\ t.case = s.case /\ t.adds = s.adds /\ t.drops = s.drops
      /\ t.editing = s.editing /\ t.meddled = s.meddled
  BY <1>1, <1>2 DEF SentAt, Save
<1> HIDE DEF t
<1>4. Main(t) = Main(s)
  BY <1>3 DEF Main
<1>5. Planned(t)
  BY <1>1, <1>3 DEF Planned, MayBeAt
<1>6. Asked(t)
  BY <1>1, <1>3, <1>4, GroupsAt DEF Asked
<1>7. Stored(t, domains)
  <2>1. ASSUME x = "adds", NEW n \in s.adds \ s.meddled
        PROVE  n \in domains \/ ToAdd(t, n)
    <3>1. CASE s.editing \/ n # Main(s)
      BY <1>1, <1>3, <2>1, <3>1, GroupsAreWhole DEF ToAdd
    <3>2. CASE ~s.editing /\ n = Main(s)
      BY <2>1, <3>2 DEF MayBeAt
    <3>. QED  BY <3>1, <3>2
  <2>2. ASSUME x = "rest", NEW n \in s.drops \ s.meddled
        PROVE  ToDrop(t, n)
    BY <1>1, <1>3, <2>2, GroupsAreWhole DEF ToDrop
  <2>. QED  BY <1>3, <2>1, <2>2 DEF Stored, MayBeAt
<1>8. QED
  BY <1>3, <1>5, <1>6, <1>7 DEF Follows, t

(* A save whose group is answered, with these domains in its case.         *)
AnswerComes(s, domains) ==
  /\ s.stage \in Stages \ {"none", "saved"}
  /\ s.number # 0 /\ s.adds \cap s.drops = {}
  /\ s.editing => s.case # 0 /\ s.stage # "open"
  /\ ~s.editing => s.adds # {} /\ s.stage # "update"
  /\ ~s.editing /\ s.stage = "urls" => s.case = 0
  /\ s.stage \in {"open", "adds", "rest"} => s.case # 0
  /\ s.stage = "open" => Main(s) \in domains
  /\ s.stage \in {"adds", "rest"} => s.adds \ s.meddled \subseteq domains
  /\ s.stage = "rest" => (s.drops \ s.meddled) \cap domains = {}

(* The next stage that has requests, if any: one that is skipped has       *)
(* nothing to do.                                                          *)
LEMMA Advancing ==
  ASSUME NEW s \in Save, NEW domains, AnswerComes(s, domains)
  PROVE  /\ Follows(Advance(s), s, domains)
         /\ \A q \in Advance(s).waiting : q.kind \notin KindsOf(s.stage)
<1> DEFINE next == SendGroup([s EXCEPT !.stage = After(s)])
           second == SendGroup([next EXCEPT !.stage = After(next)])
           third == SendGroup([second EXCEPT !.stage = After(second)])
<1>1. Advance(s) = IF next.waiting # {} \/ next.stage = "saved" THEN next
                   ELSE IF second.waiting # {} THEN second ELSE third
  BY DEF Advance
<1>2. After(s) \in Stages
  BY DEF After, Stages
<1>3. next = SentAt(s, After(s))
  BY <1>2, Sending
<1>4. ASSUME NEW x \in Stages, MayBeAt(s, x, domains), Advance(s) = SentAt(s, x),
             KindsOf(x) \cap KindsOf(s.stage) = {}
      PROVE  /\ Follows(Advance(s), s, domains)
             /\ \A q \in Advance(s).waiting : q.kind \notin KindsOf(s.stage)
  <2>1. Follows(Advance(s), s, domains) /\ Advance(s).waiting = GroupAt(s, x)
    BY <1>4, SentIsRight
  <2>2. \A q \in GroupAt(s, x) : q.kind \in KindsOf(x)
    BY <1>4, GroupsAt DEF MayBeAt
  <2>. QED  BY <1>4, <2>1, <2>2
<1> HIDE DEF next
<1>5. ASSUME NEW x \in Stages, After(s) = x, s.number # 0, x = "open" => s.adds # {}
      PROVE  /\ next \in Save /\ next.stage = x /\ next.waiting = GroupAt(s, x)
             /\ next.editing = s.editing
             /\ \A y \in Stages : SentAt(next, y) = SentAt(s, y)
  <2>1. GroupAt(s, x) \in SUBSET Call
    BY <1>5, GroupsAt
  <2>2. /\ next \in Save /\ next.stage = x /\ next.waiting = GroupAt(s, x)
        /\ next.number = s.number /\ next.case = s.case /\ next.adds = s.adds
        /\ next.drops = s.drops /\ next.editing = s.editing /\ next.meddled = s.meddled
    BY <1>3, <1>5, <2>1 DEF SentAt, Save
  <2>3. \A y \in Stages : GroupAt(next, y) = GroupAt(s, y)
    BY <2>2 DEF GroupAt, Whole, Requests, Main
  <2>4. \A y \in Stages : SentAt(next, y) = SentAt(s, y)
    BY <2>2, <2>3 DEF SentAt, Save
  <2>. QED  BY <2>2, <2>4
<1>6. CASE s.stage = "rest"
  <2>1. After(s) = "saved"
    BY <1>6 DEF After
  <2>2. Advance(s) = SentAt(s, "saved")
    BY <1>1, <1>3, <2>1, <1>5 DEF AnswerComes, Stages
  <2>. QED  BY <1>4, <1>6, <2>2 DEF AnswerComes, MayBeAt, KindsOf, Stages
<1>7. CASE s.stage = "adds"
  <2>1. After(s) = "rest"
    BY <1>7 DEF After
  <2>2. GroupAt(s, "rest") # {}
    BY GroupsAreWhole DEF AnswerComes
  <2>3. Advance(s) = SentAt(s, "rest")
    BY <1>1, <1>3, <2>1, <2>2, <1>5 DEF AnswerComes, Stages
  <2>. QED  BY <1>4, <1>7, <2>3 DEF AnswerComes, MayBeAt, KindsOf, Stages
<1>8. ASSUME NEW x \in Stages, After(s) = x, x \notin {"open", "saved"}, s.number # 0,
             GroupAt(s, x) = {}, NEW y \in Stages, y # "open", After(next) = y
      PROVE  /\ GroupAt(s, y) # {} => Advance(s) = SentAt(s, y)
             /\ GroupAt(s, y) = {} => Advance(s) = SentAt(s, After(SentAt(s, y)))
  <2>1. /\ next \in Save /\ next.stage = x /\ next.waiting = {}
        /\ \A z \in Stages : SentAt(next, z) = SentAt(s, z)
    BY <1>5, <1>8
  <2>2. second = SentAt(s, y)
    BY <1>8, <2>1, Sending
  <2> HIDE DEF second
  <2>3. GroupAt(s, y) \in SUBSET Call
    BY <1>8, GroupsAt
  <2>4. /\ second \in Save /\ second.waiting = GroupAt(s, y)
        /\ second.number = s.number /\ second.case = s.case /\ second.adds = s.adds
        /\ second.drops = s.drops /\ second.editing = s.editing /\ second.meddled = s.meddled
    BY <2>2, <2>3 DEF SentAt, Save
  <2>5. After(second) \in Stages
    BY DEF After, Stages
  <2>6. third = SentAt(second, After(second))
    BY <2>4, <2>5, Sending
  <2>7. \A z \in Stages : GroupAt(second, z) = GroupAt(s, z)
    BY <2>4 DEF GroupAt, Whole, Requests, Main
  <2>8. \A z \in Stages : SentAt(second, z) = SentAt(s, z)
    BY <2>2, <2>4, <2>7 DEF SentAt, Save
  <2> HIDE DEF third
  <2>9. Advance(s) = IF GroupAt(s, y) # {} THEN second ELSE third
    BY <1>1, <1>8, <2>1, <2>4
  <2>. QED  BY <2>2, <2>5, <2>6, <2>8, <2>9
<1>9. s.adds = {} => GroupAt(s, "adds") = {}
  <2>1. \A r \in GroupAt(s, "adds") : r.kind \in {"add"} /\ (r.kind = "add" => r.domain \in s.adds)
    BY GroupsAt DEF AnswerComes, Stages, KindsOf
  <2>. QED  BY <2>1
<1>10. "urls" \in Stages /\ "open" \in Stages /\ "adds" \in Stages /\ "rest" \in Stages
  BY DEF Stages
<1>11. CASE s.stage = "open"
  <2>1. After(s) = "adds"
    BY <1>11 DEF After
  <2>2. CASE GroupAt(s, "adds") # {}
    <3>1. Advance(s) = SentAt(s, "adds")
      BY <1>1, <1>3, <1>5, <1>10, <2>1, <2>2 DEF AnswerComes
    <3>. QED  BY <1>4, <1>10, <1>11, <3>1 DEF AnswerComes, MayBeAt, KindsOf
  <2>3. CASE GroupAt(s, "adds") = {}
    <3>1. After(next) = "rest"
      BY <1>5, <1>10, <2>1 DEF After, AnswerComes
    <3>2. Advance(s) = SentAt(s, "rest")
      BY <1>8, <1>10, <2>1, <2>3, <3>1, GroupsAreWhole DEF AnswerComes
    <3>3. s.adds \subseteq {Main(s)}
      BY <1>11, <2>3, GroupsAreWhole DEF AnswerComes
    <3>. QED  BY <1>4, <1>10, <1>11, <3>2, <3>3 DEF AnswerComes, MayBeAt, KindsOf
  <2>. QED  BY <2>2, <2>3
<1>12. CASE s.stage = "urls" /\ ~s.editing
  <2>1. After(s) = "open"
    BY <1>12 DEF After
  <2>2. GroupAt(s, "open") # {}
    BY <1>12, GroupsAreWhole DEF AnswerComes
  <2>3. Advance(s) = SentAt(s, "open")
    BY <1>1, <1>3, <1>5, <1>10, <1>12, <2>1, <2>2 DEF AnswerComes
  <2>. QED  BY <1>4, <1>10, <1>12, <2>3 DEF AnswerComes, MayBeAt, KindsOf
<1>13. CASE s.stage = "urls" /\ s.editing
  <2>1. After(s) = "adds"
    BY <1>13 DEF After
  <2>2. CASE GroupAt(s, "adds") # {}
    <3>1. Advance(s) = SentAt(s, "adds")
      BY <1>1, <1>3, <1>5, <1>10, <2>1, <2>2 DEF AnswerComes
    <3>. QED  BY <1>4, <1>10, <1>13, <3>1 DEF AnswerComes, MayBeAt, KindsOf
  <2>3. CASE GroupAt(s, "adds") = {}
    <3>1. After(next) = "rest"
      BY <1>5, <1>10, <2>1 DEF After, AnswerComes
    <3>2. Advance(s) = SentAt(s, "rest")
      BY <1>8, <1>10, <2>1, <2>3, <3>1, GroupsAreWhole DEF AnswerComes
    <3>3. s.adds = {}
      BY <1>13, <2>3, GroupsAreWhole DEF AnswerComes
    <3>. QED  BY <1>4, <1>10, <1>13, <3>2, <3>3 DEF AnswerComes, MayBeAt, KindsOf
  <2>. QED  BY <2>2, <2>3
<1>14. CASE s.stage = "update"
  <2>1. After(s) = "urls" /\ s.editing /\ s.number # 0
    BY <1>14 DEF After, AnswerComes
  <2>2. CASE GroupAt(s, "urls") # {}
    <3>1. Advance(s) = SentAt(s, "urls")
      BY <1>1, <1>3, <1>5, <1>10, <2>1, <2>2
    <3>. QED  BY <1>4, <1>10, <1>14, <2>1, <3>1 DEF AnswerComes, MayBeAt, KindsOf
  <2>3. CASE GroupAt(s, "urls") = {}
    <3>1. next.stage = "urls" /\ next.editing
      BY <1>5, <1>10, <2>1
    <3>2. After(next) = "adds"
      BY <3>1 DEF After
    <3>3. s.adds = {}
      BY <2>1, <2>3, GroupsAreWhole
    <3>4. After(SentAt(s, "adds")) = "rest"
      <4>1. SentAt(s, "adds").stage = "adds"
        BY DEF SentAt, Save
      <4>. QED  BY <4>1 DEF After
    <3>5. Advance(s) = SentAt(s, "rest")
      BY <1>8, <1>9, <1>10, <2>1, <2>3, <3>2, <3>3, <3>4
    <3>. QED  BY <1>4, <1>10, <1>14, <2>1, <3>3, <3>5 DEF AnswerComes, MayBeAt, KindsOf
  <2>. QED  BY <2>2, <2>3
<1>15. QED
  BY <1>6, <1>7, <1>11, <1>12, <1>13, <1>14 DEF AnswerComes, Stages

WellSettled(s, r) == Settled(s, r, TRUE)

(* A request is answered well, and what it was to do is done: the save     *)
(* waits for the others of its group, or goes on.                          *)
LEMMA Settling ==
  ASSUME NEW s \in Save, s.stage # "none", Planned(s), Asked(s),
         NEW domains, Stored(s, domains),
         NEW r \in s.waiting, r.kind # "open", r.kind = "add" => r.begun,
         r.kind = "drop" => r.domain \notin domains
  PROVE  /\ Follows(WellSettled(s, r), s, domains)
         /\ r \notin WellSettled(s, r).waiting
         /\ s.waiting \ {r} \subseteq WellSettled(s, r).waiting
<1> DEFINE left == [s EXCEPT !.waiting = @ \ {r}]
<1>1. /\ left \in Save /\ left.waiting = s.waiting \ {r}
      /\ left.stage = s.stage /\ left.number = s.number /\ left.case = s.case
      /\ left.adds = s.adds /\ left.drops = s.drops /\ left.editing = s.editing
      /\ left.meddled = s.meddled
  BY DEF Save
<1>2. WellSettled(s, r) = IF left.waiting # {} THEN left ELSE Advance(left)
  BY DEF Settled, WellSettled
<1> HIDE DEF left
<1>3. Main(left) = Main(s)
  BY <1>1 DEF Main
<1>4. Planned(left) /\ Asked(left)
  BY <1>1, <1>3 DEF Planned, Asked
<1>5. \A n : /\ ToAdd(s, n) => ToAdd(left, n)
             /\ ToDrop(s, n) => ToDrop(left, n) \/ (n = r.domain /\ r.kind = "drop")
  BY <1>1 DEF ToAdd, ToDrop
<1>6. Stored(left, domains)
  BY <1>1, <1>5 DEF Stored
<1>7. r.kind \in KindsOf(s.stage) /\ s.stage # "open" /\ s.stage # "saved"
  BY DEF Asked, KindsOf
<1>8. CASE left.waiting # {}
  BY <1>1, <1>2, <1>4, <1>6, <1>8 DEF Follows
<1>9. CASE left.waiting = {}
  <2>1. \A n : ~ToAdd(left, n) /\ ~ToDrop(left, n)
    BY <1>9 DEF ToAdd, ToDrop
  <2>2. s.stage \in Stages
    BY DEF Save
  <2>3. AnswerComes(left, domains)
    BY <1>1, <1>4, <1>6, <1>7, <2>1, <2>2 DEF AnswerComes, Planned, Stored
  <2>4. /\ Follows(Advance(left), left, domains)
        /\ \A q \in Advance(left).waiting : q.kind \notin KindsOf(left.stage)
    BY <1>1, <2>3, Advancing
  <2>. QED  BY <1>1, <1>2, <1>7, <1>9, <2>4 DEF Follows
<1>10. QED
  BY <1>8, <1>9

(* The case is opened: the save has it from now on.                        *)
LEMMA Opening ==
  ASSUME NEW s \in Save, s.stage # "none", Planned(s), Asked(s),
         NEW r \in s.waiting, r.kind = "open",
         NEW c \in 1..MaxCases, NEW domains, r.domain \in domains
  PROVE  LET t == WellSettled(WithCase(s, r, c), r)
         IN  /\ t \in Save /\ t.number = s.number /\ t.case = c
             /\ Planned(t) /\ Asked(t) /\ Stored(t, domains)
             /\ r \notin t.waiting /\ s.waiting \ {r} \subseteq t.waiting
<1> DEFINE left == [WithCase(s, r, c) EXCEPT !.waiting = @ \ {r}]
           t == WellSettled(WithCase(s, r, c), r)
<1>1. r.kind \in KindsOf(s.stage) /\ s.stage = "open"
  BY DEF Asked, KindsOf
<1>2. s.waiting \ {r} = {} /\ r.domain = Main(s)
  BY <1>1 DEF Asked
<1>3. /\ left \in Save /\ left.waiting = {}
      /\ left.stage = s.stage /\ left.number = s.number /\ left.case = c
      /\ left.adds = s.adds /\ left.drops = s.drops /\ left.editing = s.editing
      /\ left.meddled = s.meddled
  <2>1. WithCase(s, r, c) = [s EXCEPT !.case = c] /\ c \in 0..MaxCases
    BY CasesConstants DEF WithCase
  <2>. QED  BY <1>2, <2>1 DEF Save
<1>4. t = Advance(left)
  BY <1>3 DEF Settled, WellSettled
<1> HIDE DEF left, t
<1>5. Main(left) = Main(s)
  BY <1>3 DEF Main
<1>6. c # 0
  BY CasesConstants
<1>7. AnswerComes(left, domains)
  BY <1>1, <1>2, <1>3, <1>5, <1>6 DEF AnswerComes, Planned, Stages
<1>8. /\ Follows(Advance(left), left, domains)
      /\ \A q \in Advance(left).waiting : q.kind \notin KindsOf(left.stage)
  BY <1>3, <1>7, Advancing
<1>9. /\ t \in Save /\ t.number = s.number /\ t.case = c
      /\ Planned(t) /\ Asked(t) /\ Stored(t, domains)
      /\ r \notin t.waiting /\ s.waiting \ {r} \subseteq t.waiting
  BY <1>1, <1>2, <1>3, <1>4, <1>8 DEF Follows
<1>10. QED
  BY <1>9 DEF t

(* A dialog that saves nothing.                                            *)
LEMMA NoSaveIsRight ==
  ASSUME NEW domains
  PROVE  /\ NoSave \in Save /\ NoSave.number = 0 /\ NoSave.case = 0 /\ NoSave.waiting = {}
         /\ Planned(NoSave) /\ Asked(NoSave) /\ Stored(NoSave, domains)
<1>1. NoSave \in Save
  BY CasesConstants DEF NoSave, Save, Stages
<1>2. QED
  BY <1>1 DEF NoSave, Planned, Asked, Stored

(* A save with whose domains another has meddled, and the case it did it   *)
(* to: it is as before but for them.                                       *)
Touched(s, domains) == [s EXCEPT !.meddled = @ \cup domains]
AlikeBut(domains, after, before) == \A n \in Domains \ domains : n \in after <=> n \in before

(* Another save changes domains of the case: these are no longer ours.     *)
LEMMA Meddling ==
  ASSUME NEW s \in Save, Planned(s), Asked(s), NEW before, Stored(s, before),
         NEW domains \in SUBSET Domains, NEW after, AlikeBut(domains, after, before),
         NEW t, t = Touched(s, domains)
  PROVE  /\ t \in Save /\ t.number = s.number /\ t.case = s.case /\ t.waiting = s.waiting
         /\ Planned(t) /\ Asked(t) /\ Stored(t, after)
<1>1. /\ t \in Save /\ t.waiting = s.waiting
      /\ t.stage = s.stage /\ t.number = s.number /\ t.case = s.case
      /\ t.adds = s.adds /\ t.drops = s.drops /\ t.editing = s.editing
      /\ t.meddled = s.meddled \cup domains
  BY DEF Save, Touched
<1>2. Main(t) = Main(s)
  BY <1>1 DEF Main
<1>3. \A n : (ToAdd(t, n) <=> ToAdd(s, n)) /\ (ToDrop(t, n) <=> ToDrop(s, n))
  BY <1>1 DEF ToAdd, ToDrop
<1>4. Planned(t) /\ Asked(t)
  BY <1>1, <1>2 DEF Planned, Asked
<1>5. s.adds \subseteq Domains /\ s.drops \subseteq Domains
  BY DEF Save
<1>6. Stored(t, after)
  BY <1>1, <1>3, <1>5 DEF Stored, AlikeBut
<1>7. QED
  BY <1>1, <1>4, <1>6
-----------------------------------------------------------------------------
(* A request is answered, or goes on. *)

(* A request changes these domains of the case c at most.                  *)
Concerns(r, c, domains) ==
  /\ domains \in SUBSET Domains
  /\ c \in 0..MaxCases /\ opened' \in Nat /\ opened <= opened' /\ c <= opened'
  /\ c = 0 => domains = {}
  /\ r.kind # "open" => c = r.case
  /\ \A k \in 1..opened : k # c => caseURLs'[k] = caseURLs[k]
  /\ c \in 0..opened => \A n \in Domains \ domains : n \in caseURLs'[c] <=> n \in caseURLs[c]

(* It has done what it was to do, and nothing else.                        *)
Accomplishes(r, c, domains) ==
  /\ r.kind = "open" => c # 0 /\ r.domain \in caseURLs'[c]
  /\ r.kind = "add" => r.begun
  /\ r.kind = "drop" => r.domain \notin caseURLs'[c] /\ domains \subseteq {r.domain}
  /\ r.kind \notin {"drop", "open"} => domains = {}

(* t is right when r is answered, and is the save of d further on.         *)
Outcome(t, d, r) ==
  /\ t \in Save /\ t.number \in {0, save[d].number} /\ t.case \in 0..opened'
  /\ t.number = 0 => t.waiting = {} /\ t.case = 0
  /\ Planned(t) /\ Asked(t) /\ Stored(t, caseURLs'[t.case])
  /\ r \notin t.waiting
  /\ t.number # 0 => save[d].waiting \ {r} \subseteq t.waiting

(* What is left of a save when another changes domains of its case.        *)
Undisturbed(t, d) ==
  /\ t \in Save /\ t.number = save[d].number /\ t.case = save[d].case
  /\ t.waiting = save[d].waiting
  /\ Planned(t) /\ Asked(t) /\ Stored(t, caseURLs'[t.case])

(* What the other requests and saves do to a dialog's save.                *)
LEMMA OthersMeddle ==
  ASSUME CasesInvariant, NEW d \in Dialogs, NEW r, NEW c, NEW domains, Concerns(r, c, domains),
         NEW t,
         t = IF save[d].case = c THEN [save[d] EXCEPT !.meddled = @ \cup domains] ELSE save[d]
  PROVE  Undisturbed(t, d)
<1>1. /\ save[d] \in Save /\ Planned(save[d]) /\ Asked(save[d])
      /\ Stored(save[d], caseURLs[save[d].case]) /\ save[d].case \in 0..opened
  BY DEF CasesInvariant, CasesTypeOK, SavesAreOurs, SavesAreRight
<1>2. CASE save[d].case = c
  <2>1. /\ domains \in SUBSET Domains
        /\ \A n \in Domains \ domains : n \in caseURLs'[c] <=> n \in caseURLs[c]
    BY <1>1, <1>2 DEF Concerns
  <2>2. t = [save[d] EXCEPT !.meddled = @ \cup domains]
    BY <1>2
  <2>3. /\ t \in Save /\ t.number = save[d].number /\ t.case = save[d].case
        /\ t.waiting = save[d].waiting
        /\ Planned(t) /\ Asked(t) /\ Stored(t, caseURLs'[c])
    <3> DEFINE s == save[d]
               before == caseURLs[c]
               after == caseURLs'[c]
    <3>1. /\ s \in Save /\ Planned(s) /\ Asked(s) /\ Stored(s, before)
          /\ domains \in SUBSET Domains /\ AlikeBut(domains, after, before)
          /\ t = Touched(s, domains)
      BY <1>1, <1>2, <2>1, <2>2 DEF AlikeBut, Touched
    <3> HIDE DEF s, before, after
    <3>2. /\ t \in Save /\ t.number = s.number /\ t.case = s.case /\ t.waiting = s.waiting
          /\ Planned(t) /\ Asked(t) /\ Stored(t, after)
      BY <3>1, Meddling
    <3>. QED  BY <3>2 DEF s, after
  <2>. QED  BY <1>2, <2>3 DEF Undisturbed
<1>3. CASE save[d].case # c /\ save[d].case # 0
  BY <1>1, <1>3 DEF Concerns, Undisturbed
<1>4. CASE save[d].case # c /\ save[d].case = 0
  BY <1>1, <1>4 DEF Undisturbed, Planned, Stored
<1>5. QED
  BY <1>2, <1>3, <1>4

(* The save that r belongs to, when r is answered well.                    *)
LEMMA OwnAnswer ==
  ASSUME CasesInvariant, NEW d \in Dialogs, NEW r \in save[d].waiting, NEW c, NEW domains,
         Concerns(r, c, domains), Accomplishes(r, c, domains),
         NEW t, t = WellSettled(WithCase(save[d], r, c), r)
  PROVE  Outcome(t, d, r)
<1> USE DEF Concerns, Accomplishes, Outcome
<1> DEFINE s == save[d]
<1>1. /\ s \in Save /\ Planned(s) /\ Asked(s)
      /\ Stored(s, caseURLs[s.case]) /\ s.case \in 0..opened
      /\ opened \in 0..MaxCases
  BY DEF CasesInvariant, CasesTypeOK, SavesAreOurs, SavesAreRight
<1>2. s.stage # "none"
  BY <1>1 DEF Asked, KindsOf
<1>3. s.number # 0
  BY <1>1, <1>2 DEF Planned
<1>4. CASE r.kind = "open"
  <2>1. c \in 1..MaxCases
    BY <1>4, CasesConstants
  <2> HIDE DEF s
  <2>2. LET u == WellSettled(WithCase(s, r, c), r)
        IN  /\ u \in Save /\ u.number = s.number /\ u.case = c
            /\ Planned(u) /\ Asked(u) /\ Stored(u, caseURLs'[c])
            /\ r \notin u.waiting /\ s.waiting \ {r} \subseteq u.waiting
    BY <1>1, <1>2, <1>4, <2>1, Opening DEF s
  <2>3. t = WellSettled(WithCase(s, r, c), r)
    BY DEF s
  <2>4. c \in 0..opened'
    OBVIOUS
  <2>. QED  BY <1>3, <2>2, <2>3, <2>4 DEF s
<1>5. CASE r.kind # "open"
  <2>1. c = s.case /\ WithCase(s, r, c) = s
    BY <1>1, <1>5 DEF Asked, WithCase
  <2>2. Stored(s, caseURLs'[c])
    <3>1. \A n \in Domains : n # r.domain \/ r.kind # "drop"
            => (n \in caseURLs'[c] <=> n \in caseURLs[c])
      BY <1>1, <1>5, <2>1
    <3>2. r.kind = "drop" => r.domain \in s.drops /\ r.domain \notin s.adds
      BY <1>1 DEF Asked, Planned
    <3>3. s.adds \subseteq Domains /\ s.drops \subseteq Domains
      BY <1>1 DEF Save
    <3> HIDE DEF s
    <3>4. Stored(s, caseURLs[c])
      BY <1>1, <2>1
    <3>. QED  BY <1>5, <3>1, <3>2, <3>3, <3>4 DEF Stored
  <2>3. /\ Follows(WellSettled(s, r), s, caseURLs'[c])
        /\ r \notin WellSettled(s, r).waiting
        /\ s.waiting \ {r} \subseteq WellSettled(s, r).waiting
    BY <1>1, <1>2, <1>5, <2>2, Settling
  <2>4. t = WellSettled(s, r)
    BY <2>1
  <2> HIDE DEF s
  <2>5. c \in 0..opened'
    BY <1>1, <2>1
  <2>. QED  BY <1>3, <2>1, <2>3, <2>4, <2>5 DEF Follows, s
<1>6. QED
  BY <1>4, <1>5

LEMMA CaseAnswerSteps ==
  ASSUME CasesInvariant, NEW r \in calls, NEW ok \in BOOLEAN, NEW c, NEW domains,
         Answered(r, ok, c, domains), saves' = saves,
         Concerns(r, c, domains), ok => Accomplishes(r, c, domains)
  PROVE  /\ save' \in [Dialogs -> Save] /\ calls' \in SUBSET Call
         /\ CallsAreOurs' /\ SavesAreOurs' /\ SavesAreRight'
         /\ \A q \in calls \ {r} : q \in calls'
<1> DEFINE settled == [d \in Dialogs |->
              IF r \in save[d].waiting THEN Settled(WithCase(save[d], r, c), r, ok) ELSE save[d]]
<1>1. /\ save' = Meddled(settled, r, c, domains)
      /\ calls' = (calls \ {r}) \cup UNION {settled[d].waiting \ save[d].waiting : d \in Dialogs}
  BY DEF Answered
<1>2. /\ calls \subseteq Call /\ saves \in 0..MaxSaves /\ MaxSaves \in Nat
      /\ opened \in 0..MaxCases /\ r.save \in 1..saves
      /\ \A q \in calls : /\ q.save \in 1..saves /\ q.case \in 0..opened
                          /\ q.kind \in {"add", "drop"} => q.case # 0
  BY CasesConstants DEF CasesInvariant, CasesTypeOK, CallsAreOurs
<1>3. \A d \in Dialogs :
        /\ save[d] \in Save /\ save[d].number \in 0..saves
        /\ save[d].waiting = {q \in calls : q.save = save[d].number}
        /\ \A e \in Dialogs : save[d].number = save[e].number /\ save[d].number # 0 => d = e
  BY DEF CasesInvariant, CasesTypeOK, SavesAreOurs
<1>4. ASSUME NEW d \in Dialogs, r \in save[d].waiting
      PROVE  save'[d] = settled[d] /\ Outcome(save'[d], d, r)
  <2> DEFINE t == Settled(WithCase(save[d], r, c), r, ok)
  <2>1. r.save = save[d].number /\ save[d].number # 0
    BY <1>2, <1>3, <1>4
  <2>2. Outcome(t, d, r)
    <3>1. CASE ~ok
      <4>1. t = NoSave
        BY <3>1 DEF Settled
      <4>2. 0 \in 0..opened'
        BY DEF Concerns
      <4> HIDE DEF t
      <4>. QED  BY <4>1, <4>2, NoSaveIsRight DEF Outcome
    <3>2. CASE ok
      <4>1. t = WellSettled(WithCase(save[d], r, c), r)
        <5>1. ok = TRUE
          BY <3>2
        <5>. QED  BY <5>1 DEF WellSettled
      <4>2. Accomplishes(r, c, domains)
        BY <3>2
      <4> HIDE DEF t
      <4>. QED  BY <1>4, <4>1, <4>2, OwnAnswer
    <3>. QED  BY <3>1, <3>2
  <2>3. settled[d] = t
    BY <1>4
  <2> HIDE DEF t, settled
  <2>4. t.number # r.save /\ t.case = c => domains = {}
    BY <2>1, <2>2 DEF Outcome, Concerns
  <2>5. [t EXCEPT !.meddled = @ \cup {}] = t
    BY <2>2 DEF Outcome, Save
  <2>6. save'[d] = t
    BY <1>1, <2>3, <2>4, <2>5 DEF Meddled
  <2>. QED  BY <2>2, <2>3, <2>6
<1>5. ASSUME NEW d \in Dialogs, r \notin save[d].waiting
      PROVE  settled[d] = save[d] /\ Undisturbed(save'[d], d)
  <2>1. settled[d] = save[d]
    BY <1>5
  <2>2. save[d].number # r.save
    BY <1>3, <1>5
  <2> HIDE DEF settled
  <2>3. save'[d] = IF save[d].case = c THEN [save[d] EXCEPT !.meddled = @ \cup domains] ELSE save[d]
    BY <1>1, <2>1, <2>2 DEF Meddled
  <2>. QED  BY <2>1, <2>3, OthersMeddle
<1> HIDE DEF settled
<1> USE DEF Outcome, Undisturbed, Concerns
<1>6. DOMAIN save' = Dialogs
  BY <1>1 DEF Meddled
<1>7. save' \in [Dialogs -> Save]
  <2>1. \A d \in Dialogs : save'[d] \in Save
    BY <1>4, <1>5
  <2>2. save' = [d \in Dialogs |-> save'[d]]
    BY <1>1 DEF Meddled
  <2>. QED  BY <2>1, <2>2
<1>8. SavesAreRight'
  BY <1>4, <1>5 DEF SavesAreRight
<1>9. ASSUME NEW q \in calls', q \notin calls \ {r}
      PROVE  \E e \in Dialogs : r \in save[e].waiting /\ q \in save'[e].waiting /\ q \notin save[e].waiting
  BY <1>1, <1>4, <1>5, <1>9
<1>10. \A d \in Dialogs : \A q \in save'[d].waiting : q \in calls'
  <2>1. SUFFICES ASSUME NEW d \in Dialogs, NEW q \in save'[d].waiting
                 PROVE  q \in calls'
    OBVIOUS
  <2>2. CASE r \in save[d].waiting
    BY <1>1, <1>3, <1>4, <2>1, <2>2
  <2>3. CASE r \notin save[d].waiting
    BY <1>1, <1>3, <1>5, <2>1, <2>3
  <2>. QED  BY <2>2, <2>3
<1>11. \A d \in Dialogs : \A q \in save'[d].waiting :
         q.save = save'[d].number /\ q.case = save'[d].case /\ q.save # 0
  <2>1. SUFFICES ASSUME NEW d \in Dialogs, NEW q \in save'[d].waiting
                 PROVE  q.save = save'[d].number /\ q.case = save'[d].case /\ q.save # 0
    OBVIOUS
  <2>2. q.save = save'[d].number /\ q.case = save'[d].case
    BY <1>4, <1>5, <2>1 DEF Asked
  <2>3. q.save # 0
    <3>1. CASE r \in save[d].waiting
      BY <1>4, <2>1, <2>2, <3>1
    <3>2. CASE r \notin save[d].waiting
      BY <1>2, <1>3, <1>5, <2>1, <3>2
    <3>. QED  BY <3>1, <3>2
  <2>. QED  BY <2>2, <2>3
<1>12. \A d \in Dialogs : save'[d].number \in {0, save[d].number}
  BY <1>4, <1>5
<1>13. \A d, e \in Dialogs : save'[d].number = save'[e].number /\ save'[d].number # 0 => d = e
  BY <1>3, <1>12
<1>14. ASSUME NEW d \in Dialogs, NEW q \in calls', q.save = save'[d].number
       PROVE  q \in save'[d].waiting
  <2>1. CASE q \notin calls \ {r}
    <3>1. PICK e \in Dialogs : q \in save'[e].waiting
      BY <1>9, <2>1
    <3>2. save'[e].number = save'[d].number /\ save'[e].number # 0
      BY <1>11, <1>14, <3>1
    <3>. QED  BY <1>13, <3>1, <3>2
  <2>2. CASE q \in calls \ {r}
    <3>1. q.save # 0
      BY <1>2, <2>2
    <3>2. save'[d].number # 0 /\ save'[d].number = save[d].number
      BY <1>12, <1>14, <3>1
    <3>3. q \in save[d].waiting \ {r}
      BY <1>3, <1>14, <2>2, <3>2
    <3>. QED  BY <1>4, <1>5, <3>2, <3>3
  <2>. QED  BY <2>1, <2>2
<1>15. SavesAreOurs'
  <2>1. \A d \in Dialogs : save'[d].waiting = {q \in calls' : q.save = save'[d].number}
    BY <1>10, <1>11, <1>14
  <2>2. \A d \in Dialogs : save'[d].case \in 0..opened'
    <3>1. \A d \in Dialogs : save[d].case \in 0..opened
      BY DEF CasesInvariant, SavesAreOurs
    <3>2. 0..opened \subseteq 0..opened'
      BY <1>2
    <3>. QED  BY <1>4, <1>5, <3>1, <3>2
  <2>3. \A d \in Dialogs : save'[d].number \in 0..saves'
    BY <1>2, <1>3, <1>12
  <2>. QED  BY <1>13, <2>1, <2>2, <2>3 DEF SavesAreOurs
<1>16. ASSUME NEW q \in calls'
       PROVE  /\ q \in Call /\ q.save \in 1..saves' /\ q.case \in 0..opened'
              /\ q.kind \in {"add", "drop"} => q.case # 0
  <2>1. CASE q \in calls \ {r}
    <3>1. 0..opened \subseteq 0..opened'
      BY <1>2
    <3>. QED  BY <1>2, <2>1, <3>1
  <2>2. CASE q \notin calls \ {r}
    <3>1. PICK e \in Dialogs : q \in save'[e].waiting
      BY <1>9, <2>2
    <3>2. /\ save'[e] \in Save /\ Planned(save'[e]) /\ Asked(save'[e])
          /\ save'[e].number \in 0..saves' /\ save'[e].case \in 0..opened'
      BY <1>4, <1>5, <1>15 DEF SavesAreOurs
    <3>3. q \in Call
      BY <3>1, <3>2 DEF Save
    <3>4. q.save \in 1..saves' /\ q.case \in 0..opened'
      BY <1>2, <1>11, <3>1, <3>2
    <3>5. q.kind \in {"add", "drop"} => q.case # 0
      BY <3>1, <3>2 DEF Planned, Asked, KindsOf
    <3>. QED  BY <3>3, <3>4, <3>5
  <2>. QED  BY <2>1, <2>2
<1>17. CallsAreOurs' /\ calls' \in SUBSET Call
  BY <1>16 DEF CallsAreOurs
<1>18. QED
  BY <1>1, <1>7, <1>8, <1>15, <1>17

(* A request goes on: b is r, begun.                                       *)
Continues(b, r) ==
  /\ b \in Call /\ b.save = r.save /\ b.kind = r.kind /\ b.case = r.case
  /\ b.domain = r.domain /\ b.begun

LEMMA Continuing ==
  ASSUME NEW s \in Save, Planned(s), Asked(s), NEW before, Stored(s, before),
         NEW r \in s.waiting, r.kind \in {"add", "drop"}, NEW b, Continues(b, r), NEW after,
         \A n \in Domains : n \in after <=> n \in before \/ (r.kind = "add" /\ n = r.domain),
         NEW t, t = [s EXCEPT !.waiting = (@ \ {r}) \cup {b}]
  PROVE  /\ t \in Save /\ t.number = s.number /\ t.case = s.case
         /\ t.waiting = (s.waiting \ {r}) \cup {b}
         /\ Planned(t) /\ Asked(t) /\ Stored(t, after)
<1>1. /\ t \in Save /\ t.waiting = (s.waiting \ {r}) \cup {b}
      /\ t.stage = s.stage /\ t.number = s.number /\ t.case = s.case
      /\ t.adds = s.adds /\ t.drops = s.drops /\ t.editing = s.editing
      /\ t.meddled = s.meddled
  BY DEF Save, Continues
<1>2. Main(t) = Main(s)
  BY <1>1 DEF Main
<1>3. s.stage # "open"
  BY DEF Asked, KindsOf
<1>4. \A n : /\ ToAdd(s, n) => ToAdd(t, n) \/ (r.kind = "add" /\ n = r.domain)
             /\ ToDrop(s, n) => ToDrop(t, n)
  BY <1>1 DEF ToAdd, ToDrop, Continues
<1>5. s.adds \subseteq Domains /\ s.drops \subseteq Domains
  BY DEF Save
<1>6. r.kind = "add" => r.domain \notin s.drops
  BY DEF Asked, Planned
<1>7. Stored(t, after)
  BY <1>1, <1>4, <1>5, <1>6 DEF Stored
<1>8. Planned(t)
  BY <1>1, <1>2 DEF Planned
<1>9. Asked(t)
  BY <1>1, <1>2, <1>3 DEF Asked, Continues
<1>10. QED
  BY <1>1, <1>7, <1>8, <1>9

LEMMA BeginSteps ==
  ASSUME CasesInvariant, NEW r \in calls, r.kind \in {"add", "drop"},
         NEW b, Continues(b, r), NEW domains, Concerns(r, r.case, domains),
         opened' = opened, saves' = saves, calls' = (calls \ {r}) \cup {b},
         \A n \in Domains :
           n \in caseURLs'[r.case] <=> n \in caseURLs[r.case] \/ (r.kind = "add" /\ n = r.domain),
         NEW begun,
         begun = [d \in Dialogs |->
            IF r \in save[d].waiting
            THEN [save[d] EXCEPT !.waiting = (@ \ {r}) \cup {b}] ELSE save[d]],
         save' = Meddled(begun, r, r.case, domains)
  PROVE  /\ save' \in [Dialogs -> Save] /\ calls' \in SUBSET Call
         /\ CallsAreOurs' /\ SavesAreOurs' /\ SavesAreRight'
         /\ \A q \in calls \ {r} : q \in calls'
<1>1. /\ calls \subseteq Call /\ saves \in 0..MaxSaves /\ MaxSaves \in Nat
      /\ opened \in 0..MaxCases /\ r.save \in 1..saves
      /\ \A q \in calls : /\ q.save \in 1..saves /\ q.case \in 0..opened
                          /\ q.kind \in {"add", "drop"} => q.case # 0
  BY CasesConstants DEF CasesInvariant, CasesTypeOK, CallsAreOurs
<1>2. \A d \in Dialogs :
        /\ save[d] \in Save /\ Planned(save[d]) /\ Asked(save[d])
        /\ Stored(save[d], caseURLs[save[d].case])
        /\ save[d].number \in 0..saves /\ save[d].case \in 0..opened
        /\ save[d].waiting = {q \in calls : q.save = save[d].number}
        /\ \A e \in Dialogs : save[d].number = save[e].number /\ save[d].number # 0 => d = e
  BY DEF CasesInvariant, CasesTypeOK, SavesAreOurs, SavesAreRight
<1>3. ASSUME NEW d \in Dialogs, r \in save[d].waiting
      PROVE  /\ save'[d] \in Save /\ save'[d].number = save[d].number
             /\ save'[d].case = save[d].case
             /\ save'[d].waiting = (save[d].waiting \ {r}) \cup {b}
             /\ Planned(save'[d]) /\ Asked(save'[d])
             /\ Stored(save'[d], caseURLs'[save'[d].case])
  <2>1. r.save = save[d].number /\ r.case = save[d].case
    BY <1>2, <1>3 DEF Asked
  <2> DEFINE t == [save[d] EXCEPT !.waiting = (@ \ {r}) \cup {b}]
  <2>2. begun[d] = t
    BY <1>3
  <2>3. Stored(save[d], caseURLs[r.case])
    BY <1>2, <2>1
  <2>4. /\ t \in Save /\ t.number = save[d].number /\ t.case = save[d].case
        /\ t.waiting = (save[d].waiting \ {r}) \cup {b}
        /\ Planned(t) /\ Asked(t) /\ Stored(t, caseURLs'[r.case])
    BY <1>2, <1>3, <2>3, Continuing
  <2> HIDE DEF t
  <2>5. save'[d] = t
    BY <2>1, <2>2, <2>4 DEF Meddled
  <2>. QED  BY <2>1, <2>4, <2>5
<1>4. ASSUME NEW d \in Dialogs, r \notin save[d].waiting
      PROVE  Undisturbed(save'[d], d)
  <2>1. begun[d] = save[d]
    BY <1>4
  <2>2. save[d].number # r.save
    BY <1>2, <1>4
  <2>3. save'[d] = IF save[d].case = r.case
                   THEN [save[d] EXCEPT !.meddled = @ \cup domains] ELSE save[d]
    BY <2>1, <2>2 DEF Meddled
  <2>. QED  BY <2>3, OthersMeddle
<1> USE DEF Undisturbed
<1>5. save' \in [Dialogs -> Save]
  <2>1. \A d \in Dialogs : save'[d] \in Save
    BY <1>3, <1>4
  <2>2. save' = [d \in Dialogs |-> save'[d]]
    BY DEF Meddled
  <2>. QED  BY <2>1, <2>2
<1>6. SavesAreRight'
  BY <1>3, <1>4 DEF SavesAreRight
<1>7. \A d \in Dialogs : save'[d].number = save[d].number /\ save'[d].case = save[d].case
  BY <1>3, <1>4
<1>8. \A d \in Dialogs : save'[d].waiting = {q \in calls' : q.save = save'[d].number}
  <2>1. SUFFICES ASSUME NEW d \in Dialogs
                 PROVE  save'[d].waiting = {q \in calls' : q.save = save[d].number}
    BY <1>7
  <2>2. CASE r \in save[d].waiting
    BY <1>2, <1>3, <2>2 DEF Continues
  <2>3. CASE r \notin save[d].waiting
    BY <1>2, <1>4, <2>3 DEF Continues
  <2>. QED  BY <2>2, <2>3
<1>9. SavesAreOurs'
  BY <1>1, <1>2, <1>7, <1>8 DEF SavesAreOurs
<1>10. CallsAreOurs' /\ calls' \in SUBSET Call
  BY <1>1 DEF CallsAreOurs, Continues
<1>11. QED
  BY <1>5, <1>6, <1>9, <1>10
-----------------------------------------------------------------------------
(* Every action keeps the invariant. *)

(* The whole of it from its parts: what the requests and saves need comes  *)
(* from the lemmas above, the rest from the tables.                        *)
Tables ==
  /\ opened \in 0..MaxCases /\ caseURLs \in [CaseIds -> SUBSET Domains]
  /\ listed \in [Domains -> {"none", "on", "off"}]
  /\ skewed \subseteq CaseIds /\ unlisted \subseteq Domains

LEMMA TablesAreTyped ==
  ASSUME CasesInvariant
  PROVE  /\ Tables /\ MaxCases \in Nat \ {0}
         /\ \A r \in calls : /\ r \in Call /\ r.case \in 0..opened /\ r.domain \in Domains
                             /\ r.kind \in {"add", "drop"} => r.case \in 1..opened
BY CasesConstants DEF CasesInvariant, CasesTypeOK, Tables, CallsAreOurs, Call

(* After a step on the server.                                             *)
LEMMA ServerSteps ==
  ASSUME CasesInvariant, Tables', opened <= opened', CasesAreWhole',
         UNCHANGED <<form, saves>>,
         save' \in [Dialogs -> Save], calls' \in SUBSET Call,
         CallsAreOurs', SavesAreOurs', SavesAreRight'
  PROVE  CasesInvariant'
<1>1. CasesTypeOK'
  BY DEF CasesInvariant, CasesTypeOK, Tables
<1>2. FormsAreOurs'
  BY DEF CasesInvariant, CasesTypeOK, FormsAreOurs, Tables
<1>3. QED
  BY <1>1, <1>2 DEF CasesInvariant

(* Every domain of a case stays on the list when r is answered, is noted   *)
(* as off it, or waits for another request.                                *)
AddingElse(r, c, n) ==
  \E q \in calls \ {r} : q.kind = "add" /\ q.begun /\ q.case = c /\ q.domain = n
StillListed(r) ==
  \A c \in 1..opened : \A n \in caseURLs[c] :
    n \in unlisted' \/ listed'[n] # "none" \/ AddingElse(r, c, n)

(* A request that leaves the cases alone.                                  *)
LEMMA AnswersElsewhere ==
  ASSUME CasesInvariant, NEW r \in calls, NEW ok \in BOOLEAN, Answered(r, ok, r.case, {}),
         ok => r.kind \in {"update", "letter", "url"} \/ (r.kind = "add" /\ r.begun),
         UNCHANGED <<opened, caseURLs, form, saves>>, Tables',
         StillListed(r),
         skewed' = skewed
  PROVE  CasesInvariant'
<1>1. Concerns(r, r.case, {})
  BY TablesAreTyped DEF Concerns, Tables
<1>2. ok => Accomplishes(r, r.case, {})
  BY DEF Accomplishes
<1>3. /\ save' \in [Dialogs -> Save] /\ calls' \in SUBSET Call
      /\ CallsAreOurs' /\ SavesAreOurs' /\ SavesAreRight'
      /\ \A q \in calls \ {r} : q \in calls'
  BY <1>1, <1>2, CaseAnswerSteps
<1>4. CasesAreWhole'
  BY <1>3 DEF CasesInvariant, CasesAreWhole, Adding, StillListed, AddingElse
<1>5. opened <= opened'
  BY TablesAreTyped DEF Tables
<1>6. QED
  BY <1>3, <1>4, <1>5, ServerSteps

LEMMA RefuseKeeps ==
  ASSUME CasesInvariant, NEW r \in calls, Refuse(r)
  PROVE  CasesInvariant'
<1>1. /\ Tables /\ r.domain \in Domains
  BY TablesAreTyped
<1>2. Tables'
  BY <1>1 DEF Tables, Refuse, tables
<1>3. StillListed(r)
  BY <1>1 DEF CasesInvariant, CasesAreWhole, Adding, StillListed, AddingElse, Refuse, tables
<1>4. QED
  BY <1>2, <1>3, AnswersElsewhere DEF Refuse, tables

LEMMA PatchKeeps ==
  ASSUME CasesInvariant, NEW r \in calls, Patch(r)
  PROVE  CasesInvariant'
<1>1. Tables'
  BY TablesAreTyped DEF Tables, Patch, tables
<1>2. StillListed(r)
  <2>1. r.kind # "add"
    BY DEF Patch
  <2>. QED  BY <2>1 DEF CasesInvariant, CasesAreWhole, Adding, StillListed, AddingElse, Patch, tables
<1>3. QED
  BY <1>1, <1>2, AnswersElsewhere DEF Patch, tables

(* A domain is put on the list, or is on it.                               *)
LEMMA PutOnList ==
  ASSUME CasesInvariant, NEW r \in calls, unlisted' = unlisted \ {r.domain},
         listed' = [listed EXCEPT ![r.domain] = listed'[r.domain]],
         listed'[r.domain] \in {"on", "off"}
  PROVE  /\ listed' \in [Domains -> {"none", "on", "off"}] /\ unlisted' \subseteq Domains
         /\ StillListed(r)
<1>1. Tables /\ r.domain \in Domains /\ MaxCases \in Nat
  BY TablesAreTyped
<1>2. listed' \in [Domains -> {"none", "on", "off"}] /\ unlisted' \subseteq Domains
  BY <1>1 DEF Tables
<1>3. ASSUME NEW c \in 1..opened, NEW n \in caseURLs[c]
      PROVE  n \in unlisted' \/ listed'[n] # "none" \/ AddingElse(r, c, n)
  <2>1. n \in Domains
    BY <1>1 DEF Tables, CaseIds
  <2>2. CASE n = r.domain
    BY <2>2
  <2>3. CASE n # r.domain
    BY <1>1, <2>1, <2>3 DEF Tables, CasesInvariant, CasesAreWhole, Adding, AddingElse
  <2>. QED  BY <2>2, <2>3
<1>4. QED
  BY <1>2, <1>3 DEF StillListed

LEMMA CreateURLKeeps ==
  ASSUME CasesInvariant, NEW r \in calls, CreateURL(r)
  PROVE  CasesInvariant'
<1>1. Tables /\ r.domain \in Domains
  BY TablesAreTyped
<1>2. /\ listed' = [listed EXCEPT ![r.domain] = listed'[r.domain]]
      /\ listed'[r.domain] \in {"on", "off"}
  BY <1>1 DEF Tables, CreateURL
<1>3. /\ listed' \in [Domains -> {"none", "on", "off"}] /\ unlisted' \subseteq Domains
      /\ StillListed(r)
  BY <1>2, PutOnList DEF CreateURL
<1>4. Tables'
  BY <1>1, <1>3 DEF Tables, CreateURL
<1>5. PICK ok \in BOOLEAN : Answered(r, ok, r.case, {})
  BY DEF CreateURL
<1>6. QED
  BY <1>3, <1>4, <1>5, AnswersElsewhere DEF CreateURL

LEMMA AddURLEndsKeeps ==
  ASSUME CasesInvariant, NEW r \in calls, AddURLEnds(r)
  PROVE  CasesInvariant'
<1>1. Tables /\ r.domain \in Domains
  BY TablesAreTyped
<1>2. /\ listed' = [listed EXCEPT ![r.domain] = listed'[r.domain]]
      /\ listed'[r.domain] \in {"on", "off"} /\ r.begun
  BY <1>1 DEF Tables, AddURLEnds, EnsureListed, Listed
<1>3. /\ listed' \in [Domains -> {"none", "on", "off"}] /\ unlisted' \subseteq Domains
      /\ StillListed(r)
  BY <1>2, PutOnList DEF AddURLEnds
<1>4. Tables'
  BY <1>1, <1>3 DEF Tables, AddURLEnds
<1>5. PICK ok \in BOOLEAN : Answered(r, ok, r.case, {})
  BY DEF AddURLEnds
<1>6. QED
  BY <1>2, <1>3, <1>4, <1>5, AnswersElsewhere DEF AddURLEnds

LEMMA CreateCaseKeeps ==
  ASSUME CasesInvariant, NEW r \in calls, CreateCase(r)
  PROVE  CasesInvariant'
<1>1. /\ Tables /\ MaxCases \in Nat \ {0} /\ r.domain \in Domains
      /\ opened' = opened + 1 /\ opened < MaxCases /\ r.kind = "open"
      /\ caseURLs' = [caseURLs EXCEPT ![opened + 1] = {r.domain}]
      /\ UNCHANGED <<form, saves, skewed>>
  BY TablesAreTyped DEF CreateCase
<1>2. /\ listed' = [listed EXCEPT ![r.domain] = listed'[r.domain]]
      /\ listed'[r.domain] \in {"on", "off"} /\ unlisted' = unlisted \ {r.domain}
  BY <1>1 DEF Tables, CreateCase, Listed
<1>3. /\ listed' \in [Domains -> {"none", "on", "off"}] /\ unlisted' \subseteq Domains
      /\ StillListed(r)
  BY <1>2, PutOnList
<1>4. opened + 1 \in 1..MaxCases /\ opened' \in 0..MaxCases /\ opened <= opened'
  BY <1>1 DEF Tables
<1>5. caseURLs'[opened + 1] = {r.domain} /\ \A c \in 1..opened : caseURLs'[c] = caseURLs[c]
  BY <1>1, <1>4 DEF Tables, CaseIds
<1>6. Tables'
  BY <1>1, <1>3, <1>4 DEF Tables, CaseIds
<1>7. PICK ok \in BOOLEAN : Answered(r, ok, opened + 1, {r.domain})
  BY DEF CreateCase
<1>8. Concerns(r, opened + 1, {r.domain})
  BY <1>1, <1>4, <1>5 DEF Concerns, Tables
<1>9. Accomplishes(r, opened + 1, {r.domain})
  BY <1>1, <1>4, <1>5 DEF Accomplishes
<1>10. /\ save' \in [Dialogs -> Save] /\ calls' \in SUBSET Call
       /\ CallsAreOurs' /\ SavesAreOurs' /\ SavesAreRight'
       /\ \A q \in calls \ {r} : q \in calls'
  BY <1>1, <1>7, <1>8, <1>9, CaseAnswerSteps
<1>11. CasesAreWhole'
  <2>1. SUFFICES ASSUME NEW c \in 1..opened'
                 PROVE  /\ caseURLs'[c] = {} => c \in skewed'
                        /\ \A n \in caseURLs'[c] \ unlisted' : listed'[n] # "none" \/ Adding(c, n)'
    BY DEF CasesAreWhole
  <2>2. CASE c = opened + 1
    BY <1>2, <1>5, <2>2
  <2>3. CASE c \in 1..opened
    BY <1>1, <1>3, <1>5, <1>10, <2>3
       DEF CasesInvariant, CasesAreWhole, StillListed, AddingElse, Adding
  <2>4. c = opened + 1 \/ c \in 1..opened
    BY <1>1 DEF Tables
  <2>. QED  BY <2>2, <2>3, <2>4
<1>12. QED
  BY <1>1, <1>4, <1>6, <1>10, <1>11, ServerSteps

(* A row of one case is added or removed.                                  *)
LEMMA OneRow ==
  ASSUME CasesInvariant, NEW r \in calls, r.kind \in {"add", "drop"},
         NEW new \in SUBSET Domains, opened' = opened,
         caseURLs' = [caseURLs EXCEPT ![r.case] = new],
         \A n \in Domains \ {r.domain} : n \in new <=> n \in caseURLs[r.case]
  PROVE  /\ r.case \in 1..opened /\ r.case \in CaseIds /\ caseURLs'[r.case] = new
         /\ \A c \in 1..opened : c # r.case => caseURLs'[c] = caseURLs[c]
         /\ caseURLs' \in [CaseIds -> SUBSET Domains]
         /\ Concerns(r, r.case, {r.domain})
<1>1. Tables /\ r.domain \in Domains /\ MaxCases \in Nat /\ r.case \in 1..opened
  BY TablesAreTyped
<1>2. r.case \in CaseIds /\ opened \in Nat /\ \A c \in 1..opened : c \in CaseIds
  BY <1>1 DEF Tables, CaseIds
<1>3. /\ caseURLs'[r.case] = new
      /\ \A c \in 1..opened : c # r.case => caseURLs'[c] = caseURLs[c]
      /\ caseURLs' \in [CaseIds -> SUBSET Domains]
  BY <1>1, <1>2 DEF Tables
<1>4. r.case # 0 /\ r.case \in 0..MaxCases /\ r.case <= opened' /\ opened <= opened'
  BY <1>1, <1>2 DEF Tables, CaseIds
<1>5. Concerns(r, r.case, {r.domain})
  BY <1>1, <1>2, <1>3, <1>4 DEF Concerns
<1>6. QED
  BY <1>1, <1>2, <1>3, <1>5

LEMMA AddURLToCaseKeeps ==
  ASSUME CasesInvariant, NEW r \in calls, AddURLToCase(r)
  PROVE  CasesInvariant'
<1> DEFINE b == [r EXCEPT !.begun = TRUE]
           begun == [d \in Dialogs |->
             IF r \in save[d].waiting
             THEN [save[d] EXCEPT !.waiting = (@ \ {r}) \cup {b}] ELSE save[d]]
           new == caseURLs[r.case] \cup {r.domain}
<1>1. /\ Tables /\ r \in Call /\ r.domain \in Domains /\ MaxCases \in Nat
      /\ r.kind = "add" /\ r.case \in 1..opened
  BY TablesAreTyped DEF AddURLToCase
<1>2. /\ calls' = (calls \ {r}) \cup {b} /\ save' = Meddled(begun, r, r.case, {r.domain})
      /\ UNCHANGED <<opened, listed, form, saves, skewed, unlisted>>
  BY DEF AddURLToCase
<1>3. Continues(b, r)
  BY <1>1 DEF Continues, Call
<1>4. new \in SUBSET Domains /\ caseURLs' = [caseURLs EXCEPT ![r.case] = new]
  BY <1>1 DEF Tables, CaseIds, AddURLToCase
<1> HIDE DEF b, begun, new
<1>5. \A n : n \in new <=> n \in caseURLs[r.case] \/ n = r.domain
  BY DEF new
<1>6. /\ caseURLs'[r.case] = new
      /\ \A c \in 1..opened : c # r.case => caseURLs'[c] = caseURLs[c]
      /\ caseURLs' \in [CaseIds -> SUBSET Domains]
      /\ Concerns(r, r.case, {r.domain})
  BY <1>1, <1>2, <1>4, <1>5, OneRow
<1>7. /\ save' \in [Dialogs -> Save] /\ calls' \in SUBSET Call
      /\ CallsAreOurs' /\ SavesAreOurs' /\ SavesAreRight'
      /\ \A q \in calls \ {r} : q \in calls'
  <2>1. \A n \in Domains :
          n \in caseURLs'[r.case] <=> n \in caseURLs[r.case] \/ (r.kind = "add" /\ n = r.domain)
    BY <1>1, <1>5, <1>6
  <2>. QED  BY <1>1, <1>2, <1>3, <1>6, <2>1, BeginSteps DEF begun
<1>8. CasesAreWhole'
  <2>1. SUFFICES ASSUME NEW c \in 1..opened
                 PROVE  /\ caseURLs'[c] = {} => c \in skewed
                        /\ \A n \in caseURLs'[c] \ unlisted : listed[n] # "none" \/ Adding(c, n)'
    BY <1>2 DEF CasesAreWhole
  <2>2. \A n : Adding(c, n) => Adding(c, n)'
    BY <1>2, <1>3 DEF Adding, Continues
  <2>3. CASE c # r.case
    BY <1>6, <2>2, <2>3 DEF CasesInvariant, CasesAreWhole
  <2>4. CASE c = r.case
    <3>1. Adding(c, r.domain)'
      BY <1>1, <1>2, <1>3, <2>4 DEF Adding, Continues
    <3>. QED  BY <1>5, <1>6, <2>2, <2>4, <3>1 DEF CasesInvariant, CasesAreWhole
  <2>. QED  BY <2>3, <2>4
<1>9. Tables' /\ opened <= opened'
  BY <1>1, <1>2, <1>6 DEF Tables
<1>10. QED
  BY <1>2, <1>7, <1>8, <1>9, ServerSteps

LEMMA CountURLsKeeps ==
  ASSUME CasesInvariant, NEW r \in calls, CountURLs(r)
  PROVE  CasesInvariant'
<1> DEFINE b == [r EXCEPT !.begun = TRUE, !.counted = Cardinality(caseURLs[r.case])]
           begun == [d \in Dialogs |->
             IF r \in save[d].waiting
             THEN [save[d] EXCEPT !.waiting = (@ \ {r}) \cup {b}] ELSE save[d]]
<1>1. /\ Tables /\ r \in Call /\ MaxCases \in Nat
      /\ r.kind = "drop" /\ r.case \in 1..opened
  BY TablesAreTyped DEF CountURLs
<1>2. /\ calls' = (calls \ {r}) \cup {b} /\ save' = begun
      /\ UNCHANGED <<opened, caseURLs, listed, form, saves, skewed, unlisted>>
  BY DEF CountURLs, tables
<1>3. Cardinality(caseURLs[r.case]) \in 0..Cardinality(Domains)
  <2>1. caseURLs[r.case] \in SUBSET Domains
    BY <1>1 DEF Tables, CaseIds
  <2>2. /\ IsFiniteSet(caseURLs[r.case])
        /\ Cardinality(caseURLs[r.case]) <= Cardinality(Domains)
    BY <2>1, CasesConstants, FS_Subset
  <2>. QED  BY <2>2, CasesConstants, FS_CardinalityType
<1>4. Continues(b, r)
  BY <1>1, <1>3 DEF Continues, Call
<1>5. save' = Meddled(begun, r, r.case, {})
  <2>1. \A d \in Dialogs : d \in DOMAIN begun /\ begun[d] \in Save
    <3>1. \A d \in Dialogs : save[d] \in Save
      BY DEF CasesInvariant, CasesTypeOK
    <3> HIDE DEF b
    <3>2. b \in Call
      BY <1>4 DEF Continues
    <3>. QED  BY <3>1, <3>2 DEF Save
  <2>2. begun = [d \in Dialogs |-> begun[d]]
    OBVIOUS
  <2> HIDE DEF begun, b
  <2>3. \A d \in Dialogs : [begun[d] EXCEPT !.meddled = @ \cup {}] = begun[d]
    BY <2>1 DEF Save
  <2>. QED  BY <1>2, <2>2, <2>3 DEF Meddled
<1> HIDE DEF b, begun
<1>6. Concerns(r, r.case, {})
  BY <1>1, <1>2 DEF Concerns, Tables
<1>7. /\ save' \in [Dialogs -> Save] /\ calls' \in SUBSET Call
      /\ CallsAreOurs' /\ SavesAreOurs' /\ SavesAreRight'
      /\ \A q \in calls \ {r} : q \in calls'
  <2>1. \A n \in Domains :
          n \in caseURLs'[r.case] <=> n \in caseURLs[r.case] \/ (r.kind = "add" /\ n = r.domain)
    BY <1>1, <1>2
  <2>2. r.kind \in {"add", "drop"} /\ {} \in SUBSET Domains /\ opened' = opened /\ saves' = saves
    BY <1>1, <1>2
  <2>3. begun = [d \in Dialogs |->
            IF r \in save[d].waiting
            THEN [save[d] EXCEPT !.waiting = (@ \ {r}) \cup {b}] ELSE save[d]]
    BY DEF begun
  <2>4. calls' = (calls \ {r}) \cup {b}
    BY <1>2
  <2>. QED  BY <1>4, <1>5, <1>6, <2>1, <2>2, <2>3, <2>4, BeginSteps
<1>8. CasesAreWhole'
  BY <1>1, <1>2, <1>7 DEF CasesInvariant, CasesAreWhole, Adding
<1>9. Tables' /\ opened <= opened'
  BY <1>1, <1>2 DEF Tables
<1>10. QED
  BY <1>2, <1>7, <1>8, <1>9, ServerSteps

LEMMA RemoveURLKeeps ==
  ASSUME CasesInvariant, NEW r \in calls, RemoveURL(r)
  PROVE  CasesInvariant'
<1> DEFINE new == caseURLs[r.case] \ {r.domain}
<1>1. /\ Tables /\ r \in Call /\ r.domain \in Domains /\ MaxCases \in Nat
      /\ r.kind = "drop" /\ r.case \in 1..opened
      /\ r.domain \in caseURLs[r.case] /\ r.counted > 1
  BY TablesAreTyped DEF RemoveURL, MayRemove
<1>2. /\ UNCHANGED <<opened, listed, form, saves, unlisted>>
      /\ skewed' = IF r.counted # Cardinality(caseURLs[r.case])
                   THEN skewed \cup {r.case} ELSE skewed
  BY DEF RemoveURL
<1>3. new \in SUBSET Domains /\ caseURLs' = [caseURLs EXCEPT ![r.case] = new]
  BY <1>1 DEF Tables, CaseIds, RemoveURL
<1> HIDE DEF new
<1>4. \A n : n \in new <=> n \in caseURLs[r.case] /\ n # r.domain
  BY DEF new
<1>5. /\ r.case \in CaseIds /\ caseURLs'[r.case] = new
      /\ \A c \in 1..opened : c # r.case => caseURLs'[c] = caseURLs[c]
      /\ caseURLs' \in [CaseIds -> SUBSET Domains]
      /\ Concerns(r, r.case, {r.domain})
  BY <1>1, <1>2, <1>3, <1>4, OneRow
<1>6. Accomplishes(r, r.case, {r.domain})
  BY <1>1, <1>4, <1>5 DEF Accomplishes
<1>7. PICK ok \in BOOLEAN : Answered(r, ok, r.case, {r.domain})
  BY DEF RemoveURL
<1>8. /\ save' \in [Dialogs -> Save] /\ calls' \in SUBSET Call
      /\ CallsAreOurs' /\ SavesAreOurs' /\ SavesAreRight'
      /\ \A q \in calls \ {r} : q \in calls'
  BY <1>2, <1>5, <1>6, <1>7, CaseAnswerSteps
<1>9. new = {} => r.case \in skewed'
  <2>1. SUFFICES ASSUME new = {} PROVE r.counted # Cardinality(caseURLs[r.case])
    BY <1>2
  <2>2. caseURLs[r.case] = {r.domain}
    BY <1>1, <1>4, <2>1
  <2>3. Cardinality({r.domain}) = 1
    BY FS_Singleton
  <2>. QED  BY <1>1, <2>2, <2>3
<1>10. CasesAreWhole'
  <2>1. SUFFICES ASSUME NEW c \in 1..opened
                 PROVE  /\ caseURLs'[c] = {} => c \in skewed'
                        /\ \A n \in caseURLs'[c] \ unlisted : listed[n] # "none" \/ Adding(c, n)'
    BY <1>2 DEF CasesAreWhole
  <2>2. \A n : Adding(c, n) => Adding(c, n)'
    BY <1>1, <1>8 DEF Adding
  <2>3. CASE c # r.case
    BY <1>2, <1>5, <2>2, <2>3 DEF CasesInvariant, CasesAreWhole
  <2>4. CASE c = r.case
    BY <1>4, <1>5, <1>9, <2>2, <2>4 DEF CasesInvariant, CasesAreWhole
  <2>. QED  BY <2>3, <2>4
<1>11. Tables' /\ opened <= opened'
  BY <1>1, <1>2, <1>5 DEF Tables
<1>12. QED
  BY <1>2, <1>8, <1>10, <1>11, ServerSteps

(* The dialog. *)

LEMMA FormStepsKeep ==
  ASSUME CasesInvariant, NEW d \in Dialogs, NEW new \in Form, new.case \in 0..opened,
         form' = [form EXCEPT ![d] = new],
         UNCHANGED <<tables, save, calls, saves, skewed, unlisted>>
  PROVE  CasesInvariant'
<1>1. form' \in [Dialogs -> Form]
  BY DEF CasesInvariant, CasesTypeOK
<1>2. CasesTypeOK'
  BY <1>1 DEF CasesInvariant, CasesTypeOK, tables
<1>3. FormsAreOurs'
  BY DEF CasesInvariant, CasesTypeOK, FormsAreOurs, tables
<1>4. CallsAreOurs' /\ SavesAreOurs' /\ SavesAreRight' /\ CasesAreWhole'
  BY DEF CasesInvariant, CallsAreOurs, SavesAreOurs, SavesAreRight, CasesAreWhole, Adding, tables
<1>5. QED
  BY <1>2, <1>3, <1>4 DEF CasesInvariant

LEMMA OpenOrDismissKeeps ==
  ASSUME CasesInvariant, NEW d \in Dialogs,
         OpenCreate(d) \/ Dismiss(d) \/ \E c \in CaseIds : OpenEdit(d, c)
  PROVE  CasesInvariant'
<1>1. Tables /\ MaxCases \in Nat
  BY TablesAreTyped
<1>2. Closed \in Form /\ Closed.case \in 0..opened
      /\ [open |-> TRUE, case |-> 0, known |-> {}] \in Form /\ 0 \in 0..opened
  BY <1>1 DEF Form, Closed, Tables
<1>3. CASE OpenCreate(d)
  BY <1>2, <1>3, FormStepsKeep DEF OpenCreate
<1>4. CASE Dismiss(d)
  BY <1>2, <1>4, FormStepsKeep DEF Dismiss
<1>5. ASSUME NEW c \in CaseIds, OpenEdit(d, c)
      PROVE  CasesInvariant'
  <2> DEFINE new == [open |-> TRUE, case |-> c, known |-> caseURLs[c]]
  <2>1. c \in 0..opened /\ c \in 0..MaxCases /\ caseURLs[c] \in SUBSET Domains
    BY <1>1, <1>5 DEF Tables, CaseIds, OpenEdit
  <2>2. new \in Form /\ new.case \in 0..opened
    BY <2>1 DEF Form
  <2>. QED  BY <1>5, <2>2, FormStepsKeep DEF OpenEdit
<1>6. QED
  BY <1>3, <1>4, <1>5

LEMMA SavedAndClosedKeeps ==
  ASSUME CasesInvariant, NEW d \in Dialogs, SavedAndClosed(d)
  PROVE  CasesInvariant'
<1>1. /\ Tables /\ MaxCases \in Nat /\ save \in [Dialogs -> Save] /\ saves \in 0..MaxSaves
      /\ form \in [Dialogs -> Form] /\ \A r \in calls : r.save # 0
  BY TablesAreTyped, CasesConstants DEF CasesInvariant, CasesTypeOK, CallsAreOurs
<1>2. /\ save' = [save EXCEPT ![d] = NoSave] /\ form' = [form EXCEPT ![d] = Closed]
      /\ UNCHANGED <<opened, caseURLs, listed, calls, saves, skewed, unlisted>>
  BY DEF SavedAndClosed, tables
<1>3. Closed \in Form /\ Closed.case \in 0..opened /\ 0 \in 0..saves /\ 0 \in 0..opened
  BY <1>1, CasesConstants DEF Form, Closed, Tables
<1>4. /\ NoSave \in Save /\ NoSave.number = 0 /\ NoSave.case = 0 /\ NoSave.waiting = {}
      /\ Planned(NoSave) /\ Asked(NoSave) /\ Stored(NoSave, caseURLs[0])
  BY NoSaveIsRight
<1>5. CasesTypeOK'
  BY <1>1, <1>2, <1>3, <1>4 DEF CasesInvariant, CasesTypeOK
<1>6. FormsAreOurs' /\ CallsAreOurs' /\ CasesAreWhole'
  BY <1>1, <1>2, <1>3 DEF CasesInvariant, FormsAreOurs, CallsAreOurs, CasesAreWhole, Adding
<1>7. save'[d] = NoSave /\ \A e \in Dialogs : e # d => save'[e] = save[e]
  BY <1>1, <1>2
<1>8. SavesAreOurs'
  BY <1>1, <1>2, <1>3, <1>4, <1>7 DEF CasesInvariant, SavesAreOurs
<1>9. SavesAreRight'
  BY <1>2, <1>4, <1>7 DEF CasesInvariant, SavesAreRight
<1>10. QED
  BY <1>5, <1>6, <1>8, <1>9 DEF CasesInvariant

(* A save that begins has a number of its own, and asks for its first      *)
(* group.                                                                  *)
LEMMA BeginKeeps ==
  ASSUME CasesInvariant, NEW d \in Dialogs, NEW s \in Save, Begin(d, s),
         s.number = saves + 1, s.case \in 0..opened, s.stage \in {"urls", "update"},
         MayBeAt(s, s.stage, caseURLs[s.case])
  PROVE  CasesInvariant'
<1> DEFINE t == SentAt(s, s.stage)
<1>1. /\ Tables /\ MaxCases \in Nat /\ save \in [Dialogs -> Save] /\ saves \in Nat
      /\ saves < MaxSaves /\ MaxSaves \in Nat /\ calls \subseteq Call
      /\ \A r \in calls : r.save \in 1..saves
  BY TablesAreTyped, CasesConstants DEF CasesInvariant, CasesTypeOK, CallsAreOurs, Begin
<1>2. SendGroup(s) = t
  <2>1. s = [s EXCEPT !.stage = s.stage] /\ s.stage \in Stages
    BY DEF Save
  <2>. QED  BY <2>1, Sending
<1>3. /\ Follows(t, s, caseURLs[s.case]) /\ t.waiting = GroupAt(s, s.stage)
  BY SentIsRight
<1>4. \A r \in GroupAt(s, s.stage) :
        /\ r.save = s.number /\ r.case = s.case /\ r.kind \in {"url", "update"}
        /\ r \in Call
  <2>1. s.stage \in Stages /\ s.number # 0
    BY <1>1 DEF Save
  <2>. QED  BY <2>1, GroupsAt DEF KindsOf
<1> HIDE DEF t
<1>5. /\ save' = [save EXCEPT ![d] = t] /\ calls' = calls \cup t.waiting /\ saves' = saves + 1
      /\ UNCHANGED <<opened, caseURLs, listed, form, skewed, unlisted>>
  BY <1>2 DEF Begin, tables
<1>6. /\ t \in Save /\ t.number = saves + 1 /\ t.case = s.case
      /\ Planned(t) /\ Asked(t) /\ Stored(t, caseURLs[t.case])
  BY <1>3 DEF Follows
<1>7. saves' \in 0..MaxSaves /\ saves + 1 \in 1..saves' /\ 1..saves \subseteq 1..saves'
      /\ 0..saves \subseteq 0..saves'
  BY <1>1, <1>5
<1>8. CasesTypeOK'
  BY <1>1, <1>3, <1>4, <1>5, <1>6, <1>7 DEF CasesInvariant, CasesTypeOK
<1>9. CallsAreOurs' /\ FormsAreOurs'
  BY <1>3, <1>4, <1>5, <1>7 DEF CasesInvariant, CallsAreOurs, FormsAreOurs
<1>10. save'[d] = t /\ \A e \in Dialogs : e # d => save'[e] = save[e]
  BY <1>1, <1>5
<1>11. SavesAreOurs'
  <2>1. \A e \in Dialogs : save[e].number \in 0..saves /\ save[e].case \in 0..opened
          /\ save[e].waiting = {r \in calls : r.save = save[e].number}
    BY DEF CasesInvariant, SavesAreOurs
  <2>2. \A e \in Dialogs : save'[e].number \in 0..saves' /\ save'[e].case \in 0..opened'
    BY <1>5, <1>6, <1>7, <1>10, <2>1
  <2>3. ASSUME NEW e \in Dialogs
        PROVE  save'[e].waiting = {r \in calls' : r.save = save'[e].number}
    <3>1. \A r \in calls : r.save # saves + 1
      BY <1>1
    <3>2. \A r \in t.waiting : r.save = saves + 1
      BY <1>3, <1>4
    <3>3. save[e].number # saves + 1
      BY <1>1, <2>1
    <3>4. CASE e = d
      BY <1>5, <1>6, <1>10, <3>1, <3>2, <3>4
    <3>5. CASE e # d
      BY <1>5, <1>10, <2>1, <3>2, <3>3, <3>5
    <3>. QED  BY <3>4, <3>5
  <2>4. \A e, g \in Dialogs : save'[e].number = save'[g].number /\ save'[e].number # 0 => e = g
    <3>1. \A e \in Dialogs : save[e].number # saves + 1
      BY <1>1, <2>1
    <3>. QED  BY <1>6, <1>10, <3>1 DEF CasesInvariant, SavesAreOurs
  <2>. QED  BY <2>2, <2>3, <2>4 DEF SavesAreOurs
<1>12. SavesAreRight'
  BY <1>5, <1>6, <1>10 DEF CasesInvariant, SavesAreRight
<1>13. CasesAreWhole'
  BY <1>5 DEF CasesInvariant, CasesAreWhole, Adding
<1>14. QED
  BY <1>8, <1>9, <1>11, <1>12, <1>13 DEF CasesInvariant

LEMMA SubmitKeeps ==
  ASSUME CasesInvariant, NEW d \in Dialogs, SubmitCreate(d) \/ SubmitEdit(d)
  PROVE  CasesInvariant'
<1>1. /\ Tables /\ MaxCases \in Nat /\ saves \in Nat /\ MaxSaves \in Nat
      /\ form[d] \in Form /\ form[d].case \in 0..opened
  BY TablesAreTyped, CasesConstants DEF CasesInvariant, CasesTypeOK, FormsAreOurs
<1>2. /\ saves < MaxSaves => saves + 1 \in 0..MaxSaves /\ saves + 1 # 0
      /\ {} \in SUBSET Call /\ {} \in SUBSET Domains
      /\ 0 \in 0..MaxCases /\ 0 \in 0..opened /\ form[d].case \in 0..MaxCases
      /\ form[d].known \in SUBSET Domains
  BY <1>1 DEF Tables, Form
<1>3. CASE SubmitCreate(d)
  <2>1. PICK adds \in (SUBSET Domains) \ {{}} :
          Begin(d, [NoSave EXCEPT !.stage = "urls", !.number = saves + 1, !.adds = adds])
    BY <1>3 DEF SubmitCreate
  <2> DEFINE s == [NoSave EXCEPT !.stage = "urls", !.number = saves + 1, !.adds = adds]
  <2>2. saves < MaxSaves
    BY <2>1 DEF Begin
  <2>3. /\ s \in Save /\ s.number = saves + 1 /\ s.stage = "urls" /\ s.case = 0
        /\ s.adds # {} /\ s.drops = {} /\ ~s.editing
    BY <1>2, <2>2 DEF NoSave, Save, Stages
  <2>4. Begin(d, s)
    BY <2>1
  <2> HIDE DEF s
  <2>5. MayBeAt(s, s.stage, caseURLs[s.case])
    BY <1>2, <2>2, <2>3 DEF MayBeAt, Stages
  <2>. QED  BY <1>2, <2>3, <2>4, <2>5, BeginKeeps
<1>4. CASE SubmitEdit(d)
  <2>1. PICK adds \in SUBSET (Domains \ form[d].known), drops \in SUBSET form[d].known :
          Begin(d, [NoSave EXCEPT !.stage = "update", !.number = saves + 1,
                                  !.case = form[d].case, !.editing = TRUE,
                                  !.adds = adds, !.drops = drops])
    BY <1>4 DEF SubmitEdit
  <2> DEFINE s == [NoSave EXCEPT !.stage = "update", !.number = saves + 1,
                                 !.case = form[d].case, !.editing = TRUE,
                                 !.adds = adds, !.drops = drops]
  <2>2. saves < MaxSaves /\ form[d].case # 0 /\ adds \in SUBSET Domains /\ drops \in SUBSET Domains
    BY <1>2, <1>4, <2>1 DEF Begin, SubmitEdit
  <2>3. /\ s \in Save /\ s.number = saves + 1 /\ s.stage = "update" /\ s.case = form[d].case
        /\ s.adds \cap s.drops = {} /\ s.editing
    BY <1>2, <2>2 DEF NoSave, Save, Stages
  <2>4. Begin(d, s)
    BY <2>1
  <2> HIDE DEF s
  <2>5. MayBeAt(s, s.stage, caseURLs[s.case])
    BY <1>2, <2>2, <2>3 DEF MayBeAt, Stages
  <2>. QED  BY <1>1, <2>3, <2>4, <2>5, BeginKeeps
<1>5. QED
  BY <1>3, <1>4

LEMMA RemovalKeeps ==
  ASSUME CasesInvariant, NEW n \in Domains, RemoveFromWatchlist(n)
  PROVE  CasesInvariant'
<1>1. Tables /\ MaxCases \in Nat
  BY TablesAreTyped
<1>2. /\ listed' = [listed EXCEPT ![n] = "none"] /\ unlisted' = unlisted \cup {n}
      /\ UNCHANGED <<opened, caseURLs, form, save, calls, saves, skewed>>
  BY DEF RemoveFromWatchlist
<1>3. CasesTypeOK'
  BY <1>1, <1>2 DEF CasesInvariant, CasesTypeOK, Tables
<1>4. CallsAreOurs' /\ FormsAreOurs' /\ SavesAreOurs' /\ SavesAreRight'
  BY <1>2 DEF CasesInvariant, CallsAreOurs, FormsAreOurs, SavesAreOurs, SavesAreRight
<1>5. CasesAreWhole'
  <2>1. \A k \in Domains : k # n => listed'[k] = listed[k]
    BY <1>1, <1>2 DEF Tables
  <2>2. \A c \in 1..opened : caseURLs[c] \subseteq Domains
    BY <1>1 DEF Tables, CaseIds
  <2>. QED  BY <1>2, <2>1, <2>2 DEF CasesInvariant, CasesAreWhole, Adding
<1>6. QED
  BY <1>3, <1>4, <1>5 DEF CasesInvariant
-----------------------------------------------------------------------------
LEMMA CasesStart ==
  ASSUME CasesInit
  PROVE  CasesInvariant
<1>1. MaxCases \in Nat \ {0} /\ MaxSaves \in Nat /\ opened \in 0..1
  BY CasesConstants DEF CasesInit
<1>2. \A d \in Dialogs : save[d] = NoSave /\ form[d] = Closed
  BY DEF CasesInit
<1>3. \A c \in 1..opened : c \in CaseIds /\ caseURLs[c] = Domains
  BY <1>1 DEF CasesInit, CaseIds
<1>4. /\ NoSave \in Save /\ NoSave.number = 0 /\ NoSave.case = 0 /\ NoSave.waiting = {}
      /\ Planned(NoSave) /\ Asked(NoSave) /\ Stored(NoSave, caseURLs[0])
  BY NoSaveIsRight
<1>5. Closed \in Form /\ Closed.case = 0
  BY <1>1 DEF Closed, Form
<1>6. CasesTypeOK
  BY <1>1, <1>4, <1>5 DEF CasesInit, CasesTypeOK
<1>7. CallsAreOurs /\ FormsAreOurs /\ SavesAreOurs
  BY <1>1, <1>2, <1>4, <1>5 DEF CasesInit, CallsAreOurs, FormsAreOurs, SavesAreOurs
<1>8. SavesAreRight
  BY <1>2, <1>4 DEF SavesAreRight
<1>9. CasesAreWhole
  BY <1>1, <1>3, CasesConstants DEF CasesAreWhole, CasesInit
<1>10. QED
  BY <1>6, <1>7, <1>8, <1>9 DEF CasesInvariant

LEMMA CasesStep ==
  ASSUME CasesInvariant, [CasesNext]_casesVars
  PROVE  CasesInvariant'
<1>1. ASSUME NEW d \in Dialogs,
             \/ OpenCreate(d) \/ Dismiss(d) \/ SavedAndClosed(d)
             \/ SubmitCreate(d) \/ SubmitEdit(d)
             \/ \E c \in CaseIds : OpenEdit(d, c)
      PROVE  CasesInvariant'
  BY <1>1, OpenOrDismissKeeps, SavedAndClosedKeeps, SubmitKeeps
<1>2. ASSUME NEW r \in calls,
             \/ Refuse(r) \/ Patch(r) \/ CreateURL(r) \/ CreateCase(r)
             \/ AddURLToCase(r) \/ AddURLEnds(r) \/ CountURLs(r) \/ RemoveURL(r)
      PROVE  CasesInvariant'
  BY <1>2, RefuseKeeps, PatchKeeps, CreateURLKeeps, CreateCaseKeeps, AddURLToCaseKeeps,
     AddURLEndsKeeps, CountURLsKeeps, RemoveURLKeeps
<1>3. ASSUME NEW n \in Domains, RemoveFromWatchlist(n)
      PROVE  CasesInvariant'
  BY <1>3, RemovalKeeps
<1>4. CASE UNCHANGED casesVars
  BY <1>4 DEF CasesInvariant, CasesTypeOK, CallsAreOurs, FormsAreOurs, SavesAreOurs,
     SavesAreRight, CasesAreWhole, Adding, casesVars, tables
<1>5. QED
  BY <1>1, <1>2, <1>3, <1>4 DEF CasesNext

(* A save that is over has nothing under way: what it was to add and to    *)
(* drop is stored.                                                         *)
LEMMA NothingForgotten ==
  ASSUME CasesInvariant
  PROVE  SavedMeansStored
<1>1. SUFFICES ASSUME NEW d \in Dialogs, save[d].stage = "saved"
               PROVE  /\ save[d].adds \ save[d].meddled \subseteq caseURLs[save[d].case]
                      /\ (save[d].drops \ save[d].meddled) \cap caseURLs[save[d].case] = {}
  BY DEF SavedMeansStored
<1>2. Asked(save[d]) /\ Stored(save[d], caseURLs[save[d].case])
  BY DEF CasesInvariant, SavesAreRight
<1>3. save[d].waiting = {}
  BY <1>1, <1>2 DEF Asked, KindsOf
<1>4. QED
  BY <1>1, <1>2, <1>3 DEF Stored, ToAdd, ToDrop

LEMMA CasesAlways == CasesSpec => []CasesInvariant
<1>1. CasesInit => CasesInvariant
  BY CasesStart
<1>2. CasesInvariant /\ [CasesNext]_casesVars => CasesInvariant'
  BY CasesStep
<1>3. QED
  BY <1>1, <1>2, PTL DEF CasesSpec

(* The tables, forms, saves and requests have their types: no request is   *)
(* about a case that is not opened, or counts more domains than there are. *)
THEOREM CaseTypesKept == CasesSpec => []CasesTypeOK
<1>1. CasesInvariant => CasesTypeOK
  BY DEF CasesInvariant
<1>2. QED
  BY <1>1, CasesAlways, PTL

(* However many tabs save the same case at once, whatever answers are lost *)
(* and in whatever order the requests of a group are served, handleSubmit  *)
(* reports success only when the case has what was added and has lost what *)
(* was dropped, but for domains another save has touched.                  *)
THEOREM SavesAreComplete == CasesSpec => []SavedMeansStored
<1>1. CasesInvariant => SavedMeansStored
  BY NothingForgotten
<1>2. QED
  BY <1>1, CasesAlways, PTL

(* A case loses its last domain only when another removal came between the *)
(* count of RemoveURLFromCase and its delete; and a domain of a case is on *)
(* the department's list, or AddCaseURL is about to put it there, unless   *)
(* somebody took it off or that second write failed.                       *)
THEOREM CasesStayWhole == CasesSpec => []CasesAreWhole
<1>1. CasesInvariant => CasesAreWhole
  BY DEF CasesInvariant
<1>2. QED
  BY <1>1, CasesAlways, PTL
-----------------------------------------------------------------------------
(* The due dates. *)

(* No two requests have a number in common; two that have a case, or, once *)
(* they have listed them, domains in common, are both disturbed.           *)
Apart(requests) ==
  \A r, q \in requests :
    r # q => /\ r.number # q.number
             /\ r.case = q.case => r.disturbed
             /\ r.step # "list" /\ q.step # "list" /\ r.left \cap q.left # {} => r.disturbed

RowsAreThere ==
  /\ \A c \in DueCases : c > created => covers[c] = {}
  /\ \A r \in updates : /\ r.case <= created /\ r.number <= started /\ r.at \subseteq r.left
                        /\ r.step # "enqueue" => r.at = {}
                        /\ r.step = "list" => r.case # 0

(* A request that nothing disturbed has the date of its case; the domains  *)
(* it is to go through have no case but its own, or they are doubted; and  *)
(* the task it is about to replace is gone.                                *)
Undisputed(r) ==
  ~r.disturbed =>
    /\ r.case # 0 => r.date = dueDate[r.case]
    /\ r.step # "list" => \A n \in r.left : CasesOf(n) = {r.case} \/ unsure[n] # {}
    /\ r.step = "enqueue" => \A n \in r.at : task[n].state = "none"

(* A domain that is not doubted has one case at most, and its task is      *)
(* right or a request will come to it.                                     *)
OneCase(n) == unsure[n] = {} => \A c, e \in CasesOf(n) : c = e
Right(n) ==
  /\ task[n].state # "none" => task[n].at \in Wanted(n)
  /\ \A date \in Wanted(n) : date > now => task[n].state = "waiting"
Pending(n) == \E r \in updates : n \in Touches(r)
Settles(n) == unsure[n] = {} => Right(n) \/ Pending(n)

DueInvariant ==
  /\ DueTypeOK /\ RowsAreThere /\ Apart(updates)
  /\ \A r \in updates : Undisputed(r)
  /\ \A n \in DueDomains : OneCase(n) /\ Settles(n)

(* x is r, disturbed perhaps.                                              *)
Copy(x, r) ==
  /\ x \in Update /\ x.number = r.number /\ x.case = r.case /\ x.date = r.date
  /\ x.step = r.step /\ x.left = r.left /\ x.at = r.at /\ (r.disturbed => x.disturbed)

(* Requests that are disturbed are otherwise as they were.                 *)
LEMMA Marked ==
  ASSUME NEW rest \in SUBSET Update, Apart(rest), NEW D \in SUBSET rest
  PROVE  /\ Disturb(D, rest) \in SUBSET Update /\ Apart(Disturb(D, rest))
         /\ \A x \in Disturb(D, rest) : \E r \in rest : Copy(x, r) /\ (r \in D => x.disturbed)
         /\ \A r \in rest : \E x \in Disturb(D, rest) : Copy(x, r)
<1> DEFINE mark(r) == IF r \in D THEN [r EXCEPT !.disturbed = TRUE] ELSE r
           U == Disturb(D, rest)
<1>1. \A r \in rest : Copy(mark(r), r) /\ (r \in D => mark(r).disturbed)
  BY DEF Copy, Update
<1>2. \A x : x \in U <=> \E r \in rest : x = mark(r)
  BY DEF Disturb
<1> HIDE DEF mark, U
<1>3. Apart(U)
  BY <1>1, <1>2 DEF Apart, Copy
<1>4. QED
  BY <1>1, <1>2, <1>3 DEF U, Copy

(* One more request, which disturbs those it meets, and is disturbed by    *)
(* them.                                                                   *)
LEMMA Joins ==
  ASSUME NEW rest \in SUBSET Update, Apart(rest), NEW new \in Update, NEW domains,
         \A r \in rest : r.number # new.number,
         new.step = "list" \/ new.left \subseteq domains,
         NEW D, D = Disturbed(new.case, domains, rest), D # {} => new.disturbed,
         NEW U, U = Disturb(D, rest) \cup {new}
  PROVE  /\ U \in SUBSET Update /\ Apart(U) /\ new \in U
         /\ \A x \in U : x = new \/ \E r \in rest : Copy(x, r) /\ (r \in D => x.disturbed)
         /\ \A r \in rest : \E x \in U : Copy(x, r)
<1>1. D \in SUBSET rest
  BY DEF Disturbed
<1> DEFINE M == Disturb(D, rest)
<1>2. /\ M \in SUBSET Update /\ Apart(M)
      /\ \A x \in M : \E r \in rest : Copy(x, r) /\ (r \in D => x.disturbed)
      /\ \A r \in rest : \E x \in M : Copy(x, r)
  BY <1>1, Marked
<1> HIDE DEF M
<1>3. ASSUME NEW x \in M
      PROVE  /\ x.number # new.number
             /\ x.case = new.case => x.disturbed /\ new.disturbed
             /\ x.step # "list" /\ new.step # "list" /\ x.left \cap new.left # {}
                  => x.disturbed /\ new.disturbed
  <2>1. PICK r \in rest : Copy(x, r) /\ (r \in D => x.disturbed)
    BY <1>2
  <2>2. r.number # new.number
    OBVIOUS
  <2>3. r.case = new.case => r \in D
    BY DEF Disturbed
  <2>4. r.step # "list" /\ new.step # "list" /\ r.left \cap new.left # {} => r \in D
    BY DEF Disturbed, Touches
  <2>. QED  BY <2>1, <2>2, <2>3, <2>4 DEF Copy
<1>4. U = M \cup {new}
  BY DEF M
<1>5. Apart(U)
  BY <1>2, <1>3, <1>4 DEF Apart
<1>6. QED
  BY <1>2, <1>4, <1>5

LEMMA DueTypes ==
  ASSUME DueInvariant
  PROVE  /\ MaxDueCases \in Nat /\ MaxTime \in Nat /\ MaxUpdates \in Nat
         /\ now \in Nat /\ created \in 0..MaxDueCases /\ started \in 0..MaxUpdates
         /\ dueDate \in [DueCases -> Dates] /\ covers \in [DueCases -> SUBSET DueDomains]
         /\ task \in [DueDomains -> [state : {"none", "waiting", "active"}, at : Dates]]
         /\ updates \in SUBSET Update
         /\ unsure \in [DueDomains -> SUBSET {"changed", "dropped"}]
         /\ NoTask \in [state : {"none", "waiting", "active"}, at : Dates]
         /\ NoTask.state = "none"
BY DueDatesConstants DEF DueInvariant, DueTypeOK, Dates, NoTask

LEMMA DueStarts ==
  ASSUME DueInit
  PROVE  DueInvariant
<1>1. MaxDueCases \in Nat /\ MaxTime \in Nat /\ MaxUpdates \in Nat
  BY DueDatesConstants
<1>2. NoTask \in [state : {"none", "waiting", "active"}, at : Dates] /\ NoTask.state = "none"
  BY <1>1 DEF NoTask, Dates
<1>3. DueTypeOK
  BY <1>1, <1>2 DEF DueTypeOK, DueInit, Dates
<1>4. RowsAreThere /\ Apart(updates) /\ \A r \in updates : Undisputed(r)
  BY DEF DueInit, RowsAreThere, Apart
<1>5. ASSUME NEW n \in DueDomains PROVE CasesOf(n) = {} /\ task[n] = NoTask
  BY DEF CasesOf, DueInit
<1>6. \A n \in DueDomains : OneCase(n) /\ Settles(n)
  BY <1>2, <1>5 DEF OneCase, Settles, Right, Wanted
<1>7. QED
  BY <1>3, <1>4, <1>6 DEF DueInvariant
-----------------------------------------------------------------------------
(* The rows. *)

(* What a doubt on some domains does.                                      *)
LEMMA Doubting ==
  ASSUME DueInvariant, NEW domains, NEW cause \in {"changed", "dropped"}, NEW new,
         new = Doubt(domains, cause)
  PROVE  /\ new \in [DueDomains -> SUBSET {"changed", "dropped"}]
         /\ \A n \in DueDomains : /\ n \in domains => new[n] # {}
                                  /\ n \notin domains => new[n] = unsure[n]
BY DueTypes DEF Doubt

(* The rows of n change, with a doubt if they matter: the domains of other *)
(* cases and the requests are left alone.                                  *)
LEMMA RowsKeep ==
  ASSUME DueInvariant, NEW n \in DueDomains,
         UNCHANGED <<now, task, updates, started>>,
         created' \in 0..MaxDueCases, created <= created',
         dueDate' \in [DueCases -> Dates], \A c \in 1..created : dueDate'[c] = dueDate[c],
         covers' \in [DueCases -> SUBSET DueDomains],
         \A c \in DueCases : \A m \in DueDomains \ {n} : m \in covers'[c] <=> m \in covers[c],
         \A c \in DueCases : c > created' => covers'[c] = {},
         unsure' \in [DueDomains -> SUBSET {"changed", "dropped"}],
         \A m \in DueDomains \ {n} : unsure'[m] = unsure[m],
         \/ unsure'[n] # {}
         \/ unsure' = unsure /\ CasesOf(n) = {} /\ (\A date \in Wanted(n)' : ~(date > now))
            /\ (\A c, e \in CasesOf(n)' : c = e)
  PROVE  DueInvariant'
<1>1. /\ MaxDueCases \in Nat /\ created \in 0..MaxDueCases /\ updates \in SUBSET Update
      /\ covers \in [DueCases -> SUBSET DueDomains] /\ now \in Nat /\ MaxTime \in Nat
      /\ dueDate \in [DueCases -> Dates]
  BY DueTypes
<1>2. DueTypeOK'
  BY DEF DueInvariant, DueTypeOK
<1>3. RowsAreThere'
  BY <1>1 DEF DueInvariant, RowsAreThere, Update
<1>4. Apart(updates)'
  BY DEF DueInvariant, Apart
<1>5. \A m \in DueDomains \ {n} : CasesOf(m)' = CasesOf(m)
  BY DEF CasesOf
<1>6. \A c \in DueCases : c <= created => c \in 1..created
  BY <1>1 DEF DueCases
<1>7. ASSUME NEW m \in DueDomains \ {n} PROVE Wanted(m)' = Wanted(m)
  <2>1. ASSUME NEW c \in CasesOf(m) PROVE dueDate'[c] = dueDate[c]
    <3>1. c \in DueCases /\ c <= created
      BY <1>1 DEF CasesOf, DueInvariant, RowsAreThere, DueCases
    <3>. QED  BY <1>6, <3>1
  <2>. QED  BY <1>5, <2>1 DEF Wanted
<1>8. ASSUME NEW r \in updates PROVE Undisputed(r)'
  <2>1. /\ Undisputed(r) /\ r.left \subseteq DueDomains /\ r.case \in 0..MaxDueCases
        /\ r.case <= created
    BY <1>1 DEF DueInvariant, RowsAreThere, Update
  <2>2. r.case # 0 => dueDate'[r.case] = dueDate[r.case]
    BY <1>1, <2>1
  <2>3. ASSUME NEW m \in r.left, CasesOf(m) = {r.case} \/ unsure[m] # {}
        PROVE  CasesOf(m)' = {r.case} \/ unsure'[m] # {}
    <3>1. CASE m = n
      BY <2>3, <3>1
    <3>2. CASE m # n
      BY <1>5, <2>1, <2>3, <3>2
    <3>. QED  BY <3>1, <3>2
  <2>. QED  BY <2>1, <2>2, <2>3 DEF Undisputed
<1>9. ASSUME NEW m \in DueDomains PROVE OneCase(m)' /\ Settles(m)'
  <2>1. OneCase(m) /\ Settles(m)
    BY DEF DueInvariant
  <2>2. CASE m # n
    <3>1. Pending(m) => Pending(m)'
      BY <1>1, <2>2 DEF Pending, Touches, Update, DueInvariant, RowsAreThere, DueCases
    <3>2. Right(m) => Right(m)'
      BY <1>7, <2>2 DEF Right
    <3>. QED  BY <1>5, <2>1, <2>2, <3>1, <3>2 DEF OneCase, Settles
  <2>3. CASE m = n /\ unsure'[n] # {}
    BY <2>3 DEF OneCase, Settles
  <2>4. CASE m = n /\ unsure'[n] = {}
    <3>1. /\ unsure' = unsure /\ CasesOf(n) = {} /\ (\A date \in Wanted(n)' : ~(date > now))
          /\ \A c, e \in CasesOf(n)' : c = e
      BY <2>4
    <3>2. Right(n) => Right(n)'
      BY <1>1, <3>1 DEF Right, Wanted
    <3>3. Pending(n) => Pending(n)'
      <4>1. SUFFICES ASSUME NEW r \in updates, n \in Touches(r)
                     PROVE  Pending(n)'
        BY DEF Pending
      <4>2. r.step # "list"
        BY <1>1, <3>1, <4>1 DEF Touches, CasesOf, Update, DueInvariant, RowsAreThere, DueCases
      <4>. QED  BY <4>1, <4>2 DEF Pending, Touches
    <3>. QED  BY <2>1, <2>4, <3>1, <3>2, <3>3 DEF OneCase, Settles
  <2>. QED  BY <2>2, <2>3, <2>4
<1>10. QED
  BY <1>2, <1>3, <1>4, <1>8, <1>9 DEF DueInvariant

LEMMA JoiningDoubts ==
  ASSUME DueInvariant, NEW n \in DueDomains, NEW date, Joining(n, date)
  PROVE  /\ unsure' \in [DueDomains -> SUBSET {"changed", "dropped"}]
         /\ \A m \in DueDomains \ {n} : unsure'[m] = unsure[m]
         /\ unsure'[n] # {} \/ (unsure' = unsure /\ CasesOf(n) = {} /\ ~(date > now))
<1>1. CASE date > now \/ CasesOf(n) # {}
  <2>1. unsure' = Doubt({n}, "changed")
    BY <1>1 DEF Joining
  <2>. QED  BY <2>1, Doubting
<1>2. CASE ~(date > now \/ CasesOf(n) # {})
  BY <1>2, DueTypes DEF Joining
<1>3. QED
  BY <1>1, <1>2

LEMMA CreateKeeps ==
  ASSUME DueInvariant, NEW n \in DueDomains, NEW date \in Dates, CreateCaseForURL(n, date)
  PROVE  DueInvariant'
<1>1. /\ MaxDueCases \in Nat /\ created \in 0..MaxDueCases /\ now \in Nat
      /\ covers \in [DueCases -> SUBSET DueDomains] /\ dueDate \in [DueCases -> Dates]
  BY DueTypes
<1>2. /\ created < MaxDueCases /\ created' = created + 1
      /\ dueDate' = [dueDate EXCEPT ![created + 1] = date]
      /\ covers' = [covers EXCEPT ![created + 1] = {n}]
      /\ UNCHANGED <<now, task, updates, started>> /\ Joining(n, date)
  BY DEF CreateCaseForURL
<1>3. /\ created + 1 \in DueCases /\ covers[created + 1] = {}
      /\ created' \in 0..MaxDueCases /\ created <= created'
  BY <1>1, <1>2 DEF DueInvariant, RowsAreThere, DueCases
<1>4. /\ dueDate' \in [DueCases -> Dates] /\ \A c \in 1..created : dueDate'[c] = dueDate[c]
      /\ covers' \in [DueCases -> SUBSET DueDomains]
      /\ \A c \in DueCases : \A m \in DueDomains \ {n} : m \in covers'[c] <=> m \in covers[c]
      /\ \A c \in DueCases : c > created' => covers'[c] = {}
  <2>1. /\ covers' \in [DueCases -> SUBSET DueDomains] /\ covers'[created + 1] = {n}
        /\ \A c \in DueCases : c # created + 1 => covers'[c] = covers[c]
        /\ dueDate' \in [DueCases -> Dates]
        /\ \A c \in DueCases : c # created + 1 => dueDate'[c] = dueDate[c]
    BY <1>1, <1>2, <1>3
  <2>2. \A c \in 1..created : c \in DueCases /\ c # created + 1
    BY <1>1 DEF DueCases
  <2>3. \A c \in DueCases : c > created' => c # created + 1 /\ c > created
    BY <1>1, <1>2 DEF DueCases
  <2>4. \A c \in DueCases : c > created' => covers'[c] = {}
    BY <2>1, <2>3 DEF DueInvariant, RowsAreThere
  <2>5. \A c \in DueCases : \A m \in DueDomains \ {n} : m \in covers'[c] <=> m \in covers[c]
    <3>1. SUFFICES ASSUME NEW c \in DueCases, NEW m \in DueDomains \ {n}
                   PROVE  m \in covers'[c] <=> m \in covers[c]
      OBVIOUS
    <3>2. CASE c = created + 1
      BY <1>3, <2>1, <3>2
    <3>3. CASE c # created + 1
      BY <2>1, <3>3
    <3>. QED  BY <3>2, <3>3
  <2>. QED  BY <2>1, <2>2, <2>4, <2>5
<1>5. /\ unsure' \in [DueDomains -> SUBSET {"changed", "dropped"}]
      /\ \A m \in DueDomains \ {n} : unsure'[m] = unsure[m]
      /\ unsure'[n] # {} \/ (unsure' = unsure /\ CasesOf(n) = {} /\ ~(date > now))
  BY <1>2, JoiningDoubts
<1>6. CasesOf(n) = {} => CasesOf(n)' = {created + 1}
  BY <1>1, <1>2, <1>3 DEF CasesOf
<1>7. CasesOf(n)' = {created + 1} => Wanted(n)' = {date}
  BY <1>1, <1>2, <1>3 DEF Wanted
<1>8. QED
  BY <1>2, <1>3, <1>4, <1>5, <1>6, <1>7, RowsKeep

LEMMA AddKeeps ==
  ASSUME DueInvariant, NEW n \in DueDomains, NEW c \in DueCases, AddCaseURL(c, n)
  PROVE  DueInvariant'
<1>1. /\ MaxDueCases \in Nat /\ created \in 0..MaxDueCases /\ now \in Nat
      /\ covers \in [DueCases -> SUBSET DueDomains] /\ dueDate \in [DueCases -> Dates]
  BY DueTypes
<1>2. /\ c <= created /\ covers' = [covers EXCEPT ![c] = @ \cup {n}]
      /\ UNCHANGED <<now, created, dueDate, task, updates, started>> /\ Joining(n, dueDate[c])
  BY DEF AddCaseURL
<1>3. /\ covers' \in [DueCases -> SUBSET DueDomains]
      /\ \A e \in DueCases : \A m \in DueDomains \ {n} : m \in covers'[e] <=> m \in covers[e]
      /\ \A e \in DueCases : e > created' => covers'[e] = {}
  BY <1>1, <1>2 DEF DueInvariant, RowsAreThere, DueCases
<1>4. /\ unsure' \in [DueDomains -> SUBSET {"changed", "dropped"}]
      /\ \A m \in DueDomains \ {n} : unsure'[m] = unsure[m]
      /\ unsure'[n] # {} \/ (unsure' = unsure /\ CasesOf(n) = {} /\ ~(dueDate[c] > now))
  BY <1>2, JoiningDoubts
<1>5. CasesOf(n) = {} => CasesOf(n)' = {c}
  BY <1>1, <1>2 DEF CasesOf
<1>6. CasesOf(n)' = {c} => Wanted(n)' = {dueDate[c]}
  BY <1>2 DEF Wanted
<1>7. created <= created'
  BY <1>1, <1>2
<1>8. QED
  BY <1>1, <1>2, <1>3, <1>4, <1>5, <1>6, <1>7, RowsKeep

LEMMA RemoveKeeps ==
  ASSUME DueInvariant, NEW n \in DueDomains, NEW c \in DueCases, RemoveCaseURL(c, n)
  PROVE  DueInvariant'
<1>1. /\ MaxDueCases \in Nat /\ created \in 0..MaxDueCases
      /\ covers \in [DueCases -> SUBSET DueDomains] /\ dueDate \in [DueCases -> Dates]
  BY DueTypes
<1>2. /\ covers' = [covers EXCEPT ![c] = @ \ {n}] /\ unsure' = Doubt({n}, "changed")
      /\ UNCHANGED <<now, created, dueDate, task, updates, started>>
  BY DEF RemoveCaseURL
<1>3. /\ covers' \in [DueCases -> SUBSET DueDomains]
      /\ \A e \in DueCases : \A m \in DueDomains \ {n} : m \in covers'[e] <=> m \in covers[e]
      /\ \A e \in DueCases : e > created' => covers'[e] = {}
  BY <1>1, <1>2 DEF DueInvariant, RowsAreThere
<1>4. /\ unsure' \in [DueDomains -> SUBSET {"changed", "dropped"}]
      /\ \A m \in DueDomains \ {n} : unsure'[m] = unsure[m]
      /\ unsure'[n] # {}
  BY <1>2, Doubting
<1>5. created <= created'
  BY <1>1, <1>2
<1>6. QED
  BY <1>1, <1>2, <1>3, <1>4, <1>5, RowsKeep
-----------------------------------------------------------------------------
(* Time, and the worker. *)

(* The rows and the requests stay; a task may be taken, if its time has    *)
(* come, or come back.                                                     *)
LEMMA ClockKeeps ==
  ASSUME DueInvariant, UNCHANGED <<created, dueDate, covers, updates, started, unsure>>,
         now' \in Dates, now <= now',
         task' \in [DueDomains -> [state : {"none", "waiting", "active"}, at : Dates]],
         \A n \in DueDomains :
           \/ task'[n] = task[n]
           \/ task[n].state # "none" /\ task'[n].state = "none" /\ ~(task[n].state = "waiting")
           \/ /\ task[n].state # "none" /\ task'[n].at = task[n].at
              /\ task'[n].state # "none"
              /\ task[n].state = "waiting" => ~(task[n].at > now')
  PROVE  DueInvariant'
<1>1. now \in Nat /\ now' \in Nat /\ updates \in SUBSET Update /\ dueDate \in [DueCases -> Dates]
      /\ MaxTime \in Nat
  BY DueTypes DEF Dates
<1>2. DueTypeOK' /\ RowsAreThere' /\ Apart(updates)'
  BY DEF DueInvariant, DueTypeOK, RowsAreThere, Apart
<1>3. \A n \in DueDomains : CasesOf(n)' = CasesOf(n) /\ Wanted(n)' = Wanted(n)
  BY DEF CasesOf, Wanted
<1>4. ASSUME NEW r \in updates PROVE Undisputed(r)'
  <2>1. Undisputed(r) /\ r.left \subseteq DueDomains /\ r.at \subseteq DueDomains
    BY <1>1 DEF DueInvariant, Update
  <2>. QED  BY <1>3, <2>1 DEF Undisputed
<1>5. ASSUME NEW n \in DueDomains PROVE OneCase(n)' /\ Settles(n)'
  <2>1. OneCase(n) /\ Settles(n)
    BY DEF DueInvariant
  <2>2. Pending(n)' <=> Pending(n)
    BY DEF Pending, Touches
  <2>3. ASSUME Right(n), OneCase(n), unsure[n] = {} PROVE Right(n)'
    <3>1. \A date \in Wanted(n) : date \in Nat
      BY <1>1 DEF Wanted, CasesOf, Dates
    <3>2. \A d, e \in Wanted(n) : d = e
      BY <2>3 DEF OneCase, Wanted
    <3>3. CASE task'[n] = task[n]
      BY <1>1, <1>3, <2>3, <3>1, <3>3 DEF Right
    <3>4. CASE task'[n] # task[n]
      <4>1. \A date \in Wanted(n) : date > now' => date > now
        BY <1>1, <3>1
      <4>2. task[n].state # "none" /\ task[n].at \in Wanted(n)
        BY <2>3, <3>4 DEF Right
      <4>3. \A date \in Wanted(n) : ~(date > now')
        BY <2>3, <3>2, <3>4, <4>1, <4>2 DEF Right
      <4>. QED  BY <1>3, <3>4, <4>2, <4>3 DEF Right
    <3>. QED  BY <3>3, <3>4
  <2>. QED  BY <1>3, <2>1, <2>2, <2>3 DEF OneCase, Settles
<1>6. QED
  BY <1>2, <1>4, <1>5 DEF DueInvariant

LEMMA WorkerKeeps ==
  ASSUME DueInvariant, NEW n \in DueDomains, TakeTask(n) \/ TaskReturns(n)
  PROVE  DueInvariant'
<1>1. /\ task \in [DueDomains -> [state : {"none", "waiting", "active"}, at : Dates]]
      /\ now \in Nat /\ now \in Dates /\ Dates \subseteq Nat
      /\ NoTask \in [state : {"none", "waiting", "active"}, at : Dates] /\ NoTask.state = "none"
  BY DueTypes DEF DueInvariant, DueTypeOK, Dates
<1>2. CASE TakeTask(n)
  <2>1. /\ task[n].state = "waiting" /\ task[n].at <= now
        /\ task' = [task EXCEPT ![n].state = "active"]
        /\ UNCHANGED <<now, created, dueDate, covers, updates, started, unsure>>
    BY <1>2 DEF TakeTask
  <2>2. /\ task' \in [DueDomains -> [state : {"none", "waiting", "active"}, at : Dates]]
        /\ \A m \in DueDomains \ {n} : task'[m] = task[m]
        /\ task'[n].state = "active" /\ task'[n].at = task[n].at
    BY <1>1, <2>1
  <2>3. ~(task[n].at > now) /\ now <= now' /\ now' \in Dates
    BY <1>1, <2>1
  <2>. QED  BY <2>1, <2>2, <2>3, ClockKeeps
<1>3. CASE TaskReturns(n)
  <2>1. /\ task[n].state = "active"
        /\ task' \in {[task EXCEPT ![n] = NoTask], [task EXCEPT ![n].state = "waiting"]}
        /\ UNCHANGED <<now, created, dueDate, covers, updates, started, unsure>>
    BY <1>3 DEF TaskReturns
  <2>2. /\ task' \in [DueDomains -> [state : {"none", "waiting", "active"}, at : Dates]]
        /\ \A m \in DueDomains \ {n} : task'[m] = task[m]
        /\ \/ task'[n].state = "none"
           \/ task'[n].state = "waiting" /\ task'[n].at = task[n].at
    BY <1>1, <2>1
  <2>3. now <= now' /\ now' \in Dates
    BY <1>1, <2>1
  <2>. QED  BY <2>1, <2>2, <2>3, ClockKeeps
<1>4. QED
  BY <1>2, <1>3

LEMMA TickKeeps ==
  ASSUME DueInvariant, Tick
  PROVE  DueInvariant'
<1>1. /\ now \in Nat /\ MaxTime \in Nat /\ now < MaxTime /\ now' = now + 1
      /\ UNCHANGED <<created, dueDate, covers, task, updates, started, unsure>>
  BY DueTypes DEF Tick
<1>2. now' \in Dates /\ now <= now'
  BY <1>1 DEF Dates
<1>3. task' \in [DueDomains -> [state : {"none", "waiting", "active"}, at : Dates]]
  BY <1>1, DueTypes
<1>4. QED
  BY <1>1, <1>2, <1>3, ClockKeeps
-----------------------------------------------------------------------------
(* The requests. *)

(* One starts.                                                             *)
LEMMA Starting ==
  ASSUME DueInvariant, NEW c \in 0..created, NEW date \in Dates, NEW step \in {"list", "delete"},
         NEW domains \in SUBSET DueDomains, Start(c, date, step, domains), step = "list" => c # 0
  PROVE  /\ updates' \in SUBSET Update /\ Apart(updates') /\ started' \in 0..MaxUpdates
         /\ \A r \in updates' : /\ r.case <= created /\ r.number <= started'
                                /\ r.at \subseteq r.left /\ (r.step # "enqueue" => r.at = {})
                                /\ (r.step = "list" => r.case # 0)
         /\ \A x \in updates' : \/ x.case = c /\ x.date = date /\ x.step = step /\ x.left = domains
                                \/ \E r \in updates : Copy(x, r) /\ (r.case = c => x.disturbed)
         /\ \E x \in updates' : x.case = c /\ x.step = step /\ x.left = domains
         /\ \A r \in updates : \E x \in updates' : Copy(x, r)
<1> DEFINE D == Disturbed(c, domains, updates)
           new == [number |-> started + 1, case |-> c, date |-> date, step |-> step,
                   left |-> domains, at |-> {}, disturbed |-> D # {}]
<1>1. /\ MaxDueCases \in Nat /\ created \in 0..MaxDueCases /\ started \in 0..MaxUpdates
      /\ MaxUpdates \in Nat /\ updates \in SUBSET Update
      /\ \A r \in updates : /\ r.case <= created /\ r.number <= started /\ r.at \subseteq r.left
                            /\ (r.step # "enqueue" => r.at = {}) /\ (r.step = "list" => r.case # 0)
  BY DueTypes DEF DueInvariant, RowsAreThere
<1>2. started < MaxUpdates /\ started' = started + 1 /\ updates' = Disturb(D, updates) \cup {new}
  BY DEF Start
<1>3. started + 1 \in 1..MaxUpdates /\ c \in 0..MaxDueCases
  BY <1>1, <1>2
<1>4. /\ new \in Update /\ new.number = started + 1 /\ new.case = c /\ new.date = date
      /\ new.step = step /\ new.left = domains /\ new.at = {} /\ (D # {} => new.disturbed)
  BY <1>3 DEF Update
<1> HIDE DEF new, D
<1>5. \A r \in updates : r.number # new.number /\ (r.case = c => r \in D)
  BY <1>1, <1>4 DEF D, Disturbed, Update
<1>6. /\ updates' \in SUBSET Update /\ Apart(updates') /\ new \in updates'
      /\ \A x \in updates' : x = new \/ \E r \in updates : Copy(x, r) /\ (r \in D => x.disturbed)
      /\ \A r \in updates : \E x \in updates' : Copy(x, r)
  <2>1. Apart(updates)
    BY DEF DueInvariant
  <2>2. D = Disturbed(new.case, domains, updates)
    BY <1>4 DEF D
  <2>3. new.left \subseteq domains
    BY <1>4
  <2>. QED  BY <1>1, <1>2, <1>4, <1>5, <2>1, <2>2, <2>3, Joins
<1>7. \A r \in updates' : /\ r.case <= created /\ r.number <= started'
                          /\ r.at \subseteq r.left /\ (r.step # "enqueue" => r.at = {})
                          /\ (r.step = "list" => r.case # 0)
  <2>1. SUFFICES ASSUME NEW x \in updates'
                 PROVE  /\ x.case <= created /\ x.number <= started'
                        /\ x.at \subseteq x.left /\ (x.step # "enqueue" => x.at = {})
                        /\ (x.step = "list" => x.case # 0)
    OBVIOUS
  <2>2. CASE x = new
    BY <1>1, <1>2, <1>4, <2>2
  <2>3. ASSUME NEW r \in updates, Copy(x, r)
        PROVE  /\ x.case <= created /\ x.number <= started'
               /\ x.at \subseteq x.left /\ (x.step # "enqueue" => x.at = {})
               /\ (x.step = "list" => x.case # 0)
    BY <1>1, <1>2, <2>3 DEF Copy, Update
  <2>. QED  BY <1>6, <2>2, <2>3
<1>8. started' \in 0..MaxUpdates
  BY <1>1, <1>2
<1>9. QED
  BY <1>4, <1>5, <1>6, <1>7, <1>8

(* What is pending stays so.                                               *)
LEMMA StaysPending ==
  ASSUME covers' = covers, \A r \in updates : \E x \in updates' : Copy(x, r),
         NEW n, Pending(n)
  PROVE  Pending(n)'
<1>1. PICK r \in updates : n \in Touches(r)
  BY DEF Pending
<1>2. PICK x \in updates' : Copy(x, r)
  OBVIOUS
<1>3. QED
  BY <1>1, <1>2 DEF Copy, Touches, Pending

LEMMA UpdateKeeps ==
  ASSUME DueInvariant, NEW c \in DueCases, NEW date \in Dates, UpdateCase(c, date)
  PROVE  DueInvariant'
<1>1. /\ MaxDueCases \in Nat /\ created \in 0..MaxDueCases /\ updates \in SUBSET Update
      /\ covers \in [DueCases -> SUBSET DueDomains] /\ dueDate \in [DueCases -> Dates]
  BY DueTypes
<1>2. /\ c <= created /\ Start(c, date, "list", covers[c])
      /\ dueDate' = [dueDate EXCEPT ![c] = date]
      /\ UNCHANGED <<now, created, covers, task, unsure>>
  BY DEF UpdateCase
<1>3. c \in 0..created /\ covers[c] \in SUBSET DueDomains /\ c # 0
  BY <1>1, <1>2 DEF DueCases
<1>4. /\ updates' \in SUBSET Update /\ Apart(updates') /\ started' \in 0..MaxUpdates
      /\ \A r \in updates' : /\ r.case <= created /\ r.number <= started'
                             /\ r.at \subseteq r.left /\ (r.step # "enqueue" => r.at = {})
                             /\ (r.step = "list" => r.case # 0)
      /\ \A x \in updates' : \/ x.case = c /\ x.date = date /\ x.step = "list"
                             \/ \E r \in updates : Copy(x, r) /\ (r.case = c => x.disturbed)
      /\ \E x \in updates' : x.case = c /\ x.step = "list"
      /\ \A r \in updates : \E x \in updates' : Copy(x, r)
  BY <1>2, <1>3, Starting
<1>5. /\ dueDate' \in [DueCases -> Dates] /\ dueDate'[c] = date
      /\ \A e \in DueCases : e # c => dueDate'[e] = dueDate[e]
  BY <1>1, <1>2
<1>6. DueTypeOK'
  BY <1>2, <1>4, <1>5 DEF DueInvariant, DueTypeOK
<1>7. RowsAreThere'
  BY <1>2, <1>4 DEF DueInvariant, RowsAreThere
<1>8. \A n \in DueDomains : CasesOf(n)' = CasesOf(n)
  BY <1>2 DEF CasesOf
<1>9. ASSUME NEW x \in updates' PROVE Undisputed(x)'
  <2>1. CASE x.case = c /\ x.date = date /\ x.step = "list"
    BY <1>5, <2>1 DEF Undisputed
  <2>2. ASSUME NEW r \in updates, Copy(x, r), r.case = c => x.disturbed
        PROVE  Undisputed(x)'
    <3>1. Undisputed(r) /\ r.left \subseteq DueDomains /\ r.case \in 0..MaxDueCases
      BY <1>1 DEF DueInvariant, Update
    <3>2. r.case # 0 /\ r.case # c => dueDate'[r.case] = dueDate[r.case]
      BY <1>1, <1>5, <3>1 DEF DueCases
    <3>. QED  BY <1>2, <1>8, <2>2, <3>1, <3>2 DEF Undisputed, Copy
  <2>. QED  BY <1>4, <2>1, <2>2
<1>10. ASSUME NEW n \in DueDomains PROVE OneCase(n)' /\ Settles(n)'
  <2>1. OneCase(n) /\ Settles(n)
    BY DEF DueInvariant
  <2>2. Pending(n) => Pending(n)'
    BY <1>2, <1>4, StaysPending
  <2>3. CASE n \in covers[c]
    <3>1. Pending(n)'
      BY <1>2, <1>4, <2>3 DEF Pending, Touches
    <3>. QED  BY <1>2, <1>8, <2>1, <3>1 DEF OneCase, Settles
  <2>4. CASE n \notin covers[c]
    <3>1. Wanted(n)' = Wanted(n)
      <4>1. \A e \in CasesOf(n) : dueDate'[e] = dueDate[e]
        BY <1>5, <2>4 DEF CasesOf
      <4>. QED  BY <1>8, <4>1 DEF Wanted
    <3>2. Right(n) => Right(n)'
      BY <1>2, <3>1 DEF Right
    <3>. QED  BY <1>2, <1>8, <2>1, <2>2, <3>2 DEF OneCase, Settles
  <2>. QED  BY <2>3, <2>4
<1>11. QED
  BY <1>4, <1>6, <1>7, <1>9, <1>10 DEF DueInvariant

LEMMA TakeOffKeeps ==
  ASSUME DueInvariant, NEW n \in DueDomains, RemoveURLFromWatchlist(n)
  PROVE  DueInvariant'
<1>1. /\ MaxDueCases \in Nat /\ MaxTime \in Nat /\ created \in 0..MaxDueCases
      /\ updates \in SUBSET Update
  BY DueTypes
<1>2. /\ Start(0, 0, "delete", {n}) /\ unsure' = Doubt({n}, "dropped")
      /\ UNCHANGED <<now, created, dueDate, covers, task>>
  BY DEF RemoveURLFromWatchlist
<1>3. 0 \in 0..created /\ 0 \in Dates /\ {n} \in SUBSET DueDomains
  BY <1>1 DEF Dates
<1>4. /\ updates' \in SUBSET Update /\ Apart(updates') /\ started' \in 0..MaxUpdates
      /\ \A r \in updates' : /\ r.case <= created /\ r.number <= started'
                             /\ r.at \subseteq r.left /\ (r.step # "enqueue" => r.at = {})
                             /\ (r.step = "list" => r.case # 0)
      /\ \A x \in updates' : \/ x.case = 0 /\ x.step = "delete" /\ x.left = {n}
                             \/ \E r \in updates : Copy(x, r)
      /\ \A r \in updates : \E x \in updates' : Copy(x, r)
  BY <1>2, <1>3, Starting
<1>5. /\ unsure' \in [DueDomains -> SUBSET {"changed", "dropped"}] /\ unsure'[n] # {}
      /\ \A m \in DueDomains : m # n => unsure'[m] = unsure[m]
  BY <1>2, Doubting
<1>6. DueTypeOK'
  BY <1>2, <1>4, <1>5 DEF DueInvariant, DueTypeOK
<1>7. RowsAreThere'
  BY <1>2, <1>4 DEF DueInvariant, RowsAreThere
<1>8. \A m \in DueDomains : CasesOf(m)' = CasesOf(m) /\ Wanted(m)' = Wanted(m)
  BY <1>2 DEF CasesOf, Wanted
<1>9. ASSUME NEW x \in updates' PROVE Undisputed(x)'
  <2>1. CASE x.case = 0 /\ x.step = "delete" /\ x.left = {n}
    BY <1>5, <2>1 DEF Undisputed
  <2>2. ASSUME NEW r \in updates, Copy(x, r)
        PROVE  Undisputed(x)'
    <3>1. Undisputed(r) /\ r.left \subseteq DueDomains
      BY <1>1 DEF DueInvariant, Update
    <3>2. \A m \in DueDomains : unsure[m] # {} => unsure'[m] # {}
      BY <1>5
    <3>. QED  BY <1>2, <1>8, <2>2, <3>1, <3>2 DEF Undisputed, Copy
  <2>. QED  BY <1>4, <2>1, <2>2
<1>10. ASSUME NEW m \in DueDomains PROVE OneCase(m)' /\ Settles(m)'
  <2>1. OneCase(m) /\ Settles(m)
    BY DEF DueInvariant
  <2>2. Pending(m) => Pending(m)'
    BY <1>2, <1>4, StaysPending
  <2>3. Right(m) => Right(m)'
    BY <1>2, <1>8 DEF Right
  <2>. QED  BY <1>5, <1>8, <2>1, <2>2, <2>3 DEF OneCase, Settles
<1>11. QED
  BY <1>4, <1>6, <1>7, <1>9, <1>10 DEF DueInvariant

(* What holds of the requests and domains before any of these steps.       *)
LEMMA BeforeStep ==
  ASSUME DueInvariant, NEW r \in updates
  PROVE  /\ created \in 0..MaxDueCases /\ MaxDueCases \in Nat
         /\ r \in Update /\ r.case <= created /\ r.number <= started /\ r.at \subseteq r.left
         /\ (r.step # "enqueue" => r.at = {}) /\ (r.step = "list" => r.case \in DueCases)
         /\ r.left \subseteq DueDomains /\ r.case \in 0..MaxDueCases /\ Undisputed(r)
         /\ updates \ {r} \in SUBSET Update /\ Apart(updates \ {r})
         /\ \A q \in updates \ {r} :
              /\ q.number # r.number
              /\ r.case = q.case => r.disturbed /\ q.disturbed
              /\ r.step # "list" /\ q.step # "list" /\ r.left \cap q.left # {}
                   => r.disturbed /\ q.disturbed
<1>1. /\ MaxDueCases \in Nat /\ updates \in SUBSET Update
      /\ RowsAreThere /\ Apart(updates) /\ Undisputed(r) /\ created \in 0..MaxDueCases
  BY DueTypes DEF DueInvariant
<1>2. /\ r \in Update /\ r.left \subseteq DueDomains /\ r.case \in 0..MaxDueCases
  BY <1>1 DEF Update
<1>3. r.step = "list" => r.case \in DueCases
  BY <1>1, <1>2 DEF RowsAreThere, DueCases
<1>4. QED
  BY <1>1, <1>2, <1>3 DEF RowsAreThere, Apart

LEMMA ListKeeps ==
  ASSUME DueInvariant, NEW r \in updates, ListCaseURLIDs(r)
  PROVE  DueInvariant'
<1> DEFINE domains == covers[r.case]
           others == Disturbed(r.case, domains, updates \ {r})
           rest == Disturb(others, updates \ {r})
           new == [r EXCEPT !.step = "delete", !.left = domains,
                            !.disturbed = @ \/ others # {}]
<1>1. /\ r.step = "list" /\ UNCHANGED <<now, created, dueDate, covers, task, started>>
      /\ \/ updates' = rest \cup {new} /\ unsure' = unsure
         \/ updates' = rest /\ unsure' = Doubt(domains, "dropped")
  BY DEF ListCaseURLIDs
<1>2. /\ created \in 0..MaxDueCases /\ MaxDueCases \in Nat
      /\ r \in Update /\ r.case <= created /\ r.number <= started /\ r.at = {}
      /\ r.case \in DueCases /\ r.case # 0 /\ Undisputed(r)
      /\ updates \ {r} \in SUBSET Update /\ Apart(updates \ {r})
      /\ \A q \in updates \ {r} : q.number # r.number
  <2>1. r.step = "list" /\ r.step # "enqueue"
    BY <1>1
  <2>2. 0 \notin DueCases
    BY DEF DueCases
  <2> HIDE DEF domains, others, rest, new
  <2>. QED  BY <2>1, <2>2, BeforeStep
<1>3. /\ domains \in SUBSET DueDomains /\ started \in 0..MaxUpdates
      /\ unsure \in [DueDomains -> SUBSET {"changed", "dropped"}]
  BY <1>2, DueTypes
<1>4. /\ new \in Update /\ new.number = r.number /\ new.case = r.case /\ new.date = r.date
      /\ new.step = "delete" /\ new.left = domains /\ new.at = r.at
      /\ (others # {} => new.disturbed) /\ (r.disturbed => new.disturbed)
  BY <1>2, <1>3 DEF Update
<1> HIDE DEF new
<1>5. /\ rest \in SUBSET Update /\ Apart(rest)
      /\ \A x \in rest : \E q \in updates \ {r} : Copy(x, q)
      /\ \A q \in updates \ {r} : \E x \in rest : Copy(x, q)
  <2>1. others \in SUBSET (updates \ {r})
    BY DEF Disturbed
  <2> HIDE DEF others
  <2>. QED  BY <1>2, <2>1, Marked
<1>6. ASSUME NEW both, both = rest \cup {new}
      PROVE  /\ both \in SUBSET Update /\ Apart(both) /\ new \in both
             /\ \A x \in both : x = new \/ \E q \in updates \ {r} : Copy(x, q)
             /\ \A q \in updates \ {r} : \E x \in both : Copy(x, q)
  <2>1. others = Disturbed(new.case, domains, updates \ {r})
    BY <1>4
  <2>2. \A q \in updates \ {r} : q.number # new.number
    BY <1>2, <1>4
  <2>3. new.left \subseteq domains
    BY <1>4
  <2>4. both = Disturb(others, updates \ {r}) \cup {new}
    BY <1>6
  <2>5. new \in Update /\ (others # {} => new.disturbed)
    BY <1>4
  <2>6. updates \ {r} \in SUBSET Update /\ Apart(updates \ {r})
    BY <1>2
  <2> DEFINE old == updates \ {r}
  <2> HIDE DEF rest, others, domains
  <2>7. /\ old \in SUBSET Update /\ Apart(old) /\ (\A q \in old : q.number # new.number)
        /\ others = Disturbed(new.case, domains, old) /\ both = Disturb(others, old) \cup {new}
    BY <2>1, <2>2, <2>4, <2>6
  <2> HIDE DEF old
  <2>8. /\ both \in SUBSET Update /\ Apart(both) /\ new \in both
        /\ \A x \in both : x = new \/ \E q \in old : Copy(x, q)
        /\ \A q \in old : \E x \in both : Copy(x, q)
    BY <2>3, <2>5, <2>7, Joins
  <2>. QED  BY <2>8 DEF old
<1> HIDE DEF rest, others
<1>7. \A n \in DueDomains : CasesOf(n)' = CasesOf(n) /\ Wanted(n)' = Wanted(n)
  BY <1>1 DEF CasesOf, Wanted
<1>8. /\ updates' \in SUBSET Update /\ Apart(updates')
      /\ \A x \in updates' : x = new \/ \E q \in updates \ {r} : Copy(x, q)
      /\ \A q \in updates \ {r} : \E x \in updates' : Copy(x, q)
  BY <1>1, <1>5, <1>6
<1>9. /\ unsure' \in [DueDomains -> SUBSET {"changed", "dropped"}]
      /\ \A n \in DueDomains : unsure[n] # {} => unsure'[n] # {}
      /\ \/ new \in updates' /\ unsure' = unsure
         \/ \A n \in domains : unsure'[n] # {}
  <2>1. CASE updates' = rest \cup {new} /\ unsure' = unsure
    BY <1>3, <2>1
  <2>2. CASE updates' = rest /\ unsure' = Doubt(domains, "dropped")
    <3>1. /\ unsure' \in [DueDomains -> SUBSET {"changed", "dropped"}]
          /\ \A n \in DueDomains : /\ n \in domains => unsure'[n] # {}
                                   /\ n \notin domains => unsure'[n] = unsure[n]
      BY <2>2, Doubting
    <3>. QED  BY <1>3, <3>1
  <2>. QED  BY <1>1, <2>1, <2>2
<1>10. DueTypeOK'
  BY <1>1, <1>8, <1>9 DEF DueInvariant, DueTypeOK
<1>11. RowsAreThere'
  <2>1. \A x \in updates' : /\ x.case <= created /\ x.number <= started /\ x.at \subseteq x.left
                            /\ (x.step # "enqueue" => x.at = {}) /\ (x.step = "list" => x.case # 0)
    <3>1. SUFFICES ASSUME NEW x \in updates'
                   PROVE  /\ x.case <= created /\ x.number <= started /\ x.at \subseteq x.left
                          /\ (x.step # "enqueue" => x.at = {}) /\ (x.step = "list" => x.case # 0)
      OBVIOUS
    <3>2. CASE x = new
      BY <1>2, <1>4, <3>2
    <3>3. ASSUME NEW q \in updates, Copy(x, q)
          PROVE  /\ x.case <= created /\ x.number <= started /\ x.at \subseteq x.left
                 /\ (x.step # "enqueue" => x.at = {}) /\ (x.step = "list" => x.case # 0)
      BY <3>3 DEF Copy, DueInvariant, RowsAreThere
    <3>. QED  BY <1>8, <3>2, <3>3
  <2>. QED  BY <1>1, <2>1 DEF DueInvariant, RowsAreThere
<1>12. ASSUME NEW x \in updates' PROVE Undisputed(x)'
  <2>1. CASE x = new
    <3>1. \A n \in domains : CasesOf(n) = {r.case} \/ unsure'[n] # {}
      <4>1. SUFFICES ASSUME NEW n \in domains, unsure[n] = {}
                     PROVE  CasesOf(n) = {r.case}
        BY <1>3, <1>9
      <4>2. r.case \in CasesOf(n) /\ OneCase(n)
        BY <1>2, <1>3, <4>1 DEF CasesOf, DueInvariant
      <4>. QED  BY <4>1, <4>2 DEF OneCase
    <3>. QED  BY <1>1, <1>2, <1>3, <1>4, <1>7, <2>1, <3>1 DEF Undisputed
  <2>2. ASSUME NEW q \in updates, Copy(x, q)
        PROVE  Undisputed(x)'
    <3>1. Undisputed(q) /\ q.left \subseteq DueDomains
      BY BeforeStep
    <3>. QED  BY <1>1, <1>7, <1>9, <2>2, <3>1 DEF Undisputed, Copy
  <2>. QED  BY <1>8, <2>1, <2>2
<1>13. ASSUME NEW n \in DueDomains PROVE OneCase(n)' /\ Settles(n)'
  <2>1. OneCase(n) /\ Settles(n)
    BY DEF DueInvariant
  <2>2. ASSUME Pending(n), unsure'[n] = {} PROVE Pending(n)'
    <3>1. PICK q \in updates : n \in Touches(q)
      BY <2>2 DEF Pending
    <3>2. CASE q = r
      BY <1>1, <1>4, <1>9, <2>2, <3>1, <3>2 DEF Touches, Pending
    <3>3. CASE q # r
      <4>1. PICK x \in updates' : Copy(x, q)
        BY <1>8, <3>3
      <4>. QED  BY <1>1, <3>1, <4>1 DEF Copy, Touches, Pending
    <3>. QED  BY <3>2, <3>3
  <2>3. Right(n) => Right(n)'
    BY <1>1, <1>7 DEF Right
  <2>. QED  BY <1>7, <1>9, <2>1, <2>2, <2>3 DEF OneCase, Settles
<1>14. QED
  BY <1>8, <1>10, <1>11, <1>12, <1>13 DEF DueInvariant

(* What is left of r after a step on its domain n: nothing, or r further   *)
(* on.                                                                     *)
GoesOnAs(r, n, more) ==
  /\ more \in SUBSET Update /\ updates' = (updates \ {r}) \cup more
  /\ \A x, y \in more : x = y
  /\ \A x \in more :
       /\ x.number = r.number /\ x.case = r.case /\ x.date = r.date /\ x.step # "list"
       /\ r.disturbed => x.disturbed
       /\ x.left \subseteq r.left /\ x.at \subseteq x.left
       /\ x.step # "enqueue" => x.at = {}
       /\ x.step = "enqueue" => x.at = {n} /\ (task'[n].state = "none" \/ x.disturbed)
  /\ \A m \in r.left \ {n} : \E x \in more : m \in x.left
StillHas(more, n) == \E x \in more : n \in x.left

(* A request goes on with one of its domains, n, whose task may change: n  *)
(* is still its own, or done with.                                         *)
LEMMA GoingOn ==
  ASSUME DueInvariant, NEW r \in updates, r.step # "list", NEW n \in r.left,
         UNCHANGED <<now, created, dueDate, covers, started>>,
         task' \in [DueDomains -> [state : {"none", "waiting", "active"}, at : Dates]],
         \A m \in DueDomains \ {n} : task'[m] = task[m],
         unsure' \in [DueDomains -> SUBSET {"changed", "dropped"}],
         \A m \in DueDomains \ {n} : unsure'[m] = unsure[m],
         NEW more, GoesOnAs(r, n, more),
         \/ unsure' = unsure /\ StillHas(more, n)
         \/ unsure'[n] = {} => CasesOf(n) = {r.case} /\ Right(n)'
  PROVE  DueInvariant'
<1> USE DEF GoesOnAs, StillHas
<1>1. /\ created \in 0..MaxDueCases /\ MaxDueCases \in Nat
      /\ r \in Update /\ r.case <= created /\ r.number <= started
      /\ r.left \subseteq DueDomains /\ Undisputed(r)
      /\ updates \ {r} \in SUBSET Update /\ Apart(updates \ {r})
      /\ \A q \in updates \ {r} :
           /\ q.number # r.number
           /\ r.case = q.case => r.disturbed /\ q.disturbed
           /\ r.step # "list" /\ q.step # "list" /\ r.left \cap q.left # {}
                => r.disturbed /\ q.disturbed
  BY BeforeStep
<1>2. DueTypeOK'
  BY <1>1 DEF DueInvariant, DueTypeOK
<1>3. RowsAreThere'
  <2>1. \A x \in updates' : /\ x.case <= created /\ x.number <= started /\ x.at \subseteq x.left
                            /\ (x.step # "enqueue" => x.at = {}) /\ (x.step = "list" => x.case # 0)
    BY <1>1 DEF DueInvariant, RowsAreThere
  <2>. QED  BY <2>1 DEF DueInvariant, RowsAreThere
<1>4. Apart(updates)'
  <2>1. ASSUME NEW x \in more, NEW q \in updates \ {r}
        PROVE  /\ x.number # q.number
               /\ x.case = q.case => x.disturbed /\ q.disturbed
               /\ q.step # "list" /\ x.left \cap q.left # {} => x.disturbed /\ q.disturbed
    BY <1>1
  <2>. QED  BY <1>1, <2>1 DEF Apart
<1>5. \A m \in DueDomains : CasesOf(m)' = CasesOf(m) /\ Wanted(m)' = Wanted(m)
  BY DEF CasesOf, Wanted
<1>6. ASSUME NEW q \in updates \ {r} PROVE Undisputed(q)'
  <2>1. SUFFICES ASSUME ~q.disturbed PROVE Undisputed(q)'
    BY DEF Undisputed
  <2>2. Undisputed(q) /\ q.left \subseteq DueDomains /\ q.at \subseteq q.left
    BY BeforeStep
  <2>3. q.step # "list" => n \notin q.left
    BY <1>1, <2>1
  <2>. QED  BY <1>5, <2>2, <2>3 DEF Undisputed
<1>7. ASSUME NEW x \in more PROVE Undisputed(x)'
  <2>1. SUFFICES ASSUME ~x.disturbed, ~r.disturbed PROVE Undisputed(x)'
    BY DEF Undisputed
  <2>2. \A m \in x.left : CasesOf(m) = {r.case} \/ unsure'[m] # {}
    <3>1. SUFFICES ASSUME NEW m \in x.left PROVE CasesOf(m) = {r.case} \/ unsure'[m] # {}
      OBVIOUS
    <3>2. CasesOf(m) = {r.case} \/ unsure[m] # {}
      BY <1>1, <2>1 DEF Undisputed
    <3>. QED  BY <1>1, <3>2
  <2>3. x.step = "enqueue" => \A m \in x.at : task'[m].state = "none"
    BY <2>1
  <2>. QED  BY <1>1, <1>5, <2>1, <2>2, <2>3 DEF Undisputed
<1>8. ASSUME NEW m \in DueDomains PROVE OneCase(m)' /\ Settles(m)'
  <2>1. OneCase(m) /\ Settles(m)
    BY DEF DueInvariant
  <2>2. CASE m # n
    <3>1. Pending(m) => Pending(m)'
      <4>1. SUFFICES ASSUME NEW q \in updates, m \in Touches(q)
                     PROVE  Pending(m)'
        BY DEF Pending
      <4>2. CASE q # r
        BY <4>1, <4>2 DEF Pending, Touches
      <4>3. CASE q = r
        BY <2>2, <4>1, <4>3 DEF Pending, Touches
      <4>. QED  BY <4>2, <4>3
    <3>2. Right(m) => Right(m)'
      BY <1>5, <2>2 DEF Right
    <3>. QED  BY <1>5, <2>1, <2>2, <3>1, <3>2 DEF OneCase, Settles
  <2>3. CASE m = n /\ unsure' = unsure /\ \E x \in more : n \in x.left
    <3>1. Pending(n)'
      BY <2>3 DEF Pending, Touches
    <3>. QED  BY <1>5, <2>1, <2>3, <3>1 DEF OneCase, Settles
  <2>4. CASE m = n /\ (unsure'[n] = {} => CasesOf(n) = {r.case} /\ Right(n)')
    BY <1>5, <2>4 DEF OneCase, Settles
  <2>. QED  BY <2>2, <2>3, <2>4
<1>9. QED
  BY <1>1, <1>2, <1>3, <1>4, <1>6, <1>7, <1>8 DEF DueInvariant

(* r is done with n: if nothing interfered n has its date.                 *)
LEMMA DoneKeeps ==
  ASSUME DueInvariant, NEW r \in updates, r.step # "list", NEW n \in r.left,
         UNCHANGED <<now, created, dueDate, covers, started>>,
         task' \in [DueDomains -> [state : {"none", "waiting", "active"}, at : Dates]],
         \A m \in DueDomains \ {n} : task'[m] = task[m],
         NEW doubts \in SUBSET {"changed", "dropped"}, Done(r, n, doubts),
         doubts = {} /\ ~r.disturbed => /\ task'[n].state # "none" => task'[n].at = r.date
                                        /\ r.date > now => task'[n].state = "waiting"
  PROVE  DueInvariant'
<1>1. /\ r \in Update /\ r.left \subseteq DueDomains /\ Undisputed(r) /\ n \in DueDomains
      /\ unsure \in [DueDomains -> SUBSET {"changed", "dropped"}]
  BY BeforeStep, DueTypes
<1> DEFINE left == r.left \ {n}
           x == [r EXCEPT !.step = "delete", !.left = left, !.at = {}]
           more == IF left = {} THEN {} ELSE {x}
<1>2. /\ x \in Update /\ x.number = r.number /\ x.case = r.case /\ x.date = r.date
      /\ x.step = "delete" /\ x.left = left /\ x.at = {} /\ x.disturbed = r.disturbed
  BY <1>1 DEF Update
<1>3. updates' = (updates \ {r}) \cup more
  BY DEF Done
<1> HIDE DEF x
<1>4. /\ more \in SUBSET Update /\ (\A y, z \in more : y = z)
      /\ \A m \in left : \E y \in more : m \in y.left
      /\ \A y \in more : /\ y.number = r.number /\ y.case = r.case /\ y.date = r.date
                         /\ y.step # "list" /\ y.step # "enqueue"
                         /\ r.disturbed => y.disturbed
                         /\ y.left \subseteq r.left /\ y.at = {}
  BY <1>2
<1>5. /\ unsure' \in [DueDomains -> SUBSET {"changed", "dropped"}]
      /\ \A m \in DueDomains \ {n} : unsure'[m] = unsure[m]
      /\ unsure'[n] = {} => doubts = {} /\ ~r.disturbed /\ CasesOf(n) = {r.case}
  <2>1. CASE doubts = {} /\ ~r.disturbed /\ CasesOf(n) = {r.case}
    <3>1. unsure' = [unsure EXCEPT ![n] = {}]
      BY <2>1 DEF Done
    <3>. QED  BY <1>1, <2>1, <3>1
  <2>2. CASE ~(doubts = {} /\ ~r.disturbed /\ CasesOf(n) = {r.case})
    <3> DEFINE new == unsure[n] \cup doubts \cup (IF r.disturbed THEN {"changed"} ELSE {})
    <3>1. unsure' = [unsure EXCEPT ![n] = new]
      BY <2>2 DEF Done
    <3>2. new \in SUBSET {"changed", "dropped"}
      BY <1>1
    <3>3. new # {}
      <4>1. SUFFICES ASSUME doubts = {}, ~r.disturbed PROVE unsure[n] # {}
        OBVIOUS
      <4>. QED  BY <1>1, <2>2, <4>1 DEF Undisputed
    <3> HIDE DEF new
    <3>. QED  BY <1>1, <3>1, <3>2, <3>3
  <2>. QED  BY <2>1, <2>2
<1>6. unsure'[n] = {} => CasesOf(n) = {r.case} /\ Right(n)'
  <2>1. SUFFICES ASSUME unsure'[n] = {} PROVE CasesOf(n) = {r.case} /\ Right(n)'
    OBVIOUS
  <2>2. doubts = {} /\ ~r.disturbed /\ CasesOf(n) = {r.case}
    BY <1>5, <2>1
  <2>3. r.case \in DueCases /\ 0 \notin DueCases
    BY <2>2 DEF CasesOf, DueCases
  <2>4. dueDate[r.case] = r.date
    BY <1>1, <2>2, <2>3 DEF Undisputed
  <2>5. Wanted(n)' = {r.date}
    BY <2>2, <2>4 DEF Wanted, CasesOf
  <2>. QED  BY <2>2, <2>5 DEF Right
<1> HIDE DEF left, more
<1>7. \A m \in r.left \ {n} : \E y \in more : m \in y.left
  BY <1>4 DEF left
<1>8. GoesOnAs(r, n, more)
  BY <1>3, <1>4, <1>7 DEF GoesOnAs
<1>9. QED
  BY <1>5, <1>6, <1>8, GoingOn

LEMMA DeleteKeeps ==
  ASSUME DueInvariant, NEW r \in updates, NEW n \in DueDomains, DeleteOld(r, n)
  PROVE  DueInvariant'
<1> DEFINE active == task[n].state = "active"
<1>1. /\ r.step = "delete" /\ n \in r.left /\ DeleteTask(n)
      /\ UNCHANGED <<now, created, dueDate, covers, started>>
  BY DEF DeleteOld
<1>2. /\ r \in Update /\ r.left \subseteq DueDomains
      /\ task \in [DueDomains -> [state : {"none", "waiting", "active"}, at : Dates]]
      /\ NoTask \in [state : {"none", "waiting", "active"}, at : Dates] /\ NoTask.state = "none"
      /\ unsure \in [DueDomains -> SUBSET {"changed", "dropped"}]
  BY BeforeStep, DueTypes
<1>3. /\ task' \in [DueDomains -> [state : {"none", "waiting", "active"}, at : Dates]]
      /\ \A m \in DueDomains \ {n} : task'[m] = task[m]
      /\ active \/ task'[n].state = "none"
  BY <1>1, <1>2 DEF DeleteTask
<1>4. CASE r.date > now
  <2> DEFINE x == [r EXCEPT !.step = "enqueue", !.at = {n}, !.disturbed = @ \/ active]
  <2>1. updates' = (updates \ {r}) \cup {x} /\ unsure' = unsure
    BY <1>4 DEF DeleteOld
  <2>2. /\ x \in Update /\ x.number = r.number /\ x.case = r.case /\ x.date = r.date
        /\ x.step = "enqueue" /\ x.left = r.left /\ x.at = {n}
        /\ (r.disturbed => x.disturbed) /\ (active => x.disturbed)
    BY <1>2 DEF Update
  <2> HIDE DEF x, active
  <2>3. GoesOnAs(r, n, {x}) /\ StillHas({x}, n)
    BY <1>1, <1>3, <2>1, <2>2 DEF GoesOnAs, StillHas
  <2>4. r.step # "list" /\ unsure' \in [DueDomains -> SUBSET {"changed", "dropped"}]
        /\ \A m \in DueDomains \ {n} : unsure'[m] = unsure[m]
    BY <1>1, <1>2, <2>1
  <2>. QED  BY <1>1, <1>3, <2>1, <2>3, <2>4, GoingOn
<1>5. CASE ~(r.date > now)
  <2> DEFINE doubts == IF active THEN {"changed"} ELSE {}
  <2>1. Done(r, n, doubts)
    BY <1>5 DEF DeleteOld
  <2>2. doubts \in SUBSET {"changed", "dropped"} /\ (doubts = {} => task'[n].state = "none")
    BY <1>3
  <2> HIDE DEF doubts, active
  <2>. QED  BY <1>1, <1>3, <1>5, <2>1, <2>2, DoneKeeps
<1>6. QED
  BY <1>4, <1>5

LEMMA EnqueueKeeps ==
  ASSUME DueInvariant, NEW r \in updates, NEW n \in DueDomains, EnqueueNew(r, n)
  PROVE  DueInvariant'
<1>1. /\ r.step = "enqueue" /\ n \in r.at
      /\ UNCHANGED <<now, created, dueDate, covers, started>>
  BY DEF EnqueueNew
<1>2. /\ r \in Update /\ n \in r.left /\ Undisputed(r) /\ r.date \in Dates
      /\ task \in [DueDomains -> [state : {"none", "waiting", "active"}, at : Dates]]
  BY <1>1, BeforeStep, DueTypes DEF Update
<1>3. ~r.disturbed => task[n].state = "none"
  BY <1>1, <1>2 DEF Undisputed
<1>4. CASE task' = [task EXCEPT ![n] = [state |-> "waiting", at |-> r.date]] /\ Done(r, n, {})
  <2>1. /\ task' \in [DueDomains -> [state : {"none", "waiting", "active"}, at : Dates]]
        /\ \A m \in DueDomains \ {n} : task'[m] = task[m]
        /\ task'[n].state = "waiting" /\ task'[n].at = r.date
    BY <1>2, <1>4
  <2>. QED  BY <1>1, <1>2, <1>4, <2>1, DoneKeeps
<1>5. CASE task[n].state # "none" /\ task' = task /\ Done(r, n, {})
  BY <1>1, <1>2, <1>3, <1>5, DoneKeeps
<1>6. CASE task' = task /\ Done(r, n, {"dropped"})
  BY <1>1, <1>2, <1>6, DoneKeeps
<1>7. QED
  BY <1>4, <1>5, <1>6 DEF EnqueueNew
-----------------------------------------------------------------------------
LEMMA DueSteps ==
  ASSUME DueInvariant, [DueNext]_dueVars
  PROVE  DueInvariant'
<1>1. ASSUME NEW n \in DueDomains,
             \/ \E date \in Dates : CreateCaseForURL(n, date)
             \/ \E c \in DueCases : AddCaseURL(c, n) \/ RemoveCaseURL(c, n)
             \/ RemoveURLFromWatchlist(n)
             \/ TakeTask(n) \/ TaskReturns(n)
      PROVE  DueInvariant'
  BY <1>1, CreateKeeps, AddKeeps, RemoveKeeps, TakeOffKeeps, WorkerKeeps
<1>2. ASSUME NEW c \in DueCases, NEW date \in Dates, UpdateCase(c, date)
      PROVE  DueInvariant'
  BY <1>2, UpdateKeeps
<1>3. ASSUME NEW r \in updates,
             \/ ListCaseURLIDs(r)
             \/ \E n \in DueDomains : DeleteOld(r, n) \/ EnqueueNew(r, n)
      PROVE  DueInvariant'
  BY <1>3, ListKeeps, DeleteKeeps, EnqueueKeeps
<1>4. CASE Tick
  BY <1>4, TickKeeps
<1>5. CASE UNCHANGED dueVars
  <2>1. UNCHANGED <<now, created, dueDate, covers, task, updates, started, unsure>>
    BY <1>5 DEF dueVars
  <2>2. now' \in Dates /\ now <= now'
        /\ task' \in [DueDomains -> [state : {"none", "waiting", "active"}, at : Dates]]
    BY <2>1, DueTypes DEF DueInvariant, DueTypeOK
  <2>. QED  BY <2>1, <2>2, ClockKeeps
<1>6. QED
  BY <1>1, <1>2, <1>3, <1>4, <1>5 DEF DueNext

LEMMA DueAlways == DueSpec => []DueInvariant
<1>1. DueInit => DueInvariant
  BY DueStarts
<1>2. DueInvariant /\ [DueNext]_dueVars => DueInvariant'
  BY DueSteps
<1>3. QED
  BY <1>1, <1>2, PTL DEF DueSpec

(* With no request of cases.go or the watchlist under way, the task of     *)
(* every domain that nothing interfered with is for the due date of its    *)
(* one case, and waits if that date is to come: for any number of          *)
(* domains, cases and overlapping requests, and however handlers of tasks  *)
(* come between the two calls of RescheduleDueDate.                        *)
THEOREM TasksAreRight == DueSpec => []TasksFollowDates
<1>1. DueInvariant => TasksFollowDates
  <2>1. SUFFICES ASSUME DueInvariant, updates = {}, NEW n \in DueDomains, unsure[n] = {}
                 PROVE  /\ task[n].state = "waiting" => task[n].at \in Wanted(n)
                        /\ \A date \in Wanted(n) : date > now => task[n].state = "waiting"
    BY DEF TasksFollowDates
  <2>2. Settles(n) /\ ~Pending(n)
    BY <2>1 DEF DueInvariant, Pending
  <2>. QED  BY <2>1, <2>2 DEF Settles, Right
<1>2. QED
  BY <1>1, DueAlways, PTL
=============================================================================
