------------------------------- MODULE Cases -------------------------------
(***************************************************************************)
(* Cases and the dialog that opens and edits them (AddUrlDialog).  A save  *)
(* is a series of groups of requests; a group is sent at once, the first   *)
(* failure in it ends the save, and what the others of the group do then   *)
(* is not looked at.  On the server a case is opened in one transaction;   *)
(* a domain is added with two writes, and removed by a transaction that    *)
(* counts the domains of the case before it deletes one.                   *)
(*                                                                         *)
(* One department.  Letters are requests that change nothing here; status, *)
(* agency and offences are left out.                                       *)
(***************************************************************************)
EXTENDS Naturals, FiniteSets

CONSTANTS
  Dialogs,       (* Browser tabs.                                          *)
  Domains,
  MaxCases,      (* Bound: cases opened.                                   *)
  MaxSaves       (* Bound: saves started, retries included.                *)

ASSUME CasesConstants ==
  Domains # {} /\ IsFiniteSet(Domains) /\ MaxCases \in Nat \ {0} /\ MaxSaves \in Nat

VARIABLES
  opened,        (* Cases there are: 1..opened.                            *)
  caseURLs,      (* The domains of each case.                              *)
  listed,        (* The department's list: "none", "on" or "off".          *)
  form,          (* The dialog of each tab.                                *)
  save,          (* Its save, which goes on when the dialog is dismissed.  *)
  calls,         (* Requests under way.                                    *)
  saves,
  skewed,        (* History: cases that lost a domain between a count and  *)
                 (* the delete it was made for.                            *)
  unlisted       (* History: domains somebody took off the list, or whose  *)
                 (* second write failed.                                   *)

tables == <<opened, caseURLs, listed>>
casesVars == <<tables, form, save, calls, saves, skewed, unlisted>>

CaseIds == 1..MaxCases
Kinds == {"update", "url", "open", "add", "drop", "letter"}
Call == [save : 1..MaxSaves, kind : Kinds, case : 0..MaxCases,
         domain : Domains, counted : 0..Cardinality(Domains), begun : BOOLEAN]
Form == [open : BOOLEAN, case : 0..MaxCases, known : SUBSET Domains]
Closed == [open |-> FALSE, case |-> 0, known |-> {}]
Stages == {"none", "update", "urls", "open", "adds", "rest", "saved"}
Save == [stage : Stages, number : 0..MaxSaves, case : 0..MaxCases, adds : SUBSET Domains,
         drops : SUBSET Domains, editing : BOOLEAN, waiting : SUBSET Call, meddled : SUBSET Domains]
NoSave == [stage |-> "none", number |-> 0, case |-> 0, adds |-> {}, drops |-> {},
           editing |-> FALSE, waiting |-> {}, meddled |-> {}]

CasesTypeOK ==
  /\ opened \in 0..MaxCases
  /\ caseURLs \in [CaseIds -> SUBSET Domains]
  /\ listed \in [Domains -> {"none", "on", "off"}]
  /\ form \in [Dialogs -> Form] /\ save \in [Dialogs -> Save]
  /\ calls \subseteq Call
  /\ saves \in 0..MaxSaves
  /\ skewed \subseteq CaseIds /\ unlisted \subseteq Domains

CasesInit ==
  /\ opened \in 0..1
  /\ caseURLs = [c \in CaseIds |-> IF c <= opened THEN Domains ELSE {}]
  /\ listed = [n \in Domains |-> IF opened = 0 THEN "none" ELSE "on"]
  /\ form = [d \in Dialogs |-> Closed]
  /\ save = [d \in Dialogs |-> NoSave]
  /\ calls = {}
  /\ saves = 0
  /\ skewed = {} /\ unlisted = {}
-----------------------------------------------------------------------------
(* handleSubmit. *)

Requests(s, kind, domains) ==
  {[save |-> s.number, kind |-> kind, case |-> s.case, domain |-> n,
    counted |-> 0, begun |-> FALSE] : n \in domains}

(* A request that is about no domain carries any. *)
Whole(s, kind) == Requests(s, kind, {CHOOSE n \in Domains : TRUE})

Main(s) == CHOOSE n \in s.adds : TRUE

(* The group of each stage, and the stage after it.                        *)
GroupOf(s) ==
  CASE s.stage = "update" -> Whole(s, "update")
    [] s.stage = "urls"   -> Requests(s, "url", s.adds)
    [] s.stage = "open"   -> Requests(s, "open", {Main(s)})
    [] s.stage = "adds"   -> Requests(s, "add",
                               IF s.editing THEN s.adds ELSE s.adds \ {Main(s)})
    [] s.stage = "rest"   -> Whole(s, "letter") \cup Requests(s, "drop", s.drops)
    [] OTHER -> {}

After(s) ==
  CASE s.stage = "update" -> "urls"
    [] s.stage = "urls"   -> IF s.editing THEN "adds" ELSE "open"
    [] s.stage = "open"   -> "adds"
    [] s.stage = "adds"   -> "rest"
    [] OTHER -> "saved"

(* The stages from s on, an empty group is over at once.                   *)
SendGroup(s) == [s EXCEPT !.waiting = GroupOf(s)]
Advance(s) ==
  LET next == SendGroup([s EXCEPT !.stage = After(s)])
      second == SendGroup([next EXCEPT !.stage = After(next)])
      third == SendGroup([second EXCEPT !.stage = After(second)])
  IN IF next.waiting # {} \/ next.stage = "saved" THEN next
     ELSE IF second.waiting # {} THEN second ELSE third

Begin(d, s) ==
  /\ form[d].open /\ save[d].stage = "none"
  /\ saves < MaxSaves
  /\ saves' = saves + 1
  /\ save' = [save EXCEPT ![d] = SendGroup(s)]
  /\ calls' = calls \cup SendGroup(s).waiting
  /\ UNCHANGED <<tables, form, skewed, unlisted>>

SubmitCreate(d) ==
  /\ form[d].case = 0
  /\ \E adds \in (SUBSET Domains) \ {{}} :
       Begin(d, [NoSave EXCEPT !.stage = "urls", !.number = saves + 1, !.adds = adds])

(* A domain that the form knows is not added again, and one is always kept.*)
SubmitEdit(d) ==
  /\ form[d].case # 0
  /\ \E adds \in SUBSET (Domains \ form[d].known), drops \in SUBSET form[d].known :
       /\ (form[d].known \ drops) \cup adds # {}
       /\ Begin(d, [NoSave EXCEPT !.stage = "update", !.number = saves + 1,
                                  !.case = form[d].case, !.editing = TRUE,
                                  !.adds = adds, !.drops = drops])

SettledByOne(s, r, ok) == IF ok THEN Advance([s EXCEPT !.waiting = @ \ {r}]) ELSE NoSave

(* An answer.  The first failure ends the save; the form stays as it was.  *)
Settled(s, r, ok) ==
  LET left == [s EXCEPT !.waiting = @ \ {r}]
  IN IF ~ok THEN NoSave
     ELSE IF left.waiting # {} THEN left
     ELSE Advance(left)

WithCase(s, r, c) == IF r.kind = "open" THEN [s EXCEPT !.case = c] ELSE s

(* The saves after r changed a domain of c: a change of another save is    *)
(* noted.                                                                  *)
Meddled(saved, r, c, domains) ==
  [d \in Dialogs |->
     IF saved[d].number # r.save /\ saved[d].case = c
     THEN [saved[d] EXCEPT !.meddled = @ \cup domains] ELSE saved[d]]

Answered(r, ok, c, domains) ==
  LET settled == [d \in Dialogs |->
        IF r \in save[d].waiting THEN Settled(WithCase(save[d], r, c), r, ok) ELSE save[d]]
  IN /\ save' = Meddled(settled, r, c, domains)
     /\ calls' = (calls \ {r}) \cup UNION {settled[d].waiting \ save[d].waiting : d \in Dialogs}
-----------------------------------------------------------------------------
(* The dialog.  Bound: it is not opened when no save is left. *)

OpenCreate(d) ==
  /\ ~form[d].open /\ saves < MaxSaves
  /\ form' = [form EXCEPT ![d] = [open |-> TRUE, case |-> 0, known |-> {}]]
  /\ UNCHANGED <<tables, save, calls, saves, skewed, unlisted>>

(* With the domains as the list last had them.                             *)
OpenEdit(d, c) ==
  /\ ~form[d].open /\ saves < MaxSaves
  /\ c <= opened /\ caseURLs[c] # {}
  /\ form' = [form EXCEPT ![d] = [open |-> TRUE, case |-> c, known |-> caseURLs[c]]]
  /\ UNCHANGED <<tables, save, calls, saves, skewed, unlisted>>

(* Escape works while a save is under way.                                 *)
Dismiss(d) ==
  /\ form[d].open
  /\ form' = [form EXCEPT ![d] = Closed]
  /\ UNCHANGED <<tables, save, calls, saves, skewed, unlisted>>

(* Whatever form is open by now is closed.                                 *)
SavedAndClosed(d) ==
  /\ save[d].stage = "saved"
  /\ save' = [save EXCEPT ![d] = NoSave]
  /\ form' = [form EXCEPT ![d] = Closed]
  /\ UNCHANGED <<tables, calls, saves, skewed, unlisted>>
-----------------------------------------------------------------------------
(* The server.  An answer may be lost: then the save takes it for a        *)
(* failure.                                                                *)

Listed(n) == IF listed[n] = "none" THEN "off" ELSE listed[n]

(* Nothing is done: an error, or the request never arrived.                *)
Refuse(r) ==
  /\ r \in calls
  /\ Answered(r, FALSE, r.case, {})
  /\ unlisted' = IF r.kind = "add" /\ r.begun /\ listed[r.domain] = "none"
                 THEN unlisted \cup {r.domain} ELSE unlisted
  /\ UNCHANGED <<tables, form, saves, skewed>>

(* UpdateCase and the letters.                                             *)
Patch(r) ==
  /\ r \in calls
  /\ r.kind \in {"update", "letter"}
  /\ Answered(r, TRUE, r.case, {})
  /\ UNCHANGED <<tables, form, saves, skewed, unlisted>>

(* AddToWatchlist: a domain that is on the list stays as it is.            *)
CreateURL(r) ==
  /\ r \in calls /\ r.kind = "url"
  /\ listed' = [listed EXCEPT ![r.domain] = IF @ = "none" THEN "on" ELSE @]
  /\ unlisted' = unlisted \ {r.domain}
  /\ \E ok \in BOOLEAN : Answered(r, ok, r.case, {})
  /\ UNCHANGED <<opened, caseURLs, form, saves, skewed>>

CreateCase(r) ==
  /\ r \in calls /\ r.kind = "open"
  /\ opened < MaxCases
  /\ opened' = opened + 1
  /\ caseURLs' = [caseURLs EXCEPT ![opened + 1] = {r.domain}]
  /\ listed' = [listed EXCEPT ![r.domain] = Listed(r.domain)]
  /\ unlisted' = unlisted \ {r.domain}
  /\ \E ok \in BOOLEAN : Answered(r, ok, opened + 1, {r.domain})
  /\ UNCHANGED <<form, saves, skewed>>

(* AddCaseURL: the row of the case, whose key refuses a second one, ...    *)
AddURLToCase(r) ==
  /\ r \in calls /\ r.kind = "add" /\ ~r.begun
  /\ r.domain \notin caseURLs[r.case]
  /\ caseURLs' = [caseURLs EXCEPT ![r.case] = @ \cup {r.domain}]
  /\ LET begun == [r EXCEPT !.begun = TRUE]
         started == [d \in Dialogs |->
           IF r \in save[d].waiting
           THEN [save[d] EXCEPT !.waiting = (@ \ {r}) \cup {begun}] ELSE save[d]]
     IN /\ calls' = (calls \ {r}) \cup {begun}
        /\ save' = Meddled(started, r, r.case, {r.domain})
  /\ UNCHANGED <<opened, listed, form, saves, skewed, unlisted>>

SkipEnsure(r) == r.begun /\ UNCHANGED listed

(* ... then the department's list, switched off if it was not there.       *)
EnsureListed(r) ==
  /\ r.begun
  /\ listed' = [listed EXCEPT ![r.domain] = Listed(r.domain)]

AddURLEnds(r) ==
  /\ r \in calls /\ r.kind = "add"
  /\ EnsureListed(r)
  /\ unlisted' = unlisted \ {r.domain}
  /\ \E ok \in BOOLEAN : Answered(r, ok, r.case, {})
  /\ UNCHANGED <<opened, caseURLs, form, saves, skewed>>

(* RemoveURLFromCase: the count, ...                                       *)
CountURLs(r) ==
  /\ r \in calls /\ r.kind = "drop" /\ ~r.begun
  /\ LET begun == [r EXCEPT !.begun = TRUE, !.counted = Cardinality(caseURLs[r.case])]
     IN /\ calls' = (calls \ {r}) \cup {begun}
        /\ save' = [d \in Dialogs |->
             IF r \in save[d].waiting
             THEN [save[d] EXCEPT !.waiting = (@ \ {r}) \cup {begun}] ELSE save[d]]
  /\ UNCHANGED <<tables, form, saves, skewed, unlisted>>

MayRemoveAny(r) == r.begun /\ r.domain \in caseURLs[r.case]

(* ... then the delete, which is rolled back if the count was one.         *)
MayRemove(r) ==
  /\ r.begun
  /\ r.domain \in caseURLs[r.case]
  /\ r.counted > 1

RemoveURL(r) ==
  /\ r \in calls /\ r.kind = "drop"
  /\ MayRemove(r)
  /\ caseURLs' = [caseURLs EXCEPT ![r.case] = @ \ {r.domain}]
  /\ skewed' = IF r.counted # Cardinality(caseURLs[r.case])
               THEN skewed \cup {r.case} ELSE skewed
  /\ \E ok \in BOOLEAN : Answered(r, ok, r.case, {r.domain})
  /\ UNCHANGED <<opened, listed, form, saves, unlisted>>

(* RemoveFromWatchlist does not look at the cases.  Bound: one domain is   *)
(* off the list at a time.                                                 *)
RemoveFromWatchlist(n) ==
  /\ listed[n] # "none"
  /\ unlisted = {}
  /\ listed' = [listed EXCEPT ![n] = "none"]
  /\ unlisted' = unlisted \cup {n}
  /\ UNCHANGED <<opened, caseURLs, form, save, calls, saves, skewed>>
-----------------------------------------------------------------------------
CasesNext ==
  \/ \E d \in Dialogs :
       \/ OpenCreate(d) \/ Dismiss(d) \/ SavedAndClosed(d)
       \/ SubmitCreate(d) \/ SubmitEdit(d)
       \/ \E c \in CaseIds : OpenEdit(d, c)
  \/ \E r \in calls :
       \/ Refuse(r) \/ Patch(r) \/ CreateURL(r) \/ CreateCase(r)
       \/ AddURLToCase(r) \/ AddURLEnds(r) \/ CountURLs(r) \/ RemoveURL(r)
  \/ \E n \in Domains : RemoveFromWatchlist(n)

CasesSpec == CasesInit /\ [][CasesNext]_casesVars
-----------------------------------------------------------------------------
(* A save that ends well has stored all of it, but for domains another     *)
(* save has changed since it began: no request of a group is forgotten.    *)
SavedMeansStored ==
  \A d \in Dialogs :
    LET s == save[d]
    IN s.stage = "saved"
         => /\ s.adds \ s.meddled \subseteq caseURLs[s.case]
            /\ (s.drops \ s.meddled) \cap caseURLs[s.case] = {}

Adding(c, n) ==
  \E r \in calls : r.kind = "add" /\ r.begun /\ r.case = c /\ r.domain = n

(* "A case with no domains is meaningless": only two removals that overlap *)
(* leave one.  And the domains of a case are on the department's list      *)
(* unless somebody took them off or the second write is yet to come or     *)
(* failed.                                                                 *)
CasesAreWhole ==
  \A c \in 1..opened :
    /\ caseURLs[c] = {} => c \in skewed
    /\ \A n \in caseURLs[c] \ unlisted : listed[n] # "none" \/ Adding(c, n)
=============================================================================
