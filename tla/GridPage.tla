------------------------------ MODULE GridPage ------------------------------
(***************************************************************************)
(* The domains page (URLsPage) as far as it asks for pages and remembers   *)
(* its layout: a debounced search box, filters, a page index, two lists    *)
(* that are fetched anew when any of them changes, and useGridPreference,  *)
(* which loads the saved layout once and saves later changes after a pause.*)
(*                                                                         *)
(* A layout stands for the sort order and the page size.  React runs the   *)
(* effects of a change before anything else happens, so an action is an    *)
(* event with all the effects it sets off.                                 *)
(***************************************************************************)
EXTENDS Naturals, Sequences, SequencesExt

CONSTANTS
  Lists,       (* "urls" and "cases", fetched by two effects.              *)
  Layouts,     (* Layouts a user can choose.                               *)
  Texts,       (* What a user can type into the search box.                *)
  Filters,     (* Values of a filter.                                      *)
  Plain,       (* The layout, text and filter of a page just mounted.      *)
  MaxPage,     (* Bound: the last page index a user goes to.               *)
  MaxEdits     (* Bound: what users do in a behaviour.                     *)

VARIABLES
  mounted,
  ready,       (* useGridPreference: the saved layout has been applied.    *)
  layout,      (* The layout on the screen.                                *)
  saved,       (* The layout the server has.                               *)
  saveTimer,   (* useGridPreference: the save timeout is running.          *)
  puts,        (* Saves under way.                                         *)
  search,      (* The search box.                                          *)
  typing,      (* The debounce timeout is running.                         *)
  debounced,   (* debouncedSearch.                                         *)
  status,      (* statusFilter: one that goes back to the first page.      *)
  page,        (* pagination.pageIndex.                                    *)
  fetches,     (* Per list: requests under way, and whether each is stale. *)
  shown,       (* Per list: what the rows on the screen answer.            *)
  loading,     (* Per list.                                                *)
  error,       (* The one error line of the page.                          *)
  failed,      (* History, per list: its last request failed.              *)
  asked,       (* History, per list: requests since the page was mounted.  *)
  touched,     (* History: the user has done something since then.         *)
  unsaved,     (* History: why saved may differ from what was on screen.   *)
  edits

preference == <<ready, layout, saved, saveTimer, puts>>
choice == <<search, typing, debounced, status, page>>
listing == <<fetches, shown, loading, error>>
gridHistory == <<failed, asked, touched, unsaved, edits>>
gridVars == <<mounted, preference, choice, listing, gridHistory>>

(* What the server is asked for. *)
Asks(l, t, s, p) == [layout |-> l, text |-> t, status |-> s, page |-> p]
Nowhere == Asks(Plain, Plain, Plain, MaxPage + 1)
Query == [layout : Layouts, text : Texts, status : Filters, page : 0..MaxPage]

GridTypeOK ==
  /\ mounted \in BOOLEAN /\ ready \in BOOLEAN /\ saveTimer \in BOOLEAN
  /\ layout \in Layouts /\ saved \in Layouts
  /\ puts \in Seq(Layouts)
  /\ search \in Texts /\ debounced \in Texts /\ typing \in BOOLEAN
  /\ status \in Filters /\ page \in 0..MaxPage
  /\ fetches \in [Lists -> Seq([query : Query, stale : BOOLEAN])]
  /\ shown \in [Lists -> Query \cup {Nowhere}]
  /\ loading \in [Lists -> BOOLEAN]
  /\ error \in BOOLEAN
  /\ failed \in [Lists -> BOOLEAN]
  /\ asked \in [Lists -> Nat]
  /\ touched \in BOOLEAN
  /\ unsaved \in SUBSET {"overlap", "failed", "left"}
  /\ edits \in 0..MaxEdits

GridInit ==
  /\ mounted = FALSE
  /\ ready = FALSE
  /\ layout = Plain
  /\ saved \in Layouts
  /\ saveTimer = FALSE
  /\ puts = <<>>
  /\ search = Plain /\ typing = FALSE /\ debounced = Plain
  /\ status = Plain
  /\ page = 0
  /\ fetches = [l \in Lists |-> <<>>]
  /\ shown = [l \in Lists |-> Nowhere]
  /\ loading = [l \in Lists |-> TRUE]
  /\ error = FALSE
  /\ failed = [l \in Lists |-> FALSE]
  /\ asked = [l \in Lists |-> 0]
  /\ touched = FALSE
  /\ unsaved = {}
  /\ edits = 0
-----------------------------------------------------------------------------
(* Effects. *)


(* The cleanup of the effect that sent them.                               *)
MarkStale(requests) ==
  [i \in DOMAIN requests |-> [requests[i] EXCEPT !.stale = TRUE]]

(* The fetch effects run: one request a list, older ones are stale.        *)
Fetch(requests, query) ==
  Append(MarkStale(requests), [query |-> query, stale |-> FALSE])

(* The fetch effects after a change, for the queries of the renders it     *)
(* causes.  They return at once while the layout is not known.             *)
FetchEffects(isReady, first, second) ==
  IF ~isReady
  THEN UNCHANGED <<fetches, loading, asked>>
  ELSE /\ fetches' = [l \in Lists |->
                        IF second = first
                        THEN Fetch(fetches[l], first)
                        ELSE Fetch(Fetch(fetches[l], first), second)]
       /\ loading' = [l \in Lists |-> TRUE]
       /\ asked' = [l \in Lists |-> asked[l] + (IF second = first THEN 1 ELSE 2)]

(* The effect that follows a change of the search box, of the sort order   *)
(* or of a filter, and what the fetch effects ask for before and after it. *)
BackToFirstPage(l, t, s) ==
  /\ page' = 0
  /\ FetchEffects(ready, Asks(l, t, s, page), Asks(l, t, s, 0))

UserActs ==
  /\ mounted
  /\ edits < MaxEdits
  /\ edits' = edits + 1
  /\ touched' = TRUE
-----------------------------------------------------------------------------
(* The page comes and goes. *)

EagerRequests == <<[query |-> Asks(Plain, Plain, Plain, 0), stale |-> FALSE]>>

(* The fetch effects return at once while the layout is not known.         *)
FirstRequests == <<>>

(* The grid's effects run, and wait for the layout; its GET is sent.       *)
Mount ==
  /\ ~mounted
  /\ mounted' = TRUE
  /\ ready' = FALSE
  /\ layout' = Plain
  /\ search' = Plain /\ typing' = FALSE /\ debounced' = Plain
  /\ status' = Plain
  /\ page' = 0
  /\ shown' = [l \in Lists |-> Nowhere]
  /\ error' = FALSE
  /\ fetches' = [l \in Lists |-> FirstRequests]
  /\ loading' = [l \in Lists |-> TRUE]
  /\ asked' = [l \in Lists |-> Len(FirstRequests)]
  /\ failed' = [l \in Lists |-> FALSE]
  /\ touched' = FALSE
  /\ UNCHANGED <<saved, saveTimer, puts, unsaved, edits>>

(* fetchGridPreference answers, or fails, or has nothing: then the layout  *)
(* stays.  The effects that wait for ready run.                            *)
PreferenceLoaded ==
  /\ mounted /\ ~ready
  /\ ready' = TRUE
  /\ layout' \in {saved, layout}
  /\ saveTimer' = TRUE
  /\ FetchEffects(TRUE, Asks(layout', debounced, status, page),
                        Asks(layout', debounced, status, page))
  /\ UNCHANGED <<mounted, saved, puts, choice, shown, error, failed, touched,
                 unsaved, edits>>

(* Cleanups: timeouts are cleared, answers to come are stale.              *)
Leave ==
  /\ mounted
  /\ edits < MaxEdits
  /\ edits' = edits + 1
  /\ mounted' = FALSE
  /\ saveTimer' = FALSE
  /\ typing' = FALSE
  /\ fetches' = [l \in Lists |-> MarkStale(fetches[l])]
  /\ unsaved' = IF saveTimer THEN unsaved \cup {"left"} ELSE unsaved
  /\ UNCHANGED <<ready, layout, saved, puts, search, debounced, status, page,
                 shown, loading, error, failed, asked, touched>>
-----------------------------------------------------------------------------
(* What a user does. *)

Type(t) ==
  /\ UserActs
  /\ t # search
  /\ search' = t
  /\ typing' = TRUE
  /\ page' = 0
  /\ IF page = 0
     THEN UNCHANGED <<fetches, loading, asked>>
     ELSE FetchEffects(ready, Asks(layout, debounced, status, 0),
                              Asks(layout, debounced, status, 0))
  /\ UNCHANGED <<mounted, preference, debounced, status, shown, error, failed, unsaved>>

ChooseStatus(s) ==
  /\ UserActs
  /\ s # status
  /\ status' = s
  /\ BackToFirstPage(layout, debounced, s)
  /\ UNCHANGED <<mounted, preference, search, typing, debounced, shown, error,
                 failed, unsaved>>

NoSaveEffect == UNCHANGED saveTimer

(* The effect of useGridPreference on a change of the layout.              *)
SaveEffect == saveTimer' = ready

(* The sort order is in the query, and in what useGridPreference saves.    *)
ChooseLayout(l) ==
  /\ UserActs
  /\ l # layout
  /\ layout' = l
  /\ SaveEffect
  /\ BackToFirstPage(l, debounced, status)
  /\ UNCHANGED <<mounted, ready, saved, puts, search, typing, debounced, status,
                 shown, error, failed, unsaved>>

GoToPage(p) ==
  /\ UserActs
  /\ p # page
  /\ page' = p
  /\ FetchEffects(ready, Asks(layout, debounced, status, p),
                         Asks(layout, debounced, status, p))
  /\ UNCHANGED <<mounted, preference, search, typing, debounced, status, shown,
                 error, failed, unsaved>>
-----------------------------------------------------------------------------
(* Timeouts and answers. *)

DebounceFires ==
  /\ typing
  /\ typing' = FALSE
  /\ debounced' = search
  /\ IF search = debounced
     THEN UNCHANGED <<fetches, loading, asked>>
     ELSE FetchEffects(ready, Asks(layout, search, status, page),
                              Asks(layout, search, status, page))
  /\ UNCHANGED <<mounted, preference, search, status, page, shown, error, failed,
                 touched, unsaved, edits>>

SaveTimerFires ==
  /\ saveTimer
  /\ saveTimer' = FALSE
  /\ puts' = Append(puts, layout)
  /\ unsaved' = (IF puts = <<>> THEN {} ELSE unsaved \cup {"overlap"})
  /\ UNCHANGED <<mounted, ready, layout, saved, choice, listing, failed, asked,
                 touched, edits>>

(* Saves under way reach the server in any order.                          *)
PutArrives(i) ==
  /\ i \in DOMAIN puts
  /\ saved' = puts[i]
  /\ puts' = RemoveAt(puts, i)
  /\ UNCHANGED <<mounted, ready, layout, saveTimer, choice, listing, gridHistory>>

(* The error of saveGridPreference is dropped.                             *)
PutFails(i) ==
  /\ i \in DOMAIN puts
  /\ puts' = RemoveAt(puts, i)
  /\ unsaved' = unsaved \cup {"failed"}
  /\ UNCHANGED <<mounted, ready, layout, saved, saveTimer, choice, listing, failed,
                 asked, touched, edits>>

AppliesAny(l, i) == TRUE

(* An answer, for a request that no newer one has made stale.              *)
Applies(l, i) == ~fetches[l][i].stale

FetchAnswers(l, i) ==
  /\ i \in DOMAIN fetches[l]
  /\ fetches' = [fetches EXCEPT ![l] = RemoveAt(@, i)]
  /\ IF Applies(l, i)
     THEN /\ shown' = [shown EXCEPT ![l] = fetches[l][i].query]
          /\ loading' = [loading EXCEPT ![l] = FALSE]
          /\ failed' = [failed EXCEPT ![l] = FALSE]
          /\ error' = FALSE
     ELSE UNCHANGED <<shown, loading, failed, error>>
  /\ UNCHANGED <<mounted, preference, choice, asked, touched, unsaved, edits>>

FetchFails(l, i) ==
  /\ i \in DOMAIN fetches[l]
  /\ fetches' = [fetches EXCEPT ![l] = RemoveAt(@, i)]
  /\ IF Applies(l, i)
     THEN /\ loading' = [loading EXCEPT ![l] = FALSE]
          /\ failed' = [failed EXCEPT ![l] = TRUE]
          /\ error' = TRUE
     ELSE UNCHANGED <<loading, failed, error>>
  /\ UNCHANGED <<mounted, preference, choice, shown, asked, touched, unsaved, edits>>
-----------------------------------------------------------------------------
Answers ==
  \/ PreferenceLoaded
  \/ DebounceFires
  \/ SaveTimerFires
  \/ \E i \in DOMAIN puts : PutArrives(i) \/ PutFails(i)
  \/ \E l \in Lists : \E i \in DOMAIN fetches[l] : FetchAnswers(l, i) \/ FetchFails(l, i)

GridNext ==
  \/ Mount \/ Leave
  \/ Answers
  \/ \E t \in Texts : Type(t)
  \/ \E s \in Filters : ChooseStatus(s)
  \/ \E l \in Layouts : ChooseLayout(l)
  \/ \E p \in 0..MaxPage : GoToPage(p)

GridSpec == GridInit /\ [][GridNext]_gridVars
-----------------------------------------------------------------------------
(* A list that is not loading shows the page its controls ask for, unless  *)
(* its last request failed: an old answer never covers a newer one.        *)
RowsAnswerTheControls ==
  \A l \in Lists :
    mounted /\ ready /\ ~loading[l] /\ ~failed[l]
      => shown[l] = Asks(layout, debounced, status, page)

(* "wait for the saved page size so the first fetch is the only one".      *)
FirstFetchIsTheOnlyOne ==
  mounted /\ ~touched => \A l \in Lists : asked[l] <= 1

(* When the dust has settled, the server has the layout on the screen,     *)
(* unless two saves were under way at once, one failed, or the page was    *)
(* left before the pause was over.                                         *)
LayoutIsSaved ==
  mounted /\ ready /\ ~saveTimer /\ puts = <<>> /\ unsaved = {} => saved = layout
-----------------------------------------------------------------------------
(* Why.  A request that is not stale asks for what the controls say now,   *)
(* and the debounce timeout does not outlive the page.                     *)
FreshRequests ==
  /\ typing => mounted
  /\ \A l \in Lists : \A i \in DOMAIN fetches[l] :
       \/ fetches[l][i].stale
       \/ /\ mounted /\ ready
          /\ fetches[l][i].query = Asks(layout, debounced, status, page)

(* Before the user does something only the saved layout sends requests.    *)
FirstFetches ==
  mounted /\ ~touched =>
    ~typing /\ \A l \in Lists : asked[l] = IF ready THEN 1 ELSE 0

(* A save that nothing has crossed carries the layout on the screen.       *)
OneSave ==
  unsaved = {} =>
    /\ Len(puts) <= 1
    /\ mounted /\ ready /\ ~saveTimer =>
         IF puts = <<>> THEN saved = layout ELSE puts[1] = layout

GridInvariant ==
  GridTypeOK /\ FreshRequests /\ RowsAnswerTheControls /\ FirstFetches /\ OneSave
=============================================================================
