----------------------------- MODULE PageProofs -----------------------------
(***************************************************************************)
(* The domains page: GridPage for every set of lists, layouts, texts and   *)
(* filters and every bound; the cells edited in place on it, RowEdits, for *)
(* every set of values and every bound; and the levels of a cascader,      *)
(* CascaderLoader, for every set of levels and every bound.                *)
(***************************************************************************)
EXTENDS GridPage, RowEdits, CascaderLoader, SequenceTheorems, FiniteSetTheorems,
        TLAPS

(* What is left of a sequence without one of its elements.                 *)
LEMMA RemoveAtSeq ==
  ASSUME NEW S, NEW s \in Seq(S), NEW i \in 1..Len(s)
  PROVE  /\ RemoveAt(s, i) \in Seq(S)
         /\ Len(RemoveAt(s, i)) = Len(s) - 1
         /\ \A j \in 1..(Len(s) - 1) :
              RemoveAt(s, i)[j] = IF j < i THEN s[j] ELSE s[j + 1]
<1> DEFINE left == SubSeq(s, 1, i - 1)
           right == SubSeq(s, i + 1, Len(s))
<1>1. /\ Len(s) \in Nat
      /\ \A j \in 1..Len(s) : s[j] \in S
  BY LenProperties
<1>2. /\ left \in Seq(S)
      /\ Len(left) = i - 1
      /\ \A j \in 1..(i - 1) : left[j] = s[j]
  <2>1. \A j \in 1..(i - 1) : s[j] \in S
    BY <1>1
  <2>. QED  BY <1>1, <2>1, SubSeqProperties
<1>3. /\ right \in Seq(S)
      /\ Len(right) = Len(s) - i
      /\ \A j \in 1..(Len(s) - i) : right[j] = s[i + j]
  <2>1. \A j \in (i + 1)..Len(s) : s[j] \in S
    BY <1>1
  <2>. QED  BY <1>1, <2>1, SubSeqProperties
<1>4. /\ left \o right \in Seq(S)
      /\ Len(left \o right) = Len(left) + Len(right)
      /\ \A j \in 1..(Len(left) + Len(right)) :
           (left \o right)[j] = IF j <= Len(left) THEN left[j] ELSE right[j - Len(left)]
  BY <1>2, <1>3, ConcatProperties
<1>5. RemoveAt(s, i) = left \o right
  BY DEF RemoveAt
<1> HIDE DEF left, right
<1>6. RemoveAt(s, i) \in Seq(S)
  BY <1>4, <1>5
<1>7. Len(RemoveAt(s, i)) = Len(s) - 1
  BY <1>1, <1>2, <1>3, <1>4, <1>5
<1>8. ASSUME NEW j \in 1..(Len(s) - 1)
      PROVE  RemoveAt(s, i)[j] = IF j < i THEN s[j] ELSE s[j + 1]
  <2>1. RemoveAt(s, i)[j] = IF j <= i - 1 THEN left[j] ELSE right[j - (i - 1)]
    BY <1>1, <1>2, <1>3, <1>4, <1>5
  <2>2. CASE j < i
    BY <1>1, <1>2, <2>1, <2>2
  <2>3. CASE ~(j < i)
    <3>1. /\ j - (i - 1) \in 1..(Len(s) - i)
          /\ i + (j - (i - 1)) = j + 1
      BY <1>1, <2>3
    <3>2. right[j - (i - 1)] = s[i + (j - (i - 1))]
      BY <1>3, <3>1
    <3>. QED  BY <1>1, <2>1, <2>3, <3>1, <3>2
  <2>. QED  BY <2>2, <2>3
<1>9. QED
  BY <1>6, <1>7, <1>8

(* A function over the indices of a sequence is a sequence as long.        *)
LEMMA SameIndices ==
  ASSUME NEW S, NEW T, NEW s \in Seq(S), NEW f \in [DOMAIN s -> T]
  PROVE  /\ f \in Seq(T)
         /\ Len(f) = Len(s)
         /\ DOMAIN f = DOMAIN s
<1>1. /\ Len(s) \in Nat
      /\ DOMAIN s = 1..Len(s)
  BY LenProperties
<1>2. f \in [1..Len(s) -> T]
  BY <1>1
<1>3. f \in Seq(T)
  BY <1>1, <1>2, SeqDef
<1>4. Len(f) \in Nat /\ DOMAIN f = 1..Len(f)
  BY <1>3, LenProperties
<1>5. DOMAIN f = DOMAIN s
  OBVIOUS
<1>6. Len(f) = Len(s)
  BY <1>1, <1>4, <1>5
<1>7. QED
  BY <1>3, <1>5, <1>6
-----------------------------------------------------------------------------
(* GridPage. *)

(* What a page starts with is one of the things a user can choose.         *)
GridConstants ==
  /\ Plain \in Layouts /\ Plain \in Texts /\ Plain \in Filters
  /\ MaxPage \in Nat /\ MaxEdits \in Nat

GridRequest == [query : Query, stale : BOOLEAN]

(* What a render asks for.                                                 *)
LEMMA AsksQuery ==
  ASSUME NEW l \in Layouts, NEW t \in Texts, NEW s \in Filters, NEW p \in 0..MaxPage
  PROVE  Asks(l, t, s, p) \in Query
  BY DEF Asks, Query
-----------------------------------------------------------------------------
(* The cleanup makes every request stale.                                  *)
LEMMA MarkedStale ==
  ASSUME NEW r \in Seq(GridRequest)
  PROVE  /\ MarkStale(r) \in Seq(GridRequest)
         /\ \A i \in DOMAIN MarkStale(r) : MarkStale(r)[i].stale
<1>1. \A i \in DOMAIN r : r[i] \in GridRequest
  BY LenProperties
<1>2. MarkStale(r) \in [DOMAIN r -> GridRequest]
  BY <1>1 DEF MarkStale, GridRequest
<1>3. \A i \in DOMAIN r : MarkStale(r)[i].stale
  BY <1>1 DEF MarkStale, GridRequest
<1>4. QED
  BY <1>2, <1>3, SameIndices

(* After a fetch effect only its own request is not stale.                 *)
LEMMA FetchedFresh ==
  ASSUME NEW r \in Seq(GridRequest), NEW q \in Query
  PROVE  /\ Fetch(r, q) \in Seq(GridRequest)
         /\ \A i \in DOMAIN Fetch(r, q) : Fetch(r, q)[i].stale \/ Fetch(r, q)[i].query = q
<1> DEFINE old == MarkStale(r)
           new == [query |-> q, stale |-> FALSE]
<1>1. old \in Seq(GridRequest) /\ \A i \in DOMAIN old : old[i].stale
  BY MarkedStale
<1>2. new \in GridRequest /\ new.query = q
  BY DEF GridRequest
<1>3. Fetch(r, q) = Append(old, new)
  BY DEF Fetch
<1> HIDE DEF old, new
<1>4. /\ Fetch(r, q) \in Seq(GridRequest)
      /\ Len(old) \in Nat /\ DOMAIN old = 1..Len(old)
      /\ DOMAIN Fetch(r, q) = 1..(Len(old) + 1)
      /\ \A i \in 1..Len(old) : Fetch(r, q)[i] = old[i]
      /\ Fetch(r, q)[Len(old) + 1] = new
  BY <1>1, <1>2, <1>3, AppendProperties, LenProperties
<1>5. QED
  BY <1>1, <1>2, <1>4

(* What the fetch effects do: nothing while the layout is not known, and   *)
(* else one request a list that is not stale, for the last render.         *)
LEMMA Effects ==
  ASSUME GridTypeOK, NEW b \in BOOLEAN, NEW first \in Query, NEW second \in Query,
         FetchEffects(b, first, second)
  PROVE  /\ fetches' \in [Lists -> Seq(GridRequest)]
         /\ loading' \in [Lists -> BOOLEAN]
         /\ asked' \in [Lists -> Nat]
         /\ ~b => UNCHANGED <<fetches, loading, asked>>
         /\ b => \A l \in Lists :
                   /\ loading'[l]
                   /\ \A i \in DOMAIN fetches'[l] :
                        fetches'[l][i].stale \/ fetches'[l][i].query = second
<1>1. /\ fetches \in [Lists -> Seq(GridRequest)]
      /\ loading \in [Lists -> BOOLEAN]
      /\ asked \in [Lists -> Nat]
  BY DEF GridTypeOK, GridRequest
<1>2. CASE ~b
  BY <1>1, <1>2 DEF FetchEffects
<1>3. CASE b
  <2>1. ASSUME NEW l \in Lists
        PROVE  /\ fetches'[l] \in Seq(GridRequest)
               /\ \A i \in DOMAIN fetches'[l] :
                    fetches'[l][i].stale \/ fetches'[l][i].query = second
    <3>1. Fetch(fetches[l], first) \in Seq(GridRequest)
      BY <1>1, FetchedFresh
    <3>2. CASE second = first
      <4>1. fetches'[l] = Fetch(fetches[l], second)
        BY <1>3, <3>2 DEF FetchEffects
      <4>. QED  BY <1>1, <4>1, FetchedFresh
    <3>3. CASE second # first
      <4>1. fetches'[l] = Fetch(Fetch(fetches[l], first), second)
        BY <1>3, <3>3 DEF FetchEffects
      <4>. QED  BY <3>1, <4>1, FetchedFresh
    <3>. QED  BY <3>2, <3>3
  <2>2. DOMAIN fetches' = Lists /\ fetches' = [l \in DOMAIN fetches' |-> fetches'[l]]
    BY <1>3 DEF FetchEffects
  <2>3. fetches' \in [Lists -> Seq(GridRequest)]
    BY <2>1, <2>2
  <2>4. loading' = [l \in Lists |-> TRUE]
    BY <1>3 DEF FetchEffects
  <2>5. asked' \in [Lists -> Nat]
    <3>1. PICK n \in {1, 2} : asked' = [l \in Lists |-> asked[l] + n]
      BY <1>3, Zenon DEF FetchEffects
    <3>. QED  BY <1>1, <3>1
  <2>. QED  BY <1>3, <2>1, <2>3, <2>4, <2>5
<1>4. QED
  BY <1>2, <1>3

(* What that means once the layout is known.                               *)
LEMMA Sends ==
  ASSUME GridTypeOK, NEW first \in Query, NEW second \in Query,
         FetchEffects(TRUE, first, second)
  PROVE  \A l \in Lists :
           /\ loading'[l]
           /\ \A i \in DOMAIN fetches'[l] :
                fetches'[l][i].stale \/ fetches'[l][i].query = second
<1>1. TRUE \in BOOLEAN
  OBVIOUS
<1>2. QED
  BY <1>1, Effects

(* A change of the controls: the requests it sends ask for what they now   *)
(* say, and the lists are loading.                                         *)
LEMMA ControlsChange ==
  ASSUME GridTypeOK, FreshRequests, mounted, mounted', ready' = ready,
         NEW first \in Query, NEW second \in Query,
         second = Asks(layout', debounced', status', page'),
         FetchEffects(ready, first, second)
  PROVE  FreshRequests' /\ RowsAnswerTheControls'
<1>1. ready \in BOOLEAN
  BY DEF GridTypeOK
<1>2. CASE ~ready
  <2>1. UNCHANGED fetches
    BY <1>1, <1>2, Effects
  <2>. QED  BY <1>2, <2>1 DEF FreshRequests, RowsAnswerTheControls
<1>3. CASE ready
  <2>1. FetchEffects(TRUE, first, second)
    BY <1>3, Zenon DEF FetchEffects
  <2>2. \A l \in Lists :
          /\ loading'[l]
          /\ \A i \in DOMAIN fetches'[l] :
               fetches'[l][i].stale \/ fetches'[l][i].query = second
    BY <2>1, Sends
  <2>. QED  BY <1>3, <2>2 DEF FreshRequests, RowsAnswerTheControls
<1>4. QED
  BY <1>2, <1>3

(* The same for one that changes nothing the lists are asked for.          *)
LEMMA ControlsStay ==
  ASSUME FreshRequests, RowsAnswerTheControls, typing' => mounted',
         UNCHANGED <<mounted, ready, layout, debounced, status, page,
                     fetches, shown, loading, failed>>
  PROVE  FreshRequests' /\ RowsAnswerTheControls'
  BY DEF FreshRequests, RowsAnswerTheControls

(* Steps that leave the layout and its saves alone.                        *)
LEMMA SaveStays ==
  ASSUME OneSave, UNCHANGED <<mounted, ready, layout, saved, saveTimer, puts, unsaved>>
  PROVE  OneSave'
  BY DEF OneSave
-----------------------------------------------------------------------------
(* No page is mounted at first.                                            *)
LEMMA GridInitially ==
  ASSUME GridConstants, GridInit
  PROVE  GridInvariant
<1>1. GridTypeOK
  <2>1. fetches \in [Lists -> Seq([query : Query, stale : BOOLEAN])]
    BY EmptySeq DEF GridInit
  <2>2. puts \in Seq(Layouts)
    BY EmptySeq DEF GridInit
  <2>3. shown \in [Lists -> Query \cup {Nowhere}]
    BY DEF GridInit
  <2>4. /\ loading \in [Lists -> BOOLEAN] /\ failed \in [Lists -> BOOLEAN]
        /\ asked \in [Lists -> Nat]
    BY DEF GridInit
  <2>5. /\ mounted \in BOOLEAN /\ ready \in BOOLEAN /\ saveTimer \in BOOLEAN
        /\ typing \in BOOLEAN /\ error \in BOOLEAN /\ touched \in BOOLEAN
    BY DEF GridInit
  <2>6. /\ layout \in Layouts /\ saved \in Layouts
        /\ search \in Texts /\ debounced \in Texts
        /\ status \in Filters /\ page \in 0..MaxPage
        /\ unsaved \in SUBSET {"overlap", "failed", "left"}
        /\ edits \in 0..MaxEdits
    BY DEF GridInit, GridConstants
  <2>. QED  BY <2>1, <2>2, <2>3, <2>4, <2>5, <2>6 DEF GridTypeOK
<1>2. FreshRequests
  BY EmptySeq DEF GridInit, FreshRequests
<1>3. RowsAnswerTheControls /\ FirstFetches
  BY DEF GridInit, RowsAnswerTheControls, FirstFetches
<1>4. OneSave
  BY EmptySeq DEF GridInit, OneSave
<1>5. QED
  BY <1>1, <1>2, <1>3, <1>4 DEF GridInvariant

(* The page comes: it waits for its layout, and has sent nothing.          *)
LEMMA MountSteps ==
  ASSUME GridConstants, GridInvariant, Mount
  PROVE  GridInvariant'
<1>1. /\ mounted' = TRUE /\ ready' = FALSE /\ typing' = FALSE
      /\ fetches' = [l \in Lists |-> <<>>]
      /\ asked' = [l \in Lists |-> 0]
  BY EmptySeq DEF Mount, FirstRequests
<1>2. GridTypeOK'
  <2>1. fetches' \in [Lists -> Seq([query : Query, stale : BOOLEAN])]
    BY <1>1, EmptySeq
  <2>2. shown' \in [Lists -> Query \cup {Nowhere}]
    BY DEF Mount
  <2>3. /\ asked' \in [Lists -> Nat]
        /\ loading' \in [Lists -> BOOLEAN] /\ failed' \in [Lists -> BOOLEAN]
    BY <1>1 DEF Mount
  <2>4. /\ mounted' \in BOOLEAN /\ ready' \in BOOLEAN /\ saveTimer' \in BOOLEAN
        /\ typing' \in BOOLEAN /\ error' \in BOOLEAN /\ touched' \in BOOLEAN
    BY DEF Mount, GridInvariant, GridTypeOK
  <2>5. /\ layout' \in Layouts /\ search' \in Texts /\ debounced' \in Texts
        /\ status' \in Filters /\ page' \in 0..MaxPage
    BY DEF Mount, GridConstants
  <2>6. /\ saved' \in Layouts /\ puts' \in Seq(Layouts)
        /\ unsaved' \in SUBSET {"overlap", "failed", "left"}
        /\ edits' \in 0..MaxEdits
    BY DEF Mount, GridInvariant, GridTypeOK
  <2>. QED  BY <2>1, <2>2, <2>3, <2>4, <2>5, <2>6 DEF GridTypeOK
<1>3. FreshRequests'
  BY <1>1 DEF FreshRequests
<1>4. RowsAnswerTheControls' /\ FirstFetches'
  BY <1>1 DEF RowsAnswerTheControls, FirstFetches
<1>5. OneSave'
  BY <1>1 DEF Mount, GridInvariant, OneSave
<1>6. QED
  BY <1>2, <1>3, <1>4, <1>5 DEF GridInvariant

(* The layout comes: the first request, and the pause before it is saved.  *)
LEMMA PreferenceSteps ==
  ASSUME GridConstants, GridInvariant, PreferenceLoaded
  PROVE  GridInvariant'
<1> DEFINE asks == Asks(layout', debounced, status, page)
<1>1. layout' \in Layouts
  BY DEF PreferenceLoaded, GridInvariant, GridTypeOK
<1>2. asks \in Query
  BY <1>1, AsksQuery DEF GridInvariant, GridTypeOK
<1>3. /\ FetchEffects(TRUE, asks, asks)
      /\ mounted' /\ ready' /\ saveTimer'
      /\ UNCHANGED <<debounced, status, page, typing>>
  BY DEF PreferenceLoaded, choice
<1>4. asks = Asks(layout', debounced', status', page')
  BY <1>3
<1> HIDE DEF asks
<1>5. /\ fetches' \in [Lists -> Seq(GridRequest)]
      /\ loading' \in [Lists -> BOOLEAN]
      /\ asked' \in [Lists -> Nat]
      /\ \A l \in Lists :
           /\ loading'[l]
           /\ \A i \in DOMAIN fetches'[l] :
                fetches'[l][i].stale \/ fetches'[l][i].query = asks
  BY <1>2, <1>3, Effects DEF GridInvariant
<1>6. GridTypeOK'
  BY <1>1, <1>5 DEF PreferenceLoaded, choice, GridInvariant, GridTypeOK, GridRequest
<1>7. FreshRequests' /\ RowsAnswerTheControls'
  BY <1>3, <1>4, <1>5 DEF FreshRequests, RowsAnswerTheControls
<1>8. FirstFetches'
  <2>1. asked' = [l \in Lists |-> asked[l] + 1]
    BY <1>3 DEF FetchEffects
  <2>2. touched' = touched
    BY DEF PreferenceLoaded
  <2>. QED  BY <1>3, <2>1, <2>2 DEF PreferenceLoaded, GridInvariant, FirstFetches
<1>9. OneSave'
  BY <1>3 DEF PreferenceLoaded, GridInvariant, OneSave
<1>10. QED
  BY <1>6, <1>7, <1>8, <1>9 DEF GridInvariant

(* The page goes: what is under way is stale.                              *)
LEMMA LeaveSteps ==
  ASSUME GridConstants, GridInvariant, Leave
  PROVE  GridInvariant'
<1>1. /\ fetches' \in [Lists -> Seq(GridRequest)]
      /\ \A l \in Lists : \A i \in DOMAIN fetches'[l] : fetches'[l][i].stale
  BY MarkedStale DEF Leave, GridInvariant, GridTypeOK, GridRequest
<1>2. mounted' = FALSE /\ typing' = FALSE /\ saveTimer' = FALSE
  BY DEF Leave
<1>3. GridTypeOK'
  <2>1. fetches' \in [Lists -> Seq([query : Query, stale : BOOLEAN])]
    BY <1>1 DEF GridRequest
  <2>2. /\ unsaved' \in SUBSET {"overlap", "failed", "left"}
        /\ edits' \in 0..MaxEdits
    BY DEF Leave, GridConstants, GridInvariant, GridTypeOK
  <2>. QED  BY <1>2, <2>1, <2>2 DEF Leave, GridInvariant, GridTypeOK
<1>4. FreshRequests' /\ RowsAnswerTheControls' /\ FirstFetches'
  BY <1>1, <1>2 DEF FreshRequests, RowsAnswerTheControls, FirstFetches
<1>5. OneSave'
  BY <1>2 DEF Leave, GridInvariant, OneSave
<1>6. QED
  BY <1>3, <1>4, <1>5 DEF GridInvariant
-----------------------------------------------------------------------------
(* What users do: the page they are on has been mounted, is touched from   *)
(* then on, and has its effects run.                                       *)
LEMMA UserTypes ==
  ASSUME GridConstants, GridTypeOK, UserActs
  PROVE  /\ mounted /\ touched' = TRUE
         /\ edits' \in 0..MaxEdits
  BY DEF UserActs, GridConstants, GridTypeOK

(* The search box: back to the first page, if it is not that already.      *)
LEMMA TypeSteps ==
  ASSUME GridConstants, GridInvariant, NEW t \in Texts, Type(t)
  PROVE  GridInvariant'
<1> DEFINE asks == Asks(layout, debounced, status, 0)
<1>1. GridTypeOK /\ FreshRequests /\ RowsAnswerTheControls /\ OneSave
  BY DEF GridInvariant
<1>2. asks \in Query
  BY <1>1, AsksQuery DEF GridTypeOK, GridConstants
<1>3. /\ mounted /\ mounted' /\ ready' = ready
      /\ page' = 0 /\ UNCHANGED <<layout, debounced, status>>
      /\ touched' = TRUE /\ edits' \in 0..MaxEdits
  BY <1>1, UserTypes DEF Type, preference
<1>4. asks = Asks(layout', debounced', status', page')
  BY <1>3
<1> HIDE DEF asks
<1>5. /\ fetches' \in [Lists -> Seq(GridRequest)]
      /\ loading' \in [Lists -> BOOLEAN]
      /\ asked' \in [Lists -> Nat]
      /\ FreshRequests' /\ RowsAnswerTheControls'
  <2>1. CASE page = 0
    <3>1. UNCHANGED <<fetches, loading, asked>>
      BY <2>1 DEF Type
    <3>2. UNCHANGED <<mounted, ready, layout, debounced, status, page, fetches, shown,
                      loading, failed>>
      BY <1>3, <2>1, <3>1 DEF Type
    <3>3. FreshRequests' /\ RowsAnswerTheControls'
      BY <1>1, <1>3, <3>2, ControlsStay
    <3>. QED  BY <1>1, <3>1, <3>3 DEF GridTypeOK, GridRequest
  <2>2. CASE page # 0
    <3>1. FetchEffects(ready, asks, asks)
      BY <2>2 DEF Type, asks
    <3>2. FreshRequests' /\ RowsAnswerTheControls'
      BY <1>1, <1>2, <1>3, <1>4, <3>1, ControlsChange
    <3>3. ready \in BOOLEAN
      BY <1>1 DEF GridTypeOK
    <3>. QED  BY <1>1, <1>2, <3>1, <3>2, <3>3, Effects
  <2>. QED  BY <2>1, <2>2
<1>6. GridTypeOK'
  <2>1. search' \in Texts /\ typing' \in BOOLEAN /\ page' \in 0..MaxPage
    BY DEF Type, GridConstants
  <2>. QED  BY <1>1, <1>3, <1>5, <2>1 DEF Type, preference, GridTypeOK, GridRequest
<1>7. FirstFetches'
  BY <1>3 DEF FirstFetches
<1>8. OneSave'
  BY <1>1, SaveStays DEF Type, preference
<1>9. QED
  BY <1>5, <1>6, <1>7, <1>8 DEF GridInvariant

(* A filter, which goes back to the first page too.                        *)
LEMMA StatusSteps ==
  ASSUME GridConstants, GridInvariant, NEW s \in Filters, ChooseStatus(s)
  PROVE  GridInvariant'
<1> DEFINE before == Asks(layout, debounced, s, page)
           after == Asks(layout, debounced, s, 0)
<1>1. GridTypeOK /\ FreshRequests /\ RowsAnswerTheControls /\ OneSave
  BY DEF GridInvariant
<1>2. before \in Query /\ after \in Query
  BY <1>1, AsksQuery DEF GridTypeOK, GridConstants
<1>3. /\ mounted /\ mounted' /\ ready' = ready
      /\ page' = 0 /\ status' = s /\ UNCHANGED <<layout, debounced>>
      /\ touched' = TRUE /\ edits' \in 0..MaxEdits
      /\ FetchEffects(ready, before, after)
  BY <1>1, UserTypes DEF ChooseStatus, BackToFirstPage, preference
<1>4. after = Asks(layout', debounced', status', page')
  BY <1>3
<1> HIDE DEF before, after
<1>5. FreshRequests' /\ RowsAnswerTheControls'
  BY <1>1, <1>2, <1>3, <1>4, ControlsChange
<1>6. /\ fetches' \in [Lists -> Seq(GridRequest)]
      /\ loading' \in [Lists -> BOOLEAN]
      /\ asked' \in [Lists -> Nat]
  <2>1. ready \in BOOLEAN
    BY <1>1 DEF GridTypeOK
  <2>. QED  BY <1>1, <1>2, <1>3, <2>1, Effects
<1>7. GridTypeOK'
  <2>1. page' \in 0..MaxPage
    BY <1>3 DEF GridConstants
  <2>. QED  BY <1>1, <1>3, <1>6, <2>1 DEF ChooseStatus, preference, GridTypeOK, GridRequest
<1>8. FirstFetches'
  BY <1>3 DEF FirstFetches
<1>9. OneSave'
  BY <1>1, SaveStays DEF ChooseStatus, preference
<1>10. QED
  BY <1>5, <1>7, <1>8, <1>9 DEF GridInvariant

(* The sort order: a request, and a save that is due.                      *)
LEMMA LayoutSteps ==
  ASSUME GridConstants, GridInvariant, NEW l \in Layouts, ChooseLayout(l)
  PROVE  GridInvariant'
<1> DEFINE before == Asks(l, debounced, status, page)
           after == Asks(l, debounced, status, 0)
<1>1. GridTypeOK /\ FreshRequests /\ RowsAnswerTheControls /\ OneSave
  BY DEF GridInvariant
<1>2. before \in Query /\ after \in Query
  BY <1>1, AsksQuery DEF GridTypeOK, GridConstants
<1>3. /\ mounted /\ mounted' /\ ready' = ready /\ saveTimer' = ready
      /\ page' = 0 /\ layout' = l /\ UNCHANGED <<debounced, status, saved, puts, unsaved>>
      /\ touched' = TRUE /\ edits' \in 0..MaxEdits
      /\ FetchEffects(ready, before, after)
  BY <1>1, UserTypes DEF ChooseLayout, BackToFirstPage, SaveEffect
<1>4. after = Asks(layout', debounced', status', page')
  BY <1>3
<1> HIDE DEF before, after
<1>5. FreshRequests' /\ RowsAnswerTheControls'
  BY <1>1, <1>2, <1>3, <1>4, ControlsChange
<1>6. /\ fetches' \in [Lists -> Seq(GridRequest)]
      /\ loading' \in [Lists -> BOOLEAN]
      /\ asked' \in [Lists -> Nat]
  <2>1. ready \in BOOLEAN
    BY <1>1 DEF GridTypeOK
  <2>. QED  BY <1>1, <1>2, <1>3, <2>1, Effects
<1>7. GridTypeOK'
  <2>1. page' \in 0..MaxPage /\ saveTimer' \in BOOLEAN
    BY <1>1, <1>3 DEF GridConstants, GridTypeOK
  <2>. QED  BY <1>1, <1>3, <1>6, <2>1 DEF ChooseLayout, GridTypeOK, GridRequest
<1>8. FirstFetches'
  BY <1>3 DEF FirstFetches
<1>9. OneSave'
  <2>1. Len(puts') <= 1 \/ unsaved' # {}
    BY <1>1, <1>3 DEF OneSave
  <2>2. ~(ready' /\ ~saveTimer')
    BY <1>3, Zenon
  <2>. QED  BY <2>1, <2>2 DEF OneSave
<1>10. QED
  BY <1>5, <1>7, <1>8, <1>9 DEF GridInvariant

(* Another page.                                                           *)
LEMMA PageSteps ==
  ASSUME GridConstants, GridInvariant, NEW p \in 0..MaxPage, GoToPage(p)
  PROVE  GridInvariant'
<1> DEFINE asks == Asks(layout, debounced, status, p)
<1>1. GridTypeOK /\ FreshRequests /\ RowsAnswerTheControls /\ OneSave
  BY DEF GridInvariant
<1>2. asks \in Query
  BY <1>1, AsksQuery DEF GridTypeOK
<1>3. /\ mounted /\ mounted' /\ ready' = ready
      /\ page' = p /\ UNCHANGED <<layout, debounced, status>>
      /\ touched' = TRUE /\ edits' \in 0..MaxEdits
      /\ FetchEffects(ready, asks, asks)
  BY <1>1, UserTypes DEF GoToPage, preference
<1>4. asks = Asks(layout', debounced', status', page')
  BY <1>3
<1> HIDE DEF asks
<1>5. FreshRequests' /\ RowsAnswerTheControls'
  BY <1>1, <1>2, <1>3, <1>4, ControlsChange
<1>6. /\ fetches' \in [Lists -> Seq(GridRequest)]
      /\ loading' \in [Lists -> BOOLEAN]
      /\ asked' \in [Lists -> Nat]
  <2>1. ready \in BOOLEAN
    BY <1>1 DEF GridTypeOK
  <2>. QED  BY <1>1, <1>2, <1>3, <2>1, Effects
<1>7. GridTypeOK'
  BY <1>1, <1>3, <1>6 DEF GoToPage, preference, GridTypeOK, GridRequest
<1>8. FirstFetches'
  BY <1>3 DEF FirstFetches
<1>9. OneSave'
  BY <1>1, SaveStays DEF GoToPage, preference
<1>10. QED
  BY <1>5, <1>7, <1>8, <1>9 DEF GridInvariant
-----------------------------------------------------------------------------
(* The debounce timeout only runs on a page a user has typed on.           *)
LEMMA DebounceSteps ==
  ASSUME GridConstants, GridInvariant, DebounceFires
  PROVE  GridInvariant'
<1> DEFINE asks == Asks(layout, search, status, page)
<1>1. GridTypeOK /\ FreshRequests /\ RowsAnswerTheControls /\ OneSave /\ FirstFetches
  BY DEF GridInvariant
<1>2. asks \in Query
  BY <1>1, AsksQuery DEF GridTypeOK
<1>3. /\ typing /\ mounted /\ touched
      /\ mounted' /\ ready' = ready /\ typing' = FALSE
      /\ debounced' = search /\ UNCHANGED <<layout, status, page>>
      /\ touched' = touched
  BY <1>1 DEF DebounceFires, FreshRequests, FirstFetches, preference
<1>4. asks = Asks(layout', debounced', status', page')
  BY <1>3
<1> HIDE DEF asks
<1>5. /\ fetches' \in [Lists -> Seq(GridRequest)]
      /\ loading' \in [Lists -> BOOLEAN]
      /\ asked' \in [Lists -> Nat]
      /\ FreshRequests' /\ RowsAnswerTheControls'
  <2>1. CASE search = debounced
    <3>1. UNCHANGED <<mounted, ready, layout, debounced, status, page, fetches, shown,
                      loading, failed, asked>>
      BY <1>3, <2>1 DEF DebounceFires, preference
    <3>2. FreshRequests' /\ RowsAnswerTheControls'
      BY <1>1, <1>3, <3>1, ControlsStay
    <3>. QED  BY <1>1, <3>1, <3>2 DEF GridTypeOK, GridRequest
  <2>2. CASE search # debounced
    <3>1. FetchEffects(ready, asks, asks)
      BY <2>2 DEF DebounceFires, asks
    <3>2. FreshRequests' /\ RowsAnswerTheControls'
      BY <1>1, <1>2, <1>3, <1>4, <3>1, ControlsChange
    <3>3. ready \in BOOLEAN
      BY <1>1 DEF GridTypeOK
    <3>. QED  BY <1>1, <1>2, <3>1, <3>2, <3>3, Effects
  <2>. QED  BY <2>1, <2>2
<1>6. GridTypeOK'
  BY <1>1, <1>3, <1>5 DEF DebounceFires, preference, GridTypeOK, GridRequest
<1>7. FirstFetches'
  BY <1>3 DEF FirstFetches
<1>8. OneSave'
  BY <1>1, SaveStays DEF DebounceFires, preference
<1>9. QED
  BY <1>5, <1>6, <1>7, <1>8 DEF GridInvariant

(* A save is sent: it carries the layout on the screen.                    *)
LEMMA SaveTimerSteps ==
  ASSUME GridConstants, GridInvariant, SaveTimerFires
  PROVE  GridInvariant'
<1>1. GridTypeOK /\ FreshRequests /\ RowsAnswerTheControls /\ OneSave /\ FirstFetches
  BY DEF GridInvariant
<1>2. /\ UNCHANGED <<mounted, ready, layout, debounced, status, page, typing,
                     fetches, shown, loading, failed, asked, touched>>
      /\ puts' = Append(puts, layout)
  BY DEF SaveTimerFires, choice, listing
<1>3. FreshRequests' /\ RowsAnswerTheControls'
  <2>1. typing' => mounted'
    BY <1>1, <1>2 DEF FreshRequests
  <2>. QED  BY <1>1, <1>2, <2>1, ControlsStay
<1>4. FirstFetches'
  BY <1>1, <1>2 DEF FirstFetches
<1>5. GridTypeOK'
  <2>1. puts' \in Seq(Layouts)
    BY <1>1, <1>2, AppendProperties DEF GridTypeOK
  <2>2. unsaved' \in SUBSET {"overlap", "failed", "left"}
    BY <1>1 DEF SaveTimerFires, GridTypeOK
  <2>. QED  BY <1>1, <2>1, <2>2 DEF SaveTimerFires, choice, listing, GridTypeOK
<1>6. OneSave'
  <2>1. CASE puts = <<>>
    <3>1. Len(puts') = 1 /\ puts'[1] = layout /\ puts' # <<>>
      BY <1>1, <1>2, <2>1, AppendProperties, EmptySeq, LenProperties DEF GridTypeOK
    <3>. QED  BY <1>2, <3>1 DEF OneSave
  <2>2. CASE puts # <<>>
    <3>1. unsaved' # {}
      BY <2>2 DEF SaveTimerFires
    <3>. QED  BY <3>1 DEF OneSave
  <2>. QED  BY <2>1, <2>2
<1>7. QED
  BY <1>3, <1>4, <1>5, <1>6 DEF GridInvariant
-----------------------------------------------------------------------------
(* A save reaches the server or is lost.                                   *)
LEMMA PutSteps ==
  ASSUME GridConstants, GridInvariant, NEW i \in DOMAIN puts,
         PutArrives(i) \/ PutFails(i)
  PROVE  GridInvariant'
<1>1. GridTypeOK /\ FreshRequests /\ RowsAnswerTheControls /\ OneSave /\ FirstFetches
  BY DEF GridInvariant
<1>2. /\ UNCHANGED <<mounted, ready, layout, saveTimer, debounced, status, page, typing,
                     fetches, shown, loading, failed, asked, touched>>
      /\ puts' = RemoveAt(puts, i)
  BY DEF PutArrives, PutFails, choice, listing, gridHistory
<1>3. FreshRequests' /\ RowsAnswerTheControls'
  <2>1. typing' => mounted'
    BY <1>1, <1>2 DEF FreshRequests
  <2>. QED  BY <1>1, <1>2, <2>1, ControlsStay
<1>4. FirstFetches'
  BY <1>1, <1>2 DEF FirstFetches
<1>5. /\ puts \in Seq(Layouts) /\ i \in 1..Len(puts) /\ puts[i] \in Layouts
      /\ Len(puts) \in Nat
  BY <1>1, LenProperties DEF GridTypeOK
<1>6. puts' \in Seq(Layouts) /\ Len(puts') = Len(puts) - 1
  BY <1>2, <1>5, RemoveAtSeq
<1>7. GridTypeOK'
  <2>1. saved' \in Layouts /\ unsaved' \in SUBSET {"overlap", "failed", "left"}
    BY <1>1, <1>5 DEF PutArrives, PutFails, gridHistory, GridTypeOK
  <2>. QED  BY <1>1, <1>6, <2>1 DEF PutArrives, PutFails, choice, listing, gridHistory, GridTypeOK
<1>8. OneSave'
  <2>1. CASE PutFails(i)
    BY <2>1 DEF PutFails, OneSave
  <2>2. CASE PutArrives(i) /\ unsaved = {}
    <3>1. Len(puts) = 1 /\ i = 1
      <4>1. Len(puts) <= 1
        BY <1>1, <2>2, Zenon DEF OneSave
      <4>2. Len(puts) \in Nat /\ i \in 1..Len(puts)
        BY <1>5
      <4>3. Len(puts) = 1
        BY <4>1, <4>2
      <4>. QED  BY <4>2, <4>3
    <3>2. puts' = <<>> /\ Len(puts') = 0
      BY <1>6, <3>1, EmptySeq
    <3>3. puts # <<>>
      BY <3>1, EmptySeq
    <3>4. saved' = puts[1] /\ unsaved' = {}
      BY <2>2, <3>1 DEF PutArrives, gridHistory
    <3>. QED  BY <1>1, <1>2, <2>2, <3>2, <3>3, <3>4 DEF OneSave
  <2>3. CASE PutArrives(i) /\ unsaved # {}
    BY <2>3 DEF PutArrives, gridHistory, OneSave
  <2>. QED  BY <2>1, <2>2, <2>3
<1>9. QED
  BY <1>3, <1>4, <1>7, <1>8 DEF GridInvariant

(* An answer leaves one request fewer; a request that is not stale asks    *)
(* for what the controls say.                                              *)
LEMMA AnswerSteps ==
  ASSUME GridConstants, GridInvariant, NEW l \in Lists, NEW i \in DOMAIN fetches[l],
         FetchAnswers(l, i) \/ FetchFails(l, i)
  PROVE  GridInvariant'
<1>1. GridTypeOK /\ FreshRequests /\ RowsAnswerTheControls /\ OneSave /\ FirstFetches
  BY DEF GridInvariant
<1>2. /\ UNCHANGED <<mounted, preference, choice, asked, touched, unsaved, edits>>
      /\ fetches' = [fetches EXCEPT ![l] = RemoveAt(@, i)]
  BY DEF FetchAnswers, FetchFails
<1>3. /\ fetches \in [Lists -> Seq(GridRequest)] /\ fetches[l] \in Seq(GridRequest)
      /\ Len(fetches[l]) \in Nat /\ i \in 1..Len(fetches[l])
      /\ fetches[l][i] \in GridRequest
  <2>1. fetches \in [Lists -> Seq(GridRequest)]
    BY <1>1 DEF GridTypeOK, GridRequest
  <2>2. fetches[l] \in Seq(GridRequest)
    BY <2>1
  <2>. QED  BY <2>1, <2>2, LenProperties
<1>4. /\ fetches'[l] = RemoveAt(fetches[l], i)
      /\ fetches'[l] \in Seq(GridRequest)
      /\ Len(fetches'[l]) = Len(fetches[l]) - 1
      /\ \A j \in 1..(Len(fetches[l]) - 1) :
           fetches'[l][j] = IF j < i THEN fetches[l][j] ELSE fetches[l][j + 1]
  <2>1. fetches'[l] = RemoveAt(fetches[l], i)
    BY <1>2, <1>3
  <2>2. /\ RemoveAt(fetches[l], i) \in Seq(GridRequest)
        /\ Len(RemoveAt(fetches[l], i)) = Len(fetches[l]) - 1
        /\ \A j \in 1..(Len(fetches[l]) - 1) :
             RemoveAt(fetches[l], i)[j] = IF j < i THEN fetches[l][j] ELSE fetches[l][j + 1]
    BY <1>3, RemoveAtSeq
  <2>. QED  BY <2>1, <2>2
<1>5. /\ fetches' \in [Lists -> Seq(GridRequest)]
      /\ \A k \in Lists \ {l} : fetches'[k] = fetches[k]
  BY <1>2, <1>3, <1>4
<1>6. \A j \in DOMAIN fetches'[l] : \E n \in DOMAIN fetches[l] :
        fetches'[l][j] = fetches[l][n]
  <2>1. DOMAIN fetches'[l] = 1..(Len(fetches[l]) - 1) /\ DOMAIN fetches[l] = 1..Len(fetches[l])
    BY <1>3, <1>4, LenProperties
  <2>2. ASSUME NEW j \in 1..(Len(fetches[l]) - 1)
        PROVE  \E n \in 1..Len(fetches[l]) : fetches'[l][j] = fetches[l][n]
    <3>1. j \in 1..Len(fetches[l]) /\ j + 1 \in 1..Len(fetches[l])
      BY <1>3
    <3>. QED  BY <1>4, <3>1
  <2>. QED  BY <2>1, <2>2
<1>7. FreshRequests'
  BY <1>1, <1>2, <1>5, <1>6 DEF FreshRequests, preference, choice
<1>8. /\ shown' \in [Lists -> Query \cup {Nowhere}]
      /\ loading' \in [Lists -> BOOLEAN] /\ failed' \in [Lists -> BOOLEAN]
      /\ error' \in BOOLEAN
  <2>1. fetches[l][i].query \in Query
    BY <1>3 DEF GridRequest
  <2>. QED  BY <1>1, <2>1 DEF FetchAnswers, FetchFails, GridTypeOK
<1>9. GridTypeOK'
  BY <1>1, <1>2, <1>5, <1>8 DEF GridTypeOK, GridRequest, preference, choice
<1>10. RowsAnswerTheControls'
  <2>1. CASE ~Applies(l, i)
    <3>1. UNCHANGED <<shown, loading, failed>>
      BY <2>1 DEF FetchAnswers, FetchFails
    <3>. QED  BY <1>1, <1>2, <3>1 DEF RowsAnswerTheControls, preference, choice
  <2>2. CASE Applies(l, i)
    <3>1. fetches[l][i].query = Asks(layout, debounced, status, page)
      BY <1>1, <2>2 DEF Applies, FreshRequests
    <3>2. failed'[l] \/ shown'[l] = Asks(layout, debounced, status, page)
      BY <1>1, <2>2, <3>1 DEF FetchAnswers, FetchFails, GridTypeOK
    <3>3. \A k \in Lists \ {l} : /\ shown'[k] = shown[k] /\ loading'[k] = loading[k]
                                 /\ failed'[k] = failed[k]
      BY <1>1, <2>2 DEF FetchAnswers, FetchFails, GridTypeOK
    <3>. QED  BY <1>1, <1>2, <3>2, <3>3 DEF RowsAnswerTheControls, preference, choice
  <2>. QED  BY <2>1, <2>2
<1>11. FirstFetches'
  BY <1>1, <1>2 DEF FirstFetches, preference, choice
<1>12. OneSave'
  BY <1>1, <1>2, SaveStays DEF preference
<1>13. QED
  BY <1>7, <1>9, <1>10, <1>11, <1>12 DEF GridInvariant
-----------------------------------------------------------------------------
(* Nothing happens.                                                        *)
LEMMA GridStutter ==
  ASSUME GridInvariant, UNCHANGED gridVars
  PROVE  GridInvariant'
BY DEF GridInvariant, gridVars, preference, choice, listing, gridHistory,
       GridTypeOK, FreshRequests, RowsAnswerTheControls, FirstFetches, OneSave

(* The invariant is inductive.                                             *)
LEMMA GridSteps ==
  ASSUME GridConstants, GridInvariant, [GridNext]_gridVars
  PROVE  GridInvariant'
<1>1. CASE GridNext
  <2>1. CASE Answers
    <3>1. CASE PreferenceLoaded \/ DebounceFires \/ SaveTimerFires
      BY <3>1, PreferenceSteps, DebounceSteps, SaveTimerSteps
    <3>2. ASSUME NEW i \in DOMAIN puts, PutArrives(i) \/ PutFails(i)
          PROVE  GridInvariant'
      BY <3>2, PutSteps
    <3>3. ASSUME NEW l \in Lists, NEW i \in DOMAIN fetches[l],
                 FetchAnswers(l, i) \/ FetchFails(l, i)
          PROVE  GridInvariant'
      BY <3>3, AnswerSteps
    <3>. QED  BY <2>1, <3>1, <3>2, <3>3 DEF Answers
  <2>2. CASE Mount \/ Leave
    BY <2>2, MountSteps, LeaveSteps
  <2>3. ASSUME NEW t \in Texts, Type(t) PROVE GridInvariant'
    BY <2>3, TypeSteps
  <2>4. ASSUME NEW s \in Filters, ChooseStatus(s) PROVE GridInvariant'
    BY <2>4, StatusSteps
  <2>5. ASSUME NEW l \in Layouts, ChooseLayout(l) PROVE GridInvariant'
    BY <2>5, LayoutSteps
  <2>6. ASSUME NEW p \in 0..MaxPage, GoToPage(p) PROVE GridInvariant'
    BY <2>6, PageSteps
  <2>. QED  BY <1>1, <2>1, <2>2, <2>3, <2>4, <2>5, <2>6 DEF GridNext
<1>2. CASE UNCHANGED gridVars
  BY <1>2, GridStutter
<1>3. QED
  BY <1>1, <1>2

(* So it holds throughout.                                                 *)
LEMMA GridIsInvariant ==
  ASSUME GridConstants
  PROVE  GridSpec => []GridInvariant
<1>1. GridInit => GridInvariant
  BY GridInitially
<1>2. GridInvariant /\ [GridNext]_gridVars => GridInvariant'
  BY GridSteps
<1>3. QED
  BY <1>1, <1>2, PTL DEF GridSpec
-----------------------------------------------------------------------------
(* Rows that are not loading answer the controls, however many requests    *)
(* are under way and in whatever order they are answered.                  *)
THEOREM RowsAlwaysAnswer ==
  ASSUME GridConstants
  PROVE  GridSpec => []RowsAnswerTheControls
<1>1. GridInvariant => RowsAnswerTheControls
  BY DEF GridInvariant
<1>2. QED
  BY <1>1, GridIsInvariant, PTL

(* A page nobody has touched has sent one request a list at most.          *)
THEOREM OneFirstFetch ==
  ASSUME GridConstants
  PROVE  GridSpec => []FirstFetchIsTheOnlyOne
<1>1. GridInvariant => FirstFetchIsTheOnlyOne
  BY DEF GridInvariant, FirstFetches, FirstFetchIsTheOnlyOne
<1>2. QED
  BY <1>1, GridIsInvariant, PTL

(* The layout a user chose is the one the server has once no save is due   *)
(* or under way, but for the three ways a save can go astray.              *)
THEOREM LayoutIsKept ==
  ASSUME GridConstants
  PROVE  GridSpec => []LayoutIsSaved
<1>1. GridInvariant => LayoutIsSaved
  BY DEF GridInvariant, OneSave, LayoutIsSaved
<1>2. QED
  BY <1>1, GridIsInvariant, PTL
-----------------------------------------------------------------------------
(* RowEdits: a cell shows what is stored when nothing is under way and     *)
(* nothing has interfered.                                                 *)

CellPatch == [want : Values, prev : Values, stored : BOOLEAN]
CellAnswer == [value : Values, read : BOOLEAN, stale : BOOLEAN, clean : BOOLEAN]

LEMMA RowTypes ==
  RowTypeOK <=>
    /\ stored \in Values /\ cell \in Values
    /\ patches \in Seq(CellPatch)
    /\ reloads \in Seq(CellAnswer)
    /\ reasons \subseteq {"overlap", "lost", "race", "others"}
    /\ changes \in 0..MaxChanges
  BY DEF RowTypeOK, CellPatch, CellAnswer

(* The first state: the cell was fetched, and nothing is under way.        *)
LEMMA RowInitially ==
  ASSUME MaxChanges \in Nat, RowInit
  PROVE  RowInvariant
<1>1. RowTypeOK
  BY RowTypes, EmptySeq DEF RowInit
<1>2. CleanReads
  BY DEF RowInit, CleanReads
<1>3. OneEditAtMost
  BY DEF RowInit, OneEditAtMost
<1>4. QED
  BY <1>1, <1>2, <1>3 DEF RowInvariant

(* No edit leaves a clean answer, by this user or another.                 *)
LEMMA SoiledReads ==
  ASSUME reloads \in Seq(CellAnswer)
  PROVE  /\ Soiled(reloads) \in Seq(CellAnswer)
         /\ \A i \in DOMAIN Soiled(reloads) : ~Soiled(reloads)[i].clean
<1>1. \A i \in DOMAIN reloads : reloads[i] \in CellAnswer
  BY LenProperties
<1>2. Soiled(reloads) \in [DOMAIN reloads -> CellAnswer]
  BY <1>1 DEF Soiled, CellAnswer
<1>3. \A i \in DOMAIN reloads : ~Soiled(reloads)[i].clean
  BY <1>1 DEF Soiled, CellAnswer
<1>4. QED
  BY <1>2, <1>3, SameIndices

(* What the user's own edit and its answers do to the invariant.           *)
LEMMA EditSteps ==
  ASSUME MaxChanges \in Nat, RowInvariant, NEW v \in Values, EditCell(v)
  PROVE  RowInvariant'
<1> USE RowTypes DEF RowInvariant
<1> DEFINE patch == [want |-> v, prev |-> cell, stored |-> FALSE]
<1>1. patch \in CellPatch
  BY DEF CellPatch
<1>2. /\ patches' \in Seq(CellPatch)
      /\ Len(patches') = Len(patches) + 1
      /\ patches'[Len(patches) + 1] = patch
      /\ Len(patches) \in Nat
  BY <1>1, AppendProperties, LenProperties DEF EditCell
<1>3. reloads' \in Seq(CellAnswer) /\ \A i \in DOMAIN reloads' : ~reloads'[i].clean
  BY SoiledReads DEF EditCell
<1>4. RowTypeOK'
  BY <1>2, <1>3 DEF EditCell, Change, RowTypeOK, CellPatch, CellAnswer
<1>5. CleanReads'
  BY <1>3 DEF CleanReads
<1>6. OneEditAtMost'
  <2>1. SUFFICES ASSUME reasons' = {} PROVE OneEditAtMost'
    BY DEF OneEditAtMost
  <2>2. patches = <<>> /\ reasons = {}
    BY <2>1 DEF EditCell
  <2>3. Len(patches') = 1 /\ patches'[1] = patch
    BY <1>2, <2>2, EmptySeq
  <2>4. cell = stored
    BY <2>2, EmptySeq DEF OneEditAtMost
  <2>. QED  BY <2>3, <2>4 DEF OneEditAtMost, EditCell
<1>7. QED
  BY <1>4, <1>5, <1>6

(* The edit reaches the server: the row now has the value of the screen.   *)
LEMMA ArriveSteps ==
  ASSUME MaxChanges \in Nat, RowInvariant, NEW i \in DOMAIN patches, PatchArrives(i)
  PROVE  RowInvariant'
<1> USE RowTypes DEF RowInvariant
<1>1. /\ Len(patches) \in Nat /\ DOMAIN patches = 1..Len(patches)
      /\ patches[i] \in CellPatch
  BY LenProperties
<1>2. [patches[i] EXCEPT !.stored = TRUE] \in CellPatch
  BY <1>1 DEF CellPatch
<1>3. /\ patches' \in Seq(CellPatch)
      /\ Len(patches') = Len(patches)
      /\ patches'[i] = [patches[i] EXCEPT !.stored = TRUE]
  BY <1>1, <1>2, ExceptSeq DEF PatchArrives
<1>4. RowTypeOK'
  BY <1>1, <1>3 DEF PatchArrives, RowTypeOK, CellPatch, CellAnswer
<1>5. patches # <<>>
  BY <1>1, EmptySeq
<1>6. CleanReads'
  BY <1>5 DEF CleanReads, PatchArrives
<1>7. OneEditAtMost'
  <2>1. SUFFICES ASSUME reasons' = {} PROVE OneEditAtMost'
    BY DEF OneEditAtMost
  <2>2. /\ Len(patches) = 1 /\ i = 1
        /\ cell = patches[1].want
    BY <1>1, <1>5, <2>1 DEF OneEditAtMost, PatchArrives
  <2>3. patches'[1].want = patches[1].want /\ patches'[1].stored
    BY <1>1, <1>3, <2>2 DEF CellPatch
  <2>. QED  BY <1>3, <2>2, <2>3 DEF OneEditAtMost, PatchArrives
<1>8. QED
  BY <1>4, <1>6, <1>7

(* An edit is answered: without an error the screen has it and the row     *)
(* too; with one the value of before is put back.                          *)
LEMMA ReloadSteps ==
  ASSUME MaxChanges \in Nat, RowInvariant, NEW i \in DOMAIN patches,
         PatchSucceeds(i) \/ PatchFails(i)
  PROVE  RowInvariant'
<1> USE RowTypes DEF RowInvariant
<1>1. /\ Len(patches) \in Nat /\ DOMAIN patches = 1..Len(patches)
      /\ patches[i] \in CellPatch
  BY LenProperties
<1>2. /\ patches' = RemoveAt(patches, i)
      /\ UNCHANGED <<stored, reloads, changes>>
  BY DEF PatchSucceeds, PatchFails, Rollback
<1>3. /\ patches' \in Seq(CellPatch)
      /\ Len(patches') = Len(patches) - 1
  BY <1>1, <1>2, RemoveAtSeq
<1>4. cell' \in Values /\ reasons' \subseteq {"overlap", "lost", "race", "others"}
  BY <1>1 DEF PatchSucceeds, PatchFails, Rollback, CellPatch
<1>5. RowTypeOK'
  BY <1>2, <1>3, <1>4 DEF RowTypeOK, CellPatch, CellAnswer
<1>6. patches # <<>>
  BY <1>1, EmptySeq
<1>7. CleanReads'
  BY <1>2, <1>6 DEF CleanReads
<1>8. OneEditAtMost'
  <2>1. SUFFICES ASSUME reasons' = {} PROVE OneEditAtMost'
    BY DEF OneEditAtMost
  <2>2. reasons = {}
    BY <2>1 DEF PatchSucceeds, PatchFails
  <2>3. /\ Len(patches) = 1 /\ i = 1
        /\ cell = patches[1].want
        /\ stored = IF patches[1].stored THEN patches[1].want ELSE patches[1].prev
    BY <1>1, <1>6, <2>2 DEF OneEditAtMost
  <2>4. patches' = <<>>
    BY <1>3, <2>3, EmptySeq
  <2>5. CASE PatchSucceeds(i)
    BY <2>3, <2>4, <2>5 DEF OneEditAtMost, PatchSucceeds
  <2>6. CASE PatchFails(i)
    <3>1. ~patches[1].stored
      BY <2>1, <2>2, <2>3, <2>6 DEF PatchFails
    <3>. QED  BY <2>3, <2>4, <2>6, <3>1 DEF OneEditAtMost, PatchFails, Rollback
  <2>. QED  BY <2>5, <2>6
<1>9. QED
  BY <1>5, <1>7, <1>8

(* Somebody else writes the row: from then on nothing is promised until    *)
(* the row has been read again.                                            *)
LEMMA OthersSteps ==
  ASSUME MaxChanges \in Nat, RowInvariant, NEW v \in Values, OthersEdit(v)
  PROVE  RowInvariant'
<1> USE RowTypes DEF RowInvariant
<1>1. reloads' \in Seq(CellAnswer) /\ \A i \in DOMAIN reloads' : ~reloads'[i].clean
  BY SoiledReads DEF OthersEdit
<1>2. RowTypeOK'
  BY <1>1 DEF OthersEdit, Change, RowTypeOK, CellPatch, CellAnswer
<1>3. CleanReads'
  BY <1>1 DEF CleanReads
<1>4. OneEditAtMost'
  BY DEF OneEditAtMost, OthersEdit
<1>5. QED
  BY <1>2, <1>3, <1>4

(* A fetch is sent, and makes the ones before it stale.                    *)
LEMMA RefetchSteps ==
  ASSUME MaxChanges \in Nat, RowInvariant, Reload
  PROVE  RowInvariant'
<1> USE RowTypes DEF RowInvariant
<1> DEFINE old == [i \in DOMAIN reloads |-> [reloads[i] EXCEPT !.stale = TRUE]]
           new == [value |-> stored, read |-> FALSE, stale |-> FALSE, clean |-> FALSE]
<1>1. \A i \in DOMAIN reloads : reloads[i] \in CellAnswer
  BY LenProperties
<1>2. old \in [DOMAIN reloads -> CellAnswer] /\ new \in CellAnswer
  BY <1>1 DEF CellAnswer
<1>3. old \in Seq(CellAnswer) /\ DOMAIN old = DOMAIN reloads
  BY <1>2, SameIndices
<1>4. \A i \in DOMAIN old : /\ old[i].clean = reloads[i].clean
                            /\ old[i].value = reloads[i].value
  BY <1>1 DEF CellAnswer
<1>5. new.clean = FALSE
  OBVIOUS
<1>6. reloads' = Append(old, new)
  BY DEF Reload
<1> HIDE DEF old, new
<1>7. /\ Len(old) \in Nat /\ DOMAIN old = 1..Len(old)
      /\ reloads' \in Seq(CellAnswer)
      /\ DOMAIN reloads' = 1..(Len(old) + 1)
      /\ \A i \in 1..Len(old) : reloads'[i] = old[i]
      /\ reloads'[Len(old) + 1] = new
  BY <1>2, <1>3, <1>6, AppendProperties, LenProperties
<1>8. RowTypeOK'
  BY <1>7 DEF Reload, Change, RowTypeOK, CellPatch, CellAnswer
<1>9. CleanReads'
  <2>1. SUFFICES ASSUME NEW i \in DOMAIN reloads', reloads'[i].clean
                 PROVE  patches' = <<>> /\ reloads'[i].value = stored'
    BY DEF CleanReads
  <2>2. i \in 1..Len(old)
    BY <1>5, <1>7, <2>1
  <2>3. reloads[i].clean /\ reloads'[i].value = reloads[i].value /\ i \in DOMAIN reloads
    BY <1>3, <1>4, <1>7, <2>1, <2>2
  <2>. QED  BY <2>3 DEF CleanReads, Reload
<1>10. OneEditAtMost'
  BY DEF OneEditAtMost, Reload
<1>11. QED
  BY <1>8, <1>9, <1>10

(* The row is read for a fetch: what is read while no edit is under way is *)
(* clean.                                                                  *)
LEMMA ReadSteps ==
  ASSUME MaxChanges \in Nat, RowInvariant, NEW i \in DOMAIN reloads, ReloadReads(i)
  PROVE  RowInvariant'
<1> USE RowTypes DEF RowInvariant
<1> DEFINE read == [reloads[i] EXCEPT !.value = stored, !.read = TRUE,
                                      !.clean = (patches = <<>>)]
<1>1. /\ DOMAIN reloads = 1..Len(reloads)
      /\ reloads[i] \in CellAnswer
  BY LenProperties
<1>2. /\ read \in CellAnswer
      /\ read.value = stored
      /\ read.clean <=> (patches = <<>>)
  BY <1>1 DEF CellAnswer
<1>3. reloads' = [reloads EXCEPT ![i] = read]
  BY <1>1 DEF ReloadReads
<1> HIDE DEF read
<1>4. /\ reloads' \in Seq(CellAnswer)
      /\ DOMAIN reloads' = DOMAIN reloads
      /\ \A j \in DOMAIN reloads : reloads'[j] = IF j = i THEN read ELSE reloads[j]
  BY <1>1, <1>2, <1>3, ExceptSeq
<1>5. RowTypeOK'
  BY <1>4 DEF ReloadReads, RowTypeOK, CellPatch, CellAnswer
<1>6. CleanReads'
  <2>1. SUFFICES ASSUME NEW j \in DOMAIN reloads', reloads'[j].clean
                 PROVE  patches' = <<>> /\ reloads'[j].value = stored'
    BY DEF CleanReads
  <2>2. CASE j = i
    BY <1>2, <1>4, <2>1, <2>2 DEF ReloadReads
  <2>3. CASE j # i
    BY <1>4, <2>1, <2>3 DEF ReloadReads, CleanReads
  <2>. QED  BY <2>2, <2>3
<1>7. OneEditAtMost'
  BY DEF OneEditAtMost, ReloadReads
<1>8. QED
  BY <1>5, <1>6, <1>7

(* A fetch is answered: a clean answer restores the screen for sure, any   *)
(* other may show an edit that is under way, or hide one.                  *)
LEMMA ShowSteps ==
  ASSUME MaxChanges \in Nat, RowInvariant, NEW i \in DOMAIN reloads, ReloadAnswers(i)
  PROVE  RowInvariant'
<1> USE RowTypes DEF RowInvariant
<1>1. /\ Len(reloads) \in Nat /\ DOMAIN reloads = 1..Len(reloads)
      /\ reloads[i] \in CellAnswer
  BY LenProperties
<1>2. reloads' = RemoveAt(reloads, i)
  BY DEF ReloadAnswers
<1>3. /\ reloads' \in Seq(CellAnswer)
      /\ Len(reloads') = Len(reloads) - 1
      /\ \A j \in 1..(Len(reloads) - 1) :
           reloads'[j] = IF j < i THEN reloads[j] ELSE reloads[j + 1]
  BY <1>1, <1>2, RemoveAtSeq
<1>4. DOMAIN reloads' = 1..(Len(reloads) - 1)
  BY <1>3, LenProperties
<1>5. cell' \in Values /\ reasons' \subseteq {"overlap", "lost", "race", "others"}
  BY <1>1 DEF ReloadAnswers, CellAnswer
<1>6. RowTypeOK'
  BY <1>3, <1>5 DEF ReloadAnswers, RowTypeOK, CellPatch, CellAnswer
<1>7. CleanReads'
  <2>1. SUFFICES ASSUME NEW j \in DOMAIN reloads', reloads'[j].clean
                 PROVE  patches' = <<>> /\ reloads'[j].value = stored'
    BY DEF CleanReads
  <2>2. PICK k \in DOMAIN reloads : reloads'[j] = reloads[k]
    <3>1. j \in 1..(Len(reloads) - 1)
      BY <1>4
    <3>2. j \in DOMAIN reloads /\ j + 1 \in DOMAIN reloads
      BY <1>1, <3>1
    <3>. QED  BY <1>3, <3>1, <3>2
  <2>. QED  BY <2>1, <2>2 DEF CleanReads, ReloadAnswers
<1>8. OneEditAtMost'
  <2>1. SUFFICES ASSUME reasons' = {} PROVE OneEditAtMost'
    BY DEF OneEditAtMost
  <2>2. CASE Taken(i)
    <3>1. reloads[i].clean /\ cell' = reloads[i].value
      BY <2>1, <2>2 DEF ReloadAnswers
    <3>2. patches = <<>> /\ cell' = stored
      BY <3>1 DEF CleanReads
    <3>. QED  BY <3>2 DEF OneEditAtMost, ReloadAnswers
  <2>3. CASE ~Taken(i)
    BY <2>1, <2>3 DEF OneEditAtMost, ReloadAnswers
  <2>. QED  BY <2>2, <2>3
<1>9. QED
  BY <1>6, <1>7, <1>8

LEMMA RowStutters ==
  ASSUME RowInvariant, UNCHANGED rowVars
  PROVE  RowInvariant'
  BY DEF RowInvariant, RowTypeOK, CleanReads, OneEditAtMost, rowVars

LEMMA RowSteps ==
  ASSUME MaxChanges \in Nat, RowInvariant, [RowNext]_rowVars
  PROVE  RowInvariant'
<1>1. CASE UNCHANGED rowVars
  BY <1>1, RowStutters
<1>2. CASE \E v \in Values : EditCell(v) \/ OthersEdit(v)
  BY <1>2, EditSteps, OthersSteps
<1>3. CASE \E i \in DOMAIN patches : PatchArrives(i) \/ PatchSucceeds(i) \/ PatchFails(i)
  BY <1>3, ArriveSteps, ReloadSteps
<1>4. CASE Reload
  BY <1>4, RefetchSteps
<1>5. CASE \E i \in DOMAIN reloads : ReloadReads(i) \/ ReloadAnswers(i)
  BY <1>5, ReadSteps, ShowSteps
<1>6. QED
  BY <1>1, <1>2, <1>3, <1>4, <1>5 DEF RowNext

(* The row of handleToggle and handleStatusChange: when nothing is under   *)
(* way and nothing has interfered, the cell shows what the server has.     *)
THEOREM RowsAreTrue ==
  ASSUME MaxChanges \in Nat
  PROVE  RowSpec => []RowIsTrue
<1>1. RowInit => RowInvariant
  BY RowInitially
<1>2. RowInvariant /\ [RowNext]_rowVars => RowInvariant'
  BY RowSteps
<1>3. RowInvariant => RowIsTrue
  <2>1. SUFFICES ASSUME RowInvariant, patches = <<>>, reasons = {} PROVE cell = stored
    BY DEF RowIsTrue
  <2>. QED  BY <2>1, EmptySeq DEF RowInvariant, OneEditAtMost
<1>4. QED
  BY <1>1, <1>2, <1>3, PTL DEF RowSpec
-----------------------------------------------------------------------------
(* CascaderLoader. *)

LoaderConstants ==
  /\ LastPage \in Nat /\ Stub \in 1..LastPage
  /\ MaxRequests \in Nat /\ MaxResets \in Nat

(* The part of LevelIsSound that an abort keeps.                           *)
Orderly(l) == l \in Level /\ KnownRequests(l) /\ OfItsGeneration(l)
-----------------------------------------------------------------------------
(* The functions on one level. *)

(* After an abort no request of the level counts any more.                 *)
LEMMA AbortIsOrderly ==
  ASSUME LoaderConstants, NEW l, Orderly(l)
  PROVE  /\ Orderly(AbortKey(l))
         /\ AbortKey(l).controller = 0 /\ AbortKey(l).latest = l.latest
         /\ AbortKey(l).generation = l.generation
         /\ AbortKey(l).loading = l.loading
         /\ \A r \in AbortKey(l).requests : r.aborted
<1> DEFINE Cut(r) == IF r.id = l.controller THEN [r EXCEPT !.aborted = TRUE] ELSE r
           a == AbortKey(l)
<1>1. l \in Level /\ KnownRequests(l) /\ OfItsGeneration(l)
  BY DEF Orderly
<1>2. a.requests = {Cut(r) : r \in l.requests}
  BY <1>1 DEF AbortKey, Level
<1>3. a.controller = 0 /\ a.latest = l.latest /\ a.generation = l.generation
      /\ a.loading = l.loading /\ a.nodes = l.nodes
  BY <1>1 DEF AbortKey, Level
<1>4. \A r \in l.requests : /\ Cut(r) \in Request /\ Cut(r).id = r.id /\ Cut(r).aborted
  <2>1. \A r \in l.requests : r \in Request
    BY <1>1 DEF Level
  <2>2. \A r \in Request : [r EXCEPT !.aborted = TRUE] \in Request
                           /\ [r EXCEPT !.aborted = TRUE].id = r.id
                           /\ [r EXCEPT !.aborted = TRUE].aborted
    BY DEF Request
  <2>. QED  BY <1>1, <2>1, <2>2 DEF KnownRequests
<1>5. a \in Level
  <2>1. a.requests \subseteq Request
    BY <1>2, <1>4
  <2>2. (IF l.controller = 0 THEN l.inflight ELSE None) \in Signature /\ 0 \in Ids
    BY <1>1 DEF Level, Signature, Ids, LoaderConstants
  <2>. QED  BY <1>1, <1>2, <2>1, <2>2 DEF AbortKey, Level
<1>6. KnownRequests(a)
  <2> HIDE DEF Cut, a
  <2>1. \A r \in a.requests : r.id \in 1..l.latest /\ r.aborted
    BY <1>1, <1>2, <1>4 DEF KnownRequests
  <2>2. \A r, s \in a.requests : r.id = s.id => r = s
    BY <1>1, <1>2, <1>4 DEF KnownRequests
  <2>. QED  BY <1>3, <2>1, <2>2 DEF KnownRequests
<1>7. OfItsGeneration(a)
  BY <1>1, <1>2, <1>3, <1>4 DEF OfItsGeneration
<1>. QED  BY <1>2, <1>3, <1>4, <1>5, <1>6, <1>7 DEF Orderly

(* A load replaces what was under way by a request of its own.             *)
LEMMA RunLoadIsSound ==
  ASSUME LoaderConstants, NEW l \in Level, LevelIsSound(l), l.latest <= MaxRequests,
         NEW cursor \in 0..LastPage, NEW append \in BOOLEAN,
         l.generation \in 0..MaxResets
  PROVE  /\ RunLoad(l, cursor, append) \in Level
         /\ LevelIsSound(RunLoad(l, cursor, append))
         /\ RunLoad(l, cursor, append).generation = l.generation
<1> DEFINE a == AbortKey(l)
           id == l.latest + 1
           new == [id |-> id, append |-> append, cursor |-> cursor,
                   aborted |-> FALSE, generation |-> l.generation]
           b == RunLoad(l, cursor, append)
<1>1. CASE l.inflight = <<append, cursor>>
  BY <1>1 DEF RunLoad
<1>2. CASE l.inflight # <<append, cursor>>
  <2>1. /\ Orderly(a) /\ a.controller = 0 /\ a.latest = l.latest
        /\ a.generation = l.generation /\ \A r \in a.requests : r.aborted
    BY AbortIsOrderly DEF LevelIsSound, Orderly
  <2>2. id \in Ids /\ id # 0 /\ new \in Request /\ <<append, cursor>> \in Signature
    BY DEF Level, Ids, Request, Signature, LoaderConstants
  <2>3. b = [a EXCEPT !.controller = id, !.latest = id,
                      !.inflight = <<append, cursor>>, !.entry = TRUE,
                      !.loading = TRUE, !.error = FALSE,
                      !.requests = @ \cup {new}]
    BY <1>2 DEF RunLoad
  <2>4. a \in Level
    BY <2>1 DEF Orderly
  <2> HIDE DEF a, b, new
  <2>5. /\ b.controller = id /\ b.latest = id /\ b.loading = TRUE
        /\ b.requests = a.requests \cup {new}
        /\ b.nodes = a.nodes /\ b.generation = a.generation
    BY <2>3, <2>4 DEF Level
  <2>6. b \in Level
    BY <2>2, <2>3, <2>4 DEF Level
  <2>7. new.id = id /\ new.aborted = FALSE /\ new.generation = l.generation
    BY DEF new
  <2>8. KnownRequests(b)
    <3>1. \A r \in a.requests : r.id \in 1..l.latest /\ r.aborted
      BY <2>1 DEF Orderly, KnownRequests
    <3>2. l.latest \in Nat
      BY DEF Level, Ids
    <3>. QED  BY <2>1, <2>5, <2>7, <3>1, <3>2 DEF KnownRequests, Orderly
  <2>9. OfItsGeneration(b) /\ Alive(b)
    BY <2>1, <2>5, <2>7 DEF OfItsGeneration, Alive, Orderly
  <2>. QED  BY <2>1, <2>5, <2>6, <2>8, <2>9 DEF LevelIsSound, b
<1>. QED  BY <1>1, <1>2

(* An answered request leaves; only if it is not stale does the level go   *)
(* without one.                                                            *)
LEMMA SettleIsOrderly ==
  ASSUME LoaderConstants, NEW l \in Level, LevelIsSound(l), NEW r \in l.requests
  PROVE  /\ Orderly(Settle(l, r))
         /\ Settle(l, r).generation = l.generation
         /\ Stale(l, r) => LevelIsSound(Settle(l, r))
         /\ ~Stale(l, r) => r.generation = l.generation
<1> DEFINE a == Settle(l, r)
<1>1. KnownRequests(l) /\ OfItsGeneration(l) /\ Alive(l) /\ l.requests \subseteq Request
  BY DEF LevelIsSound, Level
<1>2. /\ a.requests = l.requests \ {r} /\ a.nodes = l.nodes
      /\ a.controller = IF l.controller = r.id THEN 0 ELSE l.controller
      /\ a.latest = l.latest /\ a.generation = l.generation /\ a.loading = l.loading
  BY DEF Settle, Level
<1>3. a \in Level
  <2>1. /\ (IF l.inflight = <<r.append, r.cursor>> THEN None ELSE l.inflight) \in Signature
        /\ (IF l.controller = r.id THEN 0 ELSE l.controller) \in Ids
    BY DEF Level, Signature, Ids, LoaderConstants
  <2>. QED  BY <2>1 DEF Settle, Level
<1>4. KnownRequests(a) /\ OfItsGeneration(a)
  <2>1. \A s \in a.requests : s.id # r.id /\ s.id \in 1..l.latest
    BY <1>1, <1>2 DEF KnownRequests
  <2>. QED  BY <1>1, <1>2, <2>1 DEF KnownRequests, OfItsGeneration
<1>5. ASSUME Stale(l, r) PROVE Alive(a)
  <2>1. r.id # l.controller
    BY <1>1, <1>5 DEF Stale, KnownRequests
  <2>. QED  BY <1>1, <1>2, <2>1 DEF Alive
<1>6. ASSUME ~Stale(l, r) PROVE r.generation = l.generation
  BY <1>1, <1>6 DEF Stale, OfItsGeneration
<1>. QED  BY <1>2, <1>3, <1>4, <1>5, <1>6 DEF Orderly, LevelIsSound

(* A page replaces the level, or is added to it.                           *)
LEMMA PageIsSound ==
  ASSUME LoaderConstants, NEW l, Orderly(l), NEW r \in Request,
         r.generation = l.generation
  PROVE  /\ WithPage(l, r) \in Level /\ LevelIsSound(WithPage(l, r))
         /\ WithPage(l, r).generation = l.generation
<1> DEFINE p == PageOf(r.cursor)
           kept == IF r.append THEN l.nodes ELSE {}
           node == [page |-> p, generation |-> r.generation, resolved |-> FALSE]
           new == {n \in {node} : p \notin {m.page : m \in kept}}
           b == WithPage(l, r)
<1>1. l \in Level /\ KnownRequests(l) /\ OfItsGeneration(l)
  BY DEF Orderly
<1>2. p \in 1..LastPage /\ NextCursor(p) \in 0..LastPage
  BY DEF PageOf, NextCursor, Request, LoaderConstants
<1>3. /\ IsFiniteSet(kept) /\ IsFiniteSet({node}) /\ kept \subseteq Node
      /\ \A n \in kept : ~n.resolved => n.generation = l.generation
  BY <1>1, FS_EmptySet, FS_Singleton DEF OfItsGeneration, Level
<1>4. new \subseteq {node} /\ node \in Node /\ node.generation = l.generation
  BY <1>2 DEF Node, Request
<1>5. /\ IsFiniteSet(kept \cup new) /\ kept \cup new \subseteq Node
      /\ \A n \in kept \cup new : ~n.resolved => n.generation = l.generation
  <2> HIDE DEF kept, new, node
  <2>1. IsFiniteSet(new)
    BY <1>3, <1>4, FS_Subset
  <2>. QED  BY <1>3, <1>4, <2>1, FS_Union
<1>6. b = [l EXCEPT !.nodes = kept \cup new, !.entry = TRUE,
                    !.loading = FALSE, !.error = FALSE,
                    !.hasMore = NextCursor(p) # 0, !.cursor = NextCursor(p),
                    !.moreLatch = IF r.append THEN @ ELSE None,
                    !.cut = FALSE]
  BY DEF WithPage
<1>7. (IF r.append THEN l.moreLatch ELSE None) \in Latch
  BY <1>1 DEF Level, Latch
<1> HIDE DEF kept, new, p, b
<1>8. b \in Level
  BY ZenonT(30), <1>1, <1>2, <1>5, <1>6, <1>7 DEF Level
<1>9. /\ b.nodes = kept \cup new /\ b.loading = FALSE /\ b.generation = l.generation
      /\ b.requests = l.requests /\ b.controller = l.controller /\ b.latest = l.latest
  BY <1>1, <1>6 DEF Level
<1>10. LevelIsSound(b)
  BY <1>1, <1>5, <1>9 DEF LevelIsSound, KnownRequests, OfItsGeneration, Alive
<1>. QED  BY <1>8, <1>9, <1>10 DEF b

(* A level without entry and nodes is as good as new.                      *)
LEMMA UnloadedIsSound ==
  ASSUME LoaderConstants, NEW l \in Level, KnownRequests(l), OfItsGeneration(l)
  PROVE  /\ Unloaded(l) \in Level /\ LevelIsSound(Unloaded(l))
         /\ Unloaded(l).nodes = {} /\ Unloaded(l).loading = FALSE
         /\ Unloaded(l).requests = l.requests
         /\ Unloaded(l).controller = l.controller
         /\ Unloaded(l).latest = l.latest
         /\ Unloaded(l).generation = l.generation
<1> DEFINE b == Unloaded(l)
<1>1. b \in Level
  <2>1. 0 \in 0..LastPage /\ {} \in SUBSET Node
    BY DEF LoaderConstants
  <2>. QED  BY <2>1 DEF Unloaded, Level
<1>2. /\ b.nodes = {} /\ b.loading = FALSE /\ b.requests = l.requests
      /\ b.controller = l.controller /\ b.latest = l.latest
      /\ b.generation = l.generation
  BY DEF Unloaded, Level
<1>3. LevelIsSound(b)
  BY <1>2, FS_EmptySet DEF LevelIsSound, KnownRequests, OfItsGeneration, Alive
<1>. QED  BY <1>1, <1>2, <1>3

(* Closing the popup: what is abandoned no longer loads.                   *)
LEMMA CancelIsSound ==
  ASSUME LoaderConstants, NEW l \in Level, LevelIsSound(l)
  PROVE  /\ CancelLoad(l) \in Level /\ LevelIsSound(CancelLoad(l))
         /\ CancelLoad(l).generation = l.generation
<1> DEFINE a == AbortKey(l)
           idle == [l EXCEPT !.inflight = None]
           stopped == [a EXCEPT !.loading = FALSE, !.cut = TRUE]
<1>1. /\ Orderly(a) /\ a.generation = l.generation /\ a.loading = l.loading
  BY AbortIsOrderly DEF LevelIsSound, Orderly
<1>2. a \in Level /\ KnownRequests(a) /\ OfItsGeneration(a)
  BY <1>1 DEF Orderly
<1>3. CASE l.controller = 0
  <2>1. idle \in Level
    BY DEF Level, Signature
  <2>2. /\ idle.nodes = l.nodes /\ idle.requests = l.requests
        /\ idle.controller = l.controller /\ idle.latest = l.latest
        /\ idle.generation = l.generation /\ idle.loading = l.loading
    BY DEF Level
  <2>3. LevelIsSound(idle)
    BY <2>2 DEF LevelIsSound, KnownRequests, OfItsGeneration, Alive
  <2>. QED  BY <1>3, <2>1, <2>2, <2>3 DEF CancelLoad
<1>4. CASE l.controller # 0 /\ ~l.loading
  BY <1>1, <1>2, <1>4 DEF CancelLoad, LevelIsSound, Alive
<1>5. CASE l.controller # 0 /\ l.loading /\ l.nodes = {}
  <2>1. /\ Unloaded(a) \in Level /\ LevelIsSound(Unloaded(a))
        /\ Unloaded(a).generation = a.generation
    BY <1>2, UnloadedIsSound
  <2>. QED  BY <1>1, <1>5, <2>1 DEF CancelLoad
<1>6. CASE l.controller # 0 /\ l.loading /\ l.nodes # {}
  <2>1. CancelLoad(l) = stopped
    BY <1>6 DEF CancelLoad
  <2> HIDE DEF a
  <2>2. stopped \in Level
    BY <1>2 DEF Level
  <2>3. /\ stopped.nodes = a.nodes /\ stopped.requests = a.requests
        /\ stopped.controller = a.controller /\ stopped.latest = a.latest
        /\ stopped.generation = a.generation /\ stopped.loading = FALSE
    BY <1>2 DEF Level
  <2>4. LevelIsSound(stopped)
    BY <1>2, <2>3 DEF LevelIsSound, KnownRequests, OfItsGeneration, Alive
  <2>. QED  BY <1>1, <2>1, <2>2, <2>3, <2>4
<1>. QED  BY <1>3, <1>4, <1>5, <1>6

(* A reset level is empty and of the next generation, also when a request  *)
(* number is spent on it.                                                  *)
LEMMA ResetIsSound ==
  ASSUME LoaderConstants, NEW l \in Level, LevelIsSound(l),
         l.generation + 1 \in 0..MaxResets, l.latest <= MaxRequests
  PROVE  LET spent == Invalidated(l)
         IN /\ Reset(l) \in Level /\ LevelIsSound(Reset(l))
            /\ Reset(l).generation = l.generation + 1
            /\ Reset(l).latest = l.latest
            /\ spent \in Level /\ LevelIsSound(spent)
            /\ spent.generation = l.generation + 1
            /\ spent.latest = l.latest + 1
<1> DEFINE a == AbortKey(l)
           b == Reset(l)
           spent == Invalidated(l)
<1>1. /\ Orderly(a) /\ a.generation = l.generation /\ a.latest = l.latest
      /\ a.controller = 0 /\ \A r \in a.requests : r.aborted
  BY AbortIsOrderly DEF LevelIsSound, Orderly
<1>2. a \in Level /\ KnownRequests(a) /\ OfItsGeneration(a)
  BY <1>1 DEF Orderly
<1>3. b = [Unloaded(a) EXCEPT !.moreLatch = None, !.inflight = None, !.generation = @ + 1]
  BY DEF Reset
<1>4. Unloaded(a) \in Level /\ Unloaded(a).nodes = {} /\ Unloaded(a).loading = FALSE
      /\ Unloaded(a).requests = a.requests /\ Unloaded(a).controller = 0
      /\ Unloaded(a).latest = l.latest /\ Unloaded(a).generation = l.generation
  BY <1>1, <1>2, UnloadedIsSound
<1>5. None \in Latch /\ None \in Signature
  BY DEF Latch, Signature
<1>6. l.latest \in Nat /\ l.latest + 1 \in Ids
  BY DEF Level, Ids, LoaderConstants
<1> HIDE DEF a, b
<1>7. b \in Level /\ b.nodes = {} /\ b.loading = FALSE /\ b.requests = a.requests
      /\ b.controller = 0 /\ b.latest = l.latest /\ b.generation = l.generation + 1
  BY <1>3, <1>4, <1>5 DEF Level
<1>8. spent = [b EXCEPT !.latest = @ + 1]
  BY DEF Invalidated, b
<1> HIDE DEF spent
<1>9. spent \in Level /\ spent.nodes = {} /\ spent.loading = FALSE
      /\ spent.requests = a.requests /\ spent.controller = 0
      /\ spent.latest = l.latest + 1 /\ spent.generation = l.generation + 1
  BY <1>6, <1>7, <1>8 DEF Level
<1>10. LevelIsSound(b)
  BY <1>1, <1>2, <1>7, FS_EmptySet DEF LevelIsSound, KnownRequests, OfItsGeneration, Alive
<1>11. LevelIsSound(spent)
  <2>1. \A r \in a.requests : r.id \in 1..(l.latest + 1)
    BY <1>1, <1>2, <1>6 DEF KnownRequests
  <2>. QED  BY <1>1, <1>2, <1>9, <2>1, FS_EmptySet
              DEF LevelIsSound, KnownRequests, OfItsGeneration, Alive
<1>. QED  BY <1>7, <1>9, <1>10, <1>11 DEF b, spent
-----------------------------------------------------------------------------
(* All levels. *)

Sound(levels) ==
  levels \in [Keys -> Level] /\ \A k \in Keys : LevelIsSound(levels[k])

LEMMA EnsuredIsSound ==
  ASSUME LoaderConstants, NEW levels, Sound(levels), NEW screen, NEW isOpen,
         \A k \in Keys : levels[k].latest <= MaxRequests
  PROVE  /\ Sound(Ensured(levels, screen, isOpen))
         /\ \A k \in Keys :
              Ensured(levels, screen, isOpen)[k].generation = levels[k].generation
<1>1. SUFFICES ASSUME NEW k \in Keys
               PROVE  LET l == EnsureLevel(levels[k])
                      IN l \in Level /\ LevelIsSound(l)
                         /\ l.generation = levels[k].generation
  BY DEF Ensured, Sound
<1>2. levels[k] \in Level /\ LevelIsSound(levels[k]) /\ levels[k].latest <= MaxRequests
  BY DEF Sound
<1>3. levels[k].generation \in 0..MaxResets
  BY <1>2 DEF Level
<1>4. 0 \in 0..LastPage /\ FALSE \in BOOLEAN
  BY DEF LoaderConstants
<1>. QED  BY <1>2, <1>3, <1>4, RunLoadIsSound DEF EnsureLevel

LEMMA RequestsLeft ==
  ASSUME LoaderConstants, LoaderInvariant, MayRequest
  PROVE  /\ Sound(level)
         /\ \A k \in Keys : level[k].latest < MaxRequests /\ level[k].latest \in Nat
BY DEF LoaderInvariant, LoaderTypeOK, Sound, MayRequest, Level, Ids

LEMMA LoaderInitially ==
  ASSUME LoaderConstants, LoaderInit
  PROVE  LoaderInvariant
<1> DEFINE fresh ==
       [nodes |-> {}, entry |-> FALSE, loading |-> FALSE, error |-> FALSE,
        hasMore |-> FALSE, cursor |-> 0, controller |-> 0, latest |-> 0,
        inflight |-> None, moreLatch |-> None, requests |-> {},
        generation |-> 0, cut |-> FALSE]
<1>1. level = [k \in Keys |-> fresh]
  BY DEF LoaderInit
<1>2. fresh \in Level
  <2>1. 0 \in 0..LastPage /\ 0 \in Ids /\ 0 \in 0..MaxResets
    BY DEF LoaderConstants, Ids
  <2>2. None \in Signature /\ None \in Latch
    BY DEF Signature, Latch
  <2>. QED  BY <2>1, <2>2 DEF Level
<1>3. LevelIsSound(fresh)
  BY FS_EmptySet DEF LevelIsSound, KnownRequests, OfItsGeneration, Alive
<1>5. fresh.generation <= resets
  BY DEF LoaderInit
<1> HIDE DEF fresh
<1>4. LoaderTypeOK
  <2>1. level \in [Keys -> Level]
    BY <1>1, <1>2
  <2>2. resets \in 0..MaxResets
    BY DEF LoaderInit, LoaderConstants
  <2>. QED  BY <2>1, <2>2 DEF LoaderInit, LoaderTypeOK
<1>. QED  BY <1>1, <1>3, <1>4, <1>5 DEF LoaderInvariant

(* One level changes, to a sound one of the same generation.               *)
LEMMA OneLevelChanges ==
  ASSUME LoaderInvariant, NEW k \in Keys, NEW l \in Level, LevelIsSound(l),
         l.generation = level[k].generation,
         level' = [level EXCEPT ![k] = l], UNCHANGED resets,
         enabled' \in BOOLEAN, onScreen' \subseteq Keys, attempted' \subseteq Keys,
         resolving' \subseteq Keys \X (0..MaxResets), known' \subseteq Keys
  PROVE  LoaderInvariant'
BY DEF LoaderInvariant, LoaderTypeOK

(* All levels change, to sound ones of the generations they have.          *)
LEMMA AllLevelsChange ==
  ASSUME LoaderInvariant, Sound(level'), resets' \in 0..MaxResets,
         \A k \in Keys : level'[k].generation <= resets',
         enabled' \in BOOLEAN, onScreen' \subseteq Keys, attempted' \subseteq Keys,
         resolving' \subseteq Keys \X (0..MaxResets), known' \subseteq Keys
  PROVE  LoaderInvariant'
BY DEF LoaderInvariant, LoaderTypeOK, Sound
-----------------------------------------------------------------------------
(* The steps. *)

LEMMA OpenKeeps ==
  ASSUME LoaderConstants, LoaderInvariant, Open
  PROVE  LoaderInvariant'
<1>1. /\ Sound(level)
      /\ \A k \in Keys : level[k].latest < MaxRequests /\ level[k].latest \in Nat
  BY RequestsLeft DEF Open
<1>2. /\ Sound(level')
      /\ \A k \in Keys : level'[k].generation = level[k].generation
  <2>1. level' = Ensured(level, onScreen, enabled')
    BY DEF Open
  <2>2. \A k \in Keys : level[k].latest <= MaxRequests
    BY <1>1 DEF LoaderConstants
  <2>. QED  BY <1>1, <2>1, <2>2, EnsuredIsSound
<1>3. resolving' \subseteq Keys \X (0..MaxResets) /\ attempted' \subseteq Keys
  <2>1. \A k \in Keys : level[k].generation \in 0..MaxResets
    BY <1>1 DEF Sound, Level
  <2>. QED  BY <2>1 DEF Open, LoaderInvariant, LoaderTypeOK
<1>4. /\ enabled' \in BOOLEAN /\ UNCHANGED <<onScreen, known, resets>>
      /\ \A k \in Keys : level'[k].generation <= resets'
  BY <1>2 DEF Open, LoaderInvariant
<1>. QED  BY <1>2, <1>3, <1>4, AllLevelsChange DEF LoaderInvariant, LoaderTypeOK

LEMMA CloseKeeps ==
  ASSUME LoaderConstants, LoaderInvariant, Close
  PROVE  LoaderInvariant'
<1>1. Sound(level)
  BY DEF Sound, LoaderInvariant, LoaderTypeOK
<1>2. /\ Sound(level')
      /\ \A k \in Keys : level'[k].generation = level[k].generation
  BY <1>1, CancelIsSound DEF Close, Sound
<1>. QED  BY <1>2, AllLevelsChange DEF Close, LoaderInvariant, LoaderTypeOK

LEMMA DrillKeeps ==
  ASSUME LoaderConstants, LoaderInvariant, NEW k \in Keys, Drill(k)
  PROVE  LoaderInvariant'
<1>1. /\ Sound(level)
      /\ \A j \in Keys : level[j].latest < MaxRequests /\ level[j].latest \in Nat
  BY RequestsLeft DEF Drill
<1>2. /\ Sound(level')
      /\ \A j \in Keys : level'[j].generation = level[j].generation
  <2>1. level' = Ensured(level, onScreen', enabled)
    BY DEF Drill, LoaderInvariant, LoaderTypeOK
  <2>2. \A j \in Keys : level[j].latest <= MaxRequests
    BY <1>1 DEF LoaderConstants
  <2>. QED  BY <1>1, <2>1, <2>2, EnsuredIsSound
<1>. QED  BY <1>2, AllLevelsChange DEF Drill, LoaderInvariant, LoaderTypeOK

LEMMA BackKeeps ==
  ASSUME LoaderInvariant, NEW k \in Keys, Back(k)
  PROVE  LoaderInvariant'
BY DEF Back, LoaderInvariant, LoaderTypeOK

(* The steps that send a request for one level.                            *)
LEMMA LoadKeeps ==
  ASSUME LoaderConstants, LoaderInvariant, NEW k \in Keys,
         Prefetch(k) \/ LoadMore(k) \/ RetryLevel(k)
  PROVE  LoaderInvariant'
<1> DEFINE more == [level[k] EXCEPT !.moreLatch = MoreSignature(level[k])]
           again == [level[k] EXCEPT !.moreLatch = None]
<1>1. /\ level[k] \in Level /\ LevelIsSound(level[k]) /\ level[k].latest <= MaxRequests
      /\ level[k].generation \in 0..MaxResets /\ level[k].cursor \in 0..LastPage
  <2>1. level[k] \in Level /\ LevelIsSound(level[k]) /\ level[k].latest < MaxRequests
        /\ level[k].latest \in Nat
    BY RequestsLeft DEF Prefetch, LoadMore, RetryLevel, Sound
  <2>. QED  BY <2>1 DEF Level, LoaderConstants
<1>2. 0 \in 0..LastPage /\ FALSE \in BOOLEAN /\ TRUE \in BOOLEAN
  BY DEF LoaderConstants
<1>3. MoreSignature(level[k]) \in Latch /\ None \in Latch
  BY <1>1, FS_CardinalityType DEF MoreSignature, Latch, LevelIsSound, OfItsGeneration
<1>4. ASSUME NEW latch \in Latch
      PROVE  LET l == [level[k] EXCEPT !.moreLatch = latch]
             IN /\ l \in Level /\ LevelIsSound(l) /\ l.latest = level[k].latest
                /\ l.generation = level[k].generation
  <2> DEFINE l == [level[k] EXCEPT !.moreLatch = latch]
  <2>1. l \in Level
    BY <1>1 DEF Level
  <2>2. /\ l.nodes = level[k].nodes /\ l.requests = level[k].requests
        /\ l.controller = level[k].controller /\ l.latest = level[k].latest
        /\ l.generation = level[k].generation /\ l.loading = level[k].loading
    BY <1>1 DEF Level
  <2> HIDE DEF l
  <2>3. LevelIsSound(l)
    BY <1>1, <2>2 DEF LevelIsSound, KnownRequests, OfItsGeneration, Alive
  <2>. QED  BY <2>1, <2>2, <2>3 DEF l
<1>5. /\ more \in Level /\ LevelIsSound(more) /\ more.latest = level[k].latest
      /\ more.generation = level[k].generation
  BY <1>3, <1>4
<1>6. /\ again \in Level /\ LevelIsSound(again) /\ again.latest = level[k].latest
      /\ again.generation = level[k].generation
  BY <1>3, <1>4
<1> HIDE DEF more, again
<1>7. PICK l \in Level : /\ LevelIsSound(l) /\ l.generation = level[k].generation
                         /\ level' = [level EXCEPT ![k] = l]
  <2>1. CASE Prefetch(k)
    <3>1. level' = [level EXCEPT ![k] = EnsureLevel(level[k])]
      BY <2>1 DEF Prefetch
    <3>. QED  BY <1>1, <1>2, <3>1, RunLoadIsSound DEF EnsureLevel
  <2>2. CASE LoadMore(k)
    <3>1. level' = [level EXCEPT ![k] = RunLoad(more, level[k].cursor, TRUE)]
      BY <2>2 DEF LoadMore, more
    <3>. QED  BY <1>1, <1>2, <1>5, <3>1, RunLoadIsSound
  <2>3. CASE RetryLevel(k)
    <3>1. level' = [level EXCEPT ![k] =
                      IF level[k].nodes = {} THEN RunLoad(again, 0, FALSE)
                      ELSE RunLoad(again, level[k].cursor, TRUE)]
      BY <2>3 DEF RetryLevel, Retry, again
    <3>. QED  BY <1>1, <1>2, <1>6, <3>1, RunLoadIsSound
  <2>. QED  BY <2>1, <2>2, <2>3
<1>8. UNCHANGED <<enabled, onScreen, attempted, resolving, known, resets>>
  BY DEF Prefetch, LoadMore, RetryLevel
<1>. QED  BY <1>7, <1>8, OneLevelChanges DEF LoaderInvariant, LoaderTypeOK

LEMMA InvalidateKeeps ==
  ASSUME LoaderConstants, LoaderInvariant, NEW k \in Keys, InvalidateLevel(k)
  PROVE  LoaderInvariant'
<1> DEFINE spent == Invalidated(level[k])
           levels == [level EXCEPT ![k] = spent]
<1>1. /\ Sound(level)
      /\ \A j \in Keys : level[j].latest < MaxRequests /\ level[j].latest \in Nat
  BY RequestsLeft DEF InvalidateLevel
<1>2. resets' = resets + 1 /\ resets' \in 0..MaxResets /\ resets \in Nat
  BY DEF InvalidateLevel, LoaderInvariant, LoaderTypeOK, LoaderConstants
<1>3. \A j \in Keys : level[j].generation <= resets /\ level[j].generation \in Nat
  BY <1>1 DEF LoaderInvariant, Sound, Level
<1>4. /\ spent \in Level /\ LevelIsSound(spent)
      /\ spent.generation = level[k].generation + 1
      /\ spent.latest = level[k].latest + 1
  <2>1. level[k] \in Level /\ LevelIsSound(level[k]) /\ level[k].latest <= MaxRequests
    BY <1>1 DEF Sound, LoaderConstants
  <2>2. level[k].generation + 1 \in 0..MaxResets
    BY <1>2, <1>3 DEF LoaderConstants
  <2>. QED  BY <2>1, <2>2, ResetIsSound
<1>5. level' = Ensured(levels, onScreen, enabled)
  BY DEF InvalidateLevel
<1> HIDE DEF spent
<1>6. /\ Sound(levels)
      /\ \A j \in Keys : /\ levels[j].latest <= MaxRequests
                         /\ levels[j].generation <= resets'
  BY <1>1, <1>2, <1>3, <1>4 DEF Sound, LoaderConstants
<1> HIDE DEF levels
<1>7. Sound(level') /\ \A j \in Keys : level'[j].generation <= resets'
  BY <1>5, <1>6, EnsuredIsSound
<1>. QED  BY <1>2, <1>7, AllLevelsChange DEF InvalidateLevel, LoaderInvariant, LoaderTypeOK

LEMMA ChangeLoadKeyKeeps ==
  ASSUME LoaderConstants, LoaderInvariant, ChangeLoadKey
  PROVE  LoaderInvariant'
<1> DEFINE levels == [k \in Keys |-> Reset(level[k])]
<1>1. /\ Sound(level)
      /\ \A k \in Keys : level[k].latest < MaxRequests /\ level[k].latest \in Nat
  BY RequestsLeft DEF ChangeLoadKey
<1>2. resets' = resets + 1 /\ resets' \in 0..MaxResets /\ resets \in Nat
  BY DEF ChangeLoadKey, LoaderInvariant, LoaderTypeOK, LoaderConstants
<1>3. \A k \in Keys : level[k].generation <= resets /\ level[k].generation \in Nat
  BY <1>1 DEF LoaderInvariant, Sound, Level
<1>4. \A k \in Keys :
        /\ Reset(level[k]) \in Level /\ LevelIsSound(Reset(level[k]))
        /\ Reset(level[k]).generation = level[k].generation + 1
        /\ Reset(level[k]).latest = level[k].latest
  <2> TAKE k \in Keys
  <2>1. level[k] \in Level /\ LevelIsSound(level[k]) /\ level[k].latest <= MaxRequests
    BY <1>1 DEF Sound, LoaderConstants
  <2>2. level[k].generation + 1 \in 0..MaxResets
    BY <1>2, <1>3 DEF LoaderConstants
  <2>. QED  BY <2>1, <2>2, ResetIsSound
<1>5. level' = Ensured(levels, onScreen, enabled)
  BY DEF ChangeLoadKey
<1>6. /\ Sound(levels)
      /\ \A k \in Keys : /\ levels[k].latest <= MaxRequests
                         /\ levels[k].generation <= resets'
  BY <1>1, <1>2, <1>3, <1>4 DEF Sound, LoaderConstants
<1> HIDE DEF levels
<1>7. Sound(level') /\ \A k \in Keys : level'[k].generation <= resets'
  BY <1>5, <1>6, EnsuredIsSound
<1>. QED  BY <1>2, <1>7, AllLevelsChange DEF ChangeLoadKey, LoaderInvariant, LoaderTypeOK
(* An answer or a failure: only one that is not stale changes the level.   *)
LEMMA AnswerKeeps ==
  ASSUME LoaderConstants, LoaderInvariant, NEW k \in Keys, NEW r \in level[k].requests,
         Answer(k, r) \/ Failure(k, r)
  PROVE  LoaderInvariant'
<1> DEFINE rest == Settle(level[k], r)
           broken == [rest EXCEPT !.entry = TRUE, !.loading = FALSE, !.error = TRUE]
<1>1. level[k] \in Level /\ LevelIsSound(level[k]) /\ r \in Request
  BY DEF LoaderInvariant, LoaderTypeOK, Level
<1>2. /\ Orderly(rest) /\ rest.generation = level[k].generation
      /\ Stale(level[k], r) => LevelIsSound(rest)
      /\ ~Stale(level[k], r) => r.generation = level[k].generation
  BY <1>1, SettleIsOrderly
<1>3. rest \in Level /\ KnownRequests(rest) /\ OfItsGeneration(rest)
  BY <1>2 DEF Orderly
<1>4. /\ broken \in Level /\ LevelIsSound(broken)
      /\ broken.generation = rest.generation
  <2> HIDE DEF rest
  <2>1. broken \in Level
    BY <1>3 DEF Level
  <2>2. /\ broken.nodes = rest.nodes /\ broken.requests = rest.requests
        /\ broken.controller = rest.controller /\ broken.latest = rest.latest
        /\ broken.generation = rest.generation /\ broken.loading = FALSE
    BY <1>3 DEF Level
  <2> HIDE DEF broken
  <2>3. LevelIsSound(broken)
    BY <1>3, <2>2 DEF LevelIsSound, KnownRequests, OfItsGeneration, Alive
  <2>. QED  BY <2>1, <2>2, <2>3
<1>5. PICK l \in Level : /\ LevelIsSound(l) /\ l.generation = level[k].generation
                         /\ level' = [level EXCEPT ![k] = l]
  <2>1. CASE Stale(level[k], r)
    <3>1. level' = [level EXCEPT ![k] = rest]
      BY <2>1 DEF Answer, Failure
    <3>. QED  BY <1>2, <1>3, <2>1, <3>1
  <2>2. CASE ~Stale(level[k], r) /\ Answer(k, r)
    <3>1. level' = [level EXCEPT ![k] = WithPage(rest, r)]
      BY <2>2 DEF Answer
    <3> HIDE DEF rest
    <3>2. /\ WithPage(rest, r) \in Level /\ LevelIsSound(WithPage(rest, r))
          /\ WithPage(rest, r).generation = rest.generation
      BY <1>1, <1>2, <2>2, PageIsSound
    <3>. QED  BY <1>2, <3>1, <3>2
  <2>3. CASE ~Stale(level[k], r) /\ Failure(k, r)
    <3>1. level' = [level EXCEPT ![k] = broken]
      BY <2>3 DEF Failure
    <3>. QED  BY <1>2, <1>4, <3>1
  <2>. QED  BY <2>1, <2>2, <2>3
<1>6. /\ UNCHANGED <<enabled, onScreen, attempted, resolving, resets>>
      /\ known' \subseteq Keys
  BY DEF Answer, Failure, LoaderInvariant, LoaderTypeOK
<1>. QED  BY <1>5, <1>6, OneLevelChanges DEF LoaderInvariant, LoaderTypeOK

LEMMA ResolveKeeps ==
  ASSUME LoaderConstants, LoaderInvariant, NEW k \in Keys, NEW g \in 0..MaxResets,
         Resolved(k, g) \/ ResolvedToNothing(k, g) \/ ResolveFails(k, g)
  PROVE  LoaderInvariant'
<1> DEFINE stub == [page |-> Stub, generation |-> g, resolved |-> TRUE]
           nodes == IF Stub \in Pages(level[k]) THEN level[k].nodes
                    ELSE level[k].nodes \cup {stub}
           l == [level[k] EXCEPT !.nodes = nodes]
<1>1. level[k] \in Level /\ LevelIsSound(level[k])
  BY DEF LoaderInvariant, LoaderTypeOK
<1>2. CASE Resolved(k, g)
  <2>1. stub \in Node /\ stub.resolved
    BY DEF Node, LoaderConstants
  <2>2. /\ IsFiniteSet(nodes) /\ nodes \subseteq Node
        /\ \A n \in nodes : ~n.resolved => n.generation = level[k].generation
    <3> HIDE DEF stub
    <3>1. IsFiniteSet(level[k].nodes) /\ level[k].nodes \subseteq Node
          /\ \A n \in level[k].nodes : ~n.resolved => n.generation = level[k].generation
      BY <1>1 DEF LevelIsSound, OfItsGeneration, Level
    <3>. QED  BY <2>1, <3>1, FS_AddElement
  <2> HIDE DEF nodes
  <2>3. l \in Level
    BY <1>1, <2>2 DEF Level
  <2>4. /\ l.nodes = nodes /\ l.requests = level[k].requests
        /\ l.controller = level[k].controller /\ l.latest = level[k].latest
        /\ l.generation = level[k].generation /\ l.loading = level[k].loading
    BY <1>1 DEF Level
  <2>5. level' = [level EXCEPT ![k] = l]
    BY <1>2 DEF Resolved, nodes
  <2> HIDE DEF l
  <2>6. LevelIsSound(l)
    BY <1>1, <2>2, <2>4 DEF LevelIsSound, KnownRequests, OfItsGeneration, Alive
  <2>7. /\ UNCHANGED <<enabled, onScreen, attempted, resets>>
        /\ resolving' \subseteq Keys \X (0..MaxResets) /\ known' \subseteq Keys
    BY <1>2 DEF Resolved, LoaderInvariant, LoaderTypeOK
  <2>. QED  BY <2>3, <2>4, <2>5, <2>6, <2>7, OneLevelChanges
              DEF LoaderInvariant, LoaderTypeOK
<1>3. CASE ResolvedToNothing(k, g) \/ ResolveFails(k, g)
  BY <1>3 DEF ResolvedToNothing, ResolveFails, LoaderInvariant, LoaderTypeOK
<1>. QED  BY <1>2, <1>3

LEMMA LoaderStep ==
  ASSUME LoaderConstants, LoaderInvariant, [LoaderNext]_loaderVars
  PROVE  LoaderInvariant'
<1>1. CASE Open \/ Close \/ ChangeLoadKey
  BY <1>1, OpenKeeps, CloseKeeps, ChangeLoadKeyKeeps
<1>2. ASSUME NEW k \in Keys, Drill(k) \/ Back(k) \/ InvalidateLevel(k)
      PROVE  LoaderInvariant'
  BY <1>2, DrillKeeps, BackKeeps, InvalidateKeeps
<1>3. ASSUME NEW k \in Keys, Prefetch(k) \/ LoadMore(k) \/ RetryLevel(k)
      PROVE  LoaderInvariant'
  BY <1>3, LoadKeeps
<1>4. ASSUME NEW k \in Keys, NEW g \in 0..MaxResets,
             Resolved(k, g) \/ ResolvedToNothing(k, g) \/ ResolveFails(k, g)
      PROVE  LoaderInvariant'
  BY <1>4, ResolveKeeps
<1>5. ASSUME NEW k \in Keys, NEW r \in level[k].requests, Answer(k, r) \/ Failure(k, r)
      PROVE  LoaderInvariant'
  BY <1>5, AnswerKeeps
<1>6. CASE UNCHANGED loaderVars
  BY <1>6 DEF loaderVars, LoaderInvariant, LoaderTypeOK
<1>7. \A pair \in resolving : pair[1] \in Keys /\ pair[2] \in 0..MaxResets
  BY DEF LoaderInvariant, LoaderTypeOK
<1>. QED  BY <1>1, <1>2, <1>3, <1>4, <1>5, <1>6, <1>7 DEF LoaderNext, Loads

LEMMA LoaderIsSound ==
  ASSUME LoaderConstants
  PROVE  LoaderSpec => []LoaderInvariant
<1>1. LoaderInit => LoaderInvariant
  BY LoaderInitially
<1>2. LoaderInvariant /\ [LoaderNext]_loaderVars => LoaderInvariant'
  BY LoaderStep
<1>. QED  BY <1>1, <1>2, PTL DEF LoaderSpec
-----------------------------------------------------------------------------
(* Whatever is aborted, invalidated, retried, closed and reopened, a level *)
(* that the cascader shows as loading has a request under way whose answer *)
(* the three guards of runLoad let in.                                     *)
THEOREM NoDeadLoad ==
  ASSUME LoaderConstants
  PROVE  LoaderSpec => []LoadingIsAlive
<1>1. LoaderInvariant => LoadingIsAlive
  <2> SUFFICES ASSUME LoaderInvariant, NEW k \in Keys, level[k].loading
               PROVE  \E r \in level[k].requests : ~Stale(level[k], r)
    BY DEF LoadingIsAlive
  <2>1. KnownRequests(level[k]) /\ Alive(level[k])
    BY DEF LoaderInvariant, LevelIsSound
  <2>2. PICK r \in level[k].requests : r.id = level[k].controller
    BY <2>1 DEF Alive
  <2>3. r.id \in 1..level[k].latest
    BY <2>1 DEF KnownRequests
  <2>4. r.id = level[k].latest /\ ~r.aborted
    BY <2>1, <2>2, <2>3 DEF KnownRequests
  <2>. QED  BY <2>4 DEF Stale
<1>. QED  BY <1>1, LoaderIsSound, PTL

(* No page that was asked for before an invalidation or a change of        *)
(* loadKey reaches the level, however late runLoad gets it.                *)
THEOREM NoLateNode ==
  ASSUME LoaderConstants
  PROVE  LoaderSpec => []NothingFromBefore
<1>1. LoaderInvariant => NothingFromBefore
  BY DEF LoaderInvariant, LevelIsSound, OfItsGeneration, NothingFromBefore
<1>. QED  BY <1>1, LoaderIsSound, PTL
-----------------------------------------------------------------------------
(* The pages of a level. *)

(* A level that does not load has only aborted requests, and is asking for *)
(* nothing.                                                                *)
LEMMA IdleIsQuiet ==
  ASSUME NEW l, KnownRequests(l), OneLoad(l), ~l.loading
  PROVE  /\ l.controller = 0 /\ l.inflight = None
         /\ \A r \in l.requests : r.aborted
<1>1. l.controller = 0 /\ l.inflight = None
  BY DEF OneLoad
<1>2. \A r \in l.requests : r.id # 0
  BY DEF KnownRequests
<1>. QED  BY <1>1, <1>2 DEF KnownRequests

(* An abort touches the requests, the controller and what is under way.    *)
LEMMA AbortLeavesPages ==
  ASSUME NEW l \in Level
  PROVE  LET a == AbortKey(l)
         IN /\ a.nodes = l.nodes /\ a.entry = l.entry /\ a.loading = l.loading
            /\ a.error = l.error /\ a.hasMore = l.hasMore /\ a.cursor = l.cursor
            /\ a.moreLatch = l.moreLatch /\ a.cut = l.cut /\ a.controller = 0
            /\ l.controller # 0 => a.inflight = None
BY DEF AbortKey, Level

(* A level is asked for its first page, or for the page at its cursor.     *)
LEMMA RunLoadIsWhole ==
  ASSUME LoaderConstants, NEW l \in Level, LevelIsSound(l), ~l.loading,
         OneLoad(l), InPageOrder(l),
         NEW cursor \in 0..LastPage, NEW append \in BOOLEAN,
         IF append THEN cursor = l.cursor /\ (cursor = 0 => l.moreLatch = None)
                   ELSE cursor = 0
  PROVE  LevelIsWhole(RunLoad(l, cursor, append))
<1> DEFINE a == AbortKey(l)
           id == l.latest + 1
           new == [id |-> id, append |-> append, cursor |-> cursor,
                   aborted |-> FALSE, generation |-> l.generation]
           b == RunLoad(l, cursor, append)
<1>1. l.inflight = None /\ l.inflight # <<append, cursor>>
  BY IdleIsQuiet DEF LevelIsSound, None
<1>2. /\ a \in Level /\ \A r \in a.requests : r.aborted
  BY AbortIsOrderly DEF LevelIsSound, Orderly
<1>3. /\ a.nodes = l.nodes /\ a.hasMore = l.hasMore /\ a.cursor = l.cursor
      /\ a.moreLatch = l.moreLatch
  BY AbortLeavesPages
<1>4. b = [a EXCEPT !.controller = id, !.latest = id,
                    !.inflight = <<append, cursor>>, !.entry = TRUE,
                    !.loading = TRUE, !.error = FALSE,
                    !.requests = @ \cup {new}]
  BY <1>1 DEF RunLoad
<1>5. new.append = append /\ new.cursor = cursor
  OBVIOUS
<1> HIDE DEF a, b, new
<1>6. /\ b.nodes = l.nodes /\ b.hasMore = l.hasMore /\ b.cursor = l.cursor
      /\ b.moreLatch = l.moreLatch /\ b.entry = TRUE /\ b.loading = TRUE
      /\ b.error = FALSE /\ b.inflight = <<append, cursor>>
      /\ b.controller = id /\ b.requests = a.requests \cup {new}
  BY <1>2, <1>3, <1>4 DEF Level
<1>7. id # 0
  BY DEF Level, Ids
<1>8. OneLoad(b) /\ HoldsItsPages(b)
  BY <1>6, <1>7 DEF OneLoad, HoldsItsPages
<1>9. InPageOrder(b)
  BY <1>6 DEF InPageOrder, Pages
<1>10. \A r \in b.requests : ~r.aborted => AsksInOrder(b, r)
  BY <1>2, <1>5, <1>6 DEF AsksInOrder
<1>. QED  BY <1>8, <1>9, <1>10 DEF LevelIsWhole, b

(* The effect asks for a level without an entry, which is not loading.     *)
LEMMA EnsureIsWhole ==
  ASSUME LoaderConstants, NEW l \in Level, LevelIsSound(l), LevelIsWhole(l)
  PROVE  LevelIsWhole(EnsureLevel(l))
<1>1. CASE l.entry
  BY <1>1 DEF EnsureLevel
<1>2. CASE ~l.entry
  <2>1. OneLoad(l) /\ InPageOrder(l) /\ ~l.loading
    BY <1>2 DEF LevelIsWhole, OneLoad
  <2>2. 0 \in 0..LastPage /\ FALSE \in BOOLEAN
    BY DEF LoaderConstants
  <2>. QED  BY <1>2, <2>1, <2>2, RunLoadIsWhole DEF EnsureLevel
<1>. QED  BY <1>1, <1>2

(* An answer that a guard drops was of a request that did not count.       *)
LEMMA DroppedIsWhole ==
  ASSUME NEW l \in Level, LevelIsSound(l), LevelIsWhole(l),
         NEW r \in l.requests, Stale(l, r)
  PROVE  LevelIsWhole(Settle(l, r))
<1> DEFINE a == Settle(l, r)
<1>1. KnownRequests(l)
  BY DEF LevelIsSound
<1>2. r.id # l.controller
  BY <1>1 DEF KnownRequests, Stale
<1>3. /\ a.nodes = l.nodes /\ a.entry = l.entry /\ a.loading = l.loading
      /\ a.error = l.error /\ a.hasMore = l.hasMore /\ a.cursor = l.cursor
      /\ a.moreLatch = l.moreLatch /\ a.cut = l.cut
      /\ a.controller = l.controller /\ a.requests = l.requests \ {r}
      /\ a.inflight \in {None, l.inflight}
  BY <1>2 DEF Settle, Level
<1> HIDE DEF a
<1>4. OneLoad(a) /\ InPageOrder(a) /\ HoldsItsPages(a)
  BY <1>3 DEF LevelIsWhole, OneLoad, InPageOrder, HoldsItsPages, Pages
<1>5. \A s \in a.requests : ~s.aborted => AsksInOrder(a, s)
  BY <1>3 DEF LevelIsWhole, AsksInOrder
<1>. QED  BY <1>4, <1>5 DEF LevelIsWhole, a

(* An answer that counts ends the load, and leaves aborted requests.       *)
LEMMA AnsweredIsQuiet ==
  ASSUME LoaderConstants, NEW l \in Level, LevelIsSound(l), LevelIsWhole(l),
         NEW r \in l.requests, ~Stale(l, r)
  PROVE  LET a == Settle(l, r)
         IN /\ a.controller = 0 /\ a.inflight = None
            /\ \A s \in a.requests : s.aborted
            /\ InPageOrder(a) /\ AsksInOrder(l, r)
            /\ a.cursor = l.cursor /\ a.moreLatch = l.moreLatch
<1> DEFINE a == Settle(l, r)
<1>1. KnownRequests(l)
  BY DEF LevelIsSound
<1>2. ~r.aborted /\ r.id = l.controller
  BY <1>1 DEF KnownRequests, Stale
<1>3. AsksInOrder(l, r) /\ l.inflight \in {None, <<r.append, r.cursor>>}
  BY <1>2 DEF LevelIsWhole, AsksInOrder
<1>4. /\ a.nodes = l.nodes /\ a.hasMore = l.hasMore /\ a.cursor = l.cursor
      /\ a.moreLatch = l.moreLatch /\ a.controller = 0 /\ a.inflight = None
      /\ a.requests = l.requests \ {r}
  BY <1>2, <1>3 DEF Settle, Level
<1> HIDE DEF a
<1>5. \A s \in a.requests : s.aborted
  BY <1>1, <1>2, <1>4 DEF KnownRequests
<1>6. InPageOrder(a)
  BY <1>4 DEF LevelIsWhole, InPageOrder, Pages
<1>. QED  BY <1>3, <1>4, <1>5, <1>6 DEF a

(* The page that was asked for comes after the ones that are there.        *)
LEMMA PageIsWhole ==
  ASSUME LoaderConstants, NEW l, NEW a \in Level, NEW r \in Request,
         a.controller = 0, a.inflight = None, \A s \in a.requests : s.aborted,
         InPageOrder(a), AsksInOrder(l, r),
         a.cursor = l.cursor, a.moreLatch = l.moreLatch
  PROVE  LevelIsWhole(WithPage(a, r))
<1> DEFINE p == PageOf(r.cursor)
           kept == IF r.append THEN a.nodes ELSE {}
           node == [page |-> p, generation |-> r.generation, resolved |-> FALSE]
           there == {m.page : m \in kept}
           new == {n \in {node} : p \notin there}
           next == NextCursor(p)
           latch == IF r.append THEN a.moreLatch ELSE None
           b == WithPage(a, r)
<1>1. b = [a EXCEPT !.nodes = kept \cup new, !.entry = TRUE,
                    !.loading = FALSE, !.error = FALSE,
                    !.hasMore = next # 0, !.cursor = next,
                    !.moreLatch = latch, !.cut = FALSE]
  BY DEF WithPage
<1>2. /\ b.nodes = kept \cup new /\ b.loading = FALSE /\ b.error = FALSE
      /\ b.hasMore = (next # 0) /\ b.cursor = next /\ b.moreLatch = latch
      /\ b.requests = a.requests /\ b.controller = 0 /\ b.inflight = None
  <2> HIDE DEF b, kept, new, next, latch
  <2>. QED  BY <1>1 DEF Level
<1>3. there \cup {p} \subseteq Pages(b)
  <2>1. node.page = p
    OBVIOUS
  <2>2. p \in Pages(b)
    <3>1. CASE p \in there
      BY <1>2, <3>1 DEF Pages
    <3>2. CASE p \notin there
      <4>1. node \in b.nodes
        BY <1>2, <3>2
      <4>. QED  BY <2>1, <4>1 DEF Pages
    <3>. QED  BY <3>1, <3>2
  <2>3. there \subseteq Pages(b)
    BY <1>2 DEF Pages
  <2>. QED  BY <2>2, <2>3
<1>4. /\ p \in 1..LastPage /\ r.cursor \in 0..LastPage /\ LastPage \in Nat
      /\ IF p < LastPage THEN next = p + 1 ELSE next = 0 /\ p = LastPage
  BY DEF PageOf, NextCursor, Request, LoaderConstants
<1>5. 1..p \subseteq Pages(b)
  <2>1. CASE r.cursor = 0
    BY <1>3, <2>1 DEF PageOf
  <2>2. CASE r.cursor # 0
    <3>1. r.append /\ p = a.cursor
      BY <2>2 DEF AsksInOrder, PageOf
    <3>2. 1..(p - 1) \subseteq there
      BY <2>2, <3>1 DEF AsksInOrder, InPageOrder, Pages
    <3>. QED  BY <1>3, <1>4, <3>2
  <2>. QED  BY <2>1, <2>2
<1>6. latch # None => latch[2] <= p
  <2>1. ASSUME latch # None PROVE r.append /\ r.cursor = a.cursor /\ a.cursor # 0
    BY <2>1 DEF AsksInOrder
  <2>2. ASSUME latch # None PROVE a.moreLatch[2] <= a.cursor /\ p = a.cursor
    BY <2>1, <2>2 DEF InPageOrder, PageOf
  <2>. QED  BY <2>1, <2>2
<1>7. latch # None => latch[2] \in Nat
  BY DEF Level, Latch
<1> HIDE DEF b, kept, new, node, there, next, latch, p
<1>8. OneLoad(b)
  BY <1>2 DEF OneLoad
<1>9. InPageOrder(b)
  <2>1. b.hasMore <=> b.cursor # 0
    BY <1>2
  <2>2. b.cursor # 0 => b.cursor - 1 = p
    BY <1>2, <1>4
  <2>3. b.cursor # 0 /\ b.moreLatch # None => b.moreLatch[2] <= b.cursor
    BY <1>2, <1>4, <1>6, <1>7
  <2>. QED  BY <1>5, <2>1, <2>2, <2>3 DEF InPageOrder
<1>10. HoldsItsPages(b)
  BY <1>2, <1>4, <1>5, <1>6, <1>7 DEF HoldsItsPages
<1>. QED  BY <1>2, <1>8, <1>9, <1>10 DEF LevelIsWhole, b

(* A failure says so, and moves neither the cursor nor the latch.          *)
LEMMA FailedIsWhole ==
  ASSUME NEW a \in Level,
         a.controller = 0, a.inflight = None, \A s \in a.requests : s.aborted,
         InPageOrder(a)
  PROVE  LevelIsWhole([a EXCEPT !.entry = TRUE, !.loading = FALSE, !.error = TRUE])
<1> DEFINE b == [a EXCEPT !.entry = TRUE, !.loading = FALSE, !.error = TRUE]
<1>1. /\ b.nodes = a.nodes /\ b.hasMore = a.hasMore /\ b.cursor = a.cursor
      /\ b.moreLatch = a.moreLatch /\ b.controller = 0 /\ b.inflight = None
      /\ b.loading = FALSE /\ b.error = TRUE /\ b.requests = a.requests
  BY DEF Level
<1> HIDE DEF b
<1>. QED  BY <1>1 DEF LevelIsWhole, OneLoad, InPageOrder, HoldsItsPages, Pages, b

(* A level that lost its entry has nothing to hold.                        *)
LEMMA EmptiedIsWhole ==
  ASSUME NEW l, l.controller = 0, l.inflight = None, ~l.loading, ~l.entry,
         ~l.hasMore, l.cursor = 0, \A r \in l.requests : r.aborted
  PROVE  LevelIsWhole(l)
BY DEF LevelIsWhole, OneLoad, InPageOrder, HoldsItsPages

(* Closing the popup: a level with nodes is marked as cut.                 *)
LEMMA CancelIsWhole ==
  ASSUME LoaderConstants, NEW l \in Level, LevelIsSound(l), LevelIsWhole(l)
  PROVE  LevelIsWhole(CancelLoad(l))
<1> DEFINE a == AbortKey(l)
           idle == [l EXCEPT !.inflight = None]
           stopped == [a EXCEPT !.loading = FALSE, !.cut = TRUE]
<1>1. /\ a \in Level /\ \A r \in a.requests : r.aborted
  BY AbortIsOrderly DEF LevelIsSound, Orderly
<1>2. /\ a.nodes = l.nodes /\ a.entry = l.entry /\ a.loading = l.loading
      /\ a.error = l.error /\ a.hasMore = l.hasMore /\ a.cursor = l.cursor
      /\ a.moreLatch = l.moreLatch /\ a.cut = l.cut /\ a.controller = 0
      /\ l.controller # 0 => a.inflight = None
  BY AbortLeavesPages
<1>3. CASE l.controller = 0
  <2>1. l.inflight = None
    BY <1>3 DEF LevelIsWhole, OneLoad
  <2>2. idle = l
    BY <2>1 DEF Level
  <2>. QED  BY <1>3, <2>2 DEF CancelLoad
<1>4. CASE l.controller # 0 /\ l.nodes = {}
  <2>1. l.loading /\ CancelLoad(l) = Unloaded(a)
    BY <1>4 DEF CancelLoad, LevelIsWhole, OneLoad
  <2> DEFINE b == Unloaded(a)
  <2> HIDE DEF a
  <2>2. /\ b.controller = 0 /\ b.inflight = None /\ b.loading = FALSE
        /\ b.entry = FALSE /\ b.hasMore = FALSE /\ b.cursor = 0
        /\ b.requests = a.requests
    BY <1>1, <1>2, <1>4 DEF Unloaded, Level
  <2> HIDE DEF b
  <2>3. LevelIsWhole(b)
    BY <1>1, <2>2, EmptiedIsWhole
  <2>. QED  BY <2>1, <2>3 DEF b
<1>5. CASE l.controller # 0 /\ l.nodes # {}
  <2>1. CancelLoad(l) = stopped
    BY <1>5 DEF CancelLoad, LevelIsWhole, OneLoad
  <2> HIDE DEF a
  <2>2. /\ stopped.nodes = l.nodes /\ stopped.hasMore = l.hasMore
        /\ stopped.cursor = l.cursor /\ stopped.moreLatch = l.moreLatch
        /\ stopped.controller = 0 /\ stopped.inflight = None
        /\ stopped.loading = FALSE /\ stopped.cut = TRUE
        /\ stopped.requests = a.requests
    BY <1>1, <1>2, <1>5 DEF Level
  <2> HIDE DEF stopped
  <2>3. LevelIsWhole(stopped)
    BY <1>1, <2>2 DEF LevelIsWhole, OneLoad, InPageOrder, HoldsItsPages, Pages
  <2>. QED  BY <2>1, <2>3
<1>. QED  BY <1>3, <1>4, <1>5

(* A reset level is empty, also when a request number is spent on it.      *)
LEMMA ResetIsWhole ==
  ASSUME LoaderConstants, NEW l \in Level, LevelIsSound(l)
  PROVE  LevelIsWhole(Reset(l)) /\ LevelIsWhole(Invalidated(l))
<1> DEFINE a == AbortKey(l)
           b == Reset(l)
           spent == Invalidated(l)
<1>1. /\ a \in Level /\ a.controller = 0 /\ \A r \in a.requests : r.aborted
  BY AbortIsOrderly DEF LevelIsSound, Orderly
<1>2. b = [Unloaded(a) EXCEPT !.moreLatch = None, !.inflight = None, !.generation = @ + 1]
  BY DEF Reset
<1>3. spent = [b EXCEPT !.latest = @ + 1]
  BY DEF Invalidated
<1> HIDE DEF a, b, spent
<1>4. /\ b.controller = 0 /\ b.inflight = None /\ b.loading = FALSE
      /\ b.entry = FALSE /\ b.hasMore = FALSE /\ b.cursor = 0
      /\ b.requests = a.requests
  BY <1>1, <1>2 DEF Unloaded, Level
<1>5. /\ spent.controller = 0 /\ spent.inflight = None /\ spent.loading = FALSE
      /\ spent.entry = FALSE /\ spent.hasMore = FALSE /\ spent.cursor = 0
      /\ spent.requests = a.requests
  BY <1>1, <1>2, <1>3, <1>4 DEF Unloaded, Level
<1>. QED  BY <1>1, <1>4, <1>5, EmptiedIsWhole DEF b, spent
-----------------------------------------------------------------------------
(* The steps keep every level whole. *)

AreWhole(levels) == \A k \in Keys : LevelIsWhole(levels[k])

LEMMA EnsuredAreWhole ==
  ASSUME LoaderConstants, NEW levels, Sound(levels), AreWhole(levels),
         NEW screen, NEW isOpen
  PROVE  AreWhole(Ensured(levels, screen, isOpen))
BY EnsureIsWhole DEF Ensured, Sound, AreWhole

LEMMA OneIsWhole ==
  ASSUME LoaderInvariant, LevelsAreWhole, NEW k \in Keys, NEW l, LevelIsWhole(l),
         level' = [level EXCEPT ![k] = l]
  PROVE  LevelsAreWhole'
BY DEF LoaderInvariant, LoaderTypeOK, LevelsAreWhole

(* The steps of the popup.                                                 *)
LEMMA PopupKeepsWhole ==
  ASSUME LoaderConstants, LoaderInvariant, LevelsAreWhole,
         Open \/ Close \/ (\E k \in Keys : Drill(k) \/ Back(k) \/ Prefetch(k))
  PROVE  LevelsAreWhole'
<1>1. Sound(level) /\ AreWhole(level)
  BY DEF Sound, AreWhole, LoaderInvariant, LoaderTypeOK, LevelsAreWhole
<1>2. CASE Open \/ (\E k \in Keys : Drill(k))
  <2>1. level' = Ensured(level, onScreen', TRUE)
    BY <1>2 DEF Open, Drill
  <2>. QED  BY <1>1, <2>1, EnsuredAreWhole DEF AreWhole, LevelsAreWhole
<1>3. CASE Close
  BY <1>1, <1>3, CancelIsWhole DEF Close, Sound, AreWhole, LevelsAreWhole
<1>4. CASE \E k \in Keys : Back(k)
  BY <1>4 DEF Back, LevelsAreWhole
<1>5. ASSUME NEW k \in Keys, Prefetch(k) PROVE LevelsAreWhole'
  <2>1. level' = [level EXCEPT ![k] = EnsureLevel(level[k])]
    BY <1>5 DEF Prefetch
  <2>2. LevelIsWhole(EnsureLevel(level[k]))
    BY <1>1, EnsureIsWhole DEF Sound, AreWhole
  <2>. QED  BY <2>1, <2>2, OneIsWhole
<1>. QED  BY <1>2, <1>3, <1>4, <1>5

(* The next page, and the retry of a load that failed.                     *)
LEMMA MoreKeepsWhole ==
  ASSUME LoaderConstants, LoaderInvariant, LevelsAreWhole, NEW k \in Keys,
         LoadMore(k) \/ RetryLevel(k)
  PROVE  LevelsAreWhole'
<1> DEFINE old == level[k]
           more == [old EXCEPT !.moreLatch = MoreSignature(old)]
           again == [old EXCEPT !.moreLatch = None]
<1>1. old \in Level /\ LevelIsSound(old) /\ LevelIsWhole(old)
  BY DEF LoaderInvariant, LoaderTypeOK, LevelsAreWhole
<1>2. MoreSignature(old) \in Latch /\ None \in Latch
  BY <1>1, FS_CardinalityType DEF MoreSignature, Latch, LevelIsSound, OfItsGeneration, Level
<1>3. ~old.loading
  BY <1>1 DEF LoadMore, RetryLevel, MayLoadMore, LevelIsWhole, OneLoad
<1>4. old.cursor \in 0..LastPage /\ 0 \in 0..LastPage
      /\ FALSE \in BOOLEAN /\ TRUE \in BOOLEAN
  BY <1>1 DEF Level, LoaderConstants
<1> HIDE DEF old
<1>5. ASSUME NEW latch \in Latch, latch = MoreSignature(old) \/ latch = None
      PROVE  LET l == [old EXCEPT !.moreLatch = latch]
             IN /\ l \in Level /\ LevelIsSound(l) /\ ~l.loading
                /\ OneLoad(l) /\ InPageOrder(l)
                /\ l.cursor = old.cursor /\ l.moreLatch = latch
  <2> DEFINE l == [old EXCEPT !.moreLatch = latch]
  <2>1. l \in Level
    BY <1>1 DEF Level
  <2>2. /\ l.nodes = old.nodes /\ l.entry = old.entry /\ l.loading = old.loading
        /\ l.error = old.error /\ l.hasMore = old.hasMore /\ l.cursor = old.cursor
        /\ l.controller = old.controller /\ l.latest = old.latest
        /\ l.inflight = old.inflight /\ l.moreLatch = latch
        /\ l.requests = old.requests /\ l.generation = old.generation
    BY <1>1 DEF Level
  <2> HIDE DEF l
  <2>3. LevelIsSound(l)
    BY <1>1, <2>2 DEF LevelIsSound, KnownRequests, OfItsGeneration, Alive
  <2>4. OneLoad(l)
    BY <1>1, <2>2 DEF LevelIsWhole, OneLoad
  <2>5. latch # None => latch[2] <= l.cursor
    BY <1>4, <1>5, <2>2 DEF MoreSignature
  <2>6. InPageOrder(l)
    BY <1>1, <2>2, <2>5 DEF LevelIsWhole, InPageOrder, Pages
  <2>. QED  BY <1>3, <2>1, <2>2, <2>3, <2>4, <2>6 DEF l
<1>6. CASE LoadMore(k)
  <2>1. level' = [level EXCEPT ![k] = RunLoad(more, old.cursor, TRUE)]
    BY <1>6 DEF LoadMore, old
  <2>2. old.cursor # 0
    BY <1>1, <1>6 DEF LoadMore, MayLoadMore, LevelIsWhole, InPageOrder, old
  <2>3. /\ more \in Level /\ LevelIsSound(more) /\ ~more.loading
        /\ OneLoad(more) /\ InPageOrder(more) /\ more.cursor = old.cursor
    BY <1>2, <1>5
  <2> HIDE DEF more
  <2>4. LevelIsWhole(RunLoad(more, old.cursor, TRUE))
    BY <1>4, <2>2, <2>3, RunLoadIsWhole
  <2>. QED  BY <2>1, <2>4, OneIsWhole
<1>7. CASE RetryLevel(k)
  <2>1. level' = [level EXCEPT ![k] =
                    IF old.nodes = {} THEN RunLoad(again, 0, FALSE)
                    ELSE RunLoad(again, old.cursor, TRUE)]
    BY <1>7 DEF RetryLevel, Retry, old
  <2>2. /\ again \in Level /\ LevelIsSound(again) /\ ~again.loading
        /\ OneLoad(again) /\ InPageOrder(again) /\ again.cursor = old.cursor
        /\ again.moreLatch = None
    BY <1>2, <1>5
  <2> HIDE DEF again
  <2>3. LevelIsWhole(RunLoad(again, 0, FALSE))
    BY <1>4, <2>2, RunLoadIsWhole
  <2>4. LevelIsWhole(RunLoad(again, old.cursor, TRUE))
    BY <1>4, <2>2, RunLoadIsWhole
  <2>. QED  BY <2>1, <2>3, <2>4, OneIsWhole
<1>. QED  BY <1>6, <1>7

(* An invalidation and a change of loadKey.                                *)
LEMMA ResetsKeepWhole ==
  ASSUME LoaderConstants, LoaderInvariant, LevelsAreWhole,
         ChangeLoadKey \/ (\E k \in Keys : InvalidateLevel(k))
  PROVE  LevelsAreWhole'
<1>1. /\ Sound(level) /\ AreWhole(level) /\ resets' = resets + 1
      /\ \A k \in Keys : level[k].latest < MaxRequests /\ level[k].latest \in Nat
  BY RequestsLeft DEF ChangeLoadKey, InvalidateLevel, AreWhole, LevelsAreWhole
<1>2. \A k \in Keys : /\ level[k] \in Level /\ LevelIsSound(level[k])
                      /\ level[k].generation + 1 \in 0..MaxResets
                      /\ level[k].latest <= MaxRequests
  <2>1. resets < MaxResets
    BY DEF ChangeLoadKey, InvalidateLevel
  <2>2. \A k \in Keys : level[k].generation <= resets /\ level[k].generation \in Nat
    BY <1>1 DEF LoaderInvariant, Sound, Level
  <2>3. resets \in Nat /\ MaxResets \in Nat
    BY DEF LoaderInvariant, LoaderTypeOK, LoaderConstants
  <2>. QED  BY <1>1, <2>1, <2>2, <2>3 DEF Sound, LoaderConstants
<1>3. \A k \in Keys :
        /\ Reset(level[k]) \in Level /\ LevelIsSound(Reset(level[k]))
        /\ LevelIsWhole(Reset(level[k]))
        /\ Invalidated(level[k]) \in Level /\ LevelIsSound(Invalidated(level[k]))
        /\ LevelIsWhole(Invalidated(level[k]))
  BY <1>2, ResetIsSound, ResetIsWhole
<1>4. CASE ChangeLoadKey
  <2> DEFINE levels == [k \in Keys |-> Reset(level[k])]
  <2>1. level' = Ensured(levels, onScreen, enabled)
    BY <1>4 DEF ChangeLoadKey
  <2>2. Sound(levels) /\ AreWhole(levels)
    BY <1>3 DEF Sound, AreWhole
  <2> HIDE DEF levels
  <2>. QED  BY <2>1, <2>2, EnsuredAreWhole DEF AreWhole, LevelsAreWhole
<1>5. ASSUME NEW k \in Keys, InvalidateLevel(k) PROVE LevelsAreWhole'
  <2> DEFINE levels == [level EXCEPT ![k] = Invalidated(level[k])]
  <2>1. level' = Ensured(levels, onScreen, enabled)
    BY <1>5 DEF InvalidateLevel
  <2>2. Sound(levels) /\ AreWhole(levels)
    BY <1>1, <1>3 DEF Sound, AreWhole
  <2> HIDE DEF levels
  <2>. QED  BY <2>1, <2>2, EnsuredAreWhole DEF AreWhole, LevelsAreWhole
<1>. QED  BY <1>4, <1>5

(* An answer or a failure, late or not.                                    *)
LEMMA AnswersKeepWhole ==
  ASSUME LoaderConstants, LoaderInvariant, LevelsAreWhole, NEW k \in Keys,
         NEW r \in level[k].requests, Answer(k, r) \/ Failure(k, r)
  PROVE  LevelsAreWhole'
<1> DEFINE rest == Settle(level[k], r)
           broken == [rest EXCEPT !.entry = TRUE, !.loading = FALSE, !.error = TRUE]
<1>1. /\ level[k] \in Level /\ LevelIsSound(level[k]) /\ LevelIsWhole(level[k])
      /\ r \in Request
  BY DEF LoaderInvariant, LoaderTypeOK, LevelsAreWhole, Level
<1>2. rest \in Level
  BY <1>1, SettleIsOrderly DEF Orderly
<1>3. CASE Stale(level[k], r)
  <2>1. level' = [level EXCEPT ![k] = rest]
    BY <1>3 DEF Answer, Failure
  <2>2. LevelIsWhole(rest)
    BY <1>1, <1>3, DroppedIsWhole
  <2>. QED  BY <2>1, <2>2, OneIsWhole
<1>4. CASE ~Stale(level[k], r)
  <2>1. /\ rest.controller = 0 /\ rest.inflight = None
        /\ \A s \in rest.requests : s.aborted
        /\ InPageOrder(rest) /\ AsksInOrder(level[k], r)
        /\ rest.cursor = level[k].cursor /\ rest.moreLatch = level[k].moreLatch
    BY <1>1, <1>4, AnsweredIsQuiet
  <2>2. \/ level' = [level EXCEPT ![k] = WithPage(rest, r)]
        \/ level' = [level EXCEPT ![k] = broken]
    BY <1>4 DEF Answer, Failure
  <2> HIDE DEF rest
  <2>3. LevelIsWhole(WithPage(rest, r))
    BY <1>1, <1>2, <2>1, PageIsWhole
  <2>4. LevelIsWhole(broken)
    BY <1>2, <2>1, FailedIsWhole
  <2>. QED  BY <2>2, <2>3, <2>4, OneIsWhole
<1>. QED  BY <1>3, <1>4

(* A node that resolveValue finds is one more.                             *)
LEMMA ResolveKeepsWhole ==
  ASSUME LoaderInvariant, LevelsAreWhole, NEW k \in Keys, NEW g,
         Resolved(k, g) \/ ResolvedToNothing(k, g) \/ ResolveFails(k, g)
  PROVE  LevelsAreWhole'
<1> DEFINE nodes == IF Stub \in Pages(level[k]) THEN level[k].nodes
                    ELSE level[k].nodes \cup
                           {[page |-> Stub, generation |-> g, resolved |-> TRUE]}
           l == [level[k] EXCEPT !.nodes = nodes]
<1>1. level[k] \in Level /\ LevelIsWhole(level[k])
  BY DEF LoaderInvariant, LoaderTypeOK, LevelsAreWhole
<1>2. CASE Resolved(k, g)
  <2>1. level' = [level EXCEPT ![k] = l]
    BY <1>2 DEF Resolved
  <2>2. level[k].nodes \subseteq nodes
    OBVIOUS
  <2> HIDE DEF nodes
  <2>3. /\ l.nodes = nodes /\ l.entry = level[k].entry
        /\ l.loading = level[k].loading /\ l.error = level[k].error
        /\ l.hasMore = level[k].hasMore /\ l.cursor = level[k].cursor
        /\ l.moreLatch = level[k].moreLatch /\ l.cut = level[k].cut
        /\ l.controller = level[k].controller /\ l.inflight = level[k].inflight
        /\ l.requests = level[k].requests
    BY <1>1 DEF Level
  <2> HIDE DEF l
  <2>4. Pages(level[k]) \subseteq Pages(l)
    BY <2>2, <2>3 DEF Pages
  <2>5. LevelIsWhole(l)
    BY <1>1, <2>3, <2>4
       DEF LevelIsWhole, OneLoad, InPageOrder, HoldsItsPages, AsksInOrder
  <2>. QED  BY <2>1, <2>5, OneIsWhole
<1>3. CASE ResolvedToNothing(k, g) \/ ResolveFails(k, g)
  BY <1>3 DEF ResolvedToNothing, ResolveFails, LevelsAreWhole
<1>. QED  BY <1>2, <1>3

LEMMA WholeInitially ==
  ASSUME LoaderInit
  PROVE  LevelsAreWhole
<1> DEFINE fresh ==
       [nodes |-> {}, entry |-> FALSE, loading |-> FALSE, error |-> FALSE,
        hasMore |-> FALSE, cursor |-> 0, controller |-> 0, latest |-> 0,
        inflight |-> None, moreLatch |-> None, requests |-> {},
        generation |-> 0, cut |-> FALSE]
<1>1. LevelIsWhole(fresh)
  BY EmptiedIsWhole
<1> HIDE DEF fresh
<1>2. level = [k \in Keys |-> fresh]
  BY DEF LoaderInit, fresh
<1>. QED  BY <1>1, <1>2 DEF LevelsAreWhole

LEMMA WholeStep ==
  ASSUME LoaderConstants, LoaderInvariant, LevelsAreWhole, [LoaderNext]_loaderVars
  PROVE  LevelsAreWhole'
<1>1. ASSUME NEW k \in Keys, NEW r \in level[k].requests, Answer(k, r) \/ Failure(k, r)
      PROVE  LevelsAreWhole'
  BY <1>1, AnswersKeepWhole
<1>2. ASSUME NEW pair \in resolving,
             \/ Resolved(pair[1], pair[2]) \/ ResolvedToNothing(pair[1], pair[2])
             \/ ResolveFails(pair[1], pair[2])
      PROVE  LevelsAreWhole'
  <2>1. pair[1] \in Keys
    BY DEF LoaderInvariant, LoaderTypeOK
  <2>. QED  BY <1>2, <2>1, ResolveKeepsWhole
<1>3. ASSUME NEW k \in Keys, LoadMore(k) \/ RetryLevel(k)
      PROVE  LevelsAreWhole'
  BY <1>3, MoreKeepsWhole
<1>4. CASE UNCHANGED loaderVars
  BY <1>4 DEF loaderVars, LevelsAreWhole
<1>. QED  BY <1>1, <1>2, <1>3, <1>4, PopupKeepsWhole, ResetsKeepWhole
            DEF LoaderNext, Loads

(* However requests are aborted, retried and answered late, a level that   *)
(* has an entry and is neither loading nor failed holds every page before  *)
(* its cursor, and loadMore will ask for the next one: its latch never     *)
(* keeps a page from being asked for.  A level that was closed with nodes  *)
(* on the screen while it loaded is the exception.                         *)
THEOREM NoPageIsSkipped ==
  ASSUME LoaderConstants
  PROVE  LoaderSpec => []LoadedIsWhole
<1>1. LoaderInit => LevelsAreWhole
  BY WholeInitially
<1>2. LoaderInvariant /\ LevelsAreWhole /\ [LoaderNext]_loaderVars => LevelsAreWhole'
  BY WholeStep
<1>3. LoaderInvariant /\ LevelsAreWhole => LoadedIsWhole
  <2> SUFFICES ASSUME LoaderInvariant, LevelsAreWhole, NEW k \in Keys, NEW l, l = level[k],
                      l.entry /\ ~l.loading /\ ~l.error /\ ~l.cut
               PROVE  /\ 1..(IF l.cursor = 0 THEN LastPage ELSE l.cursor - 1) \subseteq Pages(l)
                      /\ l.hasMore => MayLoadMore(l)
    BY DEF LoadedIsWhole
  <2>1. l \in Level /\ InPageOrder(l) /\ HoldsItsPages(l)
    BY DEF LoaderInvariant, LoaderTypeOK, LevelsAreWhole, LevelIsWhole
  <2>2. 1..(IF l.cursor = 0 THEN LastPage ELSE l.cursor - 1) \subseteq Pages(l)
    BY <2>1 DEF InPageOrder, HoldsItsPages
  <2>3. ASSUME l.hasMore PROVE l.moreLatch # MoreSignature(l)
    <3>1. l.cursor # 0 /\ l.cursor \in Nat
      BY <2>1, <2>3 DEF InPageOrder, Level
    <3>2. MoreSignature(l)[2] = l.cursor /\ MoreSignature(l) # None
      BY DEF MoreSignature, None
    <3>3. l.moreLatch # None => l.moreLatch[2] < l.cursor
      BY <2>1, <3>1 DEF HoldsItsPages
    <3>. QED  BY <3>1, <3>2, <3>3
  <2>. QED  BY <2>2, <2>3 DEF MayLoadMore
<1>. QED  BY <1>1, <1>2, <1>3, LoaderIsSound, PTL DEF LoaderSpec
=============================================================================
