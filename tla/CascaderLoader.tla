--------------------------- MODULE CascaderLoader ---------------------------
(***************************************************************************)
(* useCascaderLoader: the levels of a cascader that are fetched page by    *)
(* page while its popup is open.  Every level has a controller, a number   *)
(* for its newest request, the signature of what is under way and a latch  *)
(* that keeps the same page from being asked for twice.  A level is        *)
(* abandoned, invalidated, retried and paged while old answers arrive.     *)
(*                                                                         *)
(* A level has LastPage pages of one node each; the cursor is the number   *)
(* of the next page, 0 when there is none.  A node is tagged with the      *)
(* generation the level had when it was asked for, and with whether        *)
(* resolveValue found it.                                                  *)
(***************************************************************************)
EXTENDS Naturals, FiniteSets

CONSTANTS
  Keys,           (* The levels.                                           *)
  LastPage,       (* Pages of a level.                                     *)
  Stub,           (* The page whose node resolveValue finds.               *)
  MaxRequests,    (* Bound: requests of a level.                           *)
  MaxResets       (* Bound: changes of loadKey and invalidations.          *)

VARIABLES
  enabled,     (* The popup is open.                                       *)
  onScreen,    (* The levels on the screen.                                *)
  level,       (* What the loader keeps of each level: see Level.          *)
  attempted,   (* The levels whose selected value resolveValue was asked.  *)
  resolving,   (* Those of them it has not answered, and the generation    *)
               (* they had then.                                           *)
  known,       (* The levels whose selected value has been seen.           *)
  resets

loaderVars == <<enabled, onScreen, level, attempted, resolving, known, resets>>

None == <<>>
Signature == {None} \cup (BOOLEAN \X (0..LastPage))
Latch == {None} \cup (Nat \X (0..LastPage))
(* An invalidation at the bound spends one number more.                    *)
Ids == 0..MaxRequests + 1

Request == [id : Ids, append : BOOLEAN, cursor : 0..LastPage,
            aborted : BOOLEAN, generation : 0..MaxResets]
Node == [page : 1..LastPage, generation : 0..MaxResets, resolved : BOOLEAN]

Level ==
  [nodes : SUBSET Node,           (* pages                                 *)
   entry : BOOLEAN,               (* states has an entry for it            *)
   loading : BOOLEAN, error : BOOLEAN, hasMore : BOOLEAN, cursor : 0..LastPage,
   controller : Ids,              (* controllers; 0: none                  *)
   latest : Ids,                  (* requestIds                            *)
   inflight : Signature,
   moreLatch : Latch,
   requests : SUBSET Request,     (* under way, aborted ones included      *)
   generation : 0..MaxResets,     (* History: resets of this level.        *)
   cut : BOOLEAN]                 (* History: closed with a load under way  *)
                                  (* and nodes on the screen.               *)

Unloaded(l) ==
  [l EXCEPT !.nodes = {}, !.entry = FALSE, !.loading = FALSE, !.error = FALSE,
            !.hasMore = FALSE, !.cursor = 0, !.cut = FALSE]

LoaderTypeOK ==
  /\ enabled \in BOOLEAN
  /\ onScreen \subseteq Keys
  /\ level \in [Keys -> Level]
  /\ attempted \subseteq Keys /\ known \subseteq Keys
  /\ resolving \subseteq Keys \X (0..MaxResets)
  /\ resets \in 0..MaxResets

LoaderInit ==
  /\ enabled = FALSE
  /\ onScreen \in {{}, Keys}
  /\ level = [k \in Keys |->
       [nodes |-> {}, entry |-> FALSE, loading |-> FALSE, error |-> FALSE,
        hasMore |-> FALSE, cursor |-> 0, controller |-> 0, latest |-> 0,
        inflight |-> None, moreLatch |-> None, requests |-> {},
        generation |-> 0, cut |-> FALSE]]
  /\ attempted = {} /\ resolving = {} /\ known = {}
  /\ resets = 0
-----------------------------------------------------------------------------
(* The loader's functions, on one level. *)

Pages(l) == {n.page : n \in l.nodes}

AbortKey(l) ==
  [l EXCEPT
     !.requests = {IF r.id = l.controller THEN [r EXCEPT !.aborted = TRUE] ELSE r :
                     r \in @},
     !.inflight = IF l.controller = 0 THEN @ ELSE None,
     !.controller = 0]

(* What is under way already is not asked for again.                       *)
RunLoad(l, cursor, append) ==
  IF l.inflight = <<append, cursor>>
  THEN l
  ELSE LET id == l.latest + 1
       IN [AbortKey(l) EXCEPT
             !.controller = id, !.latest = id, !.inflight = <<append, cursor>>,
             !.entry = TRUE, !.loading = TRUE, !.error = FALSE,
             !.requests = @ \cup {[id |-> id, append |-> append, cursor |-> cursor,
                                   aborted |-> FALSE, generation |-> l.generation]}]

(* The effect on the levels on screen.  A level that has an entry is not   *)
(* asked for.                                                              *)
EnsureLevel(l) == IF l.entry THEN l ELSE RunLoad(l, 0, FALSE)

Settle(l, r) ==
  [l EXCEPT !.requests = @ \ {r},
            !.inflight = IF @ = <<r.append, r.cursor>> THEN None ELSE @,
            !.controller = IF @ = r.id THEN 0 ELSE @]

NeverStale(l, r) == FALSE

(* The three guards: aborted, of an old loadKey, or not the newest.        *)
Stale(l, r) == r.aborted \/ r.id # l.latest

PageOf(cursor) == IF cursor = 0 THEN 1 ELSE cursor
NextCursor(p) == IF p < LastPage THEN p + 1 ELSE 0

(* withPage: a node that is already there stays as it is.                  *)
WithPage(l, r) ==
  LET p == PageOf(r.cursor)
      kept == IF r.append THEN l.nodes ELSE {}
      new == {n \in {[page |-> p, generation |-> r.generation, resolved |-> FALSE]} :
                p \notin {m.page : m \in kept}}
  IN [l EXCEPT !.nodes = kept \cup new, !.entry = TRUE,
               !.loading = FALSE, !.error = FALSE,
               !.hasMore = NextCursor(p) # 0, !.cursor = NextCursor(p),
               !.moreLatch = IF r.append THEN @ ELSE None,
               !.cut = FALSE]

CountOnly(l) == <<Cardinality(l.nodes), 0>>

(* loadMore asks once for what the nodes and the cursor now are.           *)
MoreSignature(l) == <<Cardinality(l.nodes), l.cursor>>

MayLoadMore(l) ==
  /\ l.entry /\ ~l.loading /\ l.hasMore
  /\ l.moreLatch # MoreSignature(l)

Retry(l) ==
  LET again == [l EXCEPT !.moreLatch = None]
  IN IF l.nodes = {} THEN RunLoad(again, 0, FALSE) ELSE RunLoad(again, l.cursor, TRUE)

AbortOnly(l) ==
  IF l.controller = 0 THEN [l EXCEPT !.inflight = None] ELSE AbortKey(l)

(* cancelAll: a level without nodes loses its entry, so that it is fetched *)
(* when it is next on screen; one with nodes keeps it.                     *)
CancelLoad(l) ==
  IF l.controller = 0
  THEN [l EXCEPT !.inflight = None]
  ELSE LET rest == AbortKey(l)
       IN IF ~l.loading THEN rest
          ELSE IF l.nodes = {} THEN Unloaded(rest)
          ELSE [rest EXCEPT !.loading = FALSE, !.cut = TRUE]

Reset(l) == [Unloaded(AbortKey(l)) EXCEPT !.moreLatch = None, !.inflight = None,
                                          !.generation = @ + 1]

(* invalidateLevel spends a request number as well.                        *)
Invalidated(l) == [Reset(l) EXCEPT !.latest = @ + 1]

(* The levels after the effect that follows every commit.                  *)
Ensured(levels, screen, isOpen) ==
  [k \in Keys |-> IF isOpen /\ k \in screen THEN EnsureLevel(levels[k]) ELSE levels[k]]

MayRequest == \A k \in Keys : level[k].latest < MaxRequests
-----------------------------------------------------------------------------
(* What happens to the popup. *)

(* The effects that load the levels and that resolve the selected value.   *)
Open ==
  /\ ~enabled
  /\ MayRequest
  /\ enabled' = TRUE
  /\ level' = Ensured(level, onScreen, TRUE)
  /\ attempted' = attempted \cup (Keys \ known)
  /\ resolving' = resolving \cup
       {<<k, level[k].generation>> : k \in Keys \ (known \cup attempted)}
  /\ UNCHANGED <<onScreen, known, resets>>

(* Requests are aborted, the cache is kept.  A resolve that is aborted is  *)
(* answered like any other, and the answer dropped.                        *)
Close ==
  /\ enabled
  /\ enabled' = FALSE
  /\ level' = [k \in Keys |-> CancelLoad(level[k])]
  /\ \E late \in SUBSET {asked[1] : asked \in resolving} :
       /\ attempted' = attempted \ late
       /\ resolving' = {}
  /\ UNCHANGED <<onScreen, known, resets>>

Drill(k) ==
  /\ enabled
  /\ MayRequest
  /\ k \notin onScreen
  /\ onScreen' = onScreen \cup {k}
  /\ level' = Ensured(level, onScreen', TRUE)
  /\ UNCHANGED <<enabled, attempted, resolving, known, resets>>

Back(k) ==
  /\ enabled
  /\ k \in onScreen
  /\ onScreen' = onScreen \ {k}
  /\ UNCHANGED <<enabled, level, attempted, resolving, known, resets>>

(* prefetchNode, when its timeout fires: no level needs to be on screen.   *)
Prefetch(k) ==
  /\ enabled
  /\ MayRequest
  /\ ~level[k].entry
  /\ level' = [level EXCEPT ![k] = EnsureLevel(@)]
  /\ UNCHANGED <<enabled, onScreen, attempted, resolving, known, resets>>

LoadMore(k) ==
  /\ enabled
  /\ MayRequest
  /\ MayLoadMore(level[k])
  /\ level' = [level EXCEPT ![k] =
                 RunLoad([@ EXCEPT !.moreLatch = MoreSignature(level[k])],
                         level[k].cursor, TRUE)]
  /\ UNCHANGED <<enabled, onScreen, attempted, resolving, known, resets>>

RetryLevel(k) ==
  /\ enabled
  /\ MayRequest
  /\ level[k].entry /\ level[k].error
  /\ level' = [level EXCEPT ![k] = Retry(@)]
  /\ UNCHANGED <<enabled, onScreen, attempted, resolving, known, resets>>

InvalidateLevel(k) ==
  /\ resets < MaxResets
  /\ MayRequest
  /\ resets' = resets + 1
  /\ level' = Ensured([level EXCEPT ![k] = Invalidated(@)],
                      onScreen, enabled)
  /\ UNCHANGED <<enabled, onScreen, attempted, resolving, known>>

(* Everything is dropped but the request numbers.                          *)
ChangeLoadKey ==
  /\ resets < MaxResets
  /\ MayRequest
  /\ resets' = resets + 1
  /\ level' = Ensured([k \in Keys |-> Reset(level[k])], onScreen, enabled)
  /\ attempted' = {} /\ resolving' = {} /\ known' = {}
  /\ UNCHANGED <<enabled, onScreen>>
-----------------------------------------------------------------------------
(* What getChildren and resolveValue answer. *)

Answer(k, r) ==
  /\ r \in level[k].requests
  /\ LET rest == Settle(level[k], r)
     IN IF Stale(level[k], r)
        THEN /\ level' = [level EXCEPT ![k] = rest]
             /\ UNCHANGED known
        ELSE /\ level' = [level EXCEPT ![k] = WithPage(rest, r)]
             /\ known' = IF PageOf(r.cursor) = Stub THEN known \cup {k} ELSE known
  /\ UNCHANGED <<enabled, onScreen, attempted, resolving, resets>>

Failure(k, r) ==
  /\ r \in level[k].requests
  /\ LET rest == Settle(level[k], r)
     IN level' = [level EXCEPT ![k] =
                    IF Stale(level[k], r)
                    THEN rest
                    ELSE [rest EXCEPT !.entry = TRUE, !.loading = FALSE, !.error = TRUE]]
  /\ UNCHANGED <<enabled, onScreen, attempted, resolving, known, resets>>

(* withChain: the node joins its level, which gets no entry; no guard asks *)
(* whether the level was invalidated since.                                *)
Resolved(k, g) ==
  /\ resolving' = resolving \ {<<k, g>>}
  /\ known' = known \cup {k}
  /\ level' = [level EXCEPT ![k].nodes =
                 IF Stub \in Pages(level[k]) THEN @
                 ELSE @ \cup {[page |-> Stub, generation |-> g, resolved |-> TRUE]}]
  /\ UNCHANGED <<enabled, onScreen, attempted, resets>>

(* An empty chain: the value will not be asked for again.                  *)
ResolvedToNothing(k, g) ==
  /\ resolving' = resolving \ {<<k, g>>}
  /\ UNCHANGED <<enabled, onScreen, level, attempted, known, resets>>

ResolveFails(k, g) ==
  /\ resolving' = resolving \ {<<k, g>>}
  /\ attempted' = attempted \ {k}
  /\ UNCHANGED <<enabled, onScreen, level, known, resets>>
-----------------------------------------------------------------------------
Loads ==
  \E k \in Keys : \E r \in level[k].requests : Answer(k, r) \/ Failure(k, r)

LoaderNext ==
  \/ Open \/ Close \/ ChangeLoadKey
  \/ \E k \in Keys :
       \/ Drill(k) \/ Back(k) \/ Prefetch(k)
       \/ LoadMore(k) \/ RetryLevel(k) \/ InvalidateLevel(k)
  \/ \E asked \in resolving :
       \/ Resolved(asked[1], asked[2]) \/ ResolvedToNothing(asked[1], asked[2])
       \/ ResolveFails(asked[1], asked[2])
  \/ Loads

LoaderSpec == LoaderInit /\ [][LoaderNext]_loaderVars
-----------------------------------------------------------------------------
(* A level that is said to be loading has a request that will be applied:  *)
(* "a stranded loading: true would read as loaded-and-empty forever".      *)
LoadingIsAlive ==
  \A k \in Keys :
    level[k].loading => \E r \in level[k].requests : ~Stale(level[k], r)

(* No page fetched before a level was invalidated, or before loadKey       *)
(* changed, is in the level afterwards.  A selected value that was being   *)
(* resolved may be: only a change of loadKey drops its answer.             *)
NothingFromBefore ==
  \A k \in Keys : \A n \in level[k].nodes :
    ~n.resolved => n.generation = level[k].generation

(* A level that has an entry and neither loads nor failed holds every page *)
(* before its cursor, and its next page can be asked for: unless the popup *)
(* was closed while it loaded and had nodes.                               *)
LoadedIsWhole ==
  \A k \in Keys :
    LET l == level[k]
        last == IF l.cursor = 0 THEN LastPage ELSE l.cursor - 1
    IN l.entry /\ ~l.loading /\ ~l.error /\ ~l.cut
         => 1..last \subseteq Pages(l) /\ (l.hasMore => MayLoadMore(l))
-----------------------------------------------------------------------------
(* Why the first two hold.  A level knows its requests by their numbers,   *)
(* and all but the controller's are aborted.                               *)
KnownRequests(l) ==
  /\ l.controller \in {0, l.latest}
  /\ \A r \in l.requests : r.id \in 1..l.latest
  /\ \A r, s \in l.requests : r.id = s.id => r = s
  /\ \A r \in l.requests : r.aborted <=> r.id # l.controller

(* What it holds, and what it has asked for, is of its generation.         *)
OfItsGeneration(l) ==
  /\ IsFiniteSet(l.nodes)
  /\ \A n \in l.nodes : ~n.resolved => n.generation = l.generation
  /\ \A r \in l.requests : ~r.aborted => r.generation = l.generation

Alive(l) == l.loading => \E r \in l.requests : r.id = l.controller

LevelIsSound(l) == KnownRequests(l) /\ OfItsGeneration(l) /\ Alive(l)

(* The inductive invariant.                                                *)
LoaderInvariant ==
  /\ LoaderTypeOK
  /\ \A k \in Keys : LevelIsSound(level[k]) /\ level[k].generation <= resets

(* Why the third holds.  A controller belongs to a level that is loading,  *)
(* and what is said to be under way is.                                    *)
OneLoad(l) ==
  /\ l.controller # 0 => l.loading
  /\ l.loading => l.entry /\ ~l.error
  /\ l.inflight # None => l.controller # 0

(* The pages come one by one, and the latch is never ahead of the cursor.  *)
InPageOrder(l) ==
  /\ l.hasMore <=> l.cursor # 0
  /\ l.cursor # 0 => 1..(l.cursor - 1) \subseteq Pages(l)
  /\ l.cursor # 0 /\ l.moreLatch # None => l.moreLatch[2] <= l.cursor

(* A request that will be applied asks for the first page or the next one. *)
AsksInOrder(l, r) ==
  /\ l.inflight \in {None, <<r.append, r.cursor>>}
  /\ IF r.append
     THEN r.cursor = l.cursor /\ (r.cursor = 0 => l.moreLatch = None)
     ELSE r.cursor = 0

(* What LoadedIsWhole says, where the latch is behind the cursor.          *)
HoldsItsPages(l) ==
  l.entry /\ ~l.loading /\ ~l.error /\ ~l.cut
    => /\ l.cursor = 0 => 1..LastPage \subseteq Pages(l)
       /\ l.cursor # 0 /\ l.moreLatch # None => l.moreLatch[2] < l.cursor

LevelIsWhole(l) ==
  /\ OneLoad(l) /\ InPageOrder(l) /\ HoldsItsPages(l)
  /\ \A r \in l.requests : ~r.aborted => AsksInOrder(l, r)

LevelsAreWhole == \A k \in Keys : LevelIsWhole(level[k])
=============================================================================
