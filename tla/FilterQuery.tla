---------------------------- MODULE FilterQuery ----------------------------
(***************************************************************************)
(* The query of the filter bar: a tree of rules and groups, edited by id,  *)
(* and the drag that drops a row on a slot measured when it began.         *)
(*                                                                         *)
(* A query is a function from the ids in it to rules and groups; what a    *)
(* rule says and how a group combines its rules are left out.  Indices     *)
(* count from 0, as in the code.                                           *)
(***************************************************************************)
EXTENDS Naturals, FiniteSets, SequencesExt

CONSTANTS
  MaxIds       (* Bound: ids that nextId hands out.                        *)

ASSUME FilterConstants == MaxIds \in Nat

VARIABLES
  query,
  lastId,      (* The counter of nextId.                                   *)
  drag         (* The row under way and the slots it was measured against. *)

filterVars == <<query, lastId, drag>>

Root == 0
Rule == [type |-> "rule", rules |-> <<>>]
Group(rules) == [type |-> "group", rules |-> rules]
NoDrag == [node |-> Root, slots |-> {}]

(* A query of one node, and a query with nodes added.                      *)
Single(n, node) == [m \in {n} |-> node]
With(nodes, q) ==
  [n \in DOMAIN nodes \cup DOMAIN q |-> IF n \in DOMAIN nodes THEN nodes[n] ELSE q[n]]
-----------------------------------------------------------------------------
(* Reading a query. *)

IsGroup(q, n) == n \in DOMAIN q /\ q[n].type = "group"
Groups(q) == {n \in DOMAIN q : IsGroup(q, n)}
Children(q, n) == ToSet(q[n].rules)
HasParent(q, n) == \E g \in Groups(q) : n \in Children(q, g)
Parent(q, n) == CHOOSE g \in Groups(q) : n \in Children(q, g)
Index(q, n) ==
  LET siblings == q[Parent(q, n)].rules
  IN (CHOOSE i \in DOMAIN siblings : siblings[i] = n) - 1

(* containsFilterNode: n itself and all beneath it, the smallest set that  *)
(* has n and, with a group, its children.                                  *)
KeepsChildren(q, S) == \A m \in S : Children(q, m) \subseteq S
Under(q, n) ==
  CHOOSE U \in SUBSET DOMAIN q :
    /\ n \in U /\ KeepsChildren(q, U)
    /\ \A S \in SUBSET U : n \in S /\ KeepsChildren(q, S) => S = U

(* The lists of the members of s, one after the other.                     *)
Along(s, lists) == FlattenSeq([i \in DOMAIN s |-> lists[s[i]]])

(* flattenFilterRules: the rules beneath n, in document order.             *)
Flatten(q, n) ==
  LET rules[d \in 0..Cardinality(Groups(q))] ==
        [m \in DOMAIN q |->
           IF ~IsGroup(q, m) THEN <<m>>
           ELSE IF d = 0 THEN <<>> ELSE Along(q[m].rules, rules[d - 1])]
  IN rules[Cardinality(Groups(q))][n]

FilterTypeOK ==
  /\ \A n \in DOMAIN query :
       /\ query[n].type \in {"rule", "group"}
       /\ query[n].rules \in Seq(0..MaxIds)
  /\ DOMAIN query \subseteq 0..lastId
  /\ lastId \in 0..MaxIds
  /\ drag.node \in 0..MaxIds
  /\ drag.slots \subseteq (0..MaxIds) \X (0..MaxIds)

FilterInit ==
  /\ query = Single(Root, Group(<<>>))
  /\ lastId = 0
  /\ drag = NoDrag
-----------------------------------------------------------------------------
(* The pure functions of filters-query.  Each leaves an unknown id, and    *)
(* the root where it has no parent to change, as it is.                    *)

Smaller(a, b) == IF a < b THEN a ELSE b

(* The k-th smallest of a set of numbers, and what is left of a sequence   *)
(* without some of its elements.                                           *)
Rank(S, n) == Cardinality({m \in S : m <= n})
Nth(S, k) == CHOOSE n \in S : Rank(S, n) = k
Without(s, t) ==
  LET left == {i \in DOMAIN s : s[i] \notin t}
  IN [k \in 1..Cardinality(left) |-> s[Nth(left, k)]]

(* What is no longer beneath the root is gone.                             *)
Kept(q) == Restrict(q, Under(q, Root))

(* insertFilterNode.  The index is clamped.                                *)
InsertNode(q, n, nodes, parent, index) ==
  IF ~IsGroup(q, parent) THEN q
  ELSE [With(nodes, q) EXCEPT ![parent].rules =
          InsertAt(@, Smaller(index, Len(@)) + 1, n)]

AtEnd(q, parent) == IF IsGroup(q, parent) THEN Len(q[parent].rules) ELSE 0

(* removeFilterNode: a group the removal empties goes as well, all the way *)
(* up, and so does any empty group it finds in a group it rewrites.        *)
Above(q, id) == {g \in Groups(q) : g # id /\ id \in Under(q, g)}

Gone(q, id) ==
  LET above == Above(q, id)
      gone[d \in 0..Cardinality(Groups(q))] ==
        LET already == gone[d - 1]
        IN IF d = 0 THEN {id} \cup {g \in Groups(q) : q[g].rules = <<>>}
           ELSE already \cup {g \in above \ {Root} : Children(q, g) \subseteq already}
  IN gone[Cardinality(Groups(q))]

RemoveNode(q, id) ==
  LET above == Above(q, id)
      out == Gone(q, id)
  IN Kept([g \in DOMAIN q |->
             IF g \in above THEN [q[g] EXCEPT !.rules = Without(@, out)] ELSE q[g]])

CloneId(q, id, last, n) == last + Rank(Under(q, id), n)

ShallowClone(q, id, last) == Single(CloneId(q, id, last, id), q[id])

(* cloneFilterNode: fresh ids all the way down.                            *)
CloneNode(q, id, last) ==
  [c \in last + 1..last + Cardinality(Under(q, id)) |->
     [q[Nth(Under(q, id), c - last)] EXCEPT
        !.rules = [i \in DOMAIN @ |-> CloneId(q, id, last, @[i])]]]

(* copyFilterNodeTo, and duplicateFilterNode beside the original.          *)
CopyNodeTo(q, id, parent, index, last) ==
  InsertNode(q, CloneId(q, id, last, id), CloneNode(q, id, last), parent, index)

(* moveFilterNode: within its group.                                       *)
MoveNode(q, id, to) ==
  LET g == Parent(q, id)
  IN IF to >= Len(q[g].rules) THEN q
     ELSE [q EXCEPT ![g].rules = InsertAt(RemoveAt(@, Index(q, id) + 1), to + 1, id)]

Detach(q, id) == [q EXCEPT ![Parent(q, id)].rules = RemoveAt(@, Index(q, id) + 1)]

(* moveFilterNodeTo refuses a group into itself or beneath itself.  Within *)
(* one group, detaching closes a gap before the index.                     *)
UnshiftedIndex(q, id, parent, index) == index

TargetIndex(q, id, parent, index) ==
  IF Parent(q, id) = parent /\ Index(q, id) < index THEN index - 1 ELSE index

MayMoveTo(q, id, parent) ==
  /\ id \in DOMAIN q /\ HasParent(q, id)
  /\ parent \notin Under(q, id)
  /\ IsGroup(q, parent)

MoveNodeTo(q, id, parent, index) ==
  IF ~MayMoveTo(q, id, parent) THEN q
  ELSE InsertNode(Detach(q, id), id, <<>>, parent, TargetIndex(q, id, parent, index))

WrapInGroup(q, id, group) ==
  IF ~HasParent(q, id) THEN q
  ELSE [With(Single(group, Group(<<id>>)), q) EXCEPT
          ![Parent(q, id)].rules = ReplaceAt(@, Index(q, id) + 1, group)]

UnwrapGroup(q, group) ==
  IF ~IsGroup(q, group) \/ ~HasParent(q, group) THEN q
  ELSE LET at == Index(q, group)
           siblings == q[Parent(q, group)].rules
       IN Kept([q EXCEPT ![Parent(q, group)].rules =
                  SubSeq(siblings, 1, at) \o q[group].rules
                    \o SubSeq(siblings, at + 2, Len(siblings))])

ClearQuery(q) == Kept([q EXCEPT ![Root].rules = <<>>])

(* pruneFilterQuery: what survives of n, a sequence of at most one node,   *)
(* from the leaves up.                                                     *)
PruneQuery(q) ==
  LET survivors[d \in 0..Cardinality(Groups(q))] ==
        [n \in DOMAIN q |->
           LET rules == Along(q[n].rules, survivors[d - 1])
           IN IF ~IsGroup(q, n) THEN <<n>>
              ELSE IF d = 0 \/ rules = <<>> THEN <<>>
              ELSE IF Len(rules) = 1 /\ IsGroup(q, rules[1]) THEN rules
              ELSE <<n>>]
  IN Kept([n \in DOMAIN q |->
             [q[n] EXCEPT !.rules = Along(@, survivors[Cardinality(Groups(q))])]])
-----------------------------------------------------------------------------
(* The mutators of Filters. *)

Fresh(n) == lastId + n <= MaxIds

Edit(q) == query' = q /\ UNCHANGED <<lastId, drag>>
EditWithIds(q, n) == query' = q /\ lastId' = lastId + n /\ UNCHANGED drag

AddRule(g) ==
  /\ Fresh(1)
  /\ EditWithIds(InsertNode(query, lastId + 1, Single(lastId + 1, Rule), g, AtEnd(query, g)), 1)

AddGroup(g) ==
  /\ Fresh(1)
  /\ EditWithIds(InsertNode(query, lastId + 1, Single(lastId + 1, Group(<<>>)), g,
                            AtEnd(query, g)), 1)

DeleteNode(n) == Edit(RemoveNode(query, n))

Duplicate(n) ==
  /\ HasParent(query, n)
  /\ Fresh(Cardinality(Under(query, n)))
  /\ EditWithIds(CopyNodeTo(query, n, Parent(query, n), Index(query, n) + 1, lastId),
                 Cardinality(Under(query, n)))

Move(n) ==
  /\ HasParent(query, n)
  /\ \/ Edit(MoveNode(query, n, Index(query, n) + 1))
     \/ Index(query, n) > 0 /\ Edit(MoveNode(query, n, Index(query, n) - 1))

Wrap(n) ==
  /\ Fresh(1)
  /\ HasParent(query, n)
  /\ EditWithIds(WrapInGroup(query, n, lastId + 1), 1)

Unwrap(g) == Edit(UnwrapGroup(query, g))

Clear == Edit(ClearQuery(query))
-----------------------------------------------------------------------------
(* The drag. *)

(* collectSurface: the slots of every group that is not beneath the row.   *)
Slots(q, n) ==
  UNION {{<<g, i>> : i \in 0..Len(q[g].rules)} : g \in Groups(q) \ Under(q, n)}

(* isFilterDropNoop.                                                       *)
IsNoop(q, n, slot) ==
  slot \in {<<Parent(q, n), Index(q, n)>>, <<Parent(q, n), Index(q, n) + 1>>}

StartDrag(n) ==
  /\ drag = NoDrag
  /\ HasParent(query, n)
  /\ drag' = [node |-> n, slots |-> Slots(query, n)]
  /\ UNCHANGED <<query, lastId>>

CancelDrag ==
  /\ drag # NoDrag
  /\ drag' = NoDrag
  /\ UNCHANGED <<query, lastId>>

(* The query may have changed since the slots were measured: a rule that   *)
(* is gone is not moved, and a group that is gone takes no drop.           *)
DropMove ==
  /\ \E slot \in drag.slots : query' = MoveNodeTo(query, drag.node, slot[1], slot[2])
  /\ drag' = NoDrag
  /\ UNCHANGED lastId

DropCopy ==
  /\ drag.node \in DOMAIN query
  /\ Fresh(Cardinality(Under(query, drag.node)))
  /\ \E slot \in drag.slots :
       /\ IsGroup(query, slot[1])
       /\ query' = CopyNodeTo(query, drag.node, slot[1], slot[2], lastId)
  /\ lastId' = lastId + Cardinality(Under(query, drag.node))
  /\ drag' = NoDrag
-----------------------------------------------------------------------------
FilterNext ==
  \/ \E n \in DOMAIN query :
       \/ AddRule(n) \/ AddGroup(n)
       \/ DeleteNode(n) \/ Duplicate(n) \/ Move(n) \/ Wrap(n) \/ Unwrap(n)
       \/ StartDrag(n)
  \/ Clear
  \/ CancelDrag \/ DropMove \/ DropCopy

FilterSpec == FilterInit /\ [][FilterNext]_filterVars
-----------------------------------------------------------------------------
(* The groups, and the positions in them, that hold n.                     *)
Places(q, n) ==
  {p \in UNION {{g} \X DOMAIN q[g].rules : g \in Groups(q)} : q[p[1]].rules[p[2]] = n}

(* Every node of the query is beneath the root and in one place: "two live *)
(* nodes of one id" and "a cycle" are what the edits must never leave,     *)
(* nor does a group hold what is not in the query.                         *)

QueryIsATree ==
  /\ Under(query, Root) = DOMAIN query
  /\ \A g \in Groups(query) : Children(query, g) \subseteq DOMAIN query
  /\ \A n \in DOMAIN query \ {Root} : Cardinality(Places(query, n)) = 1
  /\ ~HasParent(query, Root)

(* A row that is dropped on a slot comes after the rows that were before   *)
(* the slot and before those that were after it, and a drop beside the row *)
(* itself changes nothing.                                                 *)
DropsLandWhereAimed ==
  \A n \in DOMAIN query \ {Root} : \A slot \in Slots(query, n) :
    LET g == slot[1]
        moved == MoveNodeTo(query, n, g, slot[2])
        before == SubSeq(query[g].rules, 1, slot[2])
        after == SubSeq(query[g].rules, slot[2] + 1, Len(query[g].rules))
    IN /\ moved[g].rules = Without(before, {n}) \o <<n>> \o Without(after, {n})
       /\ IsNoop(query, n, slot) => moved = query

(* And no drop changes the order of the conditions that it does not move.  *)
DropsKeepTheOrder ==
  \A n \in DOMAIN query \ {Root} :
    LET carried == Under(query, n)
        inside == Flatten(query, n)
        outside == Without(Flatten(query, Root), carried)
    IN \A slot \in Slots(query, n) :
         LET moved == MoveNodeTo(query, n, slot[1], slot[2])
         IN /\ Flatten(moved, n) = inside
            /\ Without(Flatten(moved, Root), carried) = outside

(* Wrapping a node in a new group and unwrapping that group round-trip.    *)
WrapsAreUndone ==
  \A n \in DOMAIN query \ {Root} :
    UnwrapGroup(WrapInGroup(query, n, MaxIds + 1), MaxIds + 1) = query

(* Removing a node takes only the conditions beneath it, in order, and     *)
(* leaves no group empty that held some.                                   *)
RemovalsAreExact ==
  LET conditions == Flatten(query, Root)
  IN \A n \in DOMAIN query \ {Root} :
       LET removed == RemoveNode(query, n)
       IN /\ Flatten(removed, Root) = Without(conditions, Under(query, n))
          /\ \A g \in Groups(removed) \ {Root} :
               removed[g].rules = <<>> => query[g].rules = <<>>

(* Pruning keeps the conditions in order, leaves nothing to prune, and     *)
(* leaves no group empty or with a group for its only child.               *)
PruningIsExact ==
  LET pruned == PruneQuery(query)
  IN /\ Flatten(pruned, Root) = Flatten(query, Root)
     /\ PruneQuery(pruned) = pruned
     /\ \A g \in Groups(pruned) \ {Root} :
          ~(Len(pruned[g].rules) <= 1 /\ \A c \in Children(pruned, g) : IsGroup(pruned, c))

(* Drops land where they are aimed, removing and pruning take what they    *)
(* should and no more, and wrapping and unwrapping round-trip.             *)
(* (These are laws of every query reached, a drag or not.)                 *)
EditsAreExact ==
  drag = NoDrag =>
    /\ DropsLandWhereAimed /\ DropsKeepTheOrder /\ WrapsAreUndone
    /\ RemovalsAreExact /\ PruningIsExact
=============================================================================
