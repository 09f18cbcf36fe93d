------------------------- MODULE FilterQueryProofs -------------------------
(***************************************************************************)
(* The query of the filter bar stays a tree, whatever edits and drops are  *)
(* made and however many ids are handed out, and every edit does what it   *)
(* is meant to: EditsStayExact.                                            *)
(*                                                                         *)
(* The argument has layers.  At the bottom, a tree is a set of nodes D and *)
(* a function C from each node to the set of its children; the edits are   *)
(* changes of C.  Above it, the rules of every group are a list of its     *)
(* children, and each edit of a list is such a change of a set.  Then come *)
(* the places of the rows in the lists, which say where a drop puts a row. *)
(* Last, what the recursive functions of the model compute, layer by layer *)
(* of the tree, and with it which conditions a removal and a pruning keep, *)
(* and in what order.                                                      *)
(***************************************************************************)
EXTENDS FilterQuery, Integers, FiniteSetTheorems, SequenceTheorems, WellFoundedInduction, TLAPS
-----------------------------------------------------------------------------
(* Trees of sets. *)

Hung(C, S) == \A n \in S : C[n] \subseteq S

Disjoint(C, S) == \A m, n \in S : m # n => C[m] \cap C[n] = {}

(* Nobody holds the root, no two nodes hold the same one, and a set that   *)
(* has the root and, with a node, its children, has them all: so there is  *)
(* no cycle either.                                                        *)
Arbor(D, C) ==
  /\ C \in [D -> SUBSET (D \ {Root})]
  /\ Root \in D
  /\ Disjoint(C, D)
  /\ \A S \in SUBSET D : Root \in S /\ Hung(C, S) => S = D

(* U is n and all beneath it.                                              *)
Below(D, C, n, U) ==
  /\ U \subseteq D
  /\ n \in U
  /\ Hung(C, U)
  /\ \A S \in SUBSET D : n \in S /\ Hung(C, S) => U \subseteq S

(* There is such a set: what all the sets with n in them share.            *)
LEMMA SomethingBelow ==
  ASSUME NEW D, NEW C, C \in [D -> SUBSET D], NEW n \in D
  PROVE  \E U : Below(D, C, n, U)
<1> DEFINE U == {x \in D : \A S \in SUBSET D : n \in S /\ Hung(C, S) => x \in S}
<1>1. Hung(C, U)
  <2> SUFFICES ASSUME NEW m \in U, NEW c \in C[m],
                      NEW S \in SUBSET D, n \in S, Hung(C, S)
               PROVE  c \in D /\ c \in S
    BY DEF Hung
  <2> QED  BY DEF Hung
<1>2. Below(D, C, n, U)
  BY <1>1 DEF Below
<1> QED  BY <1>2

(* Every node but the root is somebody's child.                            *)
LEMMA NoOrphan ==
  ASSUME NEW D, NEW C, Arbor(D, C), NEW x \in D \ {Root}
  PROVE  \E g \in D : x \in C[g]
<1> SUFFICES ASSUME \A g \in D : x \notin C[g]
             PROVE  FALSE
  OBVIOUS
<1>1. Hung(C, D \ {x})
  BY DEF Hung, Arbor
<1>2. D \ {x} \in SUBSET D /\ Root \in D \ {x}
  BY DEF Arbor
<1> QED  BY <1>1, <1>2 DEF Arbor

(* A node is not beneath itself: neither the root nor its parent is.       *)
LEMMA NotAbove ==
  ASSUME NEW D, NEW C, Arbor(D, C), NEW g \in D, NEW id \in C[g],
         NEW U, Below(D, C, id, U)
  PROVE  Root \notin U /\ g \notin U
<1>1. /\ id \in D /\ id # Root
      /\ C \in [D -> SUBSET (D \ {Root})]
      /\ U \subseteq D /\ id \in U
  BY DEF Arbor, Below
<1>2. Root \notin U
  <2>1. Hung(C, U \ {Root})
    BY <1>1 DEF Below, Hung
  <2> QED  BY <1>1, <2>1 DEF Below
<1>3. g \notin U
  <2> SUFFICES ASSUME g \in U
               PROVE  FALSE
    OBVIOUS
  <2>1. Hung(C, D \ U)
    <3> SUFFICES ASSUME NEW m \in D \ U, NEW c \in C[m], c \in U
                 PROVE  FALSE
      BY <1>1 DEF Hung
    <3>1. c # id
      BY <1>1 DEF Arbor, Disjoint
    <3>2. Hung(C, U \ {c})
      BY <1>1 DEF Arbor, Disjoint, Below, Hung
    <3>3. id \in U \ {c} /\ U \ {c} \in SUBSET D
      BY <1>1, <3>1
    <3> QED  BY <3>2, <3>3 DEF Below
  <2>2. D \ U \in SUBSET D /\ Root \in D \ U
    BY <1>2 DEF Arbor
  <2> QED  BY <1>1, <2>1, <2>2 DEF Arbor
<1> QED  BY <1>2, <1>3

(* What is beneath the root of any such function of disjoint sets is a     *)
(* tree.                                                                   *)
LEMMA KeptArbor ==
  ASSUME NEW D, NEW C, NEW U, NEW E, Below(D, C, Root, U),
         \A n \in U : C[n] \subseteq D \ {Root},
         Disjoint(C, U),
         E = [n \in U |-> C[n]]
  PROVE  Arbor(U, E)
<1>1. E \in [U -> SUBSET (U \ {Root})]
  BY DEF Below, Hung
<1>2. Disjoint(E, U)
  BY DEF Disjoint
<1>3. ASSUME NEW S \in SUBSET U, Root \in S, Hung(E, S)
      PROVE  S = U
  <2>1. S \in SUBSET D /\ Hung(C, S)
    BY <1>3 DEF Below, Hung
  <2> QED  BY <1>3, <2>1 DEF Below
<1> QED  BY <1>1, <1>2, <1>3 DEF Arbor, Below

(* A new leaf.                                                             *)
LEMMA LeafArbor ==
  ASSUME NEW D, NEW C, Arbor(D, C), NEW x, x \notin D, NEW p \in D,
         NEW E, E = [n \in D \cup {x} |-> IF n = x THEN {}
                                          ELSE IF n = p THEN C[p] \cup {x} ELSE C[n]]
  PROVE  Arbor(D \cup {x}, E)
<1>1. /\ C \in [D -> SUBSET (D \ {Root})]
      /\ Root \in D
      /\ x # p /\ x # Root
  BY DEF Arbor
<1>2. E \in [D \cup {x} -> SUBSET ((D \cup {x}) \ {Root})]
  BY <1>1
<1>3. Disjoint(E, D \cup {x})
  BY <1>1 DEF Arbor, Disjoint
<1>4. ASSUME NEW S \in SUBSET (D \cup {x}), Root \in S, Hung(E, S)
      PROVE  S = D \cup {x}
  <2>1. Hung(C, S \ {x})
    BY <1>1, <1>4 DEF Hung
  <2>2. S \ {x} \in SUBSET D /\ Root \in S \ {x}
    BY <1>1, <1>4
  <2>3. S \ {x} = D
    BY <2>1, <2>2 DEF Arbor
  <2>4. x \in S
    BY <1>1, <1>4, <2>3 DEF Hung
  <2> QED  BY <2>3, <2>4
<1> QED  BY <1>1, <1>2, <1>3, <1>4 DEF Arbor

(* A node and all beneath it, moved to a group that is not.                *)
LEMMA MovedArbor ==
  ASSUME NEW D, NEW C, Arbor(D, C), NEW g \in D, NEW id \in C[g],
         NEW U, Below(D, C, id, U), NEW p \in D, p \notin U,
         NEW E, E = [n \in D |-> IF n = p THEN C[p] \cup {id} ELSE C[n] \ {id}]
  PROVE  Arbor(D, E)
<1>1. /\ C \in [D -> SUBSET (D \ {Root})]
      /\ Root \in D
      /\ id \in D \ {Root}
      /\ U \subseteq D /\ id \in U
  BY DEF Arbor, Below
<1>2. E \in [D -> SUBSET (D \ {Root})]
  BY <1>1
<1>3. Disjoint(E, D)
  BY <1>1 DEF Arbor, Disjoint
<1>4. ASSUME NEW S \in SUBSET D, Root \in S, Hung(E, S)
      PROVE  S = D
  <2>1. \A m \in S : C[m] \subseteq S \cup {id}
    BY <1>1, <1>4 DEF Hung
  <2>2. Hung(C, S \cup U)
    BY <1>1, <2>1 DEF Hung, Below
  <2>3. S \cup U = D
    BY <1>1, <1>4, <2>2 DEF Arbor
  <2>4. p \in S /\ id \in S
    BY <1>1, <1>4, <2>3 DEF Hung
  <2>5. Hung(C, S \cap U)
    BY <2>1, <2>4 DEF Hung, Below
  <2>6. U \subseteq S \cap U
    BY <1>1, <2>4, <2>5 DEF Below
  <2> QED  BY <2>3, <2>6
<1> QED  BY <1>1, <1>2, <1>3, <1>4 DEF Arbor

(* A copy of a node and all beneath it: E has C on D and, on V, the copy   *)
(* of what C has on U, and p has the copy of id for one more child.        *)
OneToOne(f, U, V) ==
  /\ f \in [U -> V]
  /\ \A m, n \in U : f[m] = f[n] => m = n
  /\ \A v \in V : \E u \in U : f[u] = v

WithCopy(E, C, D, U, V, f, id, p) ==
  /\ E = [n \in D \cup V |-> E[n]]
  /\ \A u \in U : E[f[u]] = {f[c] : c \in C[u]}
  /\ \A n \in D : E[n] = IF n = p THEN C[p] \cup {f[id]} ELSE C[n]

LEMMA ClonedArbor ==
  ASSUME NEW D, NEW C, Arbor(D, C), NEW g \in D, NEW id \in C[g],
         NEW U, Below(D, C, id, U), NEW p \in D,
         NEW V, V \cap D = {},
         NEW f, OneToOne(f, U, V), NEW E, WithCopy(E, C, D, U, V, f, id, p)
  PROVE  Arbor(D \cup V, E)
<1>0. /\ f \in [U -> V]
      /\ \A m, n \in U : f[m] = f[n] => m = n
      /\ \A v \in V : \E u \in U : f[u] = v
      /\ \A u \in U : E[f[u]] = {f[c] : c \in C[u]}
      /\ \A n \in D : E[n] = IF n = p THEN C[p] \cup {f[id]} ELSE C[n]
  BY DEF OneToOne, WithCopy
<1>1. /\ C \in [D -> SUBSET (D \ {Root})]
      /\ Root \in D
      /\ U \subseteq D /\ id \in U
      /\ \A u \in U : C[u] \subseteq U
      /\ f[id] \in V
  BY <1>0 DEF Arbor, Below, Hung
<1>2. \A v \in V : E[v] \subseteq V
  <2> SUFFICES ASSUME NEW u \in U
               PROVE  E[f[u]] \subseteq V
    BY <1>0
  <2> QED  BY <1>0, <1>1
<1>3. E \in [D \cup V -> SUBSET ((D \cup V) \ {Root})]
  <2>1. \A n \in D \cup V : E[n] \subseteq (D \cup V) \ {Root}
    BY <1>0, <1>1, <1>2
  <2>2. E = [n \in D \cup V |-> E[n]]
    BY DEF WithCopy
  <2> QED  BY <2>1, <2>2
<1>4. \A v \in V : f[id] \notin E[v]
  <2>1. \A u \in U : id \notin C[u]
    <3>1. g \notin U
      BY NotAbove
    <3> QED  BY <1>0, <1>1, <3>1 DEF Arbor, Disjoint
  <2> SUFFICES ASSUME NEW u \in U, f[id] \in E[f[u]]
               PROVE  FALSE
    BY <1>0
  <2> QED  BY <1>0, <1>1, <2>1
<1>5. ASSUME NEW v \in V, NEW w \in V, v # w
      PROVE  E[v] \cap E[w] = {}
  <2>1. PICK a \in U : f[a] = v
    BY <1>0
  <2>2. PICK b \in U : f[b] = w
    BY <1>0
  <2>3. C[a] \cap C[b] = {}
    BY <1>0, <1>1, <1>5, <2>1, <2>2 DEF Arbor, Disjoint
  <2>4. E[v] = {f[c] : c \in C[a]} /\ E[w] = {f[c] : c \in C[b]}
    BY <1>0, <2>1, <2>2
  <2> QED  BY <1>0, <1>1, <2>3, <2>4
<1>6. Disjoint(E, D \cup V)
  <2>1. ASSUME NEW m \in D, NEW n \in D, m # n
        PROVE  E[m] \cap E[n] = {}
    BY <1>0, <1>1, <2>1 DEF Arbor, Disjoint
  <2>2. ASSUME NEW m \in D, NEW v \in V
        PROVE  E[m] \cap E[v] = {}
    BY <1>0, <1>1, <1>2, <1>4
  <2> QED  BY <1>0, <1>5, <2>1, <2>2 DEF Disjoint
<1>7. ASSUME NEW S \in SUBSET (D \cup V), Root \in S, Hung(E, S)
      PROVE  S = D \cup V
  <2>1. Hung(C, S \cap D)
    BY <1>0, <1>1, <1>7 DEF Hung
  <2>2. S \cap D = D
    BY <1>0, <1>1, <1>7, <2>1 DEF Arbor
  <2>3. f[id] \in S
    BY <1>0, <1>7, <2>2 DEF Hung
  <2> DEFINE T == {u \in U : f[u] \in S}
  <2>4. Hung(C, T)
    <3> SUFFICES ASSUME NEW u \in U, f[u] \in S, NEW c \in C[u]
                 PROVE  c \in U /\ f[c] \in S
      BY DEF Hung
    <3>1. f[c] \in E[f[u]]
      BY <1>0
    <3> QED  BY <1>0, <1>1, <1>7, <3>1 DEF Hung
  <2>5. U \subseteq T
    BY <1>0, <1>1, <2>3, <2>4 DEF Below
  <2>6. V \subseteq S
    BY <1>0, <2>5
  <2> QED  BY <2>2, <2>6
<1> QED  BY <1>0, <1>1, <1>3, <1>6, <1>7 DEF Arbor

(* A new node between a node and its parent.                               *)
LEMMA WrappedArbor ==
  ASSUME NEW D, NEW C, Arbor(D, C), NEW g \in D, NEW id \in C[g],
         NEW x, x \notin D,
         NEW E, E = [n \in D \cup {x} |-> IF n = x THEN {id}
                                          ELSE IF n = g THEN (C[g] \ {id}) \cup {x}
                                          ELSE C[n]]
  PROVE  Arbor(D \cup {x}, E)
<1>1. /\ C \in [D -> SUBSET (D \ {Root})]
      /\ Root \in D
      /\ id \in D \ {Root}
      /\ x # g /\ x # Root
  BY DEF Arbor
<1>2. E \in [D \cup {x} -> SUBSET ((D \cup {x}) \ {Root})]
  BY <1>1
<1>3. Disjoint(E, D \cup {x})
  BY <1>1 DEF Arbor, Disjoint
<1>4. ASSUME NEW S \in SUBSET (D \cup {x}), Root \in S, Hung(E, S)
      PROVE  S = D \cup {x}
  <2>1. g \in S => x \in S /\ id \in S
    BY <1>1, <1>4 DEF Hung
  <2>2. Hung(C, S \cap D)
    BY <1>1, <1>4, <2>1 DEF Hung
  <2>3. S \cap D = D
    BY <1>1, <1>4, <2>2 DEF Arbor
  <2> QED  BY <2>1, <2>3
<1> QED  BY <1>1, <1>2, <1>3, <1>4 DEF Arbor

Fits(D, E, U) ==
  /\ \A n \in U : E[n] \subseteq D \ {Root}
  /\ Disjoint(E, U)

(* A node replaced by its children: what is then beneath the root is a     *)
(* tree without it.                                                        *)
LEMMA UnwrappedArbor ==
  ASSUME NEW D, NEW C, Arbor(D, C), NEW p \in D, NEW g \in C[p],
         NEW E, E = [n \in D |-> IF n = p THEN (C[p] \ {g}) \cup C[g] ELSE C[n]],
         NEW U, Below(D, E, Root, U)
  PROVE  /\ Fits(D, E, U)
         /\ p # g /\ C[p] \cap C[g] = {} /\ g \notin C[g]
<1>1. /\ C \in [D -> SUBSET (D \ {Root})]
      /\ Root \in D
      /\ g \in D \ {Root}
  BY DEF Arbor
<1>2. p # g /\ g \notin C[g]
  <2>1. PICK B : Below(D, C, g, B)
    <3>1. C \in [D -> SUBSET D]
      BY <1>1
    <3> QED  BY <1>1, <3>1, SomethingBelow
  <2>2. p \notin B /\ g \in B
    BY <2>1, NotAbove DEF Below
  <2> QED  BY <1>1, <2>2 DEF Arbor, Disjoint
<1>3. C[p] \cap C[g] = {}
  BY <1>1, <1>2 DEF Arbor, Disjoint
<1>4. g \notin U
  <2>1. Hung(E, D \ {g})
    BY <1>1, <1>2 DEF Hung, Arbor, Disjoint
  <2>2. Root \in D \ {g} /\ D \ {g} \in SUBSET D
    BY <1>1
  <2> QED  BY <2>1, <2>2 DEF Below
<1>5. \A n \in U : E[n] \subseteq D \ {Root}
  BY <1>1 DEF Below
<1>6. Disjoint(E, U)
  <2>1. U \subseteq D
    BY DEF Below
  <2> QED  BY <1>1, <1>2, <1>4, <2>1 DEF Arbor, Disjoint
<1> QED  BY <1>2, <1>3, <1>5, <1>6 DEF Fits
-----------------------------------------------------------------------------
(* Ranks and lists. *)

(* In a finite set of numbers every rank up to its size is taken, once.    *)
LEMMA Ranks ==
  ASSUME NEW S, S \subseteq Nat, IsFiniteSet(S)
  PROVE  /\ Cardinality(S) \in Nat
         /\ \A n \in S : Rank(S, n) \in 1..Cardinality(S)
         /\ \A m, n \in S : m < n => Rank(S, m) < Rank(S, n)
         /\ \A k \in 1..Cardinality(S) : Nth(S, k) \in S /\ Rank(S, Nth(S, k)) = k
<1> DEFINE upTo(n) == {m \in S : m <= n}
           N == Cardinality(S)
<1>1. N \in Nat
  BY FS_CardinalityType
<1>2. ASSUME NEW n \in S
      PROVE  IsFiniteSet(upTo(n)) /\ Rank(S, n) = Cardinality(upTo(n)) /\ Rank(S, n) \in 1..N
  <2>1. upTo(n) \in SUBSET S /\ n \in upTo(n)
    OBVIOUS
  <2>2. IsFiniteSet(upTo(n)) /\ Cardinality(upTo(n)) <= N
    BY <2>1, FS_Subset
  <2>3. Cardinality(upTo(n)) \in Nat /\ Cardinality(upTo(n)) # 0
    BY <2>1, <2>2, FS_CardinalityType, FS_EmptySet
  <2> QED  BY <1>1, <2>2, <2>3 DEF Rank
<1>a. \A n \in S : Rank(S, n) \in 1..N
  BY <1>2
<1> HIDE DEF N
<1>b. \A n \in S : Rank(S, n) \in Nat
  BY <1>1, <1>a
<1>3. ASSUME NEW m \in S, NEW n \in S, m < n
      PROVE  Rank(S, m) < Rank(S, n)
  <2>1. /\ upTo(m) \in SUBSET upTo(n)
        /\ n \in upTo(n) /\ n \notin upTo(m)
    <3>1. m \in Nat /\ n \in Nat
      OBVIOUS
    <3>2. \A x \in S : x \in Nat
      OBVIOUS
    <3>3. \A x \in S : x <= m => x <= n
      BY <1>3, <3>1, <3>2
    <3>4. n <= n /\ ~(n <= m)
      BY <1>3, <3>1
    <3> QED  BY <3>3, <3>4
  <2>2. Cardinality(upTo(m)) <= Cardinality(upTo(n))
    BY <1>2, <2>1, FS_Subset
  <2>3. Cardinality(upTo(n)) # Cardinality(upTo(m))
    BY <1>2, <2>1, FS_Subset
  <2>4. Rank(S, m) \in Nat /\ Rank(S, n) \in Nat
    BY <1>b
  <2>5. Rank(S, m) = Cardinality(upTo(m)) /\ Rank(S, n) = Cardinality(upTo(n))
    BY DEF Rank
  <2> HIDE DEF upTo
  <2> QED  BY <2>2, <2>3, <2>4, <2>5
<1>4. \A k \in 1..N : \E n \in S : Rank(S, n) = k
  <2> DEFINE r == [n \in S |-> Rank(S, n)]
  <2>1. r \in [S -> 1..N]
    BY <1>a
  <2>2. IsInjective(r)
    <3>1. \A m, n \in S : m = n \/ m < n \/ n < m
      OBVIOUS
    <3>2. \A m, n \in S : Rank(S, m) \in Nat /\ Rank(S, n) \in Nat
      BY <1>b
    <3>3. \A m, n \in S : Rank(S, m) = Rank(S, n) => m = n
      BY <1>3, <3>1, <3>2
    <3> QED  BY <3>3 DEF IsInjective
  <2>3. r \in Injection(S, 1..N)
    BY <2>1, <2>2 DEF Injection
  <2>4. IsFiniteSet(1..N) /\ Cardinality(1..N) = N
    BY <1>1, FS_Interval
  <2> HIDE DEF r
  <2>5. r \in Surjection(S, 1..N)
    <3>1. Cardinality(S) = Cardinality(1..N)
      BY <2>4 DEF N
    <3> DEFINE T == 1..N
    <3> HIDE DEF T
    <3>2. r \in Injection(S, T) /\ IsFiniteSet(T) /\ Cardinality(S) = Cardinality(T)
      BY <2>3, <2>4, <3>1 DEF T
    <3>3. r \in Surjection(S, T)
      BY <3>2, FS_Injection
    <3> QED  BY <3>3 DEF T
  <2>6. \A k \in 1..N : \E n \in S : r[n] = k
    BY <2>5 DEF Surjection
  <2> QED  BY <2>6 DEF r
<1>5. ASSUME NEW k \in 1..N
      PROVE  Nth(S, k) \in S /\ Rank(S, Nth(S, k)) = k
  BY <1>4 DEF Nth
<1> QED  BY <1>1, <1>a, <1>3, <1>5 DEF N

LEMMA RankIsInjective ==
  ASSUME NEW S, S \subseteq Nat, IsFiniteSet(S)
  PROVE  /\ \A m, n \in S : Rank(S, m) = Rank(S, n) => m = n
         /\ \A n \in S : Nth(S, Rank(S, n)) = n
<1>1. /\ \A n \in S : Rank(S, n) \in 1..Cardinality(S)
      /\ \A m, n \in S : m < n => Rank(S, m) < Rank(S, n)
      /\ \A k \in 1..Cardinality(S) : Nth(S, k) \in S /\ Rank(S, Nth(S, k)) = k
      /\ Cardinality(S) \in Nat
  BY Ranks
<1>2. \A m, n \in S : Rank(S, m) = Rank(S, n) => m = n
  <2>1. \A m, n \in S : m = n \/ m < n \/ n < m
    OBVIOUS
  <2>2. \A n \in S : Rank(S, n) \in Nat
    BY <1>1
  <2> QED  BY <1>1, <2>1, <2>2
<1> QED  BY <1>1, <1>2

LEMMA SameLength ==
  ASSUME NEW m \in Nat, NEW n \in Nat, 1..m = 1..n
  PROVE  m = n
<1>1. m \in 1..n \/ m = 0
  OBVIOUS
<1>2. n \in 1..m \/ n = 0
  OBVIOUS
<1> QED  BY <1>1, <1>2

(* s lists C: each of its elements once, and nothing else.                 *)
ListOf(s, C) ==
  /\ s \in Seq(Nat)
  /\ \A i \in 1..Len(s) : s[i] \in C
  /\ \A c \in C : \E i \in 1..Len(s) : s[i] = c
  /\ \A i, j \in 1..Len(s) : s[i] = s[j] => i = j

LEMMA ListFacts ==
  ASSUME NEW s, NEW C, ListOf(s, C)
  PROVE  /\ s \in Seq(Nat)
         /\ Len(s) \in Nat /\ DOMAIN s = 1..Len(s)
         /\ \A i \in 1..Len(s) : s[i] \in Nat /\ s[i] \in C
         /\ \A c \in C : \E i \in 1..Len(s) : s[i] = c
         /\ \A i, j \in 1..Len(s) : s[i] = s[j] => i = j
         /\ C \subseteq Nat
         /\ ToSet(s) = C
<1>1. s \in Seq(Nat)
  BY DEF ListOf
<1>2. Len(s) \in Nat /\ DOMAIN s = 1..Len(s) /\ \A i \in 1..Len(s) : s[i] \in Nat
  BY <1>1, LenProperties
<1>3. C \subseteq Nat
  BY <1>2 DEF ListOf
<1>4. ToSet(s) = C
  BY <1>2 DEF ListOf, ToSet
<1> QED  BY <1>1, <1>2, <1>3, <1>4 DEF ListOf

LEMMA NoList == ListOf(<<>>, {})
<1>1. <<>> \in Seq(Nat) /\ Len(<<>>) = 0
  BY EmptySeq
<1> QED  BY <1>1 DEF ListOf

LEMMA OneList ==
  ASSUME NEW n \in Nat
  PROVE  ListOf(<<n>>, {n})
<1>1. <<n>> \in Seq(Nat) /\ Len(<<n>>) = 1 /\ <<n>>[1] = n
  OBVIOUS
<1> QED  BY <1>1 DEF ListOf

(* Two lists with nothing in common, joined.                               *)
LEMMA JoinedLists ==
  ASSUME NEW s, NEW C, ListOf(s, C), NEW t, NEW B, ListOf(t, B), C \cap B = {}
  PROVE  ListOf(s \o t, C \cup B)
<1> DEFINE st == s \o t
<1>1. /\ s \in Seq(Nat) /\ Len(s) \in Nat
      /\ \A i \in 1..Len(s) : s[i] \in C
      /\ \A c \in C : \E i \in 1..Len(s) : s[i] = c
      /\ \A i, j \in 1..Len(s) : s[i] = s[j] => i = j
  BY ListFacts
<1>2. /\ t \in Seq(Nat) /\ Len(t) \in Nat
      /\ \A i \in 1..Len(t) : t[i] \in B
      /\ \A c \in B : \E i \in 1..Len(t) : t[i] = c
      /\ \A i, j \in 1..Len(t) : t[i] = t[j] => i = j
  BY ListFacts
<1>3. /\ st \in Seq(Nat)
      /\ Len(st) = Len(s) + Len(t)
      /\ \A i \in 1..Len(s) + Len(t) : st[i] = IF i <= Len(s) THEN s[i] ELSE t[i - Len(s)]
  BY <1>1, <1>2, ConcatProperties
<1> HIDE DEF st
<1>4. \A i \in 1..Len(s) : i \in 1..Len(st) /\ st[i] = s[i]
  <2> SUFFICES ASSUME NEW i \in 1..Len(s)
               PROVE  i \in 1..Len(st) /\ st[i] = s[i]
    OBVIOUS
  <2>1. i \in 1..Len(s) + Len(t) /\ i <= Len(s)
    BY <1>1, <1>2
  <2> QED  BY <1>3, <2>1
<1>5. \A i \in 1..Len(t) : Len(s) + i \in 1..Len(st) /\ st[Len(s) + i] = t[i]
  <2> SUFFICES ASSUME NEW i \in 1..Len(t)
               PROVE  Len(s) + i \in 1..Len(st) /\ st[Len(s) + i] = t[i]
    OBVIOUS
  <2>1. /\ Len(s) + i \in 1..Len(s) + Len(t)
        /\ ~(Len(s) + i <= Len(s))
        /\ (Len(s) + i) - Len(s) = i
    BY <1>1, <1>2
  <2> QED  BY <1>3, <2>1
<1>6. \A i \in 1..Len(st) :
        \/ i \in 1..Len(s) /\ st[i] = s[i]
        \/ i - Len(s) \in 1..Len(t) /\ st[i] = t[i - Len(s)]
  <2> SUFFICES ASSUME NEW i \in 1..Len(st)
               PROVE  \/ i \in 1..Len(s) /\ st[i] = s[i]
                      \/ i - Len(s) \in 1..Len(t) /\ st[i] = t[i - Len(s)]
    OBVIOUS
  <2>1. i \in 1..Len(s) + Len(t)
    BY <1>3
  <2>2. st[i] = IF i <= Len(s) THEN s[i] ELSE t[i - Len(s)]
    BY <1>3, <2>1
  <2>3. i <= Len(s) => i \in 1..Len(s)
    BY <1>1, <2>1
  <2>4. ~(i <= Len(s)) => i - Len(s) \in 1..Len(t)
    BY <1>1, <1>2, <2>1
  <2> QED  BY <2>2, <2>3, <2>4
<1>7. \A i \in 1..Len(st) : st[i] \in C \cup B
  BY <1>1, <1>2, <1>6
<1>8. \A c \in C \cup B : \E i \in 1..Len(st) : st[i] = c
  <2>1. \A c \in C : \E i \in 1..Len(st) : st[i] = c
    BY <1>1, <1>4
  <2>2. ASSUME NEW c \in B
        PROVE  \E i \in 1..Len(st) : st[i] = c
    <3>1. PICK i \in 1..Len(t) : t[i] = c
      BY <1>2
    <3> QED  BY <1>5, <3>1
  <2> QED  BY <2>1, <2>2
<1>9. ASSUME NEW i \in 1..Len(st), NEW j \in 1..Len(st), st[i] = st[j]
      PROVE  i = j
  <2>1. CASE i \in 1..Len(s) /\ st[i] = s[i]
    <3>1. st[j] \notin B
      BY <1>1, <1>9, <2>1
    <3>2. j \in 1..Len(s) /\ st[j] = s[j]
      BY <1>2, <1>6, <3>1
    <3> QED  BY <1>1, <1>9, <2>1, <3>2
  <2>2. CASE i - Len(s) \in 1..Len(t) /\ st[i] = t[i - Len(s)]
    <3>1. st[j] \notin C
      BY <1>2, <1>9, <2>2
    <3>2. j - Len(s) \in 1..Len(t) /\ st[j] = t[j - Len(s)]
      BY <1>1, <1>6, <3>1
    <3>3. i - Len(s) = j - Len(s)
      BY <1>2, <1>9, <2>2, <3>2
    <3>4. i \in Int /\ j \in Int /\ Len(s) \in Int
      BY <1>1, <1>2, <1>3
    <3> QED  BY <3>3, <3>4
  <2> QED  BY <1>6, <2>1, <2>2
<1>10. ListOf(st, C \cup B)
  BY <1>3, <1>7, <1>8, <1>9 DEF ListOf
<1> QED  BY <1>10 DEF st

(* A stretch of a list.                                                    *)
LEMMA PartOfList ==
  ASSUME NEW s, NEW C, ListOf(s, C), NEW a \in 1..Len(s) + 1, NEW b \in 0..Len(s)
  PROVE  ListOf(SubSeq(s, a, b), {s[i] : i \in a..b})
<1> DEFINE t == SubSeq(s, a, b)
           B == {s[i] : i \in a..b}
<1>1. /\ s \in Seq(Nat) /\ Len(s) \in Nat
      /\ \A i \in 1..Len(s) : s[i] \in Nat
      /\ \A i, j \in 1..Len(s) : s[i] = s[j] => i = j
  BY ListFacts
<1>2. a \in Int /\ b \in Int /\ \A i \in a..b : i \in 1..Len(s) /\ s[i] \in Nat
  BY <1>1
<1>3. /\ t \in Seq(Nat)
      /\ Len(t) = IF a <= b THEN b - a + 1 ELSE 0
      /\ \A i \in 1..b - a + 1 : t[i] = s[a + i - 1]
  BY <1>2, SubSeqProperties
<1> HIDE DEF t
<1>4. \A i \in 1..Len(t) : a + i - 1 \in a..b /\ t[i] = s[a + i - 1]
  BY <1>2, <1>3
<1>5. \A i \in a..b : i - a + 1 \in 1..Len(t) /\ t[i - a + 1] = s[i]
  <2> SUFFICES ASSUME NEW i \in a..b
               PROVE  i - a + 1 \in 1..Len(t) /\ t[i - a + 1] = s[i]
    OBVIOUS
  <2>1. i - a + 1 \in 1..b - a + 1 /\ a + (i - a + 1) - 1 = i /\ a <= b
    BY <1>2
  <2> QED  BY <1>3, <2>1
<1>6. \A i \in 1..Len(t) : t[i] \in B
  BY <1>4
<1>7. \A c \in B : \E i \in 1..Len(t) : t[i] = c
  BY <1>5
<1>8. ASSUME NEW i \in 1..Len(t), NEW j \in 1..Len(t), t[i] = t[j]
      PROVE  i = j
  <2>1. a + i - 1 = a + j - 1
    BY <1>1, <1>2, <1>4, <1>8
  <2>2. i \in Int /\ j \in Int
    BY <1>2, <1>3
  <2> QED  BY <1>2, <2>1, <2>2
<1> HIDE DEF B
<1>9. ListOf(t, B)
  BY <1>3, <1>6, <1>7, <1>8 DEF ListOf
<1> QED  BY <1>9 DEF t, B

LEMMA ListSplit ==
  ASSUME NEW s, NEW C, ListOf(s, C), NEW k \in 0..Len(s)
  PROVE  \E A, B : /\ A \cup B = C /\ A \cap B = {}
                   /\ ListOf(SubSeq(s, 1, k), A)
                   /\ ListOf(SubSeq(s, k + 1, Len(s)), B)
<1> DEFINE A == {s[i] : i \in 1..k}
           B == {s[i] : i \in k + 1..Len(s)}
<1>1. /\ Len(s) \in Nat
      /\ \A i \in 1..Len(s) : s[i] \in C
      /\ \A c \in C : \E i \in 1..Len(s) : s[i] = c
      /\ \A i, j \in 1..Len(s) : s[i] = s[j] => i = j
  BY ListFacts
<1>2. ListOf(SubSeq(s, 1, k), A)
  <2>1. 1 \in 1..Len(s) + 1 /\ k \in 0..Len(s)
    BY <1>1
  <2> QED  BY <2>1, PartOfList
<1>3. ListOf(SubSeq(s, k + 1, Len(s)), B)
  <2>1. k + 1 \in 1..Len(s) + 1 /\ Len(s) \in 0..Len(s)
    BY <1>1
  <2> QED  BY <2>1, PartOfList
<1>4. A \cup B = C
  <2>1. \A i \in 1..Len(s) : i \in 1..k \/ i \in k + 1..Len(s)
    BY <1>1
  <2>2. \A i \in 1..k : i \in 1..Len(s)
    BY <1>1
  <2>3. \A i \in k + 1..Len(s) : i \in 1..Len(s)
    BY <1>1
  <2> QED  BY <1>1, <2>1, <2>2, <2>3
<1>5. A \cap B = {}
  <2>1. \A i \in 1..k : \A j \in k + 1..Len(s) : i \in 1..Len(s) /\ j \in 1..Len(s) /\ i # j
    BY <1>1
  <2> QED  BY <1>1, <2>1
<1> QED  BY <1>2, <1>3, <1>4, <1>5

LEMMA InsertedList ==
  ASSUME NEW s, NEW C, ListOf(s, C), NEW x \in Nat, x \notin C, NEW i \in 1..Len(s) + 1
  PROVE  ListOf(InsertAt(s, i, x), C \cup {x})
<1>1. Len(s) \in Nat
  BY ListFacts
<1>2. i - 1 \in 0..Len(s) /\ (i - 1) + 1 = i
  BY <1>1
<1>3. PICK A, B : /\ A \cup B = C /\ A \cap B = {}
                  /\ ListOf(SubSeq(s, 1, i - 1), A)
                  /\ ListOf(SubSeq(s, (i - 1) + 1, Len(s)), B)
  BY <1>2, ListSplit
<1>4. ListOf(SubSeq(s, 1, i - 1) \o <<x>>, A \cup {x})
  BY <1>3, OneList, JoinedLists
<1>5. ListOf(SubSeq(s, 1, i - 1) \o <<x>> \o SubSeq(s, i, Len(s)), (A \cup {x}) \cup B)
  <2>1. (A \cup {x}) \cap B = {}
    BY <1>3
  <2>2. ListOf(SubSeq(s, i, Len(s)), B)
    BY <1>2, <1>3
  <2> QED  BY <1>4, <2>1, <2>2, JoinedLists
<1>6. (A \cup {x}) \cup B = C \cup {x}
  BY <1>3
<1> QED  BY <1>5, <1>6 DEF InsertAt

(* A list without its element at i, with other elements in its place.      *)
LEMMA SplicedList ==
  ASSUME NEW s, NEW C, ListOf(s, C), NEW i \in 1..Len(s),
         NEW t, NEW B, ListOf(t, B), C \cap B = {}
  PROVE  /\ ListOf(SubSeq(s, 1, i - 1) \o t \o SubSeq(s, i + 1, Len(s)),
                   (C \ {s[i]}) \cup B)
         /\ ListOf(SubSeq(s, 1, i - 1) \o SubSeq(s, i + 1, Len(s)), C \ {s[i]})
<1> DEFINE left == SubSeq(s, 1, i - 1)
           right == SubSeq(s, i + 1, Len(s))
           L == {s[j] : j \in 1..i - 1}
           R == {s[j] : j \in i + 1..Len(s)}
<1>1. /\ Len(s) \in Nat
      /\ \A j \in 1..Len(s) : s[j] \in C
      /\ \A c \in C : \E j \in 1..Len(s) : s[j] = c
      /\ \A j, k \in 1..Len(s) : s[j] = s[k] => j = k
  BY ListFacts
<1>2. ListOf(left, L)
  <2>1. 1 \in 1..Len(s) + 1 /\ i - 1 \in 0..Len(s)
    BY <1>1
  <2> QED  BY <2>1, PartOfList
<1>3. ListOf(right, R)
  <2>1. i + 1 \in 1..Len(s) + 1 /\ Len(s) \in 0..Len(s)
    BY <1>1
  <2> QED  BY <2>1, PartOfList
<1>4. L \cup R = C \ {s[i]} /\ L \cap R = {}
  <2>1. \A j \in 1..Len(s) : j \in 1..i - 1 \/ j = i \/ j \in i + 1..Len(s)
    BY <1>1
  <2>2. \A j \in 1..i - 1 : j \in 1..Len(s) /\ j # i
    BY <1>1
  <2>3. \A j \in i + 1..Len(s) : j \in 1..Len(s) /\ j # i
    BY <1>1
  <2>4. \A j \in 1..i - 1 : \A k \in i + 1..Len(s) : j # k
    BY <1>1
  <2>5. L \subseteq C \ {s[i]} /\ R \subseteq C \ {s[i]}
    BY <1>1, <2>2, <2>3
  <2>6. C \ {s[i]} \subseteq L \cup R
    BY <1>1, <2>1
  <2>7. L \cap R = {}
    BY <1>1, <2>2, <2>3, <2>4
  <2> QED  BY <2>5, <2>6, <2>7
<1> HIDE DEF left, right, L, R
<1>5. ListOf(left \o t, L \cup B)
  BY <1>2, <1>4, JoinedLists
<1>6. ListOf(left \o t \o right, (L \cup B) \cup R)
  BY <1>3, <1>4, <1>5, JoinedLists
<1>7. ListOf(left \o right, L \cup R)
  BY <1>2, <1>3, <1>4, JoinedLists
<1>8. (L \cup B) \cup R = (C \ {s[i]}) \cup B
  BY <1>4
<1> QED  BY <1>4, <1>6, <1>7, <1>8 DEF left, right

LEMMA RemovedList ==
  ASSUME NEW s, NEW C, ListOf(s, C), NEW i \in 1..Len(s)
  PROVE  ListOf(RemoveAt(s, i), C \ {s[i]})
BY NoList, SplicedList DEF RemoveAt

LEMMA LenRemoved ==
  ASSUME NEW s \in Seq(Nat), NEW i \in 1..Len(s)
  PROVE  Len(RemoveAt(s, i)) = Len(s) - 1
<1> DEFINE left == SubSeq(s, 1, i - 1)
           right == SubSeq(s, i + 1, Len(s))
<1>1. Len(s) \in Nat /\ \A j \in 1..Len(s) : s[j] \in Nat
  BY LenProperties
<1>2. left \in Seq(Nat) /\ Len(left) = i - 1
  <2>1. \A j \in 1..i - 1 : s[j] \in Nat
    BY <1>1
  <2> QED  BY <1>1, <2>1, SubSeqProperties
<1>3. right \in Seq(Nat) /\ Len(right) = Len(s) - i
  <2>1. \A j \in i + 1..Len(s) : s[j] \in Nat
    BY <1>1
  <2>2. i \in Int /\ i + 1 \in Int /\ Len(s) \in Int /\ i <= Len(s)
    BY <1>1
  <2>3. right \in Seq(Nat) /\ Len(right) = IF i + 1 <= Len(s) THEN Len(s) - (i + 1) + 1 ELSE 0
    BY <2>1, <2>2, SubSeqProperties
  <2> HIDE DEF right
  <2> QED  BY <2>2, <2>3
<1>4. Len(left \o right) = Len(left) + Len(right)
  BY <1>2, <1>3, ConcatProperties
<1>5. RemoveAt(s, i) = left \o right
  BY DEF RemoveAt
<1>6. i \in Int
  OBVIOUS
<1> HIDE DEF left, right
<1>7. Len(RemoveAt(s, i)) = Len(left) + Len(right)
  BY <1>4, <1>5
<1>8. Len(left) + Len(right) = Len(s) - 1
  BY <1>1, <1>2, <1>3, <1>6
<1> QED  BY <1>7, <1>8

LEMMA ReplacedList ==
  ASSUME NEW s, NEW C, ListOf(s, C), NEW i \in 1..Len(s), NEW x \in Nat, x \notin C
  PROVE  ListOf(ReplaceAt(s, i, x), (C \ {s[i]}) \cup {x})
<1> DEFINE t == [s EXCEPT ![i] = x]
<1>1. /\ s \in Seq(Nat) /\ Len(s) \in Nat
      /\ \A j \in 1..Len(s) : s[j] \in C
      /\ \A c \in C : \E j \in 1..Len(s) : s[j] = c
      /\ \A j, k \in 1..Len(s) : s[j] = s[k] => j = k
  BY ListFacts
<1>2. /\ t \in Seq(Nat) /\ Len(t) = Len(s)
      /\ \A j \in 1..Len(s) : t[j] = IF j = i THEN x ELSE s[j]
  BY <1>1, ExceptSeq
<1> HIDE DEF t
<1>3. \A j \in 1..Len(t) : t[j] \in (C \ {s[i]}) \cup {x}
  BY <1>1, <1>2
<1>4. \A c \in (C \ {s[i]}) \cup {x} : \E j \in 1..Len(t) : t[j] = c
  BY <1>1, <1>2
<1>5. ASSUME NEW j \in 1..Len(t), NEW k \in 1..Len(t), t[j] = t[k]
      PROVE  j = k
  <2>1. s[j] \in C /\ s[k] \in C
    BY <1>1, <1>2
  <2> QED  BY SMTT(30), <1>1, <1>2, <1>5, <2>1
<1>6. ListOf(t, (C \ {s[i]}) \cup {x})
  BY <1>2, <1>3, <1>4, <1>5 DEF ListOf
<1> QED  BY <1>6 DEF t, ReplaceAt

(* The elements of a list, renamed.                                        *)
LEMMA RenamedList ==
  ASSUME NEW s, NEW C, ListOf(s, C), NEW f, \A c \in C : f[c] \in Nat,
         \A b, c \in C : f[b] = f[c] => b = c
  PROVE  ListOf([i \in DOMAIN s |-> f[s[i]]], {f[c] : c \in C})
<1> DEFINE t == [i \in 1..Len(s) |-> f[s[i]]]
           B == {f[c] : c \in C}
<1>1. /\ s \in Seq(Nat) /\ Len(s) \in Nat /\ DOMAIN s = 1..Len(s)
      /\ \A j \in 1..Len(s) : s[j] \in C
      /\ \A c \in C : \E j \in 1..Len(s) : s[j] = c
      /\ \A j, k \in 1..Len(s) : s[j] = s[k] => j = k
  BY ListFacts
<1>2. t \in [1..Len(s) -> Nat]
  BY <1>1
<1>3. t \in Seq(Nat)
  BY <1>1, <1>2, SeqDef
<1>4. Len(t) = Len(s)
  <2>1. DOMAIN t = 1..Len(t) /\ Len(t) \in Nat
    BY <1>3, LenProperties
  <2>2. 1..Len(t) = 1..Len(s)
    BY <2>1
  <2> QED  BY <1>1, <2>1, <2>2, SameLength
<1>5. \A j \in 1..Len(s) : t[j] = f[s[j]]
  OBVIOUS
<1> HIDE DEF t
<1>6. \A j \in 1..Len(t) : t[j] \in B
  BY <1>1, <1>4, <1>5
<1>7. \A c \in B : \E j \in 1..Len(t) : t[j] = c
  BY <1>1, <1>4, <1>5
<1>8. \A j, k \in 1..Len(t) : t[j] = t[k] => j = k
  BY <1>1, <1>4, <1>5
<1> HIDE DEF B
<1>9. ListOf(t, B)
  BY <1>3, <1>6, <1>7, <1>8 DEF ListOf
<1> QED  BY <1>1, <1>9 DEF t, B

(* A list without some elements.                                           *)
LEMMA ListWithout ==
  ASSUME NEW s, NEW C, ListOf(s, C), NEW x
  PROVE  ListOf(Without(s, x), C \ x)
<1> DEFINE left == {i \in DOMAIN s : s[i] \notin x}
           N == Cardinality(left)
           t == [k \in 1..N |-> s[Nth(left, k)]]
<1>1. /\ s \in Seq(Nat) /\ Len(s) \in Nat /\ DOMAIN s = 1..Len(s)
      /\ \A j \in 1..Len(s) : s[j] \in Nat /\ s[j] \in C
      /\ \A c \in C : \E j \in 1..Len(s) : s[j] = c
      /\ \A j, k \in 1..Len(s) : s[j] = s[k] => j = k
  BY ListFacts
<1>2. left \subseteq Nat /\ IsFiniteSet(left)
  <2>1. IsFiniteSet(1..Len(s))
    BY <1>1, FS_Interval
  <2>2. left \in SUBSET (1..Len(s))
    BY <1>1
  <2> QED  BY <2>1, <2>2, FS_Subset
<1>3. \A i \in left : i \in 1..Len(s) /\ s[i] \in C \ x
  BY <1>1
<1>4. \A c \in C \ x : \E i \in left : s[i] = c
  BY <1>1
<1>5. t = Without(s, x)
  BY DEF Without
<1> HIDE DEF left
<1>6. /\ N \in Nat
      /\ \A k \in 1..N : Nth(left, k) \in left /\ Rank(left, Nth(left, k)) = k
      /\ \A i \in left : Rank(left, i) \in 1..N /\ Nth(left, Rank(left, i)) = i
  BY <1>2, Ranks, RankIsInjective
<1> HIDE DEF N
<1>7. t \in [1..N -> Nat]
  BY <1>1, <1>3, <1>6
<1>8. t \in Seq(Nat)
  BY <1>6, <1>7, SeqDef
<1>9. Len(t) = N
  <2>1. DOMAIN t = 1..Len(t) /\ Len(t) \in Nat
    BY <1>8, LenProperties
  <2>2. 1..Len(t) = 1..N
    BY <2>1
  <2> QED  BY <1>6, <2>1, <2>2, SameLength
<1>10. \A k \in 1..N : t[k] = s[Nth(left, k)]
  OBVIOUS
<1> HIDE DEF t
<1>11. \A k \in 1..Len(t) : t[k] \in C \ x
  BY <1>3, <1>6, <1>9, <1>10
<1>12. \A c \in C \ x : \E k \in 1..Len(t) : t[k] = c
  BY <1>4, <1>6, <1>9, <1>10
<1>13. ASSUME NEW j \in 1..Len(t), NEW k \in 1..Len(t), t[j] = t[k]
       PROVE  j = k
  <2>1. Nth(left, j) = Nth(left, k)
    BY <1>1, <1>3, <1>6, <1>9, <1>10, <1>13
  <2> QED  BY <1>6, <1>9, <2>1
<1>14. ListOf(t, C \ x)
  BY <1>8, <1>11, <1>12, <1>13 DEF ListOf
<1> QED  BY <1>5, <1>14

(* A list of numbers up to m is no longer than m + 1.                      *)
LEMMA ListIsShort ==
  ASSUME NEW s, NEW C, ListOf(s, C), NEW m \in Nat, C \subseteq 1..m
  PROVE  Len(s) <= m
<1>1. /\ s \in Seq(Nat) /\ Len(s) \in Nat /\ DOMAIN s = 1..Len(s)
      /\ \A i \in 1..Len(s) : s[i] \in 1..m
      /\ \A i, j \in 1..Len(s) : s[i] = s[j] => i = j
  BY ListFacts
<1>2. s \in Injection(1..Len(s), 1..m)
  <2>1. s \in [1..Len(s) -> 1..m]
    BY <1>1, LenProperties
  <2> QED  BY <1>1, <2>1 DEF Injection, IsInjective
<1>3. /\ IsFiniteSet(1..m) /\ Cardinality(1..m) = m
      /\ Cardinality(1..Len(s)) = Len(s)
  <2>1. 1 \in Int /\ m \in Int /\ Len(s) \in Int /\ ~(1 > m /\ m # 0) /\ ~(1 > Len(s) /\ Len(s) # 0)
    BY <1>1
  <2>2. IsFiniteSet(1..m) /\ Cardinality(1..m) = IF 1 > m THEN 0 ELSE m - 1 + 1
    BY <2>1, FS_Interval
  <2>3. Cardinality(1..Len(s)) = IF 1 > Len(s) THEN 0 ELSE Len(s) - 1 + 1
    BY <2>1, FS_Interval
  <2> QED  BY <1>1, <2>1, <2>2, <2>3
<1>4. Cardinality(1..Len(s)) <= Cardinality(1..m)
  BY <1>2, <1>3, FS_Injection
<1> QED  BY <1>3, <1>4
-----------------------------------------------------------------------------
(* Queries as trees of lists. *)

QueryNode == [type : {"rule", "group"}, rules : Seq(Nat)]

(* A rule has nothing beneath it, and a group lists its children.          *)
Holds(node, C) ==
  /\ node \in QueryNode
  /\ node.type = "rule" => node.rules = <<>>
  /\ ListOf(node.rules, C)

WellFormed(q, C) ==
  /\ DOMAIN q \subseteq Nat
  /\ \A n \in DOMAIN q : Holds(q[n], C[n])

Kids(q) == [n \in DOMAIN q |-> Children(q, n)]

Tree(q) == WellFormed(q, Kids(q)) /\ Arbor(DOMAIN q, Kids(q))

LEMMA FormKids ==
  ASSUME NEW q, NEW C, WellFormed(q, C)
  PROVE  \A n \in DOMAIN q : Children(q, n) = C[n]
<1> SUFFICES ASSUME NEW n \in DOMAIN q
             PROVE  Children(q, n) = C[n]
  OBVIOUS
<1>1. ListOf(q[n].rules, C[n])
  BY DEF WellFormed, Holds
<1> QED  BY <1>1, ListFacts DEF Children

LEMMA TreeOf ==
  ASSUME NEW q, NEW E, WellFormed(q, E), Arbor(DOMAIN q, E)
  PROVE  Tree(q)
<1>1. E = Kids(q)
  <2>1. E \in [DOMAIN q -> SUBSET (DOMAIN q \ {Root})]
    BY DEF Arbor
  <2>2. \A n \in DOMAIN q : Children(q, n) = E[n]
    BY FormKids
  <2> HIDE DEF WellFormed, Arbor
  <2> QED  BY <2>1, <2>2 DEF Kids
<1> QED  BY <1>1 DEF Tree

LEMMA NewRules ==
  ASSUME NEW node, NEW C, Holds(node, C),
         NEW s, NEW B, ListOf(s, B), node.type = "group" \/ s = <<>>
  PROVE  Holds([node EXCEPT !.rules = s], B)
<1>1. node \in QueryNode /\ s \in Seq(Nat)
  BY ListFacts DEF Holds
<1>2. /\ [node EXCEPT !.rules = s] \in QueryNode
      /\ [node EXCEPT !.rules = s].type = node.type
      /\ [node EXCEPT !.rules = s].rules = s
  BY <1>1 DEF QueryNode
<1> QED  BY <1>2 DEF Holds

(* One group's rules, and so its children, replaced.                       *)
Rewritten(q, g, s) == [q EXCEPT ![g].rules = s]
Changed(q, C, g, B) == [n \in DOMAIN q |-> IF n = g THEN B ELSE C[n]]

LEMMA FormExcept ==
  ASSUME NEW q, NEW C, WellFormed(q, C), NEW g, NEW s, NEW B, ListOf(s, B),
         IsGroup(q, g) \/ (g \in DOMAIN q /\ s = <<>>)
  PROVE  /\ DOMAIN Rewritten(q, g, s) = DOMAIN q
         /\ WellFormed(Rewritten(q, g, s), Changed(q, C, g, B))
<1> DEFINE r == [q EXCEPT ![g].rules = s]
<1>1. g \in DOMAIN q /\ (q[g].type = "group" \/ s = <<>>)
  BY DEF IsGroup
<1>2. /\ DOMAIN r = DOMAIN q
      /\ r[g] = [q[g] EXCEPT !.rules = s]
      /\ \A n \in DOMAIN q : n # g => r[n] = q[n]
  BY <1>1
<1>3. Holds(r[g], B)
  <2>1. Holds(q[g], C[g])
    BY <1>1 DEF WellFormed
  <2> QED  BY <1>1, <1>2, <2>1, NewRules
<1>4. \A n \in DOMAIN q : n # g => Holds(r[n], C[n])
  BY <1>2 DEF WellFormed
<1>5. DOMAIN q \subseteq Nat
  BY DEF WellFormed
<1> HIDE DEF r
<1>6. DOMAIN r = DOMAIN q /\ WellFormed(r, Changed(q, C, g, B))
  BY <1>2, <1>3, <1>4, <1>5 DEF WellFormed, Changed
<1> QED  BY <1>6 DEF r, Rewritten

(* What is beneath a node, of any query that has all its nodes' children.  *)
LEMMA ChildrenBelow ==
  ASSUME NEW q, \A m \in DOMAIN q : Children(q, m) \subseteq DOMAIN q, NEW n \in DOMAIN q
  PROVE  Below(DOMAIN q, Kids(q), n, Under(q, n))
<1> DEFINE D == DOMAIN q
           C == Kids(q)
           Least(V) == /\ n \in V /\ KeepsChildren(q, V)
                       /\ \A S \in SUBSET V : n \in S /\ KeepsChildren(q, S) => S = V
<1>0. C \in [D -> SUBSET D]
  BY DEF Kids
<1>1. ASSUME NEW S \in SUBSET D
      PROVE  KeepsChildren(q, S) <=> Hung(C, S)
  BY DEF KeepsChildren, Hung, Kids
<1>2. PICK U : Below(D, C, n, U)
  BY <1>0, SomethingBelow
<1> HIDE DEF C
<1>3. U \in SUBSET D /\ Least(U)
  BY <1>1, <1>2 DEF Below
<1>4. Under(q, n) = CHOOSE V \in SUBSET D : Least(V)
  BY DEF Under
<1> DEFINE W == CHOOSE V \in SUBSET D : Least(V)
<1>5. W \in SUBSET D /\ Least(W)
  <2> HIDE DEF Least
  <2> QED  BY <1>3
<1> HIDE DEF W
<1>6. ASSUME NEW S \in SUBSET D, n \in S, Hung(C, S)
      PROVE  W \subseteq S
  <2>1. Hung(C, S \cap W)
    BY <1>1, <1>5, <1>6 DEF Hung
  <2>2. S \cap W \in SUBSET W /\ n \in S \cap W /\ KeepsChildren(q, S \cap W)
    BY <1>1, <1>5, <1>6, <2>1
  <2>3. S \cap W = W
    BY <1>5, <2>2
  <2> QED  BY <2>3
<1>7. Hung(C, W)
  BY <1>1, <1>5
<1>8. Below(D, C, n, W)
  BY <1>5, <1>6, <1>7 DEF Below
<1> QED  BY <1>4, <1>8 DEF W, C

LEMMA UnderIsBelow ==
  ASSUME NEW q, NEW C, WellFormed(q, C), C \in [DOMAIN q -> SUBSET DOMAIN q],
         NEW n \in DOMAIN q
  PROVE  Below(DOMAIN q, C, n, Under(q, n))
<1>1. \A m \in DOMAIN q : Children(q, m) = C[m]
  BY FormKids
<1>2. \A m \in DOMAIN q : Children(q, m) \subseteq DOMAIN q
  BY <1>1
<1>3. Kids(q) = C
  BY <1>1 DEF Kids
<1> QED  BY <1>2, <1>3, ChildrenBelow

LEMMA TreeUnder ==
  ASSUME NEW q, Tree(q), NEW n \in DOMAIN q
  PROVE  Below(DOMAIN q, Kids(q), n, Under(q, n))
<1>1. Kids(q) \in [DOMAIN q -> SUBSET DOMAIN q]
  BY DEF Tree, Arbor
<1> QED  BY <1>1, UnderIsBelow DEF Tree

(* The parent and the place of a node that has one.                        *)
LEMMA ParentFacts ==
  ASSUME NEW q, Tree(q), NEW n, HasParent(q, n)
  PROVE  /\ IsGroup(q, Parent(q, n)) /\ Parent(q, n) \in DOMAIN q
         /\ ListOf(q[Parent(q, n)].rules, Kids(q)[Parent(q, n)])
         /\ n \in Kids(q)[Parent(q, n)]
         /\ Index(q, n) \in 0..Len(q[Parent(q, n)].rules) - 1
         /\ Index(q, n) + 1 \in 1..Len(q[Parent(q, n)].rules)
         /\ q[Parent(q, n)].rules[Index(q, n) + 1] = n
         /\ n \in DOMAIN q \ {Root} /\ n \in Nat
<1> DEFINE g == Parent(q, n)
<1>1. g \in Groups(q) /\ n \in Children(q, g)
  BY DEF HasParent, Parent
<1>2. IsGroup(q, g) /\ g \in DOMAIN q
  BY <1>1 DEF Groups, IsGroup
<1> DEFINE s == q[Parent(q, n)].rules
           i == CHOOSE j \in DOMAIN s : s[j] = n
<1>3. Index(q, n) = i - 1
  BY DEF Index
<1> HIDE DEF g
<1>4. ListOf(q[g].rules, Kids(q)[g])
  BY <1>2 DEF Tree, WellFormed, Holds
<1>5. n \in Kids(q)[g]
  BY <1>1, <1>2 DEF Kids
<1>6. n \in DOMAIN q \ {Root} /\ n \in Nat
  BY <1>2, <1>5 DEF Tree, Arbor, WellFormed
<1>7. /\ Len(q[g].rules) \in Nat /\ DOMAIN q[g].rules = 1..Len(q[g].rules)
      /\ \E j \in 1..Len(q[g].rules) : q[g].rules[j] = n
  BY <1>4, <1>5, ListFacts
<1>8. i \in 1..Len(q[g].rules) /\ q[g].rules[i] = n
  BY <1>7 DEF g
<1> HIDE DEF i
<1>9. i \in Int /\ (i - 1) + 1 = i /\ i - 1 \in 0..Len(q[g].rules) - 1
  BY <1>7, <1>8
<1> QED  BY <1>2, <1>3, <1>4, <1>5, <1>6, <1>8, <1>9 DEF g
-----------------------------------------------------------------------------
(* Nodes put in. *)

PutIn(q, C, nodes, B, n, p) ==
  [m \in DOMAIN nodes \cup DOMAIN q |->
     IF m \in DOMAIN nodes THEN B[m] ELSE IF m = p THEN C[m] \cup {n} ELSE C[m]]

LEMMA InsertedForm ==
  ASSUME NEW q, NEW C, WellFormed(q, C), NEW nodes, NEW B, WellFormed(nodes, B),
         DOMAIN nodes \cap DOMAIN q = {},
         NEW p, IsGroup(q, p), NEW n \in Nat, n \notin C[p], NEW index \in Nat
  PROVE  /\ DOMAIN InsertNode(q, n, nodes, p, index) = DOMAIN nodes \cup DOMAIN q
         /\ WellFormed(InsertNode(q, n, nodes, p, index), PutIn(q, C, nodes, B, n, p))
<1> DEFINE r == InsertNode(q, n, nodes, p, index)
           E == PutIn(q, C, nodes, B, n, p)
           w == With(nodes, q)
           F == [m \in DOMAIN nodes \cup DOMAIN q |->
                   IF m \in DOMAIN nodes THEN B[m] ELSE C[m]]
           s == w[p].rules
           t == InsertAt(s, Smaller(index, Len(s)) + 1, n)
<1>1. /\ DOMAIN w = DOMAIN nodes \cup DOMAIN q
      /\ \A m \in DOMAIN nodes : w[m] = nodes[m]
      /\ \A m \in DOMAIN q : w[m] = q[m]
  BY DEF With
<1>2. r = Rewritten(w, p, t)
  BY DEF InsertNode, Rewritten
<1> HIDE DEF w, r
<1>3. WellFormed(w, F)
  BY <1>1 DEF WellFormed
<1>4. p \in DOMAIN q /\ p \notin DOMAIN nodes /\ w[p] = q[p] /\ IsGroup(w, p) /\ F[p] = C[p]
  BY <1>1 DEF IsGroup
<1>5. ListOf(s, C[p])
  BY <1>4 DEF WellFormed, Holds
<1>6. Smaller(index, Len(s)) + 1 \in 1..Len(s) + 1
  BY <1>5, ListFacts DEF Smaller
<1>7. ListOf(t, C[p] \cup {n})
  BY <1>5, <1>6, InsertedList
<1> HIDE DEF t, F
<1>8. /\ DOMAIN r = DOMAIN w
      /\ WellFormed(r, Changed(w, F, p, C[p] \cup {n}))
  BY <1>2, <1>3, <1>4, <1>7, FormExcept
<1>9. Changed(w, F, p, C[p] \cup {n}) = E
  BY <1>1, <1>4 DEF F, Changed, PutIn
<1> QED  BY <1>1, <1>8, <1>9 DEF r

(* An unknown group takes nothing.                                         *)
LEMMA NotInserted ==
  ASSUME NEW q, NEW n, NEW nodes, NEW p, NEW index, ~IsGroup(q, p)
  PROVE  InsertNode(q, n, nodes, p, index) = q
BY DEF InsertNode

LEMMA AddedTree ==
  ASSUME NEW q, Tree(q), NEW x \in Nat, x \notin DOMAIN q,
         NEW node, Holds(node, {}), NEW p, NEW index \in Nat,
         NEW r, r = InsertNode(q, x, Single(x, node), p, index)
  PROVE  Tree(r) /\ DOMAIN r \subseteq DOMAIN q \cup {x}
<1>1. CASE ~IsGroup(q, p)
  BY <1>1, NotInserted
<1>2. CASE IsGroup(q, p)
  <2> DEFINE nodes == Single(x, node)
             C == Kids(q)
             B == [m \in {x} |-> {}]
             E == [m \in DOMAIN q \cup {x} |-> IF m = x THEN {}
                                               ELSE IF m = p THEN C[p] \cup {x} ELSE C[m]]
  <2>1. DOMAIN nodes = {x} /\ nodes[x] = node
    BY DEF Single
  <2>2. WellFormed(nodes, B)
    BY <2>1 DEF WellFormed
  <2>3. /\ p \in DOMAIN q
        /\ WellFormed(q, C) /\ Arbor(DOMAIN q, C)
    BY <1>2 DEF IsGroup, Tree
  <2>4. x \notin C[p]
    BY <2>3 DEF Arbor
  <2> HIDE DEF nodes, C
  <2>5. E = PutIn(q, C, nodes, B, x, p)
    BY <2>1 DEF PutIn
  <2>6. r = InsertNode(q, x, nodes, p, index) /\ DOMAIN nodes \cap DOMAIN q = {}
    BY <2>1 DEF nodes
  <2> HIDE DEF B, E
  <2>7. DOMAIN r = DOMAIN nodes \cup DOMAIN q /\ WellFormed(r, E)
    <3>1. /\ DOMAIN InsertNode(q, x, nodes, p, index) = DOMAIN nodes \cup DOMAIN q
          /\ WellFormed(InsertNode(q, x, nodes, p, index), PutIn(q, C, nodes, B, x, p))
      BY <1>2, <2>2, <2>3, <2>4, <2>6, InsertedForm
    <3> QED  BY <2>5, <2>6, <3>1
  <2>8. Arbor(DOMAIN q \cup {x}, E)
    BY <2>3, LeafArbor DEF E
  <2>9. DOMAIN r = DOMAIN q \cup {x}
    BY <2>1, <2>7
  <2> QED  BY <2>7, <2>8, <2>9, TreeOf
<1> QED  BY <1>1, <1>2
-----------------------------------------------------------------------------
(* The copy. *)

(* The ids of the copy of what is beneath id.                              *)
CopyIds(q, id, last) == [u \in Under(q, id) |-> CloneId(q, id, last, u)]

(* They are one for one with the nodes, and above every id handed out.     *)
FreshCopy(q, last, id, N, U, V, f) ==
  /\ N \in Nat /\ U \subseteq DOMAIN q /\ id \in U
  /\ f \in [U -> V]
  /\ \A m, n \in U : f[m] = f[n] => m = n
  /\ \A c \in V : Nth(U, c - last) \in U /\ f[Nth(U, c - last)] = c
  /\ \A u \in U : Nth(U, f[u] - last) = u
  /\ V \cap DOMAIN q = {} /\ V \subseteq Nat

LEMMA IdsAreFresh ==
  ASSUME NEW q, Tree(q), NEW id \in DOMAIN q, NEW last \in Nat, DOMAIN q \subseteq 0..last,
         NEW U, U = Under(q, id), NEW f, f = CopyIds(q, id, last),
         NEW N, N = Cardinality(U), NEW V, V = last + 1..last + N
  PROVE  FreshCopy(q, last, id, N, U, V, f)
<1>1. U \subseteq DOMAIN q /\ id \in U
  BY TreeUnder DEF Below
<1>2. U \subseteq Nat /\ IsFiniteSet(U)
  <2>1. IsFiniteSet(0..last)
    BY FS_Interval
  <2>2. U \in SUBSET (0..last)
    BY <1>1
  <2> QED  BY <2>1, <2>2, FS_Subset
<1>3. /\ N \in Nat
      /\ \A n \in U : Rank(U, n) \in 1..N
      /\ \A k \in 1..N : Nth(U, k) \in U /\ Rank(U, Nth(U, k)) = k
  BY <1>2, Ranks
<1>4. /\ \A m, n \in U : Rank(U, m) = Rank(U, n) => m = n
      /\ \A n \in U : Nth(U, Rank(U, n)) = n
  BY <1>2, RankIsInjective
<1>5. \A u \in U : f[u] = last + Rank(U, u)
  BY DEF CopyIds, CloneId
<1>6. DOMAIN f = U /\ f = [u \in U |-> f[u]]
  BY DEF CopyIds
<1>N. N \in Nat
  BY <1>3
<1>8. \A u \in U : Rank(U, u) \in Nat /\ f[u] \in V /\ f[u] - last = Rank(U, u)
  <2> SUFFICES ASSUME NEW u \in U
               PROVE  Rank(U, u) \in Nat /\ f[u] \in V /\ f[u] - last = Rank(U, u)
    OBVIOUS
  <2>1. Rank(U, u) \in 1..N /\ f[u] = last + Rank(U, u)
    BY <1>3, <1>5
  <2>2. Rank(U, u) \in Nat /\ 1 <= Rank(U, u) /\ Rank(U, u) <= N
    BY <1>N, <2>1
  <2>3. f[u] \in last + 1..last + N
    BY <1>N, <2>1, <2>2
  <2>4. f[u] - last = Rank(U, u)
    BY <2>1, <2>2
  <2> QED  BY <2>2, <2>3, <2>4
<1>9. f \in [U -> V]
  BY <1>6, <1>8
<1>10. ASSUME NEW m \in U, NEW n \in U, f[m] = f[n]
       PROVE  m = n
  <2>1. Rank(U, m) = Rank(U, n)
    BY <1>8, <1>10
  <2> QED  BY <1>4, <2>1
<1>11. ASSUME NEW c \in V
       PROVE  Nth(U, c - last) \in U /\ f[Nth(U, c - last)] = c
  <2>1. c - last \in 1..N /\ last + (c - last) = c
    BY <1>N
  <2> QED  BY <1>3, <1>5, <2>1
<1>12. \A u \in U : Nth(U, f[u] - last) = u
  BY <1>4, <1>8
<1>13. V \cap DOMAIN q = {} /\ V \subseteq Nat
  <2>1. \A c \in V : c \in Nat /\ c > last
    BY <1>N
  <2>2. \A n \in DOMAIN q : n \in Nat /\ ~(n > last)
    OBVIOUS
  <2> QED  BY <2>1, <2>2
<1> QED  BY <1>1, <1>3, <1>9, <1>10, <1>11, <1>12, <1>13 DEF FreshCopy

LEMMA EmptyList ==
  ASSUME NEW s, ListOf(s, {})
  PROVE  s = <<>>
<1>1. s \in Seq(Nat) /\ Len(s) \in Nat /\ \A i \in 1..Len(s) : FALSE
  BY ListFacts
<1>2. Len(s) = 0
  BY <1>1
<1> QED  BY <1>1, <1>2, EmptySeq

LEMMA CopiedTree ==
  ASSUME NEW q, Tree(q), NEW id \in DOMAIN q, id # Root,
         NEW last \in Nat, DOMAIN q \subseteq 0..last,
         NEW p, NEW index \in Nat,
         NEW r, r = CopyNodeTo(q, id, p, index, last)
  PROVE  /\ Tree(r)
         /\ Cardinality(Under(q, id)) \in Nat
         /\ DOMAIN r \subseteq 0..last + Cardinality(Under(q, id))
<1> DEFINE D == DOMAIN q
           C == Kids(q)
           U == Under(q, id)
           N == Cardinality(U)
           V == last + 1..last + N
           f == CopyIds(q, id, last)
           nodes == CloneNode(q, id, last)
           B == [c \in V |-> {f[d] : d \in C[Nth(U, c - last)]}]
           E == [m \in V \cup D |->
                   IF m \in V THEN B[m] ELSE IF m = p THEN C[m] \cup {f[id]} ELSE C[m]]
<1>0. U = Under(q, id) /\ f = CopyIds(q, id, last) /\ N = Cardinality(U) /\ V = last + 1..last + N
  OBVIOUS
<1> HIDE DEF U, f, N, V
<1>1. /\ N \in Nat /\ U \subseteq D /\ id \in U
      /\ f \in [U -> V]
      /\ \A m, n \in U : f[m] = f[n] => m = n
      /\ \A c \in V : Nth(U, c - last) \in U /\ f[Nth(U, c - last)] = c
      /\ \A u \in U : Nth(U, f[u] - last) = u
      /\ V \cap D = {} /\ V \subseteq Nat
  <2>1. FreshCopy(q, last, id, N, U, V, f)
    BY <1>0, IdsAreFresh
  <2> QED  BY <2>1 DEF FreshCopy
<1>2. WellFormed(q, C) /\ Arbor(D, C) /\ Below(D, C, id, U)
  BY TreeUnder DEF Tree, U
<1>3. \A u \in U : f[u] = CloneId(q, id, last, u)
  BY <1>0 DEF CopyIds
<1>4. /\ DOMAIN nodes = V
      /\ \A c \in V : nodes[c] =
           [q[Nth(U, c - last)] EXCEPT
              !.rules = [i \in DOMAIN q[Nth(U, c - last)].rules |->
                           CloneId(q, id, last, q[Nth(U, c - last)].rules[i])]]
  BY <1>0 DEF CloneNode
<1>5. r = InsertNode(q, f[id], nodes, p, index)
  BY <1>1, <1>3 DEF CopyNodeTo
<1> HIDE DEF C, nodes
<1>6. V \cup D \subseteq 0..last + N
  <2>1. \A c \in V : c \in 0..last + N
    BY <1>0, <1>1
  <2>2. \A n \in D : n \in 0..last + N
    BY <1>1
  <2> QED  BY <2>1, <2>2
<1> HIDE DEF D
<1>7. CASE ~IsGroup(q, p)
  <2>1. r = q
    BY <1>5, <1>7, NotInserted
  <2>2. D \subseteq 0..last + N
    BY <1>6
  <2> QED  BY <1>1, <2>1, <2>2 DEF D, N, U
<1>8. CASE IsGroup(q, p)
  <2>1. ASSUME NEW c \in V
        PROVE  Holds(nodes[c], B[c])
    <3> DEFINE u == Nth(U, c - last)
               s == q[u].rules
               t == [i \in DOMAIN s |-> f[s[i]]]
    <3>1. u \in U /\ u \in D /\ C[u] \subseteq U
      BY <1>1, <1>2 DEF Below, Hung
    <3>2. nodes[c] = [q[u] EXCEPT !.rules = [i \in DOMAIN s |-> CloneId(q, id, last, s[i])]]
      BY <1>4
    <3> HIDE DEF u
    <3>3. Holds(q[u], C[u]) /\ ListOf(s, C[u])
      BY <1>2, <3>1 DEF WellFormed, Holds, D
    <3>4. \A i \in DOMAIN s : s[i] \in U
      <4>1. DOMAIN s = 1..Len(s) /\ \A i \in 1..Len(s) : s[i] \in C[u]
        BY <3>3, ListFacts
      <4> QED  BY <3>1, <4>1
    <3>5. t = [i \in DOMAIN s |-> CloneId(q, id, last, s[i])]
      BY <1>3, <3>4
    <3> HIDE DEF s
    <3>6. ListOf(t, {f[d] : d \in C[u]})
      <4>1. /\ \A d \in C[u] : f[d] \in Nat
            /\ \A d, e \in C[u] : f[d] = f[e] => d = e
        BY <1>1, <3>1
      <4> QED  BY <3>3, <4>1, RenamedList
    <3> DEFINE F == {f[d] : d \in C[u]}
    <3>7. q[u].type = "group" \/ t = <<>>
      <4>1. CASE q[u].type = "rule"
        <5>1. s = <<>>
          BY <3>3, <4>1 DEF Holds, s
        <5>2. Len(s) = 0 /\ DOMAIN s = 1..Len(s)
          BY <3>3, <5>1, EmptySeq, ListFacts
        <5>3. DOMAIN s = {}
          BY <5>2
        <5> QED  BY <5>3
      <4>2. q[u].type \in {"rule", "group"}
        BY <3>3 DEF Holds, QueryNode
      <4> QED  BY <4>1, <4>2
    <3> HIDE DEF t, F
    <3>8. Holds([q[u] EXCEPT !.rules = t], F)
      BY <3>3, <3>6, <3>7, NewRules DEF F
    <3>9. B[c] = F
      BY DEF F, u
    <3> QED  BY <3>2, <3>5, <3>8, <3>9 DEF s
  <2>2. WellFormed(nodes, B)
    BY <1>1, <1>4, <2>1 DEF WellFormed
  <2>3. p \in D
    BY <1>8 DEF IsGroup, D
  <2>4. f[id] \in V /\ f[id] \in Nat /\ f[id] \notin C[p]
    BY <1>1, <1>2, <2>3 DEF Arbor
  <2>5. /\ DOMAIN E = D \cup V
        /\ E = [n \in DOMAIN E |-> E[n]]
        /\ \A n \in D : E[n] = IF n = p THEN C[p] \cup {f[id]} ELSE C[n]
    BY <1>1
  <2>6. \A u \in U : E[f[u]] = {f[c] : c \in C[u]}
    <3> SUFFICES ASSUME NEW u \in U
                 PROVE  E[f[u]] = {f[c] : c \in C[u]}
      OBVIOUS
    <3>1. f[u] \in V /\ Nth(U, f[u] - last) = u
      BY <1>1
    <3>2. B[f[u]] = {f[d] : d \in C[Nth(U, f[u] - last)]}
      BY <3>1
    <3>3. E[f[u]] = B[f[u]]
      BY <3>1
    <3> QED  BY <3>1, <3>2, <3>3
  <2>7. /\ DOMAIN nodes \cap DOMAIN q = {}
        /\ E = PutIn(q, C, nodes, B, f[id], p)
    BY <1>1, <1>4 DEF D, PutIn
  <2> HIDE DEF E, B
  <2>8. DOMAIN r = DOMAIN nodes \cup DOMAIN q /\ WellFormed(r, E)
    <3> DEFINE n == f[id]
    <3>1. DOMAIN nodes \cap DOMAIN q = {} /\ n \in Nat /\ n \notin C[p] /\ E = PutIn(q, C, nodes, B, n, p)
      BY <2>4, <2>7
    <3> HIDE DEF n
    <3>2. /\ DOMAIN InsertNode(q, n, nodes, p, index) = DOMAIN nodes \cup DOMAIN q
          /\ WellFormed(InsertNode(q, n, nodes, p, index), PutIn(q, C, nodes, B, n, p))
      BY <1>2, <1>8, <2>2, <3>1, InsertedForm
    <3>3. r = InsertNode(q, n, nodes, p, index)
      BY <1>5 DEF n
    <3> QED  BY <3>1, <3>2, <3>3
  <2>9. PICK g \in D : id \in C[g]
    BY <1>2, NoOrphan DEF D
  <2>10. OneToOne(f, U, V)
    BY <1>1 DEF OneToOne
  <2>11. WithCopy(E, C, D, U, V, f, id, p)
    BY <2>5, <2>6 DEF WithCopy
  <2>14. Arbor(D \cup V, E)
    BY <1>1, <1>2, <2>3, <2>9, <2>10, <2>11, ClonedArbor
  <2>12. DOMAIN r = D \cup V
    BY <1>4, <2>8 DEF D
  <2>13. Tree(r)
    BY <2>8, <2>12, <2>14, TreeOf
  <2> QED  BY <1>1, <1>6, <2>12, <2>13 DEF N, U
<1> QED  BY <1>7, <1>8
-----------------------------------------------------------------------------
(* Nodes moved. *)

(* Within its group.                                                       *)
LEMMA ShuffledTree ==
  ASSUME NEW q, Tree(q), NEW id, HasParent(q, id), NEW to \in Nat,
         NEW r, r = MoveNode(q, id, to)
  PROVE  Tree(r) /\ DOMAIN r = DOMAIN q
<1> DEFINE g == Parent(q, id)
           C == Kids(q)
           s == q[g].rules
           i == Index(q, id) + 1
           t == InsertAt(RemoveAt(s, i), to + 1, id)
<1>1. /\ IsGroup(q, g) /\ ListOf(s, C[g]) /\ id \in C[g] /\ id \in Nat
      /\ i \in 1..Len(s) /\ s[i] = id
  BY ParentFacts
<1>2. WellFormed(q, C) /\ Arbor(DOMAIN q, C)
  BY DEF Tree
<1>3. r = IF to >= Len(s) THEN q ELSE Rewritten(q, g, t)
  BY DEF MoveNode, Rewritten
<1> HIDE DEF g, C, i
<1>4. CASE to >= Len(s)
  BY <1>3, <1>4
<1>5. CASE ~(to >= Len(s))
  <2>1. ListOf(RemoveAt(s, i), C[g] \ {id})
    BY <1>1, RemovedList
  <2>2. Len(RemoveAt(s, i)) = Len(s) - 1 /\ Len(s) \in Nat
    <3>1. s \in Seq(Nat) /\ Len(s) \in Nat
      BY <1>1, ListFacts
    <3> QED  BY <1>1, <3>1, LenRemoved
  <2>3. to + 1 \in 1..Len(RemoveAt(s, i)) + 1
    BY <1>5, <2>2
  <2>4. ListOf(t, (C[g] \ {id}) \cup {id})
    BY <1>1, <2>1, <2>3, InsertedList
  <2>5. (C[g] \ {id}) \cup {id} = C[g]
    BY <1>1
  <2>6. ListOf(t, C[g])
    BY <2>4, <2>5
  <2> HIDE DEF t
  <2>7. DOMAIN r = DOMAIN q /\ WellFormed(r, Changed(q, C, g, C[g]))
    BY <1>1, <1>2, <1>3, <1>5, <2>6, FormExcept
  <2>8. Changed(q, C, g, C[g]) = C
    BY <1>2 DEF Changed, Arbor
  <2> QED  BY <1>2, <2>7, <2>8, TreeOf
<1> QED  BY <1>4, <1>5

(* To another group, or within its own.                                    *)
LEMMA MovedTree ==
  ASSUME NEW q, Tree(q), NEW id, NEW p, NEW index \in Nat,
         NEW r, r = MoveNodeTo(q, id, p, index)
  PROVE  Tree(r) /\ DOMAIN r = DOMAIN q
<1>1. CASE ~MayMoveTo(q, id, p)
  BY <1>1 DEF MoveNodeTo
<1>2. CASE MayMoveTo(q, id, p)
  <2> DEFINE g == Parent(q, id)
             C == Kids(q)
             s == q[g].rules
             i == Index(q, id) + 1
             w == Detach(q, id)
             D == DOMAIN q
             k == TargetIndex(q, id, p, index)
             F == Changed(q, C, g, C[g] \ {id})
             E == [n \in D |-> IF n = p THEN C[p] \cup {id} ELSE C[n] \ {id}]
  <2>1. /\ HasParent(q, id) /\ id \in D /\ IsGroup(q, p) /\ p \notin Under(q, id)
    BY <1>2 DEF MayMoveTo
  <2>2. /\ IsGroup(q, g) /\ g \in D /\ ListOf(s, C[g]) /\ id \in C[g] /\ id \in Nat
        /\ i \in 1..Len(s) /\ s[i] = id
        /\ Index(q, id) \in 0..Len(s) - 1
    BY <2>1, ParentFacts
  <2>3. WellFormed(q, C) /\ Arbor(D, C) /\ Below(D, C, id, Under(q, id))
    BY <2>1, TreeUnder DEF Tree
  <2>4. w = Rewritten(q, g, RemoveAt(s, i))
    BY DEF Detach, Rewritten
  <2>5. r = InsertNode(w, id, <<>>, p, k)
    BY <1>2 DEF MoveNodeTo
  <2>6. k \in Nat
    <3>1. Index(q, id) \in Nat /\ (Index(q, id) < index => index - 1 \in Nat)
      BY <2>2, ListFacts
    <3> QED  BY <3>1 DEF TargetIndex
  <2> HIDE DEF g, C, i, w, k
  <2>7. DOMAIN w = D /\ WellFormed(w, F)
    <3>1. ListOf(RemoveAt(s, i), C[g] \ {id})
      BY <2>2, RemovedList
    <3> QED  BY <2>2, <2>3, <2>4, <3>1, FormExcept
  <2>8. \A n \in D : F[n] = C[n] \ {id}
    BY <2>2, <2>3 DEF Changed, Arbor, Disjoint
  <2>9. IsGroup(w, p) /\ p \in D
    <3>1. \A n \in D : w[n].type = q[n].type
      <4>1. q[g] \in QueryNode /\ RemoveAt(s, i) \in Seq(Nat)
        <5>1. ListOf(RemoveAt(s, i), C[g] \ {id})
          BY <2>2, RemovedList
        <5> QED  BY <2>2, <2>3, <5>1, ListFacts DEF WellFormed, Holds
      <4>2. [q[g] EXCEPT !.rules = RemoveAt(s, i)].type = q[g].type
        BY <4>1 DEF QueryNode
      <4> QED  BY <2>2, <2>4, <4>2 DEF Rewritten
    <3> QED  BY <2>1, <2>7, <3>1 DEF IsGroup
  <2> DEFINE B == [m \in {} |-> {}]
             none == <<>>
  <2>10. WellFormed(none, B) /\ DOMAIN none = {}
    <3>1. \A m \in DOMAIN none : FALSE
      OBVIOUS
    <3> QED  BY <3>1 DEF WellFormed
  <2>11. id \notin F[p]
    BY <2>8, <2>9
  <2>12. E = PutIn(w, F, none, B, id, p)
    <3> DEFINE G == [m \in DOMAIN w |-> IF m = p THEN F[m] \cup {id} ELSE F[m]]
    <3>1. ASSUME NEW m \in D
          PROVE  E[m] = G[m]
      <4>1. F[m] = C[m] \ {id} /\ m \in DOMAIN w
        BY <2>7, <2>8
      <4> HIDE DEF F
      <4> QED  BY <2>9, <4>1
    <3>2. E = G
      <4> HIDE DEF F
      <4> QED  BY <2>7, <3>1
    <3>3. G = PutIn(w, F, none, B, id, p)
      BY <2>10 DEF PutIn
    <3> QED  BY <3>2, <3>3
  <2>13. DOMAIN none \cap DOMAIN w = {}
    BY <2>10
  <2>17. r = InsertNode(w, id, none, p, k)
    BY <2>5
  <2> HIDE DEF B, E, F, none
  <2>14. DOMAIN r = DOMAIN none \cup DOMAIN w /\ WellFormed(r, E)
    <3>1. id \in Nat
      BY <2>2
    <3>2. /\ DOMAIN InsertNode(w, id, none, p, k) = DOMAIN none \cup DOMAIN w
          /\ WellFormed(InsertNode(w, id, none, p, k), PutIn(w, F, none, B, id, p))
      BY <2>6, <2>7, <2>9, <2>10, <2>11, <2>13, <3>1, InsertedForm
    <3> QED  BY <2>12, <2>17, <3>2
  <2>15. DOMAIN r = D
    BY <2>7, <2>10, <2>14
  <2>16. Arbor(D, E)
    BY <2>1, <2>2, <2>3, <2>9, MovedArbor DEF E
  <2> QED  BY <2>14, <2>15, <2>16, TreeOf
<1> QED  BY <1>1, <1>2
-----------------------------------------------------------------------------
(* Groups made and dissolved. *)

LEMMA WrappedTree ==
  ASSUME NEW q, Tree(q), NEW id, NEW x \in Nat, x \notin DOMAIN q,
         NEW r, r = WrapInGroup(q, id, x)
  PROVE  Tree(r) /\ DOMAIN r \subseteq DOMAIN q \cup {x}
<1>1. CASE ~HasParent(q, id)
  BY <1>1 DEF WrapInGroup
<1>2. CASE HasParent(q, id)
  <2> DEFINE g == Parent(q, id)
             C == Kids(q)
             s == q[g].rules
             i == Index(q, id) + 1
             t == ReplaceAt(s, i, x)
             D == DOMAIN q
             w == With(Single(x, Group(<<id>>)), q)
             F == [n \in D \cup {x} |-> IF n = x THEN {id} ELSE C[n]]
             E == [n \in D \cup {x} |-> IF n = x THEN {id}
                                        ELSE IF n = g THEN (C[g] \ {id}) \cup {x}
                                        ELSE C[n]]
  <2>1. /\ IsGroup(q, g) /\ g \in D /\ ListOf(s, C[g]) /\ id \in C[g] /\ id \in Nat
        /\ i \in 1..Len(s) /\ s[i] = id
    BY <1>2, ParentFacts
  <2>2. WellFormed(q, C) /\ Arbor(D, C)
    BY DEF Tree
  <2>3. /\ DOMAIN w = D \cup {x}
        /\ w[x] = Group(<<id>>)
        /\ \A n \in D : w[n] = q[n]
    BY DEF With, Single
  <2>4. r = [w EXCEPT ![g].rules = ReplaceAt(w[g].rules, i, x)]
    BY <1>2 DEF WrapInGroup
  <2> HIDE DEF g, C, i, w
  <2>5. r = Rewritten(w, g, t)
    BY <2>1, <2>3, <2>4 DEF Rewritten
  <2>6. Holds(w[x], {id})
    <3>1. ListOf(<<id>>, {id}) /\ <<id>> \in Seq(Nat)
      BY <2>1, OneList DEF ListOf
    <3> QED  BY <2>3, <3>1 DEF Holds, Group, QueryNode
  <2>7. WellFormed(w, F)
    <3>1. \A n \in D : Holds(w[n], F[n])
      BY <2>2, <2>3 DEF WellFormed
    <3>2. D \cup {x} \subseteq Nat
      BY <2>2 DEF WellFormed
    <3> QED  BY <2>3, <2>6, <3>1, <3>2 DEF WellFormed
  <2>8. x \notin C[g]
    BY <2>1, <2>2 DEF Arbor
  <2>9. ListOf(t, (C[g] \ {id}) \cup {x})
    BY <2>1, <2>8, ReplacedList
  <2>10. IsGroup(w, g)
    BY <2>1, <2>3 DEF IsGroup
  <2> HIDE DEF t, F
  <2>11. DOMAIN r = DOMAIN w /\ WellFormed(r, Changed(w, F, g, (C[g] \ {id}) \cup {x}))
    BY <2>5, <2>7, <2>9, <2>10, FormExcept
  <2>12. Changed(w, F, g, (C[g] \ {id}) \cup {x}) = E
    <3>1. x # g
      BY <2>1
    <3> QED  BY <2>3, <3>1 DEF Changed, F
  <2> HIDE DEF E
  <2>13. Arbor(D \cup {x}, E)
    <3>1. E = [n \in D \cup {x} |-> IF n = x THEN {id}
                                     ELSE IF n = g THEN (C[g] \ {id}) \cup {x}
                                     ELSE C[n]]
      BY DEF E
    <3> HIDE DEF D
    <3>2. x \notin D
      BY DEF D
    <3> QED  BY <2>1, <2>2, <3>1, <3>2, WrappedArbor
  <2> QED  BY <2>3, <2>11, <2>12, <2>13, TreeOf
<1> QED  BY <1>1, <1>2

(* What is beneath the root, of any query with nothing in two places       *)
(* there.                                                                  *)
LEMMA KeptTree ==
  ASSUME NEW q, NEW C, WellFormed(q, C), C \in [DOMAIN q -> SUBSET DOMAIN q],
         Root \in DOMAIN q,
         \A n \in Under(q, Root) : Root \notin C[n],
         Disjoint(C, Under(q, Root)),
         NEW r, r = Kept(q)
  PROVE  Tree(r) /\ DOMAIN r \subseteq DOMAIN q
<1> DEFINE U == Under(q, Root)
           E == [n \in U |-> C[n]]
<1>1. Below(DOMAIN q, C, Root, U)
  BY UnderIsBelow
<1>2. U \subseteq DOMAIN q
  BY <1>1 DEF Below
<1>3. DOMAIN r = U /\ \A n \in U : r[n] = q[n]
  BY DEF Kept, Restrict
<1> HIDE DEF U
<1>4. WellFormed(r, E)
  BY <1>2, <1>3 DEF WellFormed
<1>5. Arbor(U, E)
  <2>1. \A n \in U : C[n] \subseteq DOMAIN q \ {Root}
    BY <1>2 DEF U
  <2>2. Disjoint(C, U)
    BY DEF U
  <2> QED  BY <1>1, <2>1, <2>2, KeptArbor
<1> HIDE DEF E
<1> QED  BY <1>2, <1>3, <1>4, <1>5, TreeOf

LEMMA UnwrappedTree ==
  ASSUME NEW q, Tree(q), NEW g, NEW r, r = UnwrapGroup(q, g)
  PROVE  Tree(r) /\ DOMAIN r \subseteq DOMAIN q
<1>1. CASE ~IsGroup(q, g) \/ ~HasParent(q, g)
  BY <1>1 DEF UnwrapGroup
<1>2. CASE IsGroup(q, g) /\ HasParent(q, g)
  <2> DEFINE p == Parent(q, g)
             C == Kids(q)
             D == DOMAIN q
             s == q[p].rules
             at == Index(q, g)
             i == at + 1
             t == SubSeq(s, 1, at) \o q[g].rules \o SubSeq(s, at + 2, Len(s))
             w == Rewritten(q, p, t)
             E == [n \in D |-> IF n = p THEN (C[p] \ {g}) \cup C[g] ELSE C[n]]
  <2>1. /\ IsGroup(q, p) /\ p \in D /\ ListOf(s, C[p]) /\ g \in C[p]
        /\ i \in 1..Len(s) /\ s[i] = g
        /\ at \in 0..Len(s) - 1
        /\ g \in D
    BY <1>2, ParentFacts
  <2>2. WellFormed(q, C) /\ Arbor(D, C) /\ C \in [D -> SUBSET D] /\ Root \in D
    BY DEF Tree, Arbor
  <2>3. r = Kept(w)
    BY <1>2 DEF UnwrapGroup, Rewritten
  <2>4. ListOf(q[g].rules, C[g])
    BY <2>1, <2>2 DEF WellFormed, Holds
  <2>5. t = SubSeq(s, 1, i - 1) \o q[g].rules \o SubSeq(s, i + 1, Len(s))
    <3>1. Len(s) \in Nat
      BY <2>1, ListFacts
    <3>2. i - 1 = at /\ i + 1 = at + 2
      BY <2>1, <3>1
    <3> HIDE DEF i, at
    <3> QED  BY <3>2
  <2> HIDE DEF p, C, i, at, t, w
  <2>6. E \in [D -> SUBSET D]
    BY <2>1, <2>2
  <2>7. E = [n \in D |-> IF n = p THEN (C[p] \ {g}) \cup C[g] ELSE C[n]]
    OBVIOUS
  <2> HIDE DEF E, D
  <2>8. PICK U : Below(D, E, Root, U)
    BY <2>2, <2>6, SomethingBelow
  <2>9. C[p] \cap C[g] = {}
    BY <2>1, <2>2, <2>7, <2>8, UnwrappedArbor
  <2>10. ListOf(t, (C[p] \ {g}) \cup C[g])
    BY <2>1, <2>4, <2>5, <2>9, SplicedList
  <2>11. DOMAIN w = D /\ WellFormed(w, Changed(q, C, p, (C[p] \ {g}) \cup C[g]))
    BY <2>1, <2>2, <2>10, FormExcept DEF w, D
  <2>12. Changed(q, C, p, (C[p] \ {g}) \cup C[g]) = E
    BY <2>1 DEF Changed, E, D
  <2>13. WellFormed(w, E)
    BY <2>11, <2>12
  <2>14. Below(D, E, Root, Under(w, Root))
    BY <2>2, <2>6, <2>11, <2>13, UnderIsBelow
  <2>15. /\ \A n \in Under(w, Root) : E[n] \subseteq D \ {Root}
         /\ Disjoint(E, Under(w, Root))
    <3> DEFINE V == Under(w, Root)
    <3>1. Below(D, E, Root, V) /\ Arbor(D, C) /\ p \in D /\ g \in C[p]
      BY <2>1, <2>2, <2>14
    <3> HIDE DEF V
    <3>2. Fits(D, E, V)
      BY <2>7, <3>1, UnwrappedArbor
    <3> QED  BY <3>2 DEF V, Fits
  <2>16. \A n \in Under(w, Root) : Root \notin E[n]
    BY <2>15
  <2> QED  BY <2>2, <2>3, <2>6, <2>11, <2>13, <2>15, <2>16, KeptTree DEF D
<1> QED  BY <1>1, <1>2

(* Children dropped from any groups, and what is then out of reach.        *)
LEMMA CutTree ==
  ASSUME NEW q, Tree(q), NEW w, DOMAIN w = DOMAIN q, NEW E, WellFormed(w, E),
         E = [n \in DOMAIN q |-> E[n]],
         \A n \in DOMAIN q : E[n] \subseteq Kids(q)[n],
         NEW r, r = Kept(w)
  PROVE  Tree(r) /\ DOMAIN r \subseteq DOMAIN q
<1> DEFINE C == Kids(q)
           U == Under(w, Root)
<1>1. /\ C \in [DOMAIN q -> SUBSET (DOMAIN q \ {Root})]
      /\ Disjoint(C, DOMAIN q) /\ Root \in DOMAIN q
  BY DEF Tree, Arbor
<1> HIDE DEF C
<1>2. \A n \in DOMAIN q : E[n] \subseteq C[n]
  BY DEF C
<1>3. E \in [DOMAIN q -> SUBSET DOMAIN q]
  <2>1. \A n \in DOMAIN q : E[n] \in SUBSET DOMAIN q
    BY <1>1, <1>2
  <2> QED  BY <2>1
<1>4. Below(DOMAIN w, E, Root, U)
  BY <1>1, <1>3, UnderIsBelow
<1>5. U \subseteq DOMAIN q
  BY <1>4 DEF Below
<1> HIDE DEF U
<1>6. \A n \in U : Root \notin E[n]
  BY <1>1, <1>2, <1>5
<1>7. Disjoint(E, U)
  BY <1>1, <1>2, <1>5 DEF Disjoint
<1> QED  BY <1>1, <1>3, <1>6, <1>7, KeptTree DEF U

LEMMA ClearedTree ==
  ASSUME NEW q, Tree(q), NEW r, r = ClearQuery(q)
  PROVE  Tree(r) /\ DOMAIN r \subseteq DOMAIN q
<1> DEFINE w == Rewritten(q, Root, <<>>)
           E == Changed(q, Kids(q), Root, {})
<1>1. r = Kept(w)
  BY DEF ClearQuery, Rewritten
<1>2. Root \in DOMAIN q /\ WellFormed(q, Kids(q))
  BY DEF Tree, Arbor
<1>3. DOMAIN w = DOMAIN q /\ WellFormed(w, E)
  <2> DEFINE none == <<>>
  <2>1. ListOf(none, {}) /\ none = <<>>
    BY NoList
  <2> HIDE DEF none
  <2>2. DOMAIN Rewritten(q, Root, none) = DOMAIN q /\ WellFormed(Rewritten(q, Root, none), E)
    BY <1>2, <2>1, FormExcept
  <2> QED  BY <2>1, <2>2
<1>4. E = [n \in DOMAIN q |-> E[n]] /\ \A n \in DOMAIN q : E[n] \subseteq Kids(q)[n]
  BY DEF Changed
<1> HIDE DEF w, E
<1> QED  BY <1>1, <1>3, <1>4, CutTree

LEMMA DeletedTree ==
  ASSUME NEW q, Tree(q), NEW id, NEW r, r = RemoveNode(q, id)
  PROVE  Tree(r) /\ DOMAIN r \subseteq DOMAIN q
<1>1. PICK above, out :
        /\ above \subseteq Groups(q)
        /\ r = Kept([g \in DOMAIN q |->
                       IF g \in above THEN [q[g] EXCEPT !.rules = Without(@, out)] ELSE q[g]])
  BY DEF RemoveNode, Above
<1> DEFINE w == [g \in DOMAIN q |->
                   IF g \in above THEN [q[g] EXCEPT !.rules = Without(@, out)] ELSE q[g]]
           C == Kids(q)
           E == [n \in DOMAIN q |-> IF n \in above THEN C[n] \ out ELSE C[n]]
<1>2. WellFormed(q, C)
  BY DEF Tree
<1> HIDE DEF C
<1>3. ASSUME NEW n \in DOMAIN q
      PROVE  Holds(w[n], E[n])
  <2>1. Holds(q[n], C[n])
    BY <1>2 DEF WellFormed
  <2>2. CASE n \in above
    <3>1. q[n].type = "group"
      BY <1>1, <2>2 DEF Groups, IsGroup
    <3>2. ListOf(Without(q[n].rules, out), C[n] \ out)
      BY <2>1, ListWithout DEF Holds
    <3>3. Holds([q[n] EXCEPT !.rules = Without(q[n].rules, out)], C[n] \ out)
      BY <2>1, <3>1, <3>2, NewRules
    <3> QED  BY <2>2, <3>3
  <2>3. CASE n \notin above
    BY <2>1, <2>3
  <2> QED  BY <2>2, <2>3
<1>4. DOMAIN w = DOMAIN q /\ DOMAIN q \subseteq Nat
  BY <1>2 DEF WellFormed
<1>5. r = Kept(w)
  BY <1>1
<1>6. E = [n \in DOMAIN q |-> E[n]] /\ \A n \in DOMAIN q : E[n] \subseteq C[n]
  OBVIOUS
<1> HIDE DEF w, E
<1>7. WellFormed(w, E)
  BY <1>3, <1>4 DEF WellFormed
<1> QED  BY <1>4, <1>5, <1>6, <1>7, CutTree DEF C
-----------------------------------------------------------------------------
(* The specification. *)

(* The query is a tree of ids handed out, and only a row that has a parent *)
(* is ever dragged.                                                        *)
FilterInvariant ==
  /\ Tree(query)
  /\ DOMAIN query \subseteq 0..lastId
  /\ lastId \in 0..MaxIds
  /\ drag \in [node : 0..MaxIds, slots : SUBSET ((0..MaxIds) \X (0..MaxIds))]
  /\ drag.slots # {} => drag.node # Root

LEMMA FilterInitially ==
  ASSUME FilterConstants, FilterInit
  PROVE  FilterInvariant
<1> DEFINE E == [n \in {Root} |-> {}]
<1>1. DOMAIN query = {Root} /\ query[Root] = Group(<<>>) /\ lastId = 0
  BY DEF FilterInit, Single
<1>2. Holds(query[Root], {})
  <2>1. <<>> \in Seq(Nat) /\ ListOf(<<>>, {})
    BY NoList, EmptySeq
  <2> QED  BY <1>1, <2>1 DEF Holds, Group, QueryNode
<1>3. WellFormed(query, E)
  BY <1>1, <1>2 DEF WellFormed, Root
<1>4. Arbor(DOMAIN query, E)
  BY <1>1 DEF Arbor, Disjoint
<1>5. Tree(query)
  BY <1>3, <1>4, TreeOf
<1>6. drag \in [node : 0..MaxIds, slots : SUBSET ((0..MaxIds) \X (0..MaxIds))]
  BY DEF FilterInit, NoDrag, Root, FilterConstants
<1>7. drag.slots = {}
  BY DEF FilterInit, NoDrag
<1>8. 0 \in 0..0 /\ 0 \in 0..MaxIds
  BY DEF FilterConstants
<1> QED  BY <1>1, <1>5, <1>6, <1>7, <1>8 DEF FilterInvariant, Root

LEMMA NewNodes ==
  /\ Holds(Rule, {}) /\ Holds(Group(<<>>), {})
<1>1. <<>> \in Seq(Nat) /\ ListOf(<<>>, {})
  BY NoList, EmptySeq
<1> QED  BY <1>1 DEF Holds, Group, Rule, QueryNode

(* An edit that hands out no id, and one that hands out k.                 *)
LEMMA Edited ==
  ASSUME FilterInvariant, NEW q, query' = q, Tree(q), DOMAIN q \subseteq DOMAIN query,
         lastId' = lastId, drag' = drag \/ drag' = NoDrag, FilterConstants
  PROVE  FilterInvariant'
<1>1. /\ NoDrag \in [node : 0..MaxIds, slots : SUBSET ((0..MaxIds) \X (0..MaxIds))]
      /\ NoDrag.slots = {}
  BY DEF NoDrag, Root, FilterConstants
<1>2. /\ drag' \in [node : 0..MaxIds, slots : SUBSET ((0..MaxIds) \X (0..MaxIds))]
      /\ drag'.slots # {} => drag'.node # Root
  BY <1>1 DEF FilterInvariant
<1> QED  BY <1>2 DEF FilterInvariant

LEMMA Extended ==
  ASSUME FilterInvariant, FilterConstants, NEW q, query' = q, Tree(q), NEW k \in Nat,
         DOMAIN q \subseteq 0..lastId + k, lastId' = lastId + k, Fresh(k),
         drag' = drag \/ drag' = NoDrag
  PROVE  FilterInvariant'
<1>1. /\ NoDrag \in [node : 0..MaxIds, slots : SUBSET ((0..MaxIds) \X (0..MaxIds))]
      /\ NoDrag.slots = {}
  BY DEF NoDrag, Root, FilterConstants
<1>2. /\ drag' \in [node : 0..MaxIds, slots : SUBSET ((0..MaxIds) \X (0..MaxIds))]
      /\ drag'.slots # {} => drag'.node # Root
  BY <1>1 DEF FilterInvariant
<1>3. lastId' \in 0..MaxIds
  BY DEF FilterInvariant, FilterConstants, Fresh
<1>4. Tree(query') /\ DOMAIN query' \subseteq 0..lastId'
  OBVIOUS
<1> QED  BY <1>2, <1>3, <1>4 DEF FilterInvariant

LEMMA NextId ==
  ASSUME FilterInvariant, FilterConstants
  PROVE  /\ lastId \in Nat /\ lastId + 1 \in Nat /\ lastId + 1 \notin DOMAIN query
         /\ \A D : D \subseteq DOMAIN query \cup {lastId + 1} => D \subseteq 0..lastId + 1
<1>1. lastId \in Nat /\ DOMAIN query \subseteq 0..lastId
  BY DEF FilterInvariant, FilterConstants
<1>2. /\ lastId + 1 \notin 0..lastId /\ lastId + 1 \in 0..lastId + 1
      /\ 0..lastId \subseteq 0..lastId + 1
  BY <1>1
<1> QED  BY <1>1, <1>2

(* The slots of the groups that are not beneath the row.                   *)
LEMMA SlotsTyped ==
  ASSUME FilterInvariant, FilterConstants, NEW n
  PROVE  Slots(query, n) \subseteq (0..MaxIds) \X (0..MaxIds)
<1> SUFFICES ASSUME NEW g \in Groups(query), NEW i \in 0..Len(query[g].rules)
             PROVE  g \in 0..MaxIds /\ i \in 0..MaxIds
  BY DEF Slots
<1>1. /\ g \in DOMAIN query /\ DOMAIN query \subseteq 0..lastId
      /\ lastId \in Nat /\ lastId <= MaxIds /\ MaxIds \in Nat
  BY DEF Groups, FilterInvariant, FilterConstants
<1>2. ListOf(query[g].rules, Kids(query)[g])
  BY <1>1 DEF FilterInvariant, Tree, WellFormed, Holds
<1>3. Kids(query)[g] \subseteq DOMAIN query \ {Root}
  BY <1>1 DEF FilterInvariant, Tree, Arbor
<1>4. Kids(query)[g] \subseteq 1..lastId
  <2>1. \A m \in (0..lastId) \ {0} : m \in 1..lastId
    BY <1>1
  <2> QED  BY <1>1, <1>3, <2>1 DEF Root
<1>5. Len(query[g].rules) <= lastId /\ Len(query[g].rules) \in Nat
  BY <1>1, <1>2, <1>4, ListIsShort, ListFacts
<1>6. g \in 0..lastId
  BY <1>1
<1> QED  BY <1>1, <1>5, <1>6

LEMMA AtEndTyped ==
  ASSUME NEW q, Tree(q), NEW g
  PROVE  AtEnd(q, g) \in Nat
<1>1. CASE IsGroup(q, g)
  <2>1. ListOf(q[g].rules, Kids(q)[g])
    BY <1>1 DEF Tree, WellFormed, Holds, IsGroup
  <2> QED  BY <1>1, <2>1, ListFacts DEF AtEnd
<1>2. CASE ~IsGroup(q, g)
  BY <1>2 DEF AtEnd
<1> QED  BY <1>1, <1>2

LEMMA FilterSteps ==
  ASSUME FilterConstants, FilterInvariant, [FilterNext]_filterVars
  PROVE  FilterInvariant'
<1> USE DEF Edit, EditWithIds
<1>0. Tree(query) /\ DOMAIN query \subseteq 0..lastId /\ lastId \in Nat
  BY DEF FilterInvariant, FilterConstants
<1>1. ASSUME NEW n \in DOMAIN query, AddRule(n)
      PROVE  FilterInvariant'
  <2>1. /\ Fresh(1) /\ lastId' = lastId + 1 /\ drag' = drag
        /\ query' = InsertNode(query, lastId + 1, Single(lastId + 1, Rule), n, AtEnd(query, n))
    BY <1>1 DEF AddRule
  <2>2. Tree(query') /\ DOMAIN query' \subseteq 0..lastId + 1
    BY <1>0, <2>1, NextId, NewNodes, AtEndTyped, AddedTree
  <2> QED  BY <2>1, <2>2, Extended
<1>2. ASSUME NEW n \in DOMAIN query, AddGroup(n)
      PROVE  FilterInvariant'
  <2>1. /\ Fresh(1) /\ lastId' = lastId + 1 /\ drag' = drag
        /\ query' = InsertNode(query, lastId + 1, Single(lastId + 1, Group(<<>>)), n,
                               AtEnd(query, n))
    BY <1>2 DEF AddGroup
  <2>2. Tree(query') /\ DOMAIN query' \subseteq 0..lastId + 1
    BY <1>0, <2>1, NextId, NewNodes, AtEndTyped, AddedTree
  <2> QED  BY <2>1, <2>2, Extended
<1>3. ASSUME NEW n \in DOMAIN query, DeleteNode(n)
      PROVE  FilterInvariant'
  <2>1. Tree(query') /\ DOMAIN query' \subseteq DOMAIN query
    BY <1>0, <1>3, DeletedTree DEF DeleteNode
  <2> QED  BY <1>3, <2>1, Edited DEF DeleteNode
<1>4. ASSUME NEW n \in DOMAIN query, Duplicate(n)
      PROVE  FilterInvariant'
  <2> DEFINE N == Cardinality(Under(query, n))
  <2>1. /\ HasParent(query, n) /\ Fresh(N) /\ lastId' = lastId + N /\ drag' = drag
        /\ query' = CopyNodeTo(query, n, Parent(query, n), Index(query, n) + 1, lastId)
    BY <1>4 DEF Duplicate
  <2>2. n # Root /\ Index(query, n) + 1 \in Nat
    <3>1. /\ n \in DOMAIN query \ {Root}
          /\ Index(query, n) + 1 \in 1..Len(query[Parent(query, n)].rules)
          /\ ListOf(query[Parent(query, n)].rules, Kids(query)[Parent(query, n)])
      BY <1>0, <2>1, ParentFacts
    <3> QED  BY <3>1, ListFacts
  <2>3. Tree(query') /\ N \in Nat /\ DOMAIN query' \subseteq 0..lastId + N
    BY <1>0, <2>1, <2>2, CopiedTree
  <2> QED  BY <2>1, <2>3, Extended
<1>5. ASSUME NEW n \in DOMAIN query, Move(n)
      PROVE  FilterInvariant'
  <2>1. /\ HasParent(query, n) /\ lastId' = lastId /\ drag' = drag
        /\ \/ query' = MoveNode(query, n, Index(query, n) + 1)
           \/ Index(query, n) > 0 /\ query' = MoveNode(query, n, Index(query, n) - 1)
    BY <1>5 DEF Move
  <2>2. Index(query, n) \in Nat
    <3>1. /\ Index(query, n) \in 0..Len(query[Parent(query, n)].rules) - 1
          /\ ListOf(query[Parent(query, n)].rules, Kids(query)[Parent(query, n)])
      BY <1>0, <2>1, ParentFacts
    <3> QED  BY <3>1, ListFacts
  <2>3. CASE query' = MoveNode(query, n, Index(query, n) + 1)
    <3>1. Index(query, n) + 1 \in Nat
      BY <2>2
    <3>2. Tree(query') /\ DOMAIN query' = DOMAIN query
      BY <1>0, <2>1, <2>3, <3>1, ShuffledTree
    <3> QED  BY <2>1, <3>2, Edited
  <2>4. CASE Index(query, n) > 0 /\ query' = MoveNode(query, n, Index(query, n) - 1)
    <3>1. Index(query, n) - 1 \in Nat
      BY <2>2, <2>4
    <3>2. Tree(query') /\ DOMAIN query' = DOMAIN query
      BY <1>0, <2>1, <2>4, <3>1, ShuffledTree
    <3> QED  BY <2>1, <3>2, Edited
  <2> QED  BY <2>1, <2>3, <2>4
<1>6. ASSUME NEW n \in DOMAIN query, Wrap(n)
      PROVE  FilterInvariant'
  <2>1. /\ Fresh(1) /\ lastId' = lastId + 1 /\ drag' = drag
        /\ query' = WrapInGroup(query, n, lastId + 1)
    BY <1>6 DEF Wrap
  <2>2. Tree(query') /\ DOMAIN query' \subseteq 0..lastId + 1
    BY <1>0, <2>1, NextId, WrappedTree
  <2> QED  BY <2>1, <2>2, Extended
<1>7. ASSUME NEW n \in DOMAIN query, Unwrap(n)
      PROVE  FilterInvariant'
  <2>1. Tree(query') /\ DOMAIN query' \subseteq DOMAIN query
    BY <1>0, <1>7, UnwrappedTree DEF Unwrap
  <2> QED  BY <1>7, <2>1, Edited DEF Unwrap
<1>8. ASSUME NEW n \in DOMAIN query, StartDrag(n)
      PROVE  FilterInvariant'
  <2>1. /\ HasParent(query, n) /\ query' = query /\ lastId' = lastId
        /\ drag' = [node |-> n, slots |-> Slots(query, n)]
    BY <1>8 DEF StartDrag
  <2>2. n # Root
    BY <1>0, <2>1, ParentFacts
  <2>3. n \in 0..MaxIds
    BY DEF FilterInvariant, FilterConstants
  <2>4. Slots(query, n) \in SUBSET ((0..MaxIds) \X (0..MaxIds))
    BY SlotsTyped
  <2>5. /\ drag' \in [node : 0..MaxIds, slots : SUBSET ((0..MaxIds) \X (0..MaxIds))]
        /\ drag'.node # Root
    BY <2>1, <2>2, <2>3, <2>4
  <2> QED  BY <2>1, <2>5 DEF FilterInvariant
<1>9. ASSUME Clear
      PROVE  FilterInvariant'
  <2>1. Tree(query') /\ DOMAIN query' \subseteq DOMAIN query
    BY <1>0, <1>9, ClearedTree DEF Clear
  <2> QED  BY <1>9, <2>1, Edited DEF Clear
<1>10. ASSUME CancelDrag
       PROVE  FilterInvariant'
  BY <1>0, <1>10, Edited DEF CancelDrag
<1>11. ASSUME DropMove
       PROVE  FilterInvariant'
  <2>1. PICK slot \in drag.slots : query' = MoveNodeTo(query, drag.node, slot[1], slot[2])
    BY <1>11 DEF DropMove
  <2>2. slot[2] \in Nat
    BY DEF FilterInvariant, FilterConstants
  <2>3. Tree(query') /\ DOMAIN query' = DOMAIN query
    BY <1>0, <2>1, <2>2, MovedTree
  <2> QED  BY <1>11, <2>3, Edited DEF DropMove
<1>12. ASSUME DropCopy
       PROVE  FilterInvariant'
  <2> DEFINE n == drag.node
             N == Cardinality(Under(query, n))
  <2>1. /\ n \in DOMAIN query /\ Fresh(N) /\ lastId' = lastId + N /\ drag' = NoDrag
    BY <1>12 DEF DropCopy
  <2>2. PICK slot \in drag.slots : query' = CopyNodeTo(query, n, slot[1], slot[2], lastId)
    BY <1>12 DEF DropCopy
  <2>3. slot[2] \in Nat /\ n # Root
    BY DEF FilterInvariant, FilterConstants
  <2> HIDE DEF n
  <2>4. Tree(query') /\ N \in Nat /\ DOMAIN query' \subseteq 0..lastId + N
    BY <1>0, <2>1, <2>2, <2>3, CopiedTree
  <2> QED  BY <2>1, <2>4, Extended
<1>13. CASE UNCHANGED filterVars
  BY <1>13 DEF filterVars, FilterInvariant, Tree, WellFormed, Kids, Arbor, Children
<1> QED  BY <1>1, <1>2, <1>3, <1>4, <1>5, <1>6, <1>7, <1>8, <1>9, <1>10, <1>11, <1>12, <1>13
         DEF FilterNext
-----------------------------------------------------------------------------
(* A tree has each node but the root in one place.                         *)
LEMMA TreesAre ==
  ASSUME Tree(query)
  PROVE  QueryIsATree
<1> DEFINE C == Kids(query)
           D == DOMAIN query
<1>1. /\ WellFormed(query, C) /\ Arbor(D, C) /\ Root \in D
      /\ C \in [D -> SUBSET (D \ {Root})]
  BY DEF Tree, Arbor
<1>2. \A n \in D : Children(query, n) = C[n]
  BY DEF Kids
<1>3. Under(query, Root) = D
  <2>1. Below(D, C, Root, Under(query, Root))
    BY <1>1, TreeUnder
  <2> QED  BY <1>1, <2>1 DEF Below, Arbor
<1>4. Groups(query) \subseteq D
  BY DEF Groups
<1> HIDE DEF C, D
<1>5. \A g \in Groups(query) : Children(query, g) \subseteq D
  BY <1>1, <1>2, <1>4
<1>6. ~HasParent(query, Root)
  BY <1>1, <1>2, <1>4 DEF HasParent
<1>7. ASSUME NEW n \in D \ {Root}
      PROVE  Cardinality(Places(query, n)) = 1
  <2>1. PICK g \in D : n \in C[g]
    BY <1>1, <1>7, NoOrphan
  <2>2. \A m \in D : ListOf(query[m].rules, C[m])
    BY <1>1 DEF WellFormed, Holds, D
  <2>3. \A m \in D : /\ DOMAIN query[m].rules = 1..Len(query[m].rules)
                     /\ \A i \in 1..Len(query[m].rules) : query[m].rules[i] \in C[m]
                     /\ \A c \in C[m] : \E i \in 1..Len(query[m].rules) : query[m].rules[i] = c
                     /\ \A i, j \in 1..Len(query[m].rules) :
                          query[m].rules[i] = query[m].rules[j] => i = j
    BY <2>2, ListFacts
  <2>4. PICK i \in DOMAIN query[g].rules : query[g].rules[i] = n
    BY <2>1, <2>3
  <2>5. g \in Groups(query)
    <3>1. query[g].rules # <<>>
      <4>1. CASE query[g].rules = <<>>
        <5>1. Len(query[g].rules) = 0
          BY <4>1, EmptySeq
        <5> QED  BY <2>3, <2>4, <5>1
      <4> QED  BY <4>1
    <3>2. Holds(query[g], C[g])
      BY <1>1 DEF WellFormed, D
    <3>3. query[g].type = "group"
      BY <3>1, <3>2 DEF Holds, QueryNode
    <3> QED  BY <3>3 DEF Groups, IsGroup, D
  <2>6. ASSUME NEW h \in Groups(query), NEW j \in DOMAIN query[h].rules,
               query[h].rules[j] = n
        PROVE  h = g /\ j = i
    <3>1. h \in D /\ n \in C[h]
      BY <1>4, <2>3, <2>6
    <3>2. h = g
      BY <1>1, <2>1, <3>1 DEF Arbor, Disjoint
    <3> QED  BY <2>3, <2>4, <2>6, <3>2
  <2>7. Places(query, n) = {<<g, i>>}
    <3>1. <<g, i>> \in Places(query, n)
      BY <2>4, <2>5 DEF Places
    <3>2. \A x \in Places(query, n) : x = <<g, i>>
      BY <2>6 DEF Places
    <3> QED  BY <3>1, <3>2
  <2> QED  BY <2>7, FS_Singleton
<1> QED  BY <1>3, <1>5, <1>6, <1>7 DEF QueryIsATree, D

LEMMA FilterTyped ==
  ASSUME FilterConstants, FilterInvariant
  PROVE  FilterTypeOK
<1>1. ASSUME NEW n \in DOMAIN query
      PROVE  /\ query[n].type \in {"rule", "group"}
             /\ query[n].rules \in Seq(0..MaxIds)
  <2>1. Holds(query[n], Kids(query)[n])
    BY DEF FilterInvariant, Tree, WellFormed
  <2>2. Kids(query)[n] \subseteq 0..MaxIds
    <3>1. Kids(query)[n] \subseteq DOMAIN query
      BY DEF FilterInvariant, Tree, Arbor
    <3>2. 0..lastId \subseteq 0..MaxIds
      BY DEF FilterInvariant, FilterConstants
    <3> QED  BY <3>1, <3>2 DEF FilterInvariant
  <2> DEFINE s == query[n].rules
  <2>3. /\ s \in Seq(Nat) /\ Len(s) \in Nat
        /\ \A i \in 1..Len(s) : s[i] \in 0..MaxIds
    BY <2>1, <2>2, ListFacts DEF Holds
  <2>4. s \in [1..Len(s) -> 0..MaxIds]
    BY <2>3, LenProperties
  <2>5. s \in Seq(0..MaxIds)
    <3> DEFINE T == 0..MaxIds
    <3>1. s \in [1..Len(s) -> T] /\ Len(s) \in Nat
      BY <2>3, <2>4
    <3> HIDE DEF T, s
    <3>2. s \in Seq(T)
      BY <3>1, SeqDef
    <3> QED  BY <3>2 DEF T
  <2> QED  BY <2>1, <2>5 DEF Holds, QueryNode
<1> QED  BY <1>1 DEF FilterTypeOK, FilterInvariant

(* However many edits, drags and drops: FilterInvariant is inductive.      *)
THEOREM FilterInvariantHolds == FilterSpec => []FilterInvariant
<1>1. FilterInit => FilterInvariant
  BY FilterConstants, FilterInitially
<1>2. FilterInvariant /\ [FilterNext]_filterVars => FilterInvariant'
  BY FilterConstants, FilterSteps
<1> QED  BY <1>1, <1>2, PTL DEF FilterSpec

(* The query is made of rules and groups with ids that nextId handed out,  *)
(* and a drag's slots are a group and a place in it.                       *)
THEOREM FilterTypes == FilterSpec => []FilterTypeOK
<1>1. FilterInvariant => FilterTypeOK
  BY FilterConstants, FilterTyped
<1> QED  BY <1>1, FilterInvariantHolds, PTL

(* No edit and no drop, however stale the slots it was aimed at, leaves a  *)
(* node in two places, out of reach of the root, or beneath itself.        *)
THEOREM QueryStaysATree == FilterSpec => []QueryIsATree
<1>1. FilterInvariant => QueryIsATree
  BY TreesAre DEF FilterInvariant
<1> QED  BY <1>1, FilterInvariantHolds, PTL
-----------------------------------------------------------------------------
(* Where the rows of a list are. *)

(* A piece of a list.                                                      *)
LEMMA Piece ==
  ASSUME NEW s \in Seq(Nat), NEW a \in 1..Len(s) + 1, NEW b \in Nat, a <= b + 1, b <= Len(s)
  PROVE  /\ SubSeq(s, a, b) \in Seq(Nat)
         /\ Len(SubSeq(s, a, b)) = b + 1 - a
         /\ \A j \in 1..b + 1 - a : SubSeq(s, a, b)[j] = s[a + j - 1]
<1> DEFINE t == SubSeq(s, a, b)
<1>1. Len(s) \in Nat /\ \A j \in 1..Len(s) : s[j] \in Nat
  BY LenProperties
<1>2. a \in Int /\ b \in Int /\ \A j \in a..b : s[j] \in Nat
  BY <1>1
<1>3. /\ t \in Seq(Nat)
      /\ Len(t) = IF a <= b THEN b - a + 1 ELSE 0
      /\ \A j \in 1..b - a + 1 : t[j] = s[a + j - 1]
  <2>1. /\ SubSeq(s, a, b) \in Seq(Nat)
        /\ Len(SubSeq(s, a, b)) = IF a <= b THEN b - a + 1 ELSE 0
        /\ \A j \in 1..b - a + 1 : SubSeq(s, a, b)[j] = s[a + j - 1]
    BY <1>2, SubSeqProperties
  <2> QED  BY <2>1
<1> HIDE DEF t
<1>4. b - a + 1 = b + 1 - a /\ (~(a <= b) => b + 1 - a = 0)
  BY <1>2
<1>5. Len(t) = b + 1 - a
  BY <1>2, <1>3, <1>4
<1>6. \A j \in 1..b + 1 - a : t[j] = s[a + j - 1]
  BY <1>3, <1>4
<1> QED  BY <1>3, <1>5, <1>6 DEF t

(* A list with one more row.                                               *)
LEMMA OneMoreRow ==
  ASSUME NEW s \in Seq(Nat), NEW i \in 1..Len(s) + 1, NEW x \in Nat
  PROVE  /\ InsertAt(s, i, x) \in Seq(Nat)
         /\ Len(InsertAt(s, i, x)) = Len(s) + 1
         /\ \A j \in 1..Len(s) + 1 :
              InsertAt(s, i, x)[j] = IF j < i THEN s[j] ELSE IF j = i THEN x ELSE s[j - 1]
<1> DEFINE left == SubSeq(s, 1, i - 1)
           right == SubSeq(s, i, Len(s))
           N == Len(s)
<1>1. N \in Nat
  BY LenProperties
<1>2. /\ left \in Seq(Nat) /\ Len(left) = i - 1
      /\ \A j \in 1..i - 1 : left[j] = s[j]
  <2>1. 1 \in 1..Len(s) + 1 /\ i - 1 \in Nat /\ 1 <= (i - 1) + 1 /\ i - 1 <= Len(s)
    BY <1>1
  <2>2. /\ left \in Seq(Nat) /\ Len(left) = (i - 1) + 1 - 1
        /\ \A j \in 1..(i - 1) + 1 - 1 : left[j] = s[1 + j - 1]
    BY <2>1, Piece
  <2>3. (i - 1) + 1 - 1 = i - 1 /\ \A j \in 1..i - 1 : 1 + j - 1 = j
    BY <2>1
  <2> HIDE DEF left
  <2> QED  BY <2>2, <2>3
<1>3. /\ right \in Seq(Nat) /\ Len(right) = N + 1 - i
      /\ \A j \in 1..N + 1 - i : right[j] = s[i + j - 1]
  <2>1. i <= Len(s) + 1 /\ Len(s) <= Len(s)
    BY <1>1
  <2> QED  BY <1>1, <2>1, Piece
<1>4. <<x>> \in Seq(Nat) /\ Len(<<x>>) = 1 /\ <<x>>[1] = x
  OBVIOUS
<1>5. InsertAt(s, i, x) = left \o <<x>> \o right
  BY DEF InsertAt
<1> DEFINE one == <<x>>
           first == left \o one
           all == first \o right
<1> HIDE DEF left, right, one
<1>6. /\ first \in Seq(Nat) /\ Len(first) = i
      /\ \A j \in 1..i : first[j] = IF j < i THEN s[j] ELSE x
  <2>1. one \in Seq(Nat) /\ Len(one) = 1 /\ one[1] = x
    BY <1>4 DEF one
  <2>2. /\ first \in Seq(Nat) /\ Len(first) = Len(left) + Len(one)
        /\ \A j \in 1..Len(left) + Len(one) :
             first[j] = IF j <= Len(left) THEN left[j] ELSE one[j - Len(left)]
    BY <1>2, <2>1, ConcatProperties
  <2> HIDE DEF first
  <2>3. Len(left) + Len(one) = i
    BY <1>2, <2>1
  <2>4. ASSUME NEW j \in 1..i
        PROVE  first[j] = IF j < i THEN s[j] ELSE x
    <3>1. first[j] = IF j <= i - 1 THEN left[j] ELSE one[j - (i - 1)]
      BY <1>2, <2>2, <2>3
    <3>2. (j <= i - 1 <=> j < i) /\ (~(j < i) => j - (i - 1) = 1)
      OBVIOUS
    <3>3. j < i => j \in 1..i - 1
      OBVIOUS
    <3> QED  BY <1>2, <2>1, <3>1, <3>2, <3>3
  <2> QED  BY <2>2, <2>3, <2>4
<1> HIDE DEF first
<1>7. /\ all \in Seq(Nat) /\ Len(all) = Len(first) + Len(right)
      /\ \A j \in 1..Len(first) + Len(right) :
           all[j] = IF j <= Len(first) THEN first[j] ELSE right[j - Len(first)]
  BY <1>3, <1>6, ConcatProperties
<1> HIDE DEF all
<1>8. Len(first) + Len(right) = N + 1
  BY <1>1, <1>3, <1>6
<1> HIDE DEF N
<1>9. ASSUME NEW j \in 1..N + 1
      PROVE  all[j] = IF j < i THEN s[j] ELSE IF j = i THEN x ELSE s[j - 1]
  <2>1. all[j] = IF j <= i THEN first[j] ELSE right[j - i]
    BY <1>6, <1>7, <1>8
  <2>2. i \in Nat /\ j \in Nat
    BY <1>1
  <2>3. CASE j <= i
    <3>1. j \in 1..i
      BY <1>1, <2>2, <2>3
    <3> QED  BY <1>6, <2>1, <2>2, <2>3, <3>1
  <2>4. CASE ~(j <= i)
    <3>1. j - i \in 1..N + 1 - i /\ i + (j - i) - 1 = j - 1 /\ ~(j < i) /\ j # i
      BY <1>1, <2>2, <2>4
    <3>2. right[j - i] = s[i + (j - i) - 1]
      BY <1>3, <3>1
    <3> QED  BY <2>1, <2>4, <3>1, <3>2
  <2> QED  BY <2>3, <2>4
<1>10. InsertAt(s, i, x) = all
  BY <1>5 DEF all, first, one
<1> QED  BY <1>7, <1>8, <1>9, <1>10 DEF N

(* A list with one row less.                                               *)
LEMMA OneRowLess ==
  ASSUME NEW s \in Seq(Nat), NEW i \in 1..Len(s)
  PROVE  /\ RemoveAt(s, i) \in Seq(Nat)
         /\ Len(RemoveAt(s, i)) = Len(s) - 1
         /\ \A j \in 1..Len(s) - 1 : RemoveAt(s, i)[j] = IF j < i THEN s[j] ELSE s[j + 1]
<1> DEFINE left == SubSeq(s, 1, i - 1)
           right == SubSeq(s, i + 1, Len(s))
           N == Len(s)
           all == left \o right
<1>1. N \in Nat
  BY LenProperties
<1>2. /\ left \in Seq(Nat) /\ Len(left) = i - 1
      /\ \A j \in 1..i - 1 : left[j] = s[j]
  <2>1. 1 \in 1..Len(s) + 1 /\ i - 1 \in Nat /\ 1 <= (i - 1) + 1 /\ i - 1 <= Len(s)
    BY <1>1
  <2>2. /\ left \in Seq(Nat) /\ Len(left) = (i - 1) + 1 - 1
        /\ \A j \in 1..(i - 1) + 1 - 1 : left[j] = s[1 + j - 1]
    BY <2>1, Piece
  <2>3. (i - 1) + 1 - 1 = i - 1 /\ \A j \in 1..i - 1 : 1 + j - 1 = j
    BY <2>1
  <2> HIDE DEF left
  <2> QED  BY <2>2, <2>3
<1>3. /\ right \in Seq(Nat) /\ Len(right) = N - i
      /\ \A j \in 1..N - i : right[j] = s[i + j]
  <2>1. i + 1 \in 1..Len(s) + 1 /\ i + 1 <= Len(s) + 1 /\ Len(s) <= Len(s)
    BY <1>1
  <2>2. /\ right \in Seq(Nat) /\ Len(right) = N + 1 - (i + 1)
        /\ \A j \in 1..N + 1 - (i + 1) : right[j] = s[(i + 1) + j - 1]
    BY <1>1, <2>1, Piece
  <2>3. N + 1 - (i + 1) = N - i /\ \A j \in 1..N - i : (i + 1) + j - 1 = i + j
    BY <1>1
  <2> HIDE DEF right, N
  <2> QED  BY <2>2, <2>3
<1>4. RemoveAt(s, i) = all
  BY DEF RemoveAt
<1> HIDE DEF left, right, N
<1>5. /\ all \in Seq(Nat) /\ Len(all) = Len(left) + Len(right)
      /\ \A j \in 1..Len(left) + Len(right) :
           all[j] = IF j <= Len(left) THEN left[j] ELSE right[j - Len(left)]
  BY <1>2, <1>3, ConcatProperties
<1> HIDE DEF all
<1>6. i \in 1..N
  BY DEF N
<1>7. Len(left) + Len(right) = N - 1
  BY <1>1, <1>2, <1>3, <1>6
<1>8. ASSUME NEW j \in 1..N - 1
      PROVE  all[j] = IF j < i THEN s[j] ELSE s[j + 1]
  <2>1. all[j] = IF j <= i - 1 THEN left[j] ELSE right[j - (i - 1)]
    BY <1>2, <1>5, <1>7
  <2>2. CASE j < i
    <3>1. j <= i - 1 /\ j \in 1..i - 1
      BY <1>6, <2>2
    <3> QED  BY <1>2, <2>1, <2>2, <3>1
  <2>3. CASE ~(j < i)
    <3>1. ~(j <= i - 1) /\ j - (i - 1) \in 1..N - i /\ i + (j - (i - 1)) = j + 1
      BY <1>1, <1>6, <2>3
    <3>2. right[j - (i - 1)] = s[i + (j - (i - 1))]
      BY <1>3, <3>1
    <3> QED  BY <2>1, <2>3, <3>1, <3>2
  <2> QED  BY <2>2, <2>3
<1> QED  BY <1>4, <1>5, <1>7, <1>8 DEF N

(* Without a row that is not there, and without the one at j.              *)
LEMMA WithoutNone ==
  ASSUME NEW s \in Seq(Nat), NEW x, \A i \in 1..Len(s) : s[i] # x
  PROVE  Without(s, {x}) = s
<1> DEFINE N == Len(s)
           D == 1..N
<1>1. N \in Nat /\ DOMAIN s = D /\ s \in [D -> Nat]
  BY LenProperties
<1>2. {i \in DOMAIN s : s[i] \notin {x}} = D
  BY <1>1
<1>3. IsFiniteSet(D) /\ D \subseteq Nat /\ Cardinality(D) = N
  <2>1. IsFiniteSet(D) /\ Cardinality(D) = IF 1 > N THEN 0 ELSE N - 1 + 1
    BY <1>1, FS_Interval
  <2> QED  BY <1>1, <2>1
<1>4. \A i \in D : Rank(D, i) = i
  <2> SUFFICES ASSUME NEW i \in D
               PROVE  Rank(D, i) = i
    OBVIOUS
  <2>1. {m \in D : m <= i} = 1..i /\ i \in Nat /\ i >= 1
    BY <1>1
  <2>2. Cardinality(1..i) = IF 1 > i THEN 0 ELSE i - 1 + 1
    BY <2>1, FS_Interval
  <2>3. Rank(D, i) = Cardinality(1..i)
    BY <2>1 DEF Rank
  <2> QED  BY <2>1, <2>2, <2>3
<1>5. \A i \in D : Nth(D, i) = i
  BY <1>3, <1>4, RankIsInjective
<1> HIDE DEF D
<1>6. Without(s, {x}) = [k \in 1..N |-> s[Nth(D, k)]]
  BY <1>2, <1>3 DEF Without
<1>7. [k \in 1..N |-> s[Nth(D, k)]] = [k \in D |-> s[k]]
  BY <1>5 DEF D
<1> QED  BY <1>1, <1>6, <1>7

LEMMA WithoutOne ==
  ASSUME NEW s \in Seq(Nat), NEW j \in 1..Len(s), NEW x, s[j] = x,
         \A i \in 1..Len(s) : s[i] = x => i = j
  PROVE  Without(s, {x}) = RemoveAt(s, j)
<1> DEFINE N == Len(s)
           left == (1..N) \ {j}
           t == [k \in 1..N - 1 |-> s[Nth(left, k)]]
<1>1. N \in Nat /\ DOMAIN s = 1..N /\ j \in 1..N
      /\ \A i \in 1..N : s[i] \in Nat
  BY LenProperties
<1>2. {i \in DOMAIN s : s[i] \notin {x}} = left
  BY <1>1
<1>3. IsFiniteSet(left) /\ left \subseteq Nat /\ Cardinality(left) = N - 1
  <2>1. IsFiniteSet(1..N) /\ Cardinality(1..N) = IF 1 > N THEN 0 ELSE N - 1 + 1
    BY <1>1, FS_Interval
  <2>2. /\ IsFiniteSet(left)
        /\ Cardinality(left) = Cardinality(1..N) - 1
    BY <1>1, <2>1, FS_RemoveElement
  <2> QED  BY <1>1, <2>1, <2>2
<1>4. \A i \in left : Rank(left, i) = IF i < j THEN i ELSE i - 1
  <2> SUFFICES ASSUME NEW i \in left
               PROVE  Rank(left, i) = IF i < j THEN i ELSE i - 1
    OBVIOUS
  <2>1. i \in Nat /\ i >= 1 /\ i <= N /\ i # j /\ j \in Nat
    BY <1>1
  <2>2. IsFiniteSet(1..i) /\ Cardinality(1..i) = i
    <3>1. IsFiniteSet(1..i) /\ Cardinality(1..i) = IF 1 > i THEN 0 ELSE i - 1 + 1
      BY <2>1, FS_Interval
    <3> QED  BY <2>1, <3>1
  <2>3. CASE i < j
    <3>1. {m \in left : m <= i} = 1..i
      BY <1>1, <2>1, <2>3
    <3> QED  BY <2>2, <2>3, <3>1 DEF Rank
  <2>4. CASE ~(i < j)
    <3>1. {m \in left : m <= i} = (1..i) \ {j} /\ j \in 1..i
      BY <1>1, <2>1, <2>4
    <3>2. Cardinality((1..i) \ {j}) = Cardinality(1..i) - 1
      BY <2>2, <3>1, FS_RemoveElement
    <3> QED  BY <2>2, <2>4, <3>1, <3>2 DEF Rank
  <2> QED  BY <2>3, <2>4
<1>5. \A k \in 1..N - 1 : Nth(left, k) = IF k < j THEN k ELSE k + 1
  <2> SUFFICES ASSUME NEW k \in 1..N - 1
               PROVE  Nth(left, k) = IF k < j THEN k ELSE k + 1
    OBVIOUS
  <2> DEFINE i == IF k < j THEN k ELSE k + 1
  <2>1. i \in left /\ k = IF i < j THEN i ELSE i - 1
    BY <1>1
  <2> HIDE DEF i, left
  <2>2. Rank(left, i) = k
    BY <1>4, <2>1
  <2>3. Nth(left, Rank(left, i)) = i
    BY <1>3, <2>1, RankIsInjective
  <2> QED  BY <2>2, <2>3 DEF i
<1> HIDE DEF left
<1>6. Without(s, {x}) = t
  BY <1>2, <1>3 DEF Without
<1>7. \A k \in 1..N - 1 : t[k] = IF k < j THEN s[k] ELSE s[k + 1]
  BY <1>5
<1>8. t \in Seq(Nat) /\ Len(t) = N - 1
  <2>1. \A k \in 1..N - 1 : s[Nth(left, k)] \in Nat
    <3>1. \A k \in 1..N - 1 : k \in 1..N /\ k + 1 \in 1..N
      BY <1>1
    <3> QED  BY <1>1, <1>5, <3>1
  <2>2. t \in [1..N - 1 -> Nat]
    BY <2>1
  <2>3. N - 1 \in Nat
    BY <1>1
  <2>4. t \in Seq(Nat)
    BY SMTT(30), <2>2, <2>3, SeqDef
  <2>5. DOMAIN t = 1..Len(t) /\ Len(t) \in Nat
    BY <2>4, LenProperties
  <2>6. 1..Len(t) = 1..N - 1
    BY <2>5
  <2> QED  BY <2>3, <2>4, <2>5, <2>6, SameLength
<1> HIDE DEF t
<1>9. /\ RemoveAt(s, j) \in Seq(Nat) /\ Len(RemoveAt(s, j)) = N - 1
      /\ \A k \in 1..N - 1 : RemoveAt(s, j)[k] = IF k < j THEN s[k] ELSE s[k + 1]
  BY OneRowLess
<1> DEFINE u == RemoveAt(s, j)
<1> HIDE DEF u
<1>10. t = u
  <2>1. /\ u \in Seq(Nat) /\ Len(u) = N - 1
        /\ \A k \in 1..N - 1 : u[k] = IF k < j THEN s[k] ELSE s[k + 1]
    BY <1>9 DEF u
  <2>2. \A k \in 1..Len(t) : t[k] = u[k]
    BY <1>7, <1>8, <2>1
  <2> HIDE DEF N
  <2> QED  BY <1>8, <2>1, <2>2, SeqEqual
<1> QED  BY <1>6, <1>10 DEF u
(* The rows before the k-th slot, x, and the rows after it.                *)
DroppedAt(s, k, x) ==
  Without(SubSeq(s, 1, k), {x}) \o <<x>> \o Without(SubSeq(s, k + 1, Len(s)), {x})

(* What is before a slot and what is after it.                             *)
LEMMA AroundSlot ==
  ASSUME NEW s \in Seq(Nat), NEW k \in 0..Len(s)
  PROVE  /\ SubSeq(s, 1, k) \in Seq(Nat) /\ Len(SubSeq(s, 1, k)) = k
         /\ \A j \in 1..k : SubSeq(s, 1, k)[j] = s[j]
         /\ SubSeq(s, k + 1, Len(s)) \in Seq(Nat)
         /\ Len(SubSeq(s, k + 1, Len(s))) = Len(s) - k
         /\ \A j \in 1..Len(s) - k : SubSeq(s, k + 1, Len(s))[j] = s[k + j]
<1> DEFINE before == SubSeq(s, 1, k)
           after == SubSeq(s, k + 1, Len(s))
           N == Len(s)
<1>1. N \in Nat /\ k \in Nat /\ k <= N
  BY LenProperties
<1>2. /\ before \in Seq(Nat) /\ Len(before) = k
      /\ \A j \in 1..k : before[j] = s[j]
  <2>1. 1 \in 1..Len(s) + 1 /\ 1 <= k + 1 /\ k <= Len(s)
    BY <1>1
  <2>2. /\ before \in Seq(Nat) /\ Len(before) = k + 1 - 1
        /\ \A j \in 1..k + 1 - 1 : before[j] = s[1 + j - 1]
    BY <1>1, <2>1, Piece
  <2>3. k + 1 - 1 = k /\ \A j \in 1..k : 1 + j - 1 = j
    BY <1>1
  <2> HIDE DEF before
  <2> QED  BY <2>2, <2>3
<1>3. /\ after \in Seq(Nat) /\ Len(after) = N - k
      /\ \A j \in 1..N - k : after[j] = s[k + j]
  <2>1. k + 1 \in 1..Len(s) + 1 /\ k + 1 <= Len(s) + 1 /\ Len(s) <= Len(s)
    BY <1>1
  <2>2. /\ after \in Seq(Nat) /\ Len(after) = N + 1 - (k + 1)
        /\ \A j \in 1..N + 1 - (k + 1) : after[j] = s[(k + 1) + j - 1]
    BY <1>1, <2>1, Piece
  <2>3. N + 1 - (k + 1) = N - k /\ \A j \in 1..N - k : (k + 1) + j - 1 = k + j
    BY <1>1
  <2> HIDE DEF after, N
  <2> QED  BY <2>2, <2>3
<1> QED  BY <1>2, <1>3 DEF before, after, N

(* A row of another group: the list it goes to has no such row.            *)
LEMMA DroppedFromElsewhere ==
  ASSUME NEW s \in Seq(Nat), NEW k \in 0..Len(s), NEW x,
         \A j \in 1..Len(s) : s[j] # x
  PROVE  InsertAt(s, k + 1, x) = DroppedAt(s, k, x)
<1> DEFINE before == SubSeq(s, 1, k)
           after == SubSeq(s, k + 1, Len(s))
<1>1. Len(s) \in Nat /\ k \in Nat /\ k <= Len(s)
  BY LenProperties
<1>2. /\ before \in Seq(Nat) /\ Len(before) = k
      /\ \A j \in 1..k : before[j] = s[j]
      /\ after \in Seq(Nat) /\ Len(after) = Len(s) - k
      /\ \A j \in 1..Len(s) - k : after[j] = s[k + j]
  BY AroundSlot
<1>3. (k + 1) - 1 = k
  BY <1>1
<1>4. InsertAt(s, k + 1, x) = before \o <<x>> \o after
  BY <1>3 DEF InsertAt
<1>5. DroppedAt(s, k, x) = Without(before, {x}) \o <<x>> \o Without(after, {x})
  BY DEF DroppedAt
<1> HIDE DEF before, after
<1>6. \A j \in 1..Len(before) : before[j] # x
  <2>1. \A j \in 1..k : j \in 1..Len(s)
    BY <1>1
  <2> QED  BY <1>2, <2>1
<1>7. \A j \in 1..Len(after) : after[j] # x
  <2> SUFFICES ASSUME NEW j \in 1..Len(after)
               PROVE  after[j] # x
    OBVIOUS
  <2>1. j \in 1..Len(s) - k
    BY <1>2
  <2>2. k + j \in 1..Len(s)
    BY <1>1, <2>1
  <2>3. after[j] = s[k + j]
    BY <1>2, <2>1
  <2> QED  BY <2>2, <2>3
<1>8. Without(before, {x}) = before /\ Without(after, {x}) = after
  BY <1>2, <1>6, <1>7, WithoutNone
<1> QED  BY <1>4, <1>5, <1>8

(* A row of the same group, on a slot after it: the gap it leaves has      *)
(* closed.                                                                 *)
LEMMA DroppedFurtherOn ==
  ASSUME NEW s \in Seq(Nat), NEW i \in 1..Len(s), NEW x, s[i] = x,
         \A j \in 1..Len(s) : s[j] = x => j = i,
         NEW k \in i..Len(s)
  PROVE  InsertAt(RemoveAt(s, i), k, x) = DroppedAt(s, k, x)
<1> DEFINE before == SubSeq(s, 1, k)
           after == SubSeq(s, k + 1, Len(s))
           N == Len(s)
           r == RemoveAt(s, i)
           first == SubSeq(r, 1, k - 1)
           last == SubSeq(r, k, Len(r))
<1>1. N \in Nat /\ k \in Nat /\ k <= N /\ i \in 1..N /\ i <= k
  BY LenProperties
<1>2. /\ before \in Seq(Nat) /\ Len(before) = k
      /\ \A j \in 1..k : before[j] = s[j]
      /\ after \in Seq(Nat) /\ Len(after) = N - k
      /\ \A j \in 1..N - k : after[j] = s[k + j]
  <2>1. k \in 0..Len(s)
    BY <1>1
  <2> QED  BY <2>1, AroundSlot
<1>3. /\ r \in Seq(Nat) /\ Len(r) = N - 1
      /\ \A j \in 1..N - 1 : r[j] = IF j < i THEN s[j] ELSE s[j + 1]
  BY OneRowLess
<1>4. InsertAt(r, k, x) = first \o <<x>> \o last
  BY DEF InsertAt
<1>5. DroppedAt(s, k, x) = Without(before, {x}) \o <<x>> \o Without(after, {x})
  BY DEF DroppedAt
<1>6. /\ first \in Seq(Nat) /\ Len(first) = k - 1
      /\ \A j \in 1..k - 1 : first[j] = r[j]
      /\ last \in Seq(Nat) /\ Len(last) = N - k
      /\ \A j \in 1..N - k : last[j] = r[k - 1 + j]
  <2> HIDE DEF r
  <2>1. k - 1 \in 0..Len(r) /\ (k - 1) + 1 = k /\ Len(r) - (k - 1) = N - k
    BY <1>1, <1>3
  <2>2. /\ SubSeq(r, 1, k - 1) \in Seq(Nat) /\ Len(SubSeq(r, 1, k - 1)) = k - 1
        /\ \A j \in 1..k - 1 : SubSeq(r, 1, k - 1)[j] = r[j]
        /\ SubSeq(r, (k - 1) + 1, Len(r)) \in Seq(Nat)
        /\ Len(SubSeq(r, (k - 1) + 1, Len(r))) = Len(r) - (k - 1)
        /\ \A j \in 1..Len(r) - (k - 1) : SubSeq(r, (k - 1) + 1, Len(r))[j] = r[k - 1 + j]
    BY <1>3, <2>1, AroundSlot
  <2> QED  BY <2>1, <2>2
<1> HIDE DEF before, after, r, first, last
<1>7. Without(before, {x}) = RemoveAt(before, i)
  <2>1. i \in 1..Len(before) /\ before[i] = x
    BY <1>1, <1>2
  <2>2. \A j \in 1..Len(before) : before[j] = x => j = i
    <3>1. \A j \in 1..k : j \in 1..Len(s)
      BY <1>1
    <3> QED  BY <1>2, <3>1
  <2> QED  BY <1>2, <2>1, <2>2, WithoutOne
<1>8. Without(after, {x}) = after
  <2>1. \A j \in 1..Len(after) : after[j] # x
    <3> SUFFICES ASSUME NEW j \in 1..Len(after)
                 PROVE  after[j] # x
      OBVIOUS
    <3>1. j \in 1..N - k
      BY <1>2
    <3>2. k + j \in 1..Len(s) /\ k + j # i
      BY <1>1, <3>1
    <3>3. after[j] = s[k + j]
      BY <1>2, <3>1
    <3> QED  BY <3>2, <3>3
  <2> QED  BY <1>2, <2>1, WithoutNone
<1> DEFINE left == RemoveAt(before, i)
<1>9. first = left
  <2>1. i \in 1..Len(before)
    BY <1>1, <1>2
  <2>2. /\ left \in Seq(Nat) /\ Len(left) = Len(before) - 1
        /\ \A j \in 1..Len(before) - 1 : left[j] = IF j < i THEN before[j] ELSE before[j + 1]
    BY <1>2, <2>1, OneRowLess
  <2> HIDE DEF left
  <2>3. ASSUME NEW j \in 1..k - 1
        PROVE  first[j] = left[j]
    <3>1. j \in 1..N - 1 /\ j \in 1..k /\ j + 1 \in 1..k
      BY <1>1
    <3>2. first[j] = IF j < i THEN s[j] ELSE s[j + 1]
      BY <1>3, <1>6, <3>1
    <3>3. left[j] = IF j < i THEN s[j] ELSE s[j + 1]
      BY <1>2, <2>2, <3>1
    <3> QED  BY <3>2, <3>3
  <2>4. Len(first) = Len(left) /\ \A j \in 1..Len(first) : first[j] = left[j]
    BY <1>2, <1>6, <2>2, <2>3
  <2> QED  BY <1>6, <2>2, <2>4, SeqEqual
<1>10. last = after
  <2>1. ASSUME NEW j \in 1..N - k
        PROVE  last[j] = after[j]
    <3>1. k - 1 + j \in 1..N - 1 /\ ~(k - 1 + j < i) /\ (k - 1 + j) + 1 = k + j
      BY <1>1
    <3>2. r[k - 1 + j] = s[k + j]
      BY <1>3, <3>1
    <3> QED  BY <1>2, <1>6, <3>2
  <2>2. Len(last) = Len(after) /\ \A j \in 1..Len(last) : last[j] = after[j]
    BY <1>2, <1>6, <2>1
  <2> QED  BY <1>2, <1>6, <2>2, SeqEqual
<1> QED  BY <1>4, <1>5, <1>7, <1>8, <1>9, <1>10 DEF r, left

(* And on a slot before it.                                                *)
LEMMA DroppedBack ==
  ASSUME NEW s \in Seq(Nat), NEW i \in 1..Len(s), NEW x, s[i] = x,
         \A j \in 1..Len(s) : s[j] = x => j = i,
         NEW k \in 0..i - 1
  PROVE  InsertAt(RemoveAt(s, i), k + 1, x) = DroppedAt(s, k, x)
<1> DEFINE before == SubSeq(s, 1, k)
           after == SubSeq(s, k + 1, Len(s))
           N == Len(s)
           r == RemoveAt(s, i)
           first == SubSeq(r, 1, k)
           last == SubSeq(r, k + 1, Len(r))
<1>1. N \in Nat /\ k \in Nat /\ k < i /\ i \in 1..N /\ i <= N /\ i \in Nat
  BY LenProperties
<1>2. /\ before \in Seq(Nat) /\ Len(before) = k
      /\ \A j \in 1..k : before[j] = s[j]
      /\ after \in Seq(Nat) /\ Len(after) = N - k
      /\ \A j \in 1..N - k : after[j] = s[k + j]
  <2>1. k \in 0..Len(s)
    BY <1>1
  <2> QED  BY <2>1, AroundSlot
<1>3. /\ r \in Seq(Nat) /\ Len(r) = N - 1
      /\ \A j \in 1..N - 1 : r[j] = IF j < i THEN s[j] ELSE s[j + 1]
  BY OneRowLess
<1>4. InsertAt(r, k + 1, x) = first \o <<x>> \o last
  <2>1. (k + 1) - 1 = k
    BY <1>1
  <2> QED  BY <2>1 DEF InsertAt
<1>5. DroppedAt(s, k, x) = Without(before, {x}) \o <<x>> \o Without(after, {x})
  BY DEF DroppedAt
<1>6. /\ first \in Seq(Nat) /\ Len(first) = k
      /\ \A j \in 1..k : first[j] = r[j]
      /\ last \in Seq(Nat) /\ Len(last) = N - 1 - k
      /\ \A j \in 1..N - 1 - k : last[j] = r[k + j]
  <2> HIDE DEF r
  <2>1. k \in 0..Len(r) /\ Len(r) - k = N - 1 - k
    BY <1>1, <1>3
  <2>2. /\ SubSeq(r, 1, k) \in Seq(Nat) /\ Len(SubSeq(r, 1, k)) = k
        /\ \A j \in 1..k : SubSeq(r, 1, k)[j] = r[j]
        /\ SubSeq(r, k + 1, Len(r)) \in Seq(Nat)
        /\ Len(SubSeq(r, k + 1, Len(r))) = Len(r) - k
        /\ \A j \in 1..Len(r) - k : SubSeq(r, k + 1, Len(r))[j] = r[k + j]
    BY <1>3, <2>1, AroundSlot
  <2> QED  BY <2>1, <2>2
<1> HIDE DEF before, after, r, first, last
<1>7. Without(before, {x}) = before
  <2>1. \A j \in 1..Len(before) : before[j] # x
    <3>1. \A j \in 1..k : j \in 1..Len(s) /\ j # i
      BY <1>1
    <3> QED  BY <1>2, <3>1
  <2> QED  BY <1>2, <2>1, WithoutNone
<1> DEFINE at == i - k
<1>8. at \in 1..Len(after) /\ k + at = i
  BY <1>1, <1>2
<1>9. Without(after, {x}) = RemoveAt(after, at)
  <2>1. after[at] = x
    BY <1>2, <1>8
  <2> HIDE DEF at
  <2>2. ASSUME NEW j \in 1..Len(after), after[j] = x
        PROVE  j = at
    <3>1. k + j \in 1..Len(s) /\ s[k + j] = x
      BY SMTT(30), <1>1, <1>2, <2>2
    <3>2. k + j = k + at
      BY <1>8, <3>1
    <3>3. at \in Nat /\ j \in Nat
      BY <1>2, <1>8
    <3> QED  BY <1>1, <3>2, <3>3
  <2> QED  BY <1>2, <1>8, <2>1, <2>2, WithoutOne
<1> DEFINE right == RemoveAt(after, at)
<1>10. first = before
  <2>1. ASSUME NEW j \in 1..k
        PROVE  first[j] = before[j]
    <3>1. j \in 1..N - 1 /\ j < i
      BY <1>1
    <3> QED  BY <1>2, <1>3, <1>6, <3>1
  <2>2. Len(first) = Len(before) /\ \A j \in 1..Len(first) : first[j] = before[j]
    BY <1>2, <1>6, <2>1
  <2> QED  BY <1>2, <1>6, <2>2, SeqEqual
<1>11. last = right
  <2>1. /\ right \in Seq(Nat) /\ Len(right) = Len(after) - 1
        /\ \A j \in 1..Len(after) - 1 : right[j] = IF j < at THEN after[j] ELSE after[j + 1]
    BY <1>2, <1>8, OneRowLess
  <2> HIDE DEF right, at
  <2>2. Len(after) - 1 = N - 1 - k
    BY <1>1, <1>2
  <2>3. ASSUME NEW j \in 1..N - 1 - k
        PROVE  last[j] = right[j]
    <3>1. /\ k + j \in 1..N - 1 /\ j \in 1..N - k /\ j + 1 \in 1..N - k
          /\ (k + j) + 1 = k + (j + 1)
          /\ (k + j < i <=> j < at)
      BY <1>1, <1>2, <1>8
    <3>2. last[j] = IF k + j < i THEN s[k + j] ELSE s[(k + j) + 1]
      BY <1>3, <1>6, <3>1
    <3>3. right[j] = IF j < at THEN s[k + j] ELSE s[k + (j + 1)]
      BY <1>2, <2>1, <2>2, <3>1
    <3> QED  BY <3>1, <3>2, <3>3
  <2>4. Len(last) = Len(right) /\ \A j \in 1..Len(last) : last[j] = right[j]
    BY <1>6, <2>1, <2>2, <2>3
  <2> QED  BY <1>6, <2>1, <2>4, SeqEqual
<1> QED  BY <1>4, <1>5, <1>7, <1>9, <1>10, <1>11 DEF r, right

(* Back where it was.                                                      *)
LEMMA DroppedBeside ==
  ASSUME NEW s \in Seq(Nat), NEW i \in 1..Len(s)
  PROVE  InsertAt(RemoveAt(s, i), i, s[i]) = s
<1> DEFINE N == Len(s)
           r == RemoveAt(s, i)
           t == InsertAt(r, i, s[i])
<1>1. N \in Nat /\ i \in 1..N /\ s[i] \in Nat
  BY LenProperties
<1>2. /\ r \in Seq(Nat) /\ Len(r) = N - 1
      /\ \A j \in 1..N - 1 : r[j] = IF j < i THEN s[j] ELSE s[j + 1]
  BY OneRowLess
<1> HIDE DEF r
<1>3. i \in 1..Len(r) + 1 /\ Len(r) + 1 = N
  BY <1>1, <1>2
<1>4. /\ t \in Seq(Nat) /\ Len(t) = N
      /\ \A j \in 1..N : t[j] = IF j < i THEN r[j] ELSE IF j = i THEN s[i] ELSE r[j - 1]
  <2>1. /\ t \in Seq(Nat) /\ Len(t) = Len(r) + 1
        /\ \A j \in 1..Len(r) + 1 :
             t[j] = IF j < i THEN r[j] ELSE IF j = i THEN s[i] ELSE r[j - 1]
    <3> DEFINE x == s[i]
    <3>1. r \in Seq(Nat) /\ x \in Nat /\ i \in 1..Len(r) + 1
      BY <1>1, <1>2, <1>3
    <3>2. t = InsertAt(r, i, x)
      OBVIOUS
    <3> HIDE DEF t, x
    <3>3. /\ InsertAt(r, i, x) \in Seq(Nat) /\ Len(InsertAt(r, i, x)) = Len(r) + 1
          /\ \A j \in 1..Len(r) + 1 :
               InsertAt(r, i, x)[j] = IF j < i THEN r[j] ELSE IF j = i THEN x ELSE r[j - 1]
      <4>1. InsertAt(r, i, x) \in Seq(Nat)
        BY <3>1, OneMoreRow
      <4>2. Len(InsertAt(r, i, x)) = Len(r) + 1
        BY <3>1, OneMoreRow
      <4>3. \A j \in 1..Len(r) + 1 :
               InsertAt(r, i, x)[j] = IF j < i THEN r[j] ELSE IF j = i THEN x ELSE r[j - 1]
        BY <3>1, OneMoreRow
      <4> QED  BY <4>1, <4>2, <4>3
    <3> QED  BY <3>2, <3>3 DEF x
  <2> QED  BY <1>3, <2>1
<1> HIDE DEF t
<1>5. ASSUME NEW j \in 1..N
      PROVE  t[j] = s[j]
  <2>1. CASE j < i
    <3>1. j \in 1..N - 1
      BY <1>1, <2>1
    <3> QED  BY <1>2, <1>4, <2>1, <3>1
  <2>2. CASE j = i
    BY <1>4, <2>2
  <2>3. CASE ~(j < i) /\ j # i
    <3>1. j - 1 \in 1..N - 1 /\ ~(j - 1 < i) /\ (j - 1) + 1 = j
      BY <1>1, <2>3
    <3>2. r[j - 1] = s[j]
      BY <1>2, <3>1
    <3> QED  BY <1>4, <2>3, <3>2
  <2> QED  BY <2>1, <2>2, <2>3
<1>6. Len(t) = Len(s) /\ \A j \in 1..Len(t) : t[j] = s[j]
  BY <1>4, <1>5
<1>7. t = s
  BY <1>4, <1>6, SeqEqual
<1> QED  BY <1>7 DEF r, t

(* A list, cut out and put together again.                                 *)
LEMMA InPieces ==
  ASSUME NEW s \in Seq(Nat), NEW i \in 1..Len(s)
  PROVE  SubSeq(s, 1, i - 1) \o <<s[i]>> \o SubSeq(s, i + 1, Len(s)) = s
<1> DEFINE N == Len(s)
           left == SubSeq(s, 1, i - 1)
           one == <<s[i]>>
           right == SubSeq(s, i + 1, N)
           first == left \o one
           all == first \o right
<1>1. N \in Nat /\ i \in 1..N /\ s[i] \in Nat
  BY LenProperties
<1>2. /\ left \in Seq(Nat) /\ Len(left) = i - 1
      /\ \A j \in 1..i - 1 : left[j] = s[j]
  <2>1. i - 1 \in 0..Len(s)
    BY <1>1
  <2> QED  BY <2>1, AroundSlot
<1>3. /\ right \in Seq(Nat) /\ Len(right) = N - i
      /\ \A j \in 1..N - i : right[j] = s[i + j]
  <2>1. i \in 0..Len(s)
    BY <1>1
  <2> QED  BY <2>1, AroundSlot
<1>4. one \in Seq(Nat) /\ Len(one) = 1 /\ one[1] = s[i]
  BY <1>1
<1> HIDE DEF left, one, right
<1>5. /\ first \in Seq(Nat) /\ Len(first) = i
      /\ \A j \in 1..i : first[j] = s[j]
  <2>1. /\ first \in Seq(Nat) /\ Len(first) = Len(left) + Len(one)
        /\ \A j \in 1..Len(left) + Len(one) :
             first[j] = IF j <= Len(left) THEN left[j] ELSE one[j - Len(left)]
    BY <1>2, <1>4, ConcatProperties
  <2> HIDE DEF first
  <2>2. Len(left) + Len(one) = i /\ i \in Nat
    BY <1>1, <1>2, <1>4
  <2>3. ASSUME NEW j \in 1..i
        PROVE  first[j] = s[j]
    <3>1. first[j] = IF j <= i - 1 THEN left[j] ELSE one[j - (i - 1)]
      BY <1>2, <2>1, <2>2
    <3>2. CASE j <= i - 1
      BY <1>2, <2>2, <3>1, <3>2
    <3>3. CASE ~(j <= i - 1)
      <4>1. j = i /\ j - (i - 1) = 1
        BY <2>2, <3>3
      <4> QED  BY <1>4, <3>1, <3>3, <4>1
    <3> QED  BY <3>2, <3>3
  <2> QED  BY <2>1, <2>2, <2>3
<1> HIDE DEF first
<1>6. /\ all \in Seq(Nat) /\ Len(all) = Len(first) + Len(right)
      /\ \A j \in 1..Len(first) + Len(right) :
           all[j] = IF j <= Len(first) THEN first[j] ELSE right[j - Len(first)]
  BY <1>3, <1>5, ConcatProperties
<1> HIDE DEF all
<1>7. Len(first) + Len(right) = N
  BY <1>1, <1>3, <1>5
<1>8. ASSUME NEW j \in 1..N
      PROVE  all[j] = s[j]
  <2>1. all[j] = IF j <= i THEN first[j] ELSE right[j - i]
    BY <1>5, <1>6, <1>7
  <2>2. CASE j <= i
    BY <1>1, <1>5, <2>1, <2>2
  <2>3. CASE ~(j <= i)
    <3>1. j - i \in 1..N - i /\ i + (j - i) = j
      BY <1>1, <2>3
    <3> QED  BY <1>3, <2>1, <2>3, <3>1
  <2> QED  BY <2>2, <2>3
<1>9. all = s
  <2>1. Len(all) = Len(s) /\ \A j \in 1..Len(all) : all[j] = s[j]
    BY <1>6, <1>7, <1>8
  <2> QED  BY <1>6, <2>1, SeqEqual
<1> QED  BY <1>9 DEF all, first, one, left, right, N
-----------------------------------------------------------------------------
(* Where a drop puts a row. *)

AFunction(q) == q = [n \in DOMAIN q |-> q[n]]

(* Every edit of a function makes a function.                              *)
LEMMA EditsMakeFunctions ==
  /\ \A q, g, s : AFunction(Rewritten(q, g, s))
  /\ \A nodes, q : AFunction(With(nodes, q))
  /\ \A n, node : AFunction(Single(n, node))
  /\ \A q : AFunction(Kept(q))
<1>1. ASSUME NEW q, NEW g, NEW s
      PROVE  AFunction(Rewritten(q, g, s))
  BY DEF AFunction, Rewritten
<1>2. ASSUME NEW nodes, NEW q
      PROVE  AFunction(With(nodes, q))
  BY DEF AFunction, With
<1>3. ASSUME NEW n, NEW node
      PROVE  AFunction(Single(n, node))
  BY DEF AFunction, Single
<1>4. ASSUME NEW q
      PROVE  AFunction(Kept(q))
  BY DEF AFunction, Kept, Restrict
<1> QED  BY <1>1, <1>2, <1>3, <1>4

(* Rewriting a group with the rules it has, twice, and adding nothing.     *)
LEMMA RewrittenAgain ==
  ASSUME NEW q, AFunction(q), NEW g \in DOMAIN q, q[g] \in QueryNode
  PROVE  /\ Rewritten(q, g, q[g].rules) = q
         /\ \A s, t : Rewritten(Rewritten(q, g, s), g, t) = Rewritten(q, g, t)
<1>1. \A s : [q[g] EXCEPT !.rules = s].type = q[g].type
             /\ [q[g] EXCEPT !.rules = s].rules = s
  BY DEF QueryNode
<1>2. [q[g] EXCEPT !.rules = q[g].rules] = q[g]
  BY DEF QueryNode
<1>3. Rewritten(q, g, q[g].rules) = q
  <2> DEFINE r == Rewritten(q, g, q[g].rules)
  <2>1. DOMAIN r = DOMAIN q /\ AFunction(r)
    BY EditsMakeFunctions DEF Rewritten
  <2>2. \A n \in DOMAIN q : r[n] = q[n]
    BY <1>2 DEF Rewritten
  <2> HIDE DEF r
  <2>3. [n \in DOMAIN r |-> r[n]] = [n \in DOMAIN q |-> q[n]]
    BY <2>1, <2>2
  <2>4. r = q
    BY <2>1, <2>3 DEF AFunction
  <2> QED  BY <2>4 DEF r
<1>4. ASSUME NEW s, NEW t
      PROVE  Rewritten(Rewritten(q, g, s), g, t) = Rewritten(q, g, t)
  <2> DEFINE w == Rewritten(q, g, s)
             a == Rewritten(w, g, t)
             b == Rewritten(q, g, t)
  <2>1. DOMAIN w = DOMAIN q /\ DOMAIN a = DOMAIN q /\ DOMAIN b = DOMAIN q
    BY DEF Rewritten
  <2>2. AFunction(a) /\ AFunction(b)
    BY EditsMakeFunctions
  <2>3. w[g] = [q[g] EXCEPT !.rules = s] /\ \A n \in DOMAIN q : n # g => w[n] = q[n]
    BY DEF Rewritten
  <2>4. b[g] = [q[g] EXCEPT !.rules = t] /\ \A n \in DOMAIN q : n # g => b[n] = q[n]
    BY DEF Rewritten
  <2> HIDE DEF w, b
  <2>5. a[g] = [w[g] EXCEPT !.rules = t] /\ \A n \in DOMAIN q : n # g => a[n] = w[n]
    BY <2>1 DEF Rewritten
  <2> HIDE DEF a
  <2>6. [w[g] EXCEPT !.rules = t] = [q[g] EXCEPT !.rules = t]
    BY <2>3 DEF QueryNode
  <2>7. \A n \in DOMAIN q : a[n] = b[n]
    BY <2>3, <2>4, <2>5, <2>6
  <2>8. [n \in DOMAIN a |-> a[n]] = [n \in DOMAIN b |-> b[n]]
    BY <2>1, <2>7
  <2>9. a = b
    BY <2>2, <2>8 DEF AFunction
  <2> QED  BY <2>9 DEF a, b, w
<1> QED  BY <1>3, <1>4

LEMMA WithNothing ==
  ASSUME NEW q, AFunction(q)
  PROVE  With(<<>>, q) = q
<1>1. DOMAIN <<>> = {}
  OBVIOUS
<1>2. With(<<>>, q) = [n \in DOMAIN q |-> q[n]]
  BY <1>1 DEF With
<1> QED  BY <1>2 DEF AFunction

(* Every node but the root has a parent, and is in the list of no other.   *)
LEMMA OneParent ==
  ASSUME NEW q, Tree(q), NEW n \in DOMAIN q \ {Root}
  PROVE  /\ HasParent(q, n)
         /\ \A p \in DOMAIN q : n \in Kids(q)[p] => p = Parent(q, n)
<1> DEFINE C == Kids(q)
           D == DOMAIN q
<1>1. WellFormed(q, C) /\ Arbor(D, C)
  BY DEF Tree
<1>2. PICK g \in D : n \in C[g]
  <2> HIDE DEF C
  <2> QED  BY <1>1, NoOrphan
<1>3. HasParent(q, n)
  <2>1. Holds(q[g], C[g])
    BY <1>1 DEF WellFormed
  <2>2. ListOf(q[g].rules, C[g]) /\ (q[g].type = "rule" => q[g].rules = <<>>)
        /\ q[g].type \in {"rule", "group"}
    BY <2>1 DEF Holds, QueryNode
  <2>3. q[g].rules # <<>>
    <3>1. PICK i \in 1..Len(q[g].rules) : q[g].rules[i] = n
      BY <1>2, <2>2, ListFacts
    <3>2. Len(<<>>) = 0
      OBVIOUS
    <3> QED  BY <3>1, <3>2
  <2>4. g \in Groups(q) /\ n \in Children(q, g)
    BY <1>2, <2>2, <2>3 DEF Groups, IsGroup, Kids
  <2> QED  BY <2>4 DEF HasParent
<1>4. Parent(q, n) \in D /\ n \in C[Parent(q, n)]
  BY <1>3, ParentFacts
<1>5. \A p \in D : n \in C[p] => p = Parent(q, n)
  <2> HIDE DEF C, D
  <2> QED  BY <1>1, <1>4 DEF Arbor, Disjoint
<1> QED  BY <1>3, <1>5

(* What is left when a node is taken out of its group.                     *)
LEMMA Detached ==
  ASSUME NEW q, Tree(q), NEW n, HasParent(q, n),
         NEW g, g = Parent(q, n), NEW left, left = RemoveAt(q[g].rules, Index(q, n) + 1)
  PROVE  /\ Detach(q, n) = Rewritten(q, g, left)
         /\ g \in DOMAIN q /\ q[g] \in QueryNode
         /\ DOMAIN Detach(q, n) = DOMAIN q
         /\ Detach(q, n)[g].rules = left
         /\ \A m \in DOMAIN q : m # g => Detach(q, n)[m] = q[m]
         /\ \A m \in DOMAIN q : IsGroup(q, m) => IsGroup(Detach(q, n), m)
<1> DEFINE w == Detach(q, n)
<1>1. w = Rewritten(q, g, left)
  BY DEF Detach, Rewritten
<1>2. g \in DOMAIN q /\ q[g] \in QueryNode
  BY ParentFacts DEF Tree, WellFormed, Holds
<1> HIDE DEF w
<1>3. /\ DOMAIN w = DOMAIN q
      /\ w[g] = [q[g] EXCEPT !.rules = left]
      /\ \A m \in DOMAIN q : m # g => w[m] = q[m]
  BY <1>1, <1>2 DEF Rewritten
<1>4. w[g].rules = left /\ w[g].type = q[g].type
  BY <1>2, <1>3 DEF QueryNode
<1>5. \A m \in DOMAIN q : IsGroup(q, m) => IsGroup(w, m)
  BY <1>3, <1>4 DEF IsGroup
<1> QED  BY <1>1, <1>2, <1>3, <1>4, <1>5 DEF w

(* A drop on a slot: the rows before it, the row, and the rows after it.   *)
LEMMA DropIsExact ==
  ASSUME NEW q, Tree(q), AFunction(q), NEW n \in DOMAIN q \ {Root},
         NEW p \in Groups(q) \ Under(q, n), NEW k \in 0..Len(q[p].rules)
  PROVE  /\ MoveNodeTo(q, n, p, k)[p].rules = DroppedAt(q[p].rules, k, n)
         /\ p = Parent(q, n) /\ k \in {Index(q, n), Index(q, n) + 1}
              => MoveNodeTo(q, n, p, k) = q
<1> DEFINE g == Parent(q, n)
           s == q[p].rules
           i == Index(q, n) + 1
           left == RemoveAt(q[g].rules, i)
           w == Detach(q, n)
           u == TargetIndex(q, n, p, k)
           t == InsertAt(w[p].rules, Smaller(u, Len(w[p].rules)) + 1, n)
           r == MoveNodeTo(q, n, p, k)
<1>1. /\ HasParent(q, n)
      /\ \A m \in DOMAIN q : n \in Kids(q)[m] => m = g
  BY OneParent
<1>2. /\ g \in DOMAIN q /\ ListOf(q[g].rules, Kids(q)[g])
      /\ Index(q, n) \in 0..Len(q[g].rules) - 1
      /\ i \in 1..Len(q[g].rules) /\ q[g].rules[i] = n /\ n \in Nat
  BY <1>1, ParentFacts
<1>3. /\ w = Rewritten(q, g, left)
      /\ q[g] \in QueryNode
      /\ DOMAIN w = DOMAIN q
      /\ w[g].rules = left
      /\ \A m \in DOMAIN q : m # g => w[m] = q[m]
      /\ \A m \in DOMAIN q : IsGroup(q, m) => IsGroup(w, m)
  BY <1>1, Detached
<1>4. p \in DOMAIN q /\ IsGroup(q, p) /\ IsGroup(w, p) /\ p \notin Under(q, n)
  BY <1>3 DEF Groups
<1>5. /\ ListOf(s, Kids(q)[p]) /\ s \in Seq(Nat) /\ Len(s) \in Nat
      /\ \A j \in 1..Len(s) : s[j] \in Kids(q)[p]
      /\ \A j, m \in 1..Len(s) : s[j] = s[m] => j = m
  <2>1. ListOf(s, Kids(q)[p])
    BY <1>4 DEF Tree, WellFormed, Holds
  <2> QED  BY <2>1, ListFacts
<1>6. r = Rewritten(w, p, t)
  <2>1. r = InsertNode(w, n, <<>>, p, u)
    BY <1>1, <1>4 DEF MoveNodeTo, MayMoveTo
  <2> HIDE DEF w, u, r
  <2>2. AFunction(w)
    BY <1>3, EditsMakeFunctions
  <2>3. With(<<>>, w) = w
    BY <2>2, WithNothing
  <2> QED  BY <1>4, <2>1, <2>3 DEF InsertNode, Rewritten
<1> HIDE DEF w, r
<1>7. r[p].rules = t
  <2>1. w[p] \in QueryNode
    <3>1. CASE p = g
      <4>1. left \in Seq(Nat)
        <5>1. ListOf(left, Kids(q)[g] \ {n})
          BY <1>2, RemovedList
        <5> QED  BY <5>1, ListFacts
      <4>2. [q[g] EXCEPT !.rules = left] \in QueryNode
        BY <1>3, <4>1 DEF QueryNode
      <4>3. w[g] = [q[g] EXCEPT !.rules = left]
        BY <1>2, <1>3 DEF Rewritten
      <4> QED  BY <3>1, <4>2, <4>3
    <3>2. CASE p # g
      BY <1>3, <1>4, <3>2 DEF Tree, WellFormed, Holds
    <3> QED  BY <3>1, <3>2
  <2>2. r[p] = [w[p] EXCEPT !.rules = t]
    BY <1>3, <1>4, <1>6 DEF Rewritten
  <2> QED  BY <2>1, <2>2 DEF QueryNode
<1>8. CASE p # g
  <2>1. w[p].rules = s /\ u = k
    BY <1>3, <1>4, <1>8 DEF TargetIndex
  <2>2. \A j \in 1..Len(s) : s[j] # n
    BY <1>1, <1>4, <1>5, <1>8
  <2>3. Smaller(u, Len(w[p].rules)) = k
    BY <1>5, <2>1 DEF Smaller
  <2>4. t = DroppedAt(s, k, n)
    <3>1. InsertAt(s, k + 1, n) = DroppedAt(s, k, n)
      BY <1>5, <2>2, DroppedFromElsewhere
    <3> QED  BY <2>1, <2>3, <3>1
  <2> QED  BY <1>7, <1>8, <2>4 DEF r
<1>9. CASE p = g
  <2>1. /\ w[p].rules = RemoveAt(s, i) /\ i \in 1..Len(s) /\ s[i] = n
        /\ Len(RemoveAt(s, i)) = Len(s) - 1
    BY <1>2, <1>3, <1>5, <1>9, LenRemoved
  <2>2. \A j \in 1..Len(s) : s[j] = n => j = i
    BY <1>5, <2>1
  <2>3. Index(q, n) \in Nat /\ i \in Nat /\ (Index(q, n) < k <=> i <= k)
    BY <1>2, <1>5
  <2>4. s[i] = n /\ s = q[g].rules /\ Index(q, n) = i - 1 /\ p = Parent(q, n)
    BY <1>2, <1>5, <1>9, <2>1
  <2> HIDE DEF i, s
  <2>5. InsertAt(RemoveAt(s, i), i, n) = s
    BY <1>5, <2>1, <2>4, DroppedBeside
  <2>6. t = DroppedAt(s, k, n) /\ (k \in {i - 1, i} => t = s)
    <3>1. CASE i <= k
      <4>1. u = k - 1
        BY <2>3, <2>4, <3>1 DEF TargetIndex
      <4>2. k \in i..Len(s)
        BY <1>5, <2>1, <3>1 DEF s
      <4>3. Smaller(u, Len(w[p].rules)) + 1 = k
        BY <1>5, <2>1, <4>1, <4>2 DEF Smaller
      <4>4. t = InsertAt(RemoveAt(s, i), k, n)
        BY <2>1, <4>3
      <4>5. InsertAt(RemoveAt(s, i), k, n) = DroppedAt(s, k, n)
        BY <1>5, <2>1, <2>2, <4>2, DroppedFurtherOn
      <4>6. k \in {i - 1, i} => k = i
        BY <1>5, <2>1, <3>1
      <4> QED  BY <2>5, <4>4, <4>5, <4>6
    <3>2. CASE ~(i <= k)
      <4>1. u = k
        BY <2>3, <2>4, <3>2 DEF TargetIndex
      <4>2. k \in 0..i - 1
        BY <1>5, <2>1, <3>2 DEF s
      <4>3. Smaller(u, Len(w[p].rules)) + 1 = k + 1
        BY <1>5, <2>1, <4>1, <4>2 DEF Smaller
      <4>4. t = InsertAt(RemoveAt(s, i), k + 1, n)
        BY <2>1, <4>3
      <4>5. InsertAt(RemoveAt(s, i), k + 1, n) = DroppedAt(s, k, n)
        BY <1>5, <2>1, <2>2, <4>2, DroppedBack
      <4>6. k \in {i - 1, i} => k + 1 = i
        BY <1>5, <2>1, <3>2, <4>2
      <4> QED  BY <2>5, <4>4, <4>5, <4>6
    <3> QED  BY <3>1, <3>2
  <2>7. t = s => r = q
    <3>1. r = Rewritten(Rewritten(q, g, left), g, t)
      BY <1>3, <1>6, <1>9
    <3> HIDE DEF t, left, g
    <3>2. r = Rewritten(q, g, t)
      BY <1>2, <1>3, <3>1, RewrittenAgain
    <3>3. Rewritten(q, g, q[g].rules) = q
      BY <1>2, <1>3, RewrittenAgain
    <3> QED  BY <2>4, <3>2, <3>3
  <2>8. k \in {Index(q, n), Index(q, n) + 1} => k \in {i - 1, i}
    BY <2>4 DEF i
  <2> QED  BY <1>7, <2>6, <2>7, <2>8 DEF r, s
<1> QED  BY <1>8, <1>9

(* A node wrapped in a new group, and the group dissolved.                 *)
LEMMA WrapIsUndone ==
  ASSUME NEW q, Tree(q), AFunction(q), NEW n \in DOMAIN q \ {Root},
         NEW x \in Nat, x \notin DOMAIN q
  PROVE  UnwrapGroup(WrapInGroup(q, n, x), x) = q
<1> DEFINE g == Parent(q, n)
           s == q[g].rules
           i == Index(q, n) + 1
           t == ReplaceAt(s, i, x)
           D == DOMAIN q
           C == Kids(q)
           m == With(Single(x, Group(<<n>>)), q)
           w == WrapInGroup(q, n, x)
           u == Rewritten(w, g, s)
<1>1. /\ HasParent(q, n) /\ g \in D /\ ListOf(s, C[g]) /\ n \in Nat /\ n \in C[g]
      /\ i \in 1..Len(s) /\ s[i] = n /\ IsGroup(q, g)
  BY OneParent, ParentFacts
<1>2. /\ s \in Seq(Nat) /\ Len(s) \in Nat
      /\ \A j \in 1..Len(s) : s[j] \in C[g]
  BY <1>1, ListFacts
<1>3. /\ WellFormed(q, C) /\ Arbor(D, C) /\ D \subseteq Nat
      /\ q[g] \in QueryNode
  BY <1>1 DEF Tree, WellFormed, Holds
<1>4. x # g /\ x \notin C[g]
  BY <1>1, <1>3 DEF Arbor
<1>5. Tree(w)
  BY WrappedTree
<1>6. /\ DOMAIN m = D \cup {x}
      /\ m[x] = Group(<<n>>)
      /\ \A k \in D : m[k] = q[k]
      /\ AFunction(m)
  BY EditsMakeFunctions DEF With, Single
<1>7. w = Rewritten(m, g, t)
  <2>1. w = [m EXCEPT ![g].rules = ReplaceAt(m[g].rules, i, x)]
    BY <1>1 DEF WrapInGroup
  <2>2. m[g] = q[g]
    BY <1>1, <1>6
  <2> HIDE DEF m, w
  <2> QED  BY <2>1, <2>2 DEF Rewritten
<1> HIDE DEF m, w
<1>8. /\ DOMAIN w = D \cup {x} /\ AFunction(w)
      /\ w[x] = Group(<<n>>)
      /\ w[g] = [q[g] EXCEPT !.rules = t]
      /\ \A k \in D : k # g => w[k] = q[k]
  <2> HIDE DEF t, g, D
  <2>1. AFunction(w)
    BY <1>7, EditsMakeFunctions
  <2> QED  BY <1>1, <1>4, <1>6, <1>7, <2>1 DEF Rewritten
<1>9. /\ t \in Seq(Nat) /\ Len(t) = Len(s)
      /\ \A j \in 1..Len(s) : t[j] = IF j = i THEN x ELSE s[j]
  <2> HIDE DEF s, i
  <2> QED  BY <1>1, <1>2, ExceptSeq DEF ReplaceAt
<1> HIDE DEF t
<1>10. w[g].rules = t /\ w[g].type = "group" /\ IsGroup(w, g) /\ IsGroup(w, x)
  BY <1>1, <1>3, <1>8 DEF QueryNode, IsGroup, Group
<1>11. /\ HasParent(w, x) /\ Parent(w, x) = g
  <2>1. x \in Children(w, g)
    <3>1. t[i] = x /\ i \in DOMAIN t
      BY <1>1, <1>9, LenProperties
    <3> QED  BY <1>10, <3>1 DEF Children, ToSet
  <2>2. x \in DOMAIN w \ {Root}
    BY <1>3, <1>8 DEF Arbor
  <2>3. /\ HasParent(w, x)
        /\ \A p \in DOMAIN w : x \in Kids(w)[p] => p = Parent(w, x)
    BY <1>5, <2>2, OneParent
  <2>4. g \in DOMAIN w /\ x \in Kids(w)[g]
    BY <1>1, <1>8, <2>1 DEF Kids
  <2> QED  BY <2>3, <2>4
<1>12. Index(w, x) + 1 = i /\ Index(w, x) = i - 1
  <2>1. /\ Index(w, x) \in 0..Len(t) - 1 /\ Index(w, x) + 1 \in 1..Len(t)
        /\ t[Index(w, x) + 1] = x
    BY <1>5, <1>10, <1>11, ParentFacts
  <2>2. \A j \in 1..Len(s) : t[j] = x => j = i
    BY <1>2, <1>4, <1>9
  <2>3. Index(w, x) \in Int /\ i \in Int
    BY <1>1, <1>2, <1>9, <2>1
  <2> HIDE DEF i, s
  <2>4. Index(w, x) + 1 = i
    BY <1>9, <2>1, <2>2
  <2> QED  BY <2>3, <2>4
<1>13. SubSeq(t, 1, i - 1) \o <<n>> \o SubSeq(t, (i - 1) + 2, Len(t)) = s
  <2> HIDE DEF s, i
  <2> DEFINE left == SubSeq(t, 1, i - 1)
             right == SubSeq(t, i + 1, Len(t))
  <2>1. i \in 1..Len(t) /\ (i - 1) + 2 = i + 1
    BY <1>1, <1>2, <1>9
  <2>2. left = SubSeq(s, 1, i - 1)
    <3>1. /\ i - 1 \in 0..Len(t) /\ i - 1 \in 0..Len(s)
      BY <1>1, <1>2, <1>9
    <3>2. /\ left \in Seq(Nat) /\ Len(left) = i - 1
          /\ \A j \in 1..i - 1 : left[j] = t[j]
      BY <1>9, <3>1, AroundSlot
    <3> DEFINE old == SubSeq(s, 1, i - 1)
    <3>3. /\ old \in Seq(Nat) /\ Len(old) = i - 1
          /\ \A j \in 1..i - 1 : old[j] = s[j]
      BY <1>2, <3>1, AroundSlot
    <3> HIDE DEF left, old
    <3>4. \A j \in 1..i - 1 : j \in 1..Len(s) /\ j # i
      BY <1>1, <1>2
    <3>5. \A j \in 1..Len(left) : left[j] = old[j]
      BY <1>9, <3>2, <3>3, <3>4
    <3>6. left = old
      BY <3>2, <3>3, <3>5, SeqEqual
    <3> QED  BY <3>6 DEF old
  <2>3. right = SubSeq(s, i + 1, Len(s))
    <3>1. i \in 0..Len(t) /\ i \in 0..Len(s)
      BY <1>1, <1>2, <1>9
    <3>2. /\ right \in Seq(Nat) /\ Len(right) = Len(s) - i
          /\ \A j \in 1..Len(s) - i : right[j] = t[i + j]
      <4>1. /\ right \in Seq(Nat) /\ Len(right) = Len(t) - i
            /\ \A j \in 1..Len(t) - i : right[j] = t[i + j]
        BY <1>9, <3>1, AroundSlot
      <4> HIDE DEF right
      <4> QED  BY <1>9, <4>1
    <3> DEFINE old == SubSeq(s, i + 1, Len(s))
    <3>3. /\ old \in Seq(Nat) /\ Len(old) = Len(s) - i
          /\ \A j \in 1..Len(s) - i : old[j] = s[i + j]
      BY <1>2, <3>1, AroundSlot
    <3> HIDE DEF right, old
    <3>4. \A j \in 1..Len(s) - i : i + j \in 1..Len(s) /\ i + j # i
      BY <1>1, <1>2
    <3>5. \A j \in 1..Len(right) : right[j] = old[j]
      BY <1>9, <3>2, <3>3, <3>4
    <3>6. right = old
      BY <3>2, <3>3, <3>5, SeqEqual
    <3> QED  BY <3>6 DEF old
  <2>4. SubSeq(s, 1, i - 1) \o <<s[i]>> \o SubSeq(s, i + 1, Len(s)) = s
    BY <1>1, <1>2, InPieces
  <2> QED  BY <1>1, <2>1, <2>2, <2>3, <2>4
<1>14. UnwrapGroup(w, x) = Kept(u)
  <2> DEFINE v == SubSeq(w[g].rules, 1, Index(w, x)) \o w[x].rules
                    \o SubSeq(w[g].rules, Index(w, x) + 2, Len(w[g].rules))
  <2>1. v = s
    <3>1. w[x].rules = <<n>>
      BY <1>8 DEF Group
    <3> QED  BY <1>10, <1>12, <1>13, <3>1
  <2>2. UnwrapGroup(w, x) = Kept([w EXCEPT ![g].rules = v])
    BY <1>10, <1>11 DEF UnwrapGroup
  <2> HIDE DEF v
  <2> QED  BY <2>1, <2>2 DEF Rewritten
<1>15. /\ DOMAIN u = D \cup {x}
       /\ \A k \in D : u[k] = q[k]
       /\ u[x] = Group(<<n>>)
  <2>1. u[g] = [w[g] EXCEPT !.rules = s]
    BY <1>1, <1>8 DEF Rewritten
  <2>2. u[g] = q[g]
    BY <1>3, <1>8, <2>1 DEF QueryNode
  <2>3. DOMAIN u = D \cup {x} /\ \A k \in D \cup {x} : k # g => u[k] = w[k]
    BY <1>8 DEF Rewritten
  <2> HIDE DEF u
  <2> QED  BY <1>4, <1>8, <2>2, <2>3
<1> HIDE DEF u
<1> DEFINE E == [k \in D \cup {x} |-> IF k = x THEN {n} ELSE C[k]]
<1>16. WellFormed(u, E) /\ E \in [DOMAIN u -> SUBSET DOMAIN u]
  <2>1. Holds(u[x], {n})
    <3>1. ListOf(<<n>>, {n}) /\ <<n>> \in Seq(Nat)
      BY <1>1, OneList DEF ListOf
    <3> QED  BY <1>15, <3>1 DEF Holds, Group, QueryNode
  <2>2. \A k \in D : Holds(u[k], C[k])
    BY <1>3, <1>15 DEF WellFormed
  <2>3. \A k \in D \cup {x} : E[k] = IF k = x THEN {n} ELSE C[k]
    OBVIOUS
  <2>4. \A k \in D : C[k] \subseteq D
    BY <1>3 DEF Arbor
  <2>5. E \in [D \cup {x} -> SUBSET (D \cup {x})]
    BY <2>4
  <2> HIDE DEF E, C
  <2>6. WellFormed(u, E)
    BY <1>3, <1>15, <2>1, <2>2, <2>3 DEF WellFormed
  <2> QED  BY <1>15, <2>5, <2>6
<1>17. Under(u, Root) = D
  <2> DEFINE U == Under(u, Root)
  <2>1. Root \in D
    BY <1>3 DEF Arbor
  <2>2. Below(D \cup {x}, E, Root, U)
    <3> HIDE DEF E
    <3> QED  BY <1>15, <1>16, <2>1, UnderIsBelow
  <2>3. \A k \in D : E[k] = C[k]
    OBVIOUS
  <2>4. \A k \in D : C[k] \subseteq D
    BY <1>3 DEF Arbor
  <2> HIDE DEF U, E, C
  <2>5. Hung(E, D)
    BY <2>3, <2>4 DEF Hung
  <2>6. U \subseteq D
    BY <2>1, <2>2, <2>5 DEF Below
  <2>7. Hung(C, U) /\ Root \in U
    BY <2>2, <2>3, <2>6 DEF Below, Hung
  <2> QED  BY <1>3, <2>6, <2>7 DEF Arbor, U
<1>18. Kept(u) = [k \in D |-> q[k]]
  <2> HIDE DEF D
  <2>1. Kept(u) = [k \in D |-> u[k]]
    BY <1>17 DEF Kept, Restrict
  <2> QED  BY <1>15, <2>1
<1> QED  BY <1>14, <1>18 DEF w, AFunction

(* The edits of a function are functions.                                  *)
LEMMA InsertsAreFunctions ==
  ASSUME NEW q, AFunction(q), NEW n, NEW nodes, NEW p, NEW index
  PROVE  AFunction(InsertNode(q, n, nodes, p, index))
<1>1. CASE ~IsGroup(q, p)
  BY <1>1 DEF InsertNode
<1>2. CASE IsGroup(q, p)
  <2> DEFINE w == With(nodes, q)
  <2>1. InsertNode(q, n, nodes, p, index)
          = Rewritten(w, p, InsertAt(w[p].rules, Smaller(index, Len(w[p].rules)) + 1, n))
    BY <1>2 DEF InsertNode, Rewritten
  <2> HIDE DEF w
  <2> QED  BY <2>1, EditsMakeFunctions
<1> QED  BY <1>1, <1>2

LEMMA MovesAreFunctions ==
  ASSUME NEW q, AFunction(q), NEW n, NEW p, NEW k
  PROVE  AFunction(MoveNode(q, n, k)) /\ AFunction(MoveNodeTo(q, n, p, k))
<1>1. AFunction(MoveNode(q, n, k))
  <2> DEFINE g == Parent(q, n)
             t == InsertAt(RemoveAt(q[g].rules, Index(q, n) + 1), k + 1, n)
  <2>1. MoveNode(q, n, k) = q \/ MoveNode(q, n, k) = Rewritten(q, g, t)
    BY DEF MoveNode, Rewritten
  <2> HIDE DEF g, t
  <2> QED  BY <2>1, EditsMakeFunctions
<1>2. AFunction(Detach(q, n))
  <2> DEFINE g == Parent(q, n)
             t == RemoveAt(q[g].rules, Index(q, n) + 1)
  <2>1. Detach(q, n) = Rewritten(q, g, t)
    BY DEF Detach, Rewritten
  <2> HIDE DEF g, t
  <2> QED  BY <2>1, EditsMakeFunctions
<1>3. AFunction(MoveNodeTo(q, n, p, k))
  <2>1. \/ MoveNodeTo(q, n, p, k) = q
        \/ MoveNodeTo(q, n, p, k) = InsertNode(Detach(q, n), n, <<>>, p, TargetIndex(q, n, p, k))
    BY DEF MoveNodeTo
  <2> QED  BY <1>2, <2>1, InsertsAreFunctions
<1> QED  BY <1>1, <1>3

LEMMA GroupsAreFunctions ==
  ASSUME NEW q, AFunction(q), NEW n, NEW x
  PROVE  /\ AFunction(WrapInGroup(q, n, x)) /\ AFunction(UnwrapGroup(q, n))
         /\ AFunction(RemoveNode(q, n)) /\ AFunction(ClearQuery(q))
<1>1. AFunction(WrapInGroup(q, n, x))
  <2> DEFINE w == With(Single(x, Group(<<n>>)), q)
             g == Parent(q, n)
             t == ReplaceAt(w[g].rules, Index(q, n) + 1, x)
  <2>1. WrapInGroup(q, n, x) = q \/ WrapInGroup(q, n, x) = Rewritten(w, g, t)
    BY DEF WrapInGroup, Rewritten
  <2> HIDE DEF w, g, t
  <2> QED  BY <2>1, EditsMakeFunctions
<1>2. AFunction(UnwrapGroup(q, n))
  <2>1. UnwrapGroup(q, n) = q \/ \E w : UnwrapGroup(q, n) = Kept(w)
    BY DEF UnwrapGroup
  <2> QED  BY <2>1, EditsMakeFunctions
<1>3. AFunction(RemoveNode(q, n))
  <2>1. \E w : RemoveNode(q, n) = Kept(w)
    BY DEF RemoveNode, Above
  <2> QED  BY <2>1, EditsMakeFunctions
<1>4. AFunction(ClearQuery(q))
  <2>1. \E w : ClearQuery(q) = Kept(w)
    BY DEF ClearQuery
  <2> QED  BY <2>1, EditsMakeFunctions
<1> QED  BY <1>1, <1>2, <1>3, <1>4

LEMMA StaysAFunction ==
  ASSUME AFunction(query), [FilterNext]_filterVars
  PROVE  AFunction(query)'
<1> SUFFICES AFunction(query')
  BY DEF AFunction
<1>1. CASE UNCHANGED filterVars
  BY <1>1 DEF filterVars
<1>2. ASSUME NEW n \in DOMAIN query, AddRule(n) \/ AddGroup(n) \/ Duplicate(n)
      PROVE  AFunction(query')
  <2>1. \E x, nodes, p, k : query' = InsertNode(query, x, nodes, p, k)
    BY <1>2 DEF AddRule, AddGroup, Duplicate, EditWithIds, CopyNodeTo
  <2> QED  BY <2>1, InsertsAreFunctions
<1>3. ASSUME NEW n \in DOMAIN query, DeleteNode(n) \/ Wrap(n) \/ Unwrap(n)
      PROVE  AFunction(query')
  <2>1. \/ query' = RemoveNode(query, n)
        \/ query' = WrapInGroup(query, n, lastId + 1)
        \/ query' = UnwrapGroup(query, n)
    BY <1>3 DEF DeleteNode, Wrap, Unwrap, Edit, EditWithIds
  <2> QED  BY <2>1, GroupsAreFunctions
<1>4. ASSUME NEW n \in DOMAIN query, Move(n) \/ StartDrag(n)
      PROVE  AFunction(query')
  <2>1. query' = query \/ \E k : query' = MoveNode(query, n, k)
    BY <1>4 DEF Move, StartDrag, Edit
  <2> QED  BY <2>1, MovesAreFunctions
<1>5. CASE Clear \/ CancelDrag
  <2>1. query' = query \/ query' = ClearQuery(query)
    BY <1>5 DEF Clear, CancelDrag, Edit
  <2> QED  BY <2>1, GroupsAreFunctions
<1>6. CASE DropMove
  <2>1. \E p, k : query' = MoveNodeTo(query, drag.node, p, k)
    BY <1>6 DEF DropMove
  <2> QED  BY <2>1, MovesAreFunctions
<1>7. CASE DropCopy
  <2>1. \E x, nodes, p, k : query' = InsertNode(query, x, nodes, p, k)
    BY <1>7 DEF DropCopy, CopyNodeTo
  <2> QED  BY <2>1, InsertsAreFunctions
<1> QED  BY <1>1, <1>2, <1>3, <1>4, <1>5, <1>6, <1>7 DEF FilterNext

LEMMA DropsAreAimed ==
  ASSUME FilterInvariant, AFunction(query)
  PROVE  DropsLandWhereAimed
<1> SUFFICES ASSUME NEW n \in DOMAIN query \ {Root}, NEW slot \in Slots(query, n)
             PROVE  /\ MoveNodeTo(query, n, slot[1], slot[2])[slot[1]].rules
                         = DroppedAt(query[slot[1]].rules, slot[2], n)
                    /\ IsNoop(query, n, slot) => MoveNodeTo(query, n, slot[1], slot[2]) = query
  BY DEF DropsLandWhereAimed, DroppedAt
<1>1. PICK p \in Groups(query) \ Under(query, n) :
        \E k \in 0..Len(query[p].rules) : slot = <<p, k>>
  BY DEF Slots
<1>2. PICK k \in 0..Len(query[p].rules) : slot = <<p, k>>
  BY <1>1
<1>3. /\ MoveNodeTo(query, n, p, k)[p].rules = DroppedAt(query[p].rules, k, n)
      /\ p = Parent(query, n) /\ k \in {Index(query, n), Index(query, n) + 1}
           => MoveNodeTo(query, n, p, k) = query
  BY DropIsExact DEF FilterInvariant
<1>4. slot[1] = p /\ slot[2] = k
  BY <1>2
<1>5. IsNoop(query, n, slot) => p = Parent(query, n)
                                /\ k \in {Index(query, n), Index(query, n) + 1}
  BY <1>2 DEF IsNoop
<1> QED  BY <1>3, <1>4, <1>5

LEMMA WrapsCancel ==
  ASSUME FilterConstants, FilterInvariant, AFunction(query)
  PROVE  WrapsAreUndone
<1>1. Tree(query) /\ MaxIds + 1 \in Nat /\ MaxIds + 1 \notin DOMAIN query
  <2>1. 0..lastId \subseteq 0..MaxIds
    BY DEF FilterInvariant, FilterConstants
  <2>2. MaxIds + 1 \notin 0..MaxIds /\ MaxIds + 1 \in Nat
    BY DEF FilterConstants
  <2> QED  BY <2>1, <2>2 DEF FilterInvariant
<1> DEFINE x == MaxIds + 1
<1> HIDE DEF x
<1>2. \A n \in DOMAIN query \ {Root} : UnwrapGroup(WrapInGroup(query, n, x), x) = query
  BY <1>1, WrapIsUndone DEF x
<1> QED  BY <1>2 DEF WrapsAreUndone, x
-----------------------------------------------------------------------------
(* What the recursive functions compute, by induction over sets of numbers *)
(* and of sequences.                                                       *)

LEMMA LeastOfSome ==
  ASSUME NEW T, T \subseteq Nat, T # {}
  PROVE  \E m \in T : \A t \in T : m <= t
<1> DEFINE R == OpToRel(<, Nat)
<1>1. IsWellFoundedOn(R, Nat)
  BY NatLessThanWellFounded
<1>2. R = {ss \in Nat \X Nat : ss[1] < ss[2]}
  BY DEF OpToRel
<1>3. \A i, j \in Nat : i < j => <<i, j>> \in R
  BY <1>2
<1> HIDE DEF R
<1>4. PICK m \in T : \A t \in T : ~(<<t, m>> \in R)
  BY <1>1, WFMin
<1>5. \A t \in T : ~(t < m)
  BY <1>3, <1>4
<1> QED  BY <1>5

LEMMA FromZeroOn ==
  ASSUME NEW S, 0 \in S, \A n \in Nat : n \in S => n + 1 \in S
  PROVE  Nat \subseteq S
<1> SUFFICES ASSUME Nat \ S # {}
             PROVE  FALSE
  OBVIOUS
<1>1. PICK m \in Nat \ S : \A t \in Nat \ S : m <= t
  BY LeastOfSome
<1>2. m # 0 /\ m - 1 \in Nat /\ (m - 1) + 1 = m /\ ~(m <= m - 1)
  BY <1>1
<1>3. m - 1 \in S
  BY <1>1, <1>2
<1> QED  BY <1>1, <1>2, <1>3

LEMMA BySize ==
  ASSUME NEW E, NEW T, <<>> \in T, \A s \in Seq(E), x \in E : s \in T => Append(s, x) \in T
  PROVE  Seq(E) \subseteq T
<1> DEFINE S == {n \in Nat : \A s \in Seq(E) : Len(s) = n => s \in T}
<1>1. 0 \in S
  <2>1. \A s \in Seq(E) : Len(s) = 0 => s = <<>>
    BY EmptySeq
  <2> QED  BY <2>1
<1>2. ASSUME NEW n \in Nat, n \in S
      PROVE  n + 1 \in S
  <2>1. ASSUME NEW s \in Seq(E), Len(s) = n + 1
        PROVE  s \in T
    <3>1. s # <<>>
      BY <2>1, EmptySeq
    <3>2. PICK t \in Seq(E), x \in E : s = Append(t, x)
      BY <3>1, SequenceEmptyOrAppend
    <3>3. Len(s) = Len(t) + 1 /\ Len(t) \in Nat
      BY <3>2, AppendProperties, LenProperties
    <3>4. Len(t) = n
      BY <2>1, <3>3
    <3> QED  BY <1>2, <3>2, <3>4
  <2> QED  BY <2>1
<1>3. Nat \subseteq S
  <2> HIDE DEF S
  <2> QED  BY <1>1, <1>2, FromZeroOn
<1>4. \A s \in Seq(E) : Len(s) \in S
  BY <1>3, LenProperties
<1> QED  BY <1>4

(* What starts in X and takes a step within it each time goes K steps.     *)
StepsIn(X, step) == \A d \in Nat : step[d] \in [X -> X]

Goes(f, X, x0, step, k) ==
  f \in [0..k -> X] /\ f[0] = x0 /\ \A d \in 1..k : f[d] = step[d][f[d - 1]]

LEMMA Iterated ==
  ASSUME NEW X, NEW x0 \in X, NEW step, StepsIn(X, step), NEW K \in Nat
  PROVE  \E f : Goes(f, X, x0, step, K)
<1> DEFINE S == {k \in Nat : \E f : Goes(f, X, x0, step, k)}
<1>1. 0 \in S
  <2> DEFINE f == [d \in 0..0 |-> x0]
  <2>1. Goes(f, X, x0, step, 0)
    BY DEF Goes
  <2> QED  BY <2>1
<1>2. ASSUME NEW k \in Nat, k \in S
      PROVE  k + 1 \in S
  <2>1. PICK f : Goes(f, X, x0, step, k)
    BY <1>2
  <2> DEFINE g == [d \in 0..k + 1 |-> IF d = k + 1 THEN step[d][f[k]] ELSE f[d]]
  <2>2. f[k] \in X /\ step[k + 1][f[k]] \in X
    BY <2>1 DEF Goes, StepsIn
  <2>3. \A d \in 0..k + 1 : d = k + 1 \/ d \in 0..k
    OBVIOUS
  <2>4. g \in [0..k + 1 -> X]
    BY <2>1, <2>2, <2>3 DEF Goes
  <2>5. g[0] = x0
    BY <2>1 DEF Goes
  <2>6. ASSUME NEW d \in 1..k + 1
        PROVE  g[d] = step[d][g[d - 1]]
    <3>1. d - 1 \in 0..k /\ d - 1 # k + 1 /\ d - 1 \in 0..k + 1 /\ d \in 0..k + 1
      OBVIOUS
    <3>2. g[d - 1] = f[d - 1]
      BY <3>1
    <3>3. CASE d = k + 1
      <4>1. d - 1 = k
        BY <3>3
      <4> QED  BY <3>1, <3>2, <3>3, <4>1
    <3>4. CASE d # k + 1
      <4>1. d \in 1..k
        BY <3>4
      <4> QED  BY <2>1, <3>1, <3>2, <3>4, <4>1 DEF Goes
    <3> QED  BY <3>3, <3>4
  <2>7. Goes(g, X, x0, step, k + 1)
    <3> HIDE DEF g
    <3> QED  BY <2>4, <2>5, <2>6 DEF Goes
  <2> HIDE DEF g
  <2>8. k + 1 \in Nat /\ \E h : Goes(h, X, x0, step, k + 1)
    BY <2>7
  <2> QED  BY <2>8
<1>3. Nat \subseteq S
  <2> HIDE DEF S
  <2> QED  BY <1>1, <1>2, FromZeroOn
<1> QED  BY <1>3

(* FlattenSeq joins one sequence after the other. *)
Sums(ss, f) == f[0] = <<>> /\ \A d \in 1..Len(ss) : f[d] = f[d - 1] \o ss[d]

Alike(ss, tt, k) == \A d \in 1..k : ss[d] = tt[d]

LEMMA SumsAgree ==
  ASSUME NEW ss, NEW f, Sums(ss, f), NEW tt, NEW g, Sums(tt, g), NEW k \in Nat,
         Len(ss) \in Nat, Len(tt) \in Nat, k <= Len(ss), k <= Len(tt),
         Alike(ss, tt, k)
  PROVE  f[k] = g[k]
<1> DEFINE S == {d \in Nat : d <= k => f[d] = g[d]}
<1>1. 0 \in S
  BY DEF Sums
<1>2. ASSUME NEW d \in Nat, d \in S
      PROVE  d + 1 \in S
  <2>1. CASE ~(d + 1 <= k)
    BY <2>1
  <2>2. CASE d + 1 <= k
    <3>1. /\ d <= k /\ d + 1 \in 1..k /\ d + 1 \in 1..Len(ss) /\ d + 1 \in 1..Len(tt)
          /\ (d + 1) - 1 = d
      BY <2>2
    <3>2. f[d] = g[d]
      BY <1>2, <3>1
    <3>3. f[d + 1] = f[d] \o ss[d + 1] /\ g[d + 1] = g[d] \o tt[d + 1]
      BY <3>1 DEF Sums
    <3>4. ss[d + 1] = tt[d + 1]
      BY <3>1 DEF Alike
    <3>5. f[d + 1] = g[d + 1]
      BY <3>2, <3>3, <3>4
    <3> QED  BY <3>5
  <2> QED  BY <2>1, <2>2
<1>3. Nat \subseteq S
  <2> HIDE DEF S
  <2> QED  BY <1>1, <1>2, FromZeroOn
<1> QED  BY <1>3

LEMMA FlattenSums ==
  ASSUME NEW B, NEW ss \in Seq(Seq(B))
  PROVE  \E f \in [0..Len(ss) -> Seq(B)] : Sums(ss, f) /\ FlattenSeq(ss) = f[Len(ss)]
<1> DEFINE N == Len(ss)
           step == [d \in Nat |-> [x \in Seq(B) |-> IF d \in 1..N THEN x \o ss[d] ELSE x]]
<1>1. N \in Nat /\ \A d \in 1..N : ss[d] \in Seq(B)
  BY LenProperties
<1>2. \A d \in Nat : step[d] \in [Seq(B) -> Seq(B)]
  <2>1. ASSUME NEW d \in Nat, NEW x \in Seq(B)
        PROVE  (IF d \in 1..N THEN x \o ss[d] ELSE x) \in Seq(B)
    BY <1>1, ConcatProperties
  <2> QED  BY <2>1
<1>3. <<>> \in Seq(B)
  BY EmptySeq
<1>4. PICK f \in [0..N -> Seq(B)] :
        f[0] = <<>> /\ \A d \in 1..N : f[d] = step[d][f[d - 1]]
  <2> DEFINE X == Seq(B)
             e == <<>>
  <2>1. N \in Nat /\ e \in X /\ StepsIn(X, step)
    BY <1>1, <1>2, <1>3 DEF StepsIn
  <2>2. \E f : Goes(f, X, e, step, N)
    <3> HIDE DEF N, step, X, e
    <3> QED  BY <2>1, Iterated
  <2> HIDE DEF N, step
  <2> QED  BY <2>2 DEF Goes
<1>5. Sums(ss, f)
  <2>1. ASSUME NEW d \in 1..N
        PROVE  f[d] = f[d - 1] \o ss[d]
    <3>1. d \in Nat /\ d - 1 \in 0..N
      BY <1>1
    <3>2. f[d - 1] \in Seq(B)
      BY <3>1
    <3> QED  BY <1>4, <3>1, <3>2
  <2> QED  BY <1>4, <2>1 DEF Sums
<1>6. CASE N = 0
  <2>1. ss = <<>> /\ FlattenSeq(ss) = <<>>
    <3>1. ss = <<>>
      BY <1>6, EmptySeq
    <3> QED  BY <1>6, <3>1 DEF FlattenSeq
  <2> QED  BY <1>4, <1>5, <1>6, <2>1
<1>7. CASE N # 0
  <2> DEFINE flatten[i \in 1..Len(ss)] == IF i = 1 THEN ss[i] ELSE flatten[i - 1] \o ss[i]
  <2>1. FlattenSeq(ss) = flatten[N]
    BY <1>7 DEF FlattenSeq
  <2>2. flatten = [i \in 1..Len(ss) |-> IF i = 1 THEN ss[i] ELSE flatten[i - 1] \o ss[i]]
    <3> DEFINE h == [i \in 1..N |-> f[i]]
    <3>1. h = [i \in 1..Len(ss) |-> IF i = 1 THEN ss[i] ELSE h[i - 1] \o ss[i]]
      <4>1. ASSUME NEW i \in 1..N
            PROVE  f[i] = IF i = 1 THEN ss[i] ELSE h[i - 1] \o ss[i]
        <5>1. CASE i = 1
          <6>1. f[1] = <<>> \o ss[1] /\ ss[1] \in Seq(B)
            <7>1. 1 \in 1..N /\ 1 - 1 = 0
              BY <1>1, <5>1
            <7> QED  BY <1>1, <1>5, <7>1 DEF Sums
          <6> QED  BY <5>1, <6>1, ConcatEmptySeq
        <5>2. CASE i # 1
          <6>1. i - 1 \in 1..N
            BY <1>1, <5>2
          <6> QED  BY <1>5, <5>2, <6>1 DEF Sums
        <5> QED  BY <5>1, <5>2
      <4> QED  BY <4>1
    <3> HIDE DEF h
    <3> QED  BY <3>1
  <2> HIDE DEF flatten
  <2> DEFINE g == [i \in 0..N |-> IF i = 0 THEN <<>> ELSE flatten[i]]
  <2>3. Sums(ss, g)
    <3>1. g[0] = <<>>
      BY <1>1
    <3>2. ASSUME NEW i \in 1..N
          PROVE  g[i] = g[i - 1] \o ss[i]
      <4>0. flatten[i] = IF i = 1 THEN ss[i] ELSE flatten[i - 1] \o ss[i]
        BY <2>2
      <4>1. /\ i \in 0..N /\ i - 1 \in 0..N /\ i # 0
            /\ i - 1 = 0 <=> i = 1
        BY <1>1
      <4>2. g[i] = flatten[i] /\ g[i - 1] = IF i = 1 THEN <<>> ELSE flatten[i - 1]
        BY <4>1
      <4>3. ss[i] \in Seq(B)
        BY <1>1
      <4>4. <<>> \o ss[i] = ss[i]
        BY <4>3, ConcatEmptySeq
      <4> QED  BY <4>0, <4>1, <4>2, <4>4
    <3> QED  BY <3>1, <3>2 DEF Sums
  <2>4. g[N] = flatten[N]
    BY <1>1, <1>7
  <2>5. f[N] = g[N]
    <3> HIDE DEF g, N
    <3>1. N <= N /\ N = Len(ss)
      BY <1>1 DEF N
    <3>2. Alike(ss, ss, N)
      BY DEF Alike
    <3> QED  BY <1>1, <1>5, <2>3, <3>1, <3>2, SumsAgree
  <2> QED  BY <1>4, <1>5, <2>1, <2>4, <2>5
<1> QED  BY <1>6, <1>7

LEMMA FlattenMore ==
  ASSUME NEW B, NEW ss \in Seq(Seq(B)), NEW t \in Seq(B)
  PROVE  /\ FlattenSeq(ss) \in Seq(B)
         /\ FlattenSeq(Append(ss, t)) = FlattenSeq(ss) \o t
<1> DEFINE N == Len(ss)
<1>0. PICK tt : tt = Append(ss, t)
  OBVIOUS
<1>1. /\ tt \in Seq(Seq(B)) /\ Len(tt) = N + 1
      /\ \A i \in 1..N : tt[i] = ss[i]
      /\ tt[N + 1] = t
      /\ N \in Nat
  BY <1>0, AppendProperties, LenProperties
<1>2. PICK f : f \in [0..N -> Seq(B)] /\ Sums(ss, f) /\ FlattenSeq(ss) = f[N]
  BY FlattenSums
<1>3. PICK g : g \in [0..N + 1 -> Seq(B)] /\ Sums(tt, g) /\ FlattenSeq(tt) = g[N + 1]
  BY <1>1, FlattenSums
<1> HIDE DEF N
<1>4. f[N] = g[N]
  <2>1. N <= Len(ss) /\ N <= Len(tt) /\ Len(ss) \in Nat /\ Len(tt) \in Nat
    BY <1>1 DEF N
  <2>2. Alike(ss, tt, N)
    BY <1>1 DEF Alike
  <2>3. N \in Nat /\ Sums(ss, f) /\ Sums(tt, g)
    BY <1>1, <1>2, <1>3
  <2> QED  BY <2>1, <2>2, <2>3, SumsAgree
<1>5. g[N + 1] = g[N] \o t
  <2>1. N + 1 \in 1..Len(tt) /\ (N + 1) - 1 = N
    BY <1>1
  <2> QED  BY <1>1, <1>3, <2>1 DEF Sums
<1>6. N \in 0..N
  BY <1>1
<1> QED  BY <1>2, <1>3, <1>4, <1>5, <1>6, <1>0

(* The lists h[x] of the members x of s, one after the other.              *)
Images(s, h) == [i \in DOMAIN s |-> h[s[i]]]

LEMMA AlongImages == \A s, h : Along(s, h) = FlattenSeq(Images(s, h))
BY DEF Along, Images

GivesLists(h, E, B) == \A x \in E : h[x] \in Seq(B)

LEMMA OverMembers ==
  ASSUME NEW E, NEW s, NEW B, s \in Seq(B), \A i \in 1..Len(s) : s[i] \in E
  PROVE  s \in Seq(E)
<1>1. Len(s) \in Nat /\ s \in [1..Len(s) -> B]
  BY LenProperties
<1>2. s \in [1..Len(s) -> E]
  BY <1>1
<1> QED  BY <1>1, <1>2, SeqDef

LEMMA Mapped ==
  ASSUME NEW E, NEW B, NEW h, GivesLists(h, E, B), NEW s \in Seq(E), NEW x \in E
  PROVE  /\ Images(s, h) \in Seq(Seq(B))
         /\ Images(Append(s, x), h) = Append(Images(s, h), h[x])
<1> DEFINE r == [i \in 1..Len(s) |-> h[s[i]]]
           sx == Append(s, x)
           rx == [i \in 1..Len(s) + 1 |-> h[sx[i]]]
<1>1. Len(s) \in Nat /\ DOMAIN s = 1..Len(s) /\ \A i \in 1..Len(s) : s[i] \in E
  BY LenProperties
<1>2. r \in [1..Len(s) -> Seq(B)]
  BY <1>1 DEF GivesLists
<1>3. r \in Seq(Seq(B)) /\ Len(r) = Len(s)
  <2>1. r \in Seq(Seq(B))
    BY <1>1, <1>2, SeqDef
  <2>2. DOMAIN r = 1..Len(s) /\ DOMAIN r = 1..Len(r) /\ Len(r) \in Nat
    BY <2>1, LenProperties
  <2> QED  BY <1>1, <2>1, <2>2, SameLength
<1>4. /\ sx \in Seq(E) /\ Len(sx) = Len(s) + 1 /\ DOMAIN sx = 1..Len(s) + 1
      /\ \A i \in 1..Len(s) : sx[i] = s[i]
      /\ sx[Len(s) + 1] = x
  BY AppendProperties, LenProperties
<1>5. rx = Append(r, h[x])
  <2> DEFINE a == Append(r, h[x])
  <2>1. h[x] \in Seq(B)
    BY DEF GivesLists
  <2>2. /\ a \in Seq(Seq(B)) /\ Len(a) = Len(s) + 1
        /\ \A i \in 1..Len(s) : a[i] = r[i]
        /\ a[Len(s) + 1] = h[x]
    <3> HIDE DEF r
    <3> QED  BY <1>3, <2>1, AppendProperties
  <2>3. a = [i \in 1..Len(s) + 1 |-> a[i]]
    <3> HIDE DEF a
    <3>1. DOMAIN a = 1..Len(a) /\ a \in [1..Len(a) -> Seq(B)]
      BY <2>2, LenProperties
    <3> QED  BY <2>2, <3>1
  <2>4. ASSUME NEW i \in 1..Len(s) + 1
        PROVE  a[i] = h[sx[i]]
    <3>1. i \in 1..Len(s) \/ i = Len(s) + 1
      BY <1>1
    <3> HIDE DEF a, sx
    <3> QED  BY <1>4, <2>2, <3>1
  <2> HIDE DEF a, sx
  <2>5. rx = [i \in 1..Len(s) + 1 |-> a[i]]
    BY <2>4
  <2> HIDE DEF rx
  <2> QED  BY <2>3, <2>5 DEF a
<1>6. Images(s, h) = r
  BY <1>1 DEF Images
<1>7. Images(sx, h) = rx
  <2> HIDE DEF sx
  <2> QED  BY <1>4 DEF Images
<1> HIDE DEF r, rx
<1> QED  BY <1>3, <1>5, <1>6, <1>7

LEMMA AlongNone ==
  ASSUME NEW h
  PROVE  Along(<<>>, h) = <<>>
<1>1. DOMAIN <<>> = {} /\ Len(<<>>) = 0
  OBVIOUS
<1>2. Images(<<>>, h) = <<>>
  BY <1>1 DEF Images
<1> QED  BY <1>1, <1>2, AlongImages DEF FlattenSeq

LEMMA AlongMore ==
  ASSUME NEW E, NEW B, NEW h, GivesLists(h, E, B), NEW s \in Seq(E), NEW x \in E
  PROVE  /\ Along(s, h) \in Seq(B)
         /\ Along(Append(s, x), h) = Along(s, h) \o h[x]
<1>1. h[x] \in Seq(B)
  BY DEF GivesLists
<1>2. Images(s, h) \in Seq(Seq(B)) /\ Images(Append(s, x), h) = Append(Images(s, h), h[x])
  BY Mapped
<1> QED  BY <1>1, <1>2, FlattenMore, AlongImages

LEMMA AlongIsList ==
  ASSUME NEW E, NEW B, NEW h, GivesLists(h, E, B), NEW s \in Seq(E)
  PROVE  Along(s, h) \in Seq(B)
<1>1. CASE s = <<>>
  BY <1>1, AlongNone, EmptySeq
<1>2. CASE s # <<>>
  <2>1. PICK x \in E : TRUE
    BY <1>2, SequenceEmptyOrAppend
  <2> QED  BY <2>1, AlongMore
<1> QED  BY <1>1, <1>2

LEMMA AlongOne ==
  ASSUME NEW E, NEW B, NEW h, GivesLists(h, E, B), NEW x \in E
  PROVE  Along(<<x>>, h) = h[x]
<1>0. PICK e : e = <<>>
  OBVIOUS
<1>a. e \in Seq(E)
  BY <1>0, EmptySeq
<1>1. Append(e, x) = <<x>>
  BY <1>0
<1>2. Along(<<x>>, h) = <<>> \o h[x]
  <2>1. Along(Append(e, x), h) = Along(e, h) \o h[x]
    BY <1>a, AlongMore
  <2> QED  BY <1>0, <1>1, <2>1, AlongNone
<1>3. h[x] \in Seq(B)
  BY DEF GivesLists
<1> QED  BY <1>2, <1>3, ConcatEmptySeq

LEMMA AlongAgree ==
  ASSUME NEW E, NEW h, NEW k, \A x \in E : h[x] = k[x], NEW s \in Seq(E)
  PROVE  Along(s, h) = Along(s, k)
<1>1. DOMAIN s = 1..Len(s) /\ \A i \in 1..Len(s) : s[i] \in E
  BY LenProperties
<1>2. Images(s, h) = Images(s, k)
  BY <1>1 DEF Images
<1> QED  BY <1>2, AlongImages

LEMMA JoinMore ==
  ASSUME NEW E, NEW s \in Seq(E), NEW t \in Seq(E), NEW x \in E
  PROVE  s \o Append(t, x) = Append(s \o t, x)
<1>1. <<x>> \in Seq(E) /\ s \o t \in Seq(E)
  BY ConcatProperties
<1>2. Append(t, x) = t \o <<x>> /\ Append(s \o t, x) = (s \o t) \o <<x>>
  BY <1>1, AppendIsConcat
<1> QED  BY <1>1, <1>2, ConcatAssociative

LEMMA AlongJoined ==
  ASSUME NEW E, NEW B, NEW h, GivesLists(h, E, B), NEW s \in Seq(E)
  PROVE  \A t \in Seq(E) : Along(s \o t, h) = Along(s, h) \o Along(t, h)
<1> DEFINE T == {t \in Seq(E) : Along(s \o t, h) = Along(s, h) \o Along(t, h)}
<1>1. Along(s, h) \in Seq(B)
  BY AlongIsList
<1>2. <<>> \in T
  <2>1. s \o <<>> = s /\ Along(s, h) \o <<>> = Along(s, h) /\ <<>> \in Seq(E)
    BY <1>1, ConcatEmptySeq, EmptySeq
  <2> QED  BY <2>1, AlongNone
<1>3. ASSUME NEW t \in Seq(E), NEW x \in E, t \in T
      PROVE  Append(t, x) \in T
  <2>1. /\ Along(t, h) \in Seq(B) /\ h[x] \in Seq(B) /\ s \o t \in Seq(E)
        /\ Append(t, x) \in Seq(E)
    BY AlongIsList, ConcatProperties, AppendProperties DEF GivesLists
  <2>2. Along(s \o Append(t, x), h) = Along(s \o t, h) \o h[x]
    <3>1. PICK st : st = s \o t
      OBVIOUS
    <3>2. s \o Append(t, x) = Append(st, x)
      BY <3>1, JoinMore
    <3>3. st \in Seq(E)
      BY <2>1, <3>1
    <3>4. Along(Append(st, x), h) = Along(st, h) \o h[x]
      BY <3>3, AlongMore
    <3> QED  BY <3>1, <3>2, <3>4
  <2>3. Along(s \o t, h) = Along(s, h) \o Along(t, h)
    BY <1>3
  <2>4. Along(Append(t, x), h) = Along(t, h) \o h[x]
    BY AlongMore
  <2>5. (Along(s, h) \o Along(t, h)) \o h[x] = Along(s, h) \o (Along(t, h) \o h[x])
    <3>1. \A a, b, c \in Seq(B) : (a \o b) \o c = a \o (b \o c)
      BY ConcatAssociative
    <3> QED  BY <1>1, <2>1, <3>1
  <2>6. Along(s \o Append(t, x), h) = Along(s, h) \o Along(Append(t, x), h)
    BY <2>2, <2>3, <2>4, <2>5
  <2> QED  BY <2>1, <2>6
<1>4. Seq(E) \subseteq T
  <2> HIDE DEF T
  <2> QED  BY <1>2, <1>3, BySize
<1> QED  BY <1>4

(* Along what is along s.                                                  *)
LEMMA AlongTwice ==
  ASSUME NEW E, NEW B, NEW h, GivesLists(h, E, B), NEW F, NEW k, GivesLists(k, B, F),
         NEW hk, \A x \in E : hk[x] = Along(h[x], k), NEW s \in Seq(E)
  PROVE  Along(Along(s, h), k) = Along(s, hk)
<1> DEFINE T == {t \in Seq(E) : Along(Along(t, h), k) = Along(t, hk)}
<1>1. <<>> \in T
  <2>1. <<>> \in Seq(E)
    BY EmptySeq
  <2> QED  BY <2>1, AlongNone
<1>2. GivesLists(hk, E, F)
  <2> SUFFICES ASSUME NEW x \in E
               PROVE  Along(h[x], k) \in Seq(F)
    BY DEF GivesLists
  <2>1. h[x] \in Seq(B)
    BY DEF GivesLists
  <2> QED  BY <2>1, AlongIsList
<1>3. ASSUME NEW t \in Seq(E), NEW x \in E, t \in T
      PROVE  Append(t, x) \in T
  <2>1. /\ Along(t, h) \in Seq(B) /\ h[x] \in Seq(B) /\ Append(t, x) \in Seq(E)
    BY AlongIsList, AppendProperties DEF GivesLists
  <2>2. Along(Append(t, x), h) = Along(t, h) \o h[x]
    BY AlongMore
  <2>3. Along(Along(t, h) \o h[x], k) = Along(Along(t, h), k) \o Along(h[x], k)
    BY <2>1, AlongJoined
  <2>4. Along(Append(t, x), hk) = Along(t, hk) \o hk[x]
    BY <1>2, AlongMore
  <2>5. Along(Along(t, h), k) = Along(t, hk)
    BY <1>3
  <2>6. Along(Along(Append(t, x), h), k) = Along(Append(t, x), hk)
    BY <2>2, <2>3, <2>4, <2>5
  <2> QED  BY <2>1, <2>6
<1>4. Seq(E) \subseteq T
  <2> HIDE DEF T
  <2> QED  BY <1>1, <1>3, BySize
<1> QED  BY <1>4

(* Nothing along lists of nothing, and s along its own members.            *)
LEMMA AlongNothing ==
  ASSUME NEW E, NEW h, \A x \in E : h[x] = <<>>, NEW s \in Seq(E)
  PROVE  Along(s, h) = <<>>
<1> DEFINE T == {t \in Seq(E) : Along(t, h) = <<>>}
<1>1. <<>> \in T
  <2>1. <<>> \in Seq(E)
    BY EmptySeq
  <2> QED  BY <2>1, AlongNone
<1>2. GivesLists(h, E, Nat)
  BY EmptySeq DEF GivesLists
<1>3. ASSUME NEW t \in Seq(E), NEW x \in E, t \in T
      PROVE  Append(t, x) \in T
  <2>1. Append(t, x) \in Seq(E) /\ <<>> \o <<>> = <<>>
    BY AppendProperties, ConcatEmptySeq, EmptySeq
  <2>2. Along(Append(t, x), h) = Along(t, h) \o h[x]
    BY <1>2, AlongMore
  <2>3. Along(t, h) = <<>> /\ h[x] = <<>>
    BY <1>3
  <2>4. Along(Append(t, x), h) = <<>>
    BY <2>1, <2>2, <2>3
  <2> QED  BY <2>1, <2>4
<1>4. Seq(E) \subseteq T
  <2> HIDE DEF T
  <2> QED  BY <1>1, <1>3, BySize
<1> QED  BY <1>4

LEMMA AlongItself ==
  ASSUME NEW E, NEW h, \A x \in E : h[x] = <<x>>, NEW s \in Seq(E)
  PROVE  Along(s, h) = s
<1> DEFINE T == {t \in Seq(E) : Along(t, h) = t}
<1>1. <<>> \in T
  <2>1. <<>> \in Seq(E)
    BY EmptySeq
  <2> QED  BY <2>1, AlongNone
<1>2. GivesLists(h, E, E)
  <2>1. \A x \in E : <<x>> \in Seq(E)
    OBVIOUS
  <2>2. \A x \in E : h[x] \in Seq(E)
    BY <2>1
  <2> QED  BY <2>2 DEF GivesLists
<1>3. ASSUME NEW t \in Seq(E), NEW x \in E, t \in T
      PROVE  Append(t, x) \in T
  <2>1. Append(t, x) \in Seq(E) /\ Append(t, x) = t \o <<x>>
    BY AppendProperties, AppendIsConcat
  <2>2. Along(Append(t, x), h) = Along(t, h) \o h[x]
    BY <1>2, AlongMore
  <2>3. Along(t, h) = t /\ h[x] = <<x>>
    BY <1>3
  <2>4. Along(Append(t, x), h) = Append(t, x)
    BY <2>1, <2>2, <2>3
  <2> QED  BY <2>1, <2>4
<1>4. Seq(E) \subseteq T
  <2> HIDE DEF T
  <2> QED  BY <1>1, <1>3, BySize
<1> QED  BY <1>4

(* Without, one element after the other.                                   *)
LEMMA RankOfMore ==
  ASSUME NEW N \in Nat, NEW S, S \subseteq 1..N
  PROVE  LET M == Cardinality(S)
         IN /\ M \in Nat /\ Cardinality(S \cup {N + 1}) = M + 1
            /\ \A k \in 1..M : Nth(S, k) \in S /\ Nth(S \cup {N + 1}, k) = Nth(S, k)
            /\ Nth(S \cup {N + 1}, M + 1) = N + 1
<1> DEFINE M == Cardinality(S)
<1>0. PICK T : T = S \cup {N + 1}
  OBVIOUS
<1>1. /\ IsFiniteSet(S) /\ S \subseteq Nat /\ M \in Nat
      /\ IsFiniteSet(T) /\ T \subseteq Nat /\ Cardinality(T) = M + 1
  <2>1. N + 1 \notin S /\ N + 1 \in Nat /\ 1..N \subseteq Nat
    OBVIOUS
  <2>2. IsFiniteSet(S)
    <3>1. IsFiniteSet(1..N)
      BY FS_Interval
    <3> QED  BY <3>1, FS_Subset
  <2>3. M \in Nat
    BY <2>2, FS_CardinalityType
  <2>4. IsFiniteSet(T) /\ Cardinality(T) = M + 1
    BY <1>0, <2>1, <2>2, FS_AddElement
  <2> QED  BY <1>0, <2>1, <2>2, <2>3, <2>4
<1>2. ASSUME NEW n \in S
      PROVE  Rank(T, n) = Rank(S, n)
  <2>1. {m \in T : m <= n} = {m \in S : m <= n}
    BY <1>0, <1>1
  <2> QED  BY <2>1 DEF Rank
<1>3. Rank(T, N + 1) = M + 1
  <2>1. \A m \in T : m <= N + 1
    <3>1. \A m \in S : m \in Nat /\ m <= N
      OBVIOUS
    <3> QED  BY <1>0, <3>1
  <2>2. {m \in T : m <= N + 1} = T
    BY <2>1
  <2> QED  BY <1>1, <2>2 DEF Rank
<1>4. /\ \A n \in T : Nth(T, Rank(T, n)) = n
      /\ \A k \in 1..M : Nth(S, k) \in S /\ Rank(S, Nth(S, k)) = k
  <2>1. \A n \in T : Nth(T, Rank(T, n)) = n
    BY <1>1, RankIsInjective
  <2>2. \A k \in 1..Cardinality(S) : Nth(S, k) \in S /\ Rank(S, Nth(S, k)) = k
    BY <1>1, Ranks
  <2> QED  BY <2>1, <2>2
<1>5. Nth(T, M + 1) = N + 1
  BY <1>0, <1>3, <1>4
<1>6. ASSUME NEW k \in 1..M
      PROVE  Nth(S, k) \in S /\ Nth(T, k) = Nth(S, k)
  <2>1. Nth(S, k) \in S /\ Rank(S, Nth(S, k)) = k
    BY <1>4
  <2>2. Rank(T, Nth(S, k)) = k /\ Nth(S, k) \in T
    BY <1>0, <1>2, <2>1
  <2> QED  BY <1>4, <2>1, <2>2
<1> QED  BY <1>0, <1>1, <1>5, <1>6

LEMMA WithoutNothing == \A O : Without(<<>>, O) = <<>>
<1> SUFFICES ASSUME NEW O
             PROVE  Without(<<>>, O) = <<>>
  OBVIOUS
<1>1. DOMAIN <<>> = {}
  OBVIOUS
<1>2. {i \in DOMAIN <<>> : <<>>[i] \notin O} = {}
  BY <1>1
<1>3. Cardinality({}) = 0
  BY FS_EmptySet
<1>4. 1..0 = {}
  OBVIOUS
<1> QED  BY <1>2, <1>3, <1>4 DEF Without

(* The places in s of what is not in O, and what is there.                 *)
Left(s, O) == {i \in 1..Len(s) : s[i] \notin O}

Picked(s, S, M) == [k \in 1..M |-> s[Nth(S, k)]]

LEMMA WithoutIs ==
  ASSUME NEW E, NEW s \in Seq(E), NEW O, NEW M, M = Cardinality(Left(s, O))
  PROVE  /\ M \in Nat
         /\ Without(s, O) = Picked(s, Left(s, O), M)
         /\ \A k \in 1..M : Nth(Left(s, O), k) \in Left(s, O)
         /\ Without(s, O) \in Seq(E \ O)
         /\ Len(Without(s, O)) = M
<1>1. Len(s) \in Nat /\ DOMAIN s = 1..Len(s) /\ \A i \in 1..Len(s) : s[i] \in E
  BY LenProperties
<1>2. Left(s, O) = {i \in DOMAIN s : s[i] \notin O} /\ Left(s, O) \subseteq 1..Len(s)
  BY <1>1 DEF Left
<1>3. M \in Nat /\ \A k \in 1..M : Nth(Left(s, O), k) \in Left(s, O)
  BY <1>1, <1>2, RankOfMore
<1>4. PICK t : t = [k \in 1..M |-> s[Nth(Left(s, O), k)]]
  OBVIOUS
<1>5. Without(s, O) = t
  BY <1>2, <1>4 DEF Without
<1>6. t \in [1..M -> E \ O]
  <2>1. ASSUME NEW k \in 1..M
        PROVE  s[Nth(Left(s, O), k)] \in E \ O
    <3>1. PICK i : i = Nth(Left(s, O), k) /\ i \in Left(s, O)
      BY <1>3
    <3> QED  BY <1>1, <3>1 DEF Left
  <2> QED  BY <1>4, <2>1
<1>7. t \in Seq(E \ O)
  BY <1>3, <1>6, SeqDef
<1>8. Len(t) = M
  <2>1. DOMAIN t = 1..Len(t) /\ Len(t) \in Nat /\ DOMAIN t = 1..M
    BY <1>6, <1>7, LenProperties
  <2> QED  BY <1>3, <2>1, SameLength
<1> QED  BY <1>3, <1>4, <1>5, <1>7, <1>8 DEF Picked

LEMMA WithoutMore ==
  ASSUME NEW E, NEW s \in Seq(E), NEW x \in E, NEW O
  PROVE  Without(Append(s, x), O) = IF x \in O THEN Without(s, O) ELSE Append(Without(s, O), x)
<1> DEFINE N == Len(s)
<1>0. PICK sx : sx = Append(s, x)
  OBVIOUS
<1>1. /\ N \in Nat /\ sx \in Seq(E) /\ Len(sx) = N + 1
      /\ \A i \in 1..N : sx[i] = s[i]
      /\ sx[N + 1] = x
  BY <1>0, AppendProperties, LenProperties
<1>2. PICK S : S = Left(s, O) /\ S \subseteq 1..N
  BY DEF Left
<1>3. PICK M : M = Cardinality(S)
  OBVIOUS
<1>4. PICK t : t = Without(s, O)
  OBVIOUS
<1>5. /\ M \in Nat /\ t = Picked(s, S, M)
      /\ t \in Seq(E \ O) /\ Len(t) = M
      /\ \A k \in 1..M : Nth(S, k) \in S
  BY <1>2, <1>3, <1>4, WithoutIs
<1>6. PICK u : u = Without(sx, O)
  OBVIOUS
<1>7. \A i \in 1..N + 1 : i \in 1..N \/ i = N + 1
  BY <1>1
<1>8. CASE x \in O
  <2>1. Left(sx, O) = S
    BY <1>1, <1>2, <1>7, <1>8 DEF Left
  <2>2. u = Picked(sx, S, M)
    BY <1>1, <1>3, <1>6, <2>1, WithoutIs
  <2>3. \A k \in 1..M : sx[Nth(S, k)] = s[Nth(S, k)]
    BY <1>1, <1>2, <1>5
  <2>4. u = t
    BY <1>5, <2>2, <2>3 DEF Picked
  <2> QED  BY <1>0, <1>4, <1>6, <1>8, <2>4
<1>9. CASE x \notin O
  <2>1. PICK T : T = S \cup {N + 1}
    OBVIOUS
  <2>2. Left(sx, O) = T
    BY <1>1, <1>2, <1>7, <1>9, <2>1 DEF Left
  <2>3. /\ Cardinality(T) = M + 1
        /\ \A k \in 1..M : Nth(T, k) = Nth(S, k)
        /\ Nth(T, M + 1) = N + 1
    BY <1>1, <1>2, <1>3, <2>1, RankOfMore
  <2>4. u = Picked(sx, T, M + 1)
    <3>1. sx \in Seq(E)
      BY <1>1
    <3>2. u = Picked(sx, T, Cardinality(T))
      BY <1>6, <2>2, <3>1, WithoutIs
    <3> QED  BY <2>3, <3>2
  <2>5. PICK a : a = Append(t, x)
    OBVIOUS
  <2>6. /\ a \in Seq(E) /\ Len(a) = M + 1
        /\ \A k \in 1..M : a[k] = t[k]
        /\ a[M + 1] = x
    <3>1. t \in Seq(E)
      BY <1>5, SeqMonotonic
    <3> QED  BY <1>5, <2>5, <3>1, AppendProperties
  <2>7. a = [k \in 1..M + 1 |-> a[k]]
    <3>1. a \in [1..Len(a) -> E]
      BY <2>6, LenProperties
    <3> QED  BY <2>6, <3>1
  <2>8. ASSUME NEW k \in 1..M + 1
        PROVE  a[k] = sx[Nth(T, k)]
    <3>1. CASE k \in 1..M
      <4>1. a[k] = s[Nth(S, k)] /\ Nth(T, k) = Nth(S, k) /\ Nth(S, k) \in S
        BY <1>5, <2>3, <2>6, <3>1 DEF Picked
      <4> QED  BY <1>1, <1>2, <4>1
    <3>2. CASE k = M + 1
      BY <1>1, <2>3, <2>6, <3>2
    <3>3. k \in 1..M \/ k = M + 1
      BY <1>5
    <3> QED  BY <3>1, <3>2, <3>3
  <2>9. u = a
    BY <2>4, <2>7, <2>8 DEF Picked
  <2> QED  BY <1>0, <1>4, <1>6, <1>9, <2>5, <2>9
<1> QED  BY <1>8, <1>9

LEMMA WithoutIsList ==
  ASSUME NEW E, NEW s \in Seq(E), NEW O
  PROVE  Without(s, O) \in Seq(E \ O) /\ Without(s, O) \in Seq(E)
<1>1. Without(s, O) \in Seq(E \ O)
  BY WithoutIs
<1> QED  BY <1>1, SeqMonotonic

(* What takes one part of a list after the other takes all of it.          *)
LEMMA WithoutJoined ==
  ASSUME NEW E, NEW O, NEW s \in Seq(E)
  PROVE  \A t \in Seq(E) : Without(s \o t, O) = Without(s, O) \o Without(t, O)
<1> DEFINE T == {t \in Seq(E) : Without(s \o t, O) = Without(s, O) \o Without(t, O)}
<1>0. PICK w \in Seq(E) : w = Without(s, O)
  BY WithoutIsList
<1>1. <<>> \in T
  <2>1. s \o <<>> = s /\ w \o <<>> = w /\ <<>> \in Seq(E)
    BY <1>0, ConcatEmptySeq, EmptySeq
  <2> QED  BY <1>0, <2>1, WithoutNothing
<1>2. ASSUME NEW t \in Seq(E), NEW x \in E, t \in T
      PROVE  Append(t, x) \in T
  <2>1. PICK st : st = s \o t
    OBVIOUS
  <2>2. /\ st \in Seq(E) /\ s \o Append(t, x) = Append(st, x) /\ Append(t, x) \in Seq(E)
    BY <2>1, JoinMore, ConcatProperties, AppendProperties
  <2>3. PICK v \in Seq(E) : v = Without(t, O)
    BY WithoutIsList
  <2>4. Without(st, O) = w \o v
    BY <1>0, <1>2, <2>1, <2>3
  <2>5. Without(Append(st, x), O) = IF x \in O THEN w \o v ELSE Append(w \o v, x)
    <3>1. st \in Seq(E)
      BY <2>2
    <3>2. Without(Append(st, x), O) = IF x \in O THEN Without(st, O) ELSE Append(Without(st, O), x)
      BY <3>1, WithoutMore
    <3> QED  BY <2>4, <3>2
  <2>6. Without(Append(t, x), O) = IF x \in O THEN v ELSE Append(v, x)
    BY <2>3, WithoutMore
  <2>7. w \o Append(v, x) = Append(w \o v, x)
    BY JoinMore
  <2>8. Without(s \o Append(t, x), O) = Without(s, O) \o Without(Append(t, x), O)
    BY <1>0, <2>2, <2>5, <2>6, <2>7
  <2> QED  BY <2>2, <2>8
<1>3. Seq(E) \subseteq T
  <2> HIDE DEF T
  <2> QED  BY <1>1, <1>2, BySize
<1> QED  BY <1>3

(* Nothing of a list goes with what is not in it, and all of it with all   *)
(* that is.                                                                *)
LEMMA WithoutOthers ==
  ASSUME NEW E, NEW O, E \cap O = {}, NEW s \in Seq(E)
  PROVE  Without(s, O) = s
<1> DEFINE T == {t \in Seq(E) : Without(t, O) = t}
<1>1. <<>> \in T
  BY EmptySeq, WithoutNothing
<1>2. ASSUME NEW t \in Seq(E), NEW x \in E, t \in T
      PROVE  Append(t, x) \in T
  <2>1. Append(t, x) \in Seq(E) /\ x \notin O
    BY AppendProperties
  <2>2. Without(Append(t, x), O) = Append(Without(t, O), x)
    BY <2>1, WithoutMore
  <2> QED  BY <1>2, <2>1, <2>2
<1>3. Seq(E) \subseteq T
  <2> HIDE DEF T
  <2> QED  BY <1>1, <1>2, BySize
<1> QED  BY <1>3

LEMMA WithoutAll ==
  ASSUME NEW E, NEW O, E \subseteq O, NEW s \in Seq(E)
  PROVE  Without(s, O) = <<>>
<1> DEFINE T == {t \in Seq(E) : Without(t, O) = <<>>}
<1>1. <<>> \in T
  BY EmptySeq, WithoutNothing
<1>2. ASSUME NEW t \in Seq(E), NEW x \in E, t \in T
      PROVE  Append(t, x) \in T
  <2>1. Append(t, x) \in Seq(E) /\ x \in O
    BY AppendProperties
  <2>2. Without(Append(t, x), O) = Without(t, O)
    BY <2>1, WithoutMore
  <2> QED  BY <1>2, <2>1, <2>2
<1>3. Seq(E) \subseteq T
  <2> HIDE DEF T
  <2> QED  BY <1>1, <1>2, BySize
<1> QED  BY <1>3

LEMMA NothingLeft ==
  ASSUME NEW E, NEW s \in Seq(E), NEW O, Without(s, O) = <<>>
  PROVE  \A i \in 1..Len(s) : s[i] \in O
<1> DEFINE T == {t \in Seq(E) : Without(t, O) = <<>> => \A i \in 1..Len(t) : t[i] \in O}
<1>1. <<>> \in T
  <2>1. <<>> \in Seq(E) /\ Len(<<>>) = 0
    BY EmptySeq
  <2> QED  BY <2>1
<1>2. ASSUME NEW t \in Seq(E), NEW x \in E, t \in T
      PROVE  Append(t, x) \in T
  <2>0. PICK tx : tx = Append(t, x)
    OBVIOUS
  <2>1. /\ tx \in Seq(E) /\ Len(tx) = Len(t) + 1 /\ Len(t) \in Nat
        /\ \A i \in 1..Len(t) : tx[i] = t[i]
        /\ tx[Len(t) + 1] = x
    BY <2>0, AppendProperties, LenProperties
  <2>2. Without(tx, O) = IF x \in O THEN Without(t, O) ELSE Append(Without(t, O), x)
    BY <2>0, WithoutMore
  <2>3. Append(Without(t, O), x) # <<>>
    <3>1. PICK w \in Seq(E) : w = Without(t, O)
      BY WithoutIsList
    <3> QED  BY <3>1, AppendProperties
  <2>4. ASSUME Without(tx, O) = <<>>, NEW i \in 1..Len(tx)
        PROVE  tx[i] \in O
    <3>1. x \in O /\ Without(t, O) = <<>>
      BY <2>2, <2>3, <2>4
    <3>2. \A j \in 1..Len(t) : t[j] \in O
      BY <1>2, <3>1
    <3>3. i \in 1..Len(t) \/ i = Len(t) + 1
      BY <2>1
    <3> QED  BY <2>1, <3>1, <3>2, <3>3
  <2> QED  BY <2>0, <2>1, <2>4
<1>3. Seq(E) \subseteq T
  <2> HIDE DEF T
  <2> QED  BY <1>1, <1>2, BySize
<1> QED  BY <1>3

(* Taking O away before or after joining lists, and what adds nothing.     *)
LEMMA WithoutAlong ==
  ASSUME NEW E, NEW B, NEW h, GivesLists(h, E, B), NEW O,
         NEW k, \A x \in E : k[x] = Without(h[x], O), NEW s \in Seq(E)
  PROVE  Without(Along(s, h), O) = Along(s, k)
<1> DEFINE T == {t \in Seq(E) : Without(Along(t, h), O) = Along(t, k)}
<1>1. <<>> \in T
  BY EmptySeq, AlongNone, WithoutNothing
<1>2. GivesLists(k, E, B)
  <2> SUFFICES ASSUME NEW x \in E
               PROVE  Without(h[x], O) \in Seq(B)
    BY DEF GivesLists
  <2>1. h[x] \in Seq(B)
    BY DEF GivesLists
  <2> QED  BY <2>1, WithoutIsList
<1>3. ASSUME NEW t \in Seq(E), NEW x \in E, t \in T
      PROVE  Append(t, x) \in T
  <2>1. /\ Along(t, h) \in Seq(B) /\ h[x] \in Seq(B) /\ Append(t, x) \in Seq(E)
    BY AlongIsList, AppendProperties DEF GivesLists
  <2>2. Along(Append(t, x), h) = Along(t, h) \o h[x]
    BY AlongMore
  <2>3. Along(Append(t, x), k) = Along(t, k) \o k[x]
    BY <1>2, AlongMore
  <2>4. Without(Along(t, h) \o h[x], O) = Without(Along(t, h), O) \o Without(h[x], O)
    BY <2>1, WithoutJoined
  <2>5. Without(Along(Append(t, x), h), O) = Along(Append(t, x), k)
    BY <1>3, <2>2, <2>3, <2>4
  <2> QED  BY <2>1, <2>5
<1>4. Seq(E) \subseteq T
  <2> HIDE DEF T
  <2> QED  BY <1>1, <1>3, BySize
<1> QED  BY <1>4

LEMMA AlongWithout ==
  ASSUME NEW E, NEW B, NEW h, GivesLists(h, E, B), NEW O,
         \A x \in E \cap O : h[x] = <<>>, NEW s \in Seq(E)
  PROVE  Along(Without(s, O), h) = Along(s, h)
<1> DEFINE T == {t \in Seq(E) : Along(Without(t, O), h) = Along(t, h)}
<1>1. <<>> \in T
  BY EmptySeq, AlongNone, WithoutNothing
<1>2. ASSUME NEW t \in Seq(E), NEW x \in E, t \in T
      PROVE  Append(t, x) \in T
  <2>0. PICK w \in Seq(E) : w = Without(t, O)
    BY WithoutIsList
  <2>1. Along(t, h) \in Seq(B) /\ Append(t, x) \in Seq(E)
    BY AlongIsList, AppendProperties
  <2>2. Along(Append(t, x), h) = Along(t, h) \o h[x]
    BY AlongMore
  <2>3. Along(w, h) = Along(t, h)
    BY <1>2, <2>0
  <2>4. Without(Append(t, x), O) = IF x \in O THEN w ELSE Append(w, x)
    BY <2>0, WithoutMore
  <2>5. CASE x \in O
    <3>1. h[x] = <<>>
      BY <2>5
    <3>2. Along(t, h) \o <<>> = Along(t, h)
      BY <2>1, ConcatEmptySeq
    <3>3. Along(Without(Append(t, x), O), h) = Along(Append(t, x), h)
      BY <2>2, <2>3, <2>4, <2>5, <3>1, <3>2
    <3> QED  BY <2>1, <3>3
  <2>6. CASE x \notin O
    <3>1. Along(Append(w, x), h) = Along(w, h) \o h[x]
      BY AlongMore
    <3>2. Along(Without(Append(t, x), O), h) = Along(Append(t, x), h)
      BY <2>2, <2>3, <2>4, <2>6, <3>1
    <3> QED  BY <2>1, <3>2
  <2> QED  BY <2>5, <2>6
<1>3. Seq(E) \subseteq T
  <2> HIDE DEF T
  <2> QED  BY <1>1, <1>2, BySize
<1> QED  BY <1>3
-----------------------------------------------------------------------------
(* Functions over a tree, layer by layer.  Layer d is right for the nodes  *)
(* of rank d or less, so the last one is right for all.                    *)

(* G are the groups among the nodes D, and a member of a group ranks below *)
(* it.                                                                     *)
Ordered(D, G, r, w, K) ==
  /\ G \subseteq D /\ K \in Nat /\ w \in [D -> 0..K]
  /\ \A g \in G : /\ r[g] \in Seq(D) /\ w[g] >= 1
                  /\ \A i \in 1..Len(r[g]) : w[r[g][i]] < w[g]

(* A rule is itself, and a group is made by J of what its members are.     *)
Layered(D, G, r, J, K, T) ==
  /\ \A d \in 0..K : T[d] = [m \in D |-> T[d][m]]
  /\ \A d \in 0..K : \A m \in D \ G : T[d][m] = <<m>>
  /\ \A m \in G : T[0][m] = <<>>
  /\ \A d \in 1..K : \A m \in G :
       Along(r[m], T[d - 1]) \in Seq(D) => T[d][m] = J[m][Along(r[m], T[d - 1])]

Makes(D, G, J) == \A m \in G : \A s \in Seq(D) : J[m][s] \in Seq(D)

LEMMA LayersAreLists ==
  ASSUME NEW D, NEW G, NEW r, NEW w, NEW K, Ordered(D, G, r, w, K),
         NEW J, Makes(D, G, J), NEW T, Layered(D, G, r, J, K, T)
  PROVE  \A d \in 0..K : \A m \in D : T[d][m] \in Seq(D)
<1> DEFINE S == {d \in Nat : d <= K => \A m \in D : T[d][m] \in Seq(D)}
<1>0. K \in Nat /\ G \subseteq D /\ \A g \in G : r[g] \in Seq(D)
  BY DEF Ordered
<1>1. \A d \in 0..K : \A m \in D \ G : T[d][m] \in Seq(D)
  <2>1. \A m \in D : <<m>> \in Seq(D)
    OBVIOUS
  <2> QED  BY <2>1 DEF Layered
<1>2. 0 \in S
  <2>1. \A m \in G : T[0][m] \in Seq(D)
    BY EmptySeq DEF Layered
  <2>2. \A m \in D : T[0][m] \in Seq(D)
    BY <1>0, <1>1, <2>1
  <2> QED  BY <2>2
<1>3. ASSUME NEW d \in Nat, d \in S
      PROVE  d + 1 \in S
  <2>1. ASSUME d + 1 <= K, NEW m \in D
        PROVE  T[d + 1][m] \in Seq(D)
    <3>0. d <= K /\ d \in 0..K /\ d + 1 \in 1..K /\ d + 1 \in 0..K /\ (d + 1) - 1 = d
      BY <1>0, <2>1
    <3>1. CASE m \notin G
      BY <1>1, <3>0, <3>1
    <3>2. CASE m \in G
      <4>1. PICK a : a = Along(r[m], T[d])
        OBVIOUS
      <4>2. a \in Seq(D)
        <5>1. \A x \in D : T[d][x] \in Seq(D)
          BY <1>3, <3>0
        <5>2. GivesLists(T[d], D, D)
          BY <5>1 DEF GivesLists
        <5>3. r[m] \in Seq(D)
          BY <1>0, <3>2
        <5> QED  BY <4>1, <5>2, <5>3, AlongIsList
      <4>3. T[d + 1][m] = J[m][a]
        BY <3>0, <3>2, <4>1, <4>2 DEF Layered
      <4> QED  BY <3>2, <4>2, <4>3 DEF Makes
    <3> QED  BY <3>1, <3>2
  <2> QED  BY <2>1
<1>4. Nat \subseteq S
  <2> HIDE DEF S
  <2> QED  BY <1>2, <1>3, FromZeroOn
<1>5. \A d \in 0..K : d \in Nat /\ d <= K
  BY <1>0
<1> QED  BY <1>4, <1>5

LEMMA LayersSettle ==
  ASSUME NEW D, NEW G, NEW r, NEW w, NEW K, Ordered(D, G, r, w, K),
         NEW J, Makes(D, G, J), \A m \in G : J[m][<<>>] = <<>>,
         NEW T, Layered(D, G, r, J, K, T)
  PROVE  /\ T[K] \in [D -> Seq(D)]
         /\ \A m \in D \ G : T[K][m] = <<m>>
         /\ \A m \in G : T[K][m] = J[m][Along(r[m], T[K])]
<1>0. /\ K \in Nat /\ G \subseteq D /\ w \in [D -> 0..K]
      /\ \A g \in G : /\ r[g] \in Seq(D) /\ w[g] >= 1
                      /\ \A i \in 1..Len(r[g]) : w[r[g][i]] < w[g]
  BY DEF Ordered
<1>1. \A d \in 0..K : \A m \in D : T[d][m] \in Seq(D)
  BY LayersAreLists
<1>2. ASSUME NEW d \in 1..K, NEW m \in G
      PROVE  T[d][m] = J[m][Along(r[m], T[d - 1])]
  <2>1. d - 1 \in 0..K
    BY <1>0
  <2>2. GivesLists(T[d - 1], D, D)
    BY <1>1, <2>1 DEF GivesLists
  <2>3. r[m] \in Seq(D)
    BY <1>0
  <2>4. Along(r[m], T[d - 1]) \in Seq(D)
    BY <2>2, <2>3, AlongIsList
  <2> QED  BY <2>4 DEF Layered
<1>3. ASSUME NEW m \in G, NEW d \in 0..K, NEW e \in 0..K,
             \A x \in D : w[x] < w[m] => T[d][x] = T[e][x]
      PROVE  Along(r[m], T[d]) = Along(r[m], T[e])
  <2> DEFINE E == {x \in D : w[x] < w[m]}
  <2>1. Len(r[m]) \in Nat /\ \A i \in 1..Len(r[m]) : r[m][i] \in E
    <3>1. r[m] \in Seq(D)
      BY <1>0
    <3>2. Len(r[m]) \in Nat /\ \A i \in 1..Len(r[m]) : r[m][i] \in D
      BY <3>1, LenProperties
    <3> QED  BY <1>0, <3>2
  <2>2. \A x \in E : T[d][x] = T[e][x]
    BY <1>3
  <2>3. r[m] \in Seq(D)
    BY <1>0
  <2> HIDE DEF E
  <2>4. r[m] \in Seq(E)
    BY <2>1, <2>3, OverMembers
  <2> QED  BY <2>2, <2>4, AlongAgree
<1> DEFINE S == {d \in Nat : d <= K =>
                   \A e \in d..K : \A m \in D : w[m] <= d => T[e][m] = T[d][m]}
<1>4. 0 \in S
  <2>1. ASSUME NEW e \in 0..K, NEW m \in D, w[m] <= 0
        PROVE  T[e][m] = T[0][m]
    <3>1. m \notin G /\ 0 \in 0..K
      BY <1>0, <2>1
    <3> QED  BY <3>1 DEF Layered
  <2> QED  BY <2>1
<1>5. ASSUME NEW d \in Nat, d \in S
      PROVE  d + 1 \in S
  <2>1. ASSUME d + 1 <= K, NEW e \in d + 1..K, NEW m \in D, w[m] <= d + 1
        PROVE  T[e][m] = T[d + 1][m]
    <3>0. /\ d <= K /\ d \in 0..K /\ d + 1 \in 1..K /\ d + 1 \in 0..K
          /\ e \in 1..K /\ e \in 0..K /\ (d + 1) - 1 = d
          /\ e - 1 \in 0..K /\ e - 1 \in d..K
      BY <1>0, <2>1
    <3>1. CASE m \notin G
      BY <3>0, <3>1 DEF Layered
    <3>2. CASE m \in G
      <4>1. \A x \in D : w[x] <= d => T[e - 1][x] = T[d][x]
        BY <1>5, <3>0
      <4>2. \A x \in D : w[x] < w[m] => w[x] <= d
        <5>1. w[m] \in Nat /\ \A x \in D : w[x] \in Nat
          BY <1>0
        <5> QED  BY <2>1, <5>1
      <4>3. Along(r[m], T[e - 1]) = Along(r[m], T[d])
        BY <1>3, <3>0, <3>2, <4>1, <4>2
      <4>4. T[e][m] = J[m][Along(r[m], T[e - 1])]
        BY <1>2, <3>0, <3>2
      <4>5. T[d + 1][m] = J[m][Along(r[m], T[d])]
        <5>1. T[d + 1][m] = J[m][Along(r[m], T[(d + 1) - 1])]
          BY <1>2, <3>0, <3>2
        <5> QED  BY <3>0, <5>1
      <4> QED  BY <4>3, <4>4, <4>5
    <3> QED  BY <3>1, <3>2
  <2> QED  BY <2>1
<1>6. Nat \subseteq S
  <2> HIDE DEF S
  <2> QED  BY <1>4, <1>5, FromZeroOn
<1>7. K \in 0..K
  BY <1>0
<1>8. T[K] \in [D -> Seq(D)]
  <2>1. T[K] = [m \in D |-> T[K][m]]
    BY <1>7 DEF Layered
  <2> QED  BY <1>1, <1>7, <2>1
<1>9. ASSUME NEW m \in G
      PROVE  T[K][m] = J[m][Along(r[m], T[K])]
  <2>1. K \in 1..K /\ K - 1 \in 0..K /\ K - 1 \in Nat /\ K \in K - 1..K /\ K - 1 <= K
    <3>1. w[m] \in 0..K /\ w[m] >= 1
      BY <1>0
    <3> QED  BY <1>0, <3>1
  <2>2. T[K][m] = J[m][Along(r[m], T[K - 1])]
    BY <1>2, <2>1
  <2>3. \A x \in D : w[x] <= K - 1 => T[K][x] = T[K - 1][x]
    <3>1. K - 1 \in S
      BY <1>6, <2>1
    <3> QED  BY <2>1, <3>1
  <2>4. \A x \in D : w[x] < w[m] => T[K - 1][x] = T[K][x]
    <3>1. \A x \in D : w[x] \in Nat /\ w[x] <= K
      BY <1>0
    <3>2. m \in D
      BY <1>0
    <3> QED  BY <1>0, <2>3, <3>1, <3>2
  <2>5. Along(r[m], T[K - 1]) = Along(r[m], T[K])
    BY <1>3, <1>7, <2>1, <2>4
  <2> QED  BY <2>2, <2>5
<1> QED  BY <1>7, <1>8, <1>9 DEF Layered

(* And there are such layers.                                              *)
LEMMA LayersExist ==
  ASSUME NEW D, NEW G, NEW r, NEW w, NEW K, Ordered(D, G, r, w, K),
         NEW J, Makes(D, G, J)
  PROVE  \E T : /\ T \in [0..K -> [D -> Seq(D)]]
                /\ Layered(D, G, r, J, K, T)
<1> DEFINE X == [D -> Seq(D)]
           next(F) == [m \in D |-> IF m \in G THEN J[m][Along(r[m], F)] ELSE <<m>>]
           step == [d \in Nat |-> [F \in X |-> next(F)]]
           x0 == [m \in D |-> IF m \in G THEN <<>> ELSE <<m>>]
<1>0. K \in Nat /\ G \subseteq D /\ \A g \in G : r[g] \in Seq(D)
  BY DEF Ordered
<1>1. x0 \in X
  <2>1. <<>> \in Seq(D) /\ \A m \in D : <<m>> \in Seq(D)
    BY EmptySeq
  <2> QED  BY <2>1
<1>2. ASSUME NEW F \in X
      PROVE  next(F) \in X
  <2>1. ASSUME NEW m \in D
        PROVE  (IF m \in G THEN J[m][Along(r[m], F)] ELSE <<m>>) \in Seq(D)
    <3>1. CASE m \in G
      <4>1. GivesLists(F, D, D)
        BY DEF GivesLists
      <4>2. r[m] \in Seq(D)
        BY <1>0, <3>1
      <4>3. Along(r[m], F) \in Seq(D)
        BY <4>1, <4>2, AlongIsList
      <4> QED  BY <3>1, <4>3 DEF Makes
    <3>2. CASE m \notin G
      <4>1. <<m>> \in Seq(D)
        OBVIOUS
      <4> QED  BY <3>2, <4>1
    <3> QED  BY <3>1, <3>2
  <2> QED  BY <2>1
<1>3. StepsIn(X, step)
  <2> HIDE DEF X, next
  <2> QED  BY <1>2 DEF StepsIn
<1>4. PICK T : Goes(T, X, x0, step, K)
  <2> HIDE DEF X, x0, step
  <2> QED  BY <1>0, <1>1, <1>3, Iterated
<1>5. T \in [0..K -> X] /\ T[0] = x0
  BY <1>4 DEF Goes
<1>6. ASSUME NEW d \in 1..K
      PROVE  T[d] = next(T[d - 1])
  <2>1. d \in Nat /\ d - 1 \in 0..K
    BY <1>0
  <2>2. T[d - 1] \in X
    BY <1>5, <2>1
  <2>3. T[d] = step[d][T[d - 1]]
    BY <1>4 DEF Goes
  <2> HIDE DEF X, next
  <2> QED  BY <2>1, <2>2, <2>3
<1>7. \A d \in 0..K : T[d] = [m \in D |-> T[d][m]]
  BY <1>5
<1>8. \A d \in 0..K : d = 0 \/ d \in 1..K
  BY <1>0
<1>9. ASSUME NEW d \in 0..K, NEW m \in D \ G
      PROVE  T[d][m] = <<m>>
  <2>1. CASE d = 0
    BY <1>5, <2>1
  <2>2. CASE d \in 1..K
    <3>1. T[d] = next(T[d - 1])
      BY <1>6, <2>2
    <3>2. next(T[d - 1])[m] = <<m>>
      OBVIOUS
    <3> HIDE DEF next
    <3> QED  BY <3>1, <3>2
  <2> QED  BY <1>8, <2>1, <2>2
<1>10. \A m \in G : T[0][m] = <<>>
  BY <1>0, <1>5
<1>11. \A d \in 1..K : \A m \in G : T[d][m] = J[m][Along(r[m], T[d - 1])]
  BY <1>0, <1>6
<1> HIDE DEF next, step, x0
<1>12. Layered(D, G, r, J, K, T)
  <2> HIDE DEF X
  <2>1. \A d \in 0..K : \A m \in D \ G : T[d][m] = <<m>>
    BY <1>9
  <2> QED  BY <1>7, <1>10, <1>11, <2>1 DEF Layered
<1>13. T \in [0..K -> [D -> Seq(D)]]
  BY <1>5
<1> QED  BY <1>12, <1>13

RulesOf(q) == [m \in DOMAIN q |-> q[m].rules]

Ranked(q, w) == Ordered(DOMAIN q, Groups(q), RulesOf(q), w, Cardinality(Groups(q)))

Conditions(q) == [m \in DOMAIN q |-> Flatten(q, m)]

(* Flatten reads a group by reading its members in order.                  *)
LEMMA FlattenReads ==
  ASSUME NEW q, NEW w, Ranked(q, w)
  PROVE  /\ Conditions(q) \in [DOMAIN q -> Seq(DOMAIN q)]
         /\ \A m \in DOMAIN q \ Groups(q) : Flatten(q, m) = <<m>>
         /\ \A m \in Groups(q) : Flatten(q, m) = Along(q[m].rules, Conditions(q))
<1> DEFINE K == Cardinality(Groups(q))
           D == DOMAIN q
           G == Groups(q)
           r == RulesOf(q)
           J == [m \in G |-> [s \in Seq(D) |-> s]]
           rules[d \in 0..Cardinality(Groups(q))] ==
             [m \in DOMAIN q |->
                IF ~IsGroup(q, m) THEN <<m>>
                ELSE IF d = 0 THEN <<>> ELSE Along(q[m].rules, rules[d - 1])]
           Layer(f, d) == [m \in D |-> IF ~IsGroup(q, m) THEN <<m>>
                                       ELSE IF d = 0 THEN <<>> ELSE Along(q[m].rules, f[d - 1])]
           Form(f) == f = [d \in 0..K |-> Layer(f, d)]
<1>1. \A n : Flatten(q, n) = rules[K][n]
  BY DEF Flatten
<1>2. Ordered(D, G, r, w, K) /\ K \in Nat /\ G \subseteq D
  BY DEF Ranked, Ordered
<1>3. /\ \A m \in D : r[m] = q[m].rules
      /\ \A m \in D : IsGroup(q, m) <=> m \in G
  BY DEF RulesOf, Groups
<1>4. Makes(D, G, J) /\ \A m \in G : J[m][<<>>] = <<>>
  BY EmptySeq DEF Makes
<1>5. \A m \in G, s \in Seq(D) : J[m][s] = s
  OBVIOUS
<1> HIDE DEF K, D, G, r, J
<1>6. \E f : Form(f)
  <2>1. PICK T : T \in [0..K -> [D -> Seq(D)]] /\ Layered(D, G, r, J, K, T)
    BY <1>2, <1>4, LayersExist
  <2>2. ASSUME NEW d \in 0..K
        PROVE  T[d] = Layer(T, d)
    <3>1. T[d] = [m \in D |-> T[d][m]]
      BY <2>1
    <3>2. ASSUME NEW m \in D
          PROVE  T[d][m] = IF ~IsGroup(q, m) THEN <<m>>
                           ELSE IF d = 0 THEN <<>> ELSE Along(q[m].rules, T[d - 1])
      <4>1. CASE m \notin G
        BY <1>3, <2>1, <4>1 DEF Layered
      <4>2. CASE m \in G /\ d = 0
        BY <1>3, <2>1, <4>2 DEF Layered
      <4>3. CASE m \in G /\ d # 0
        <5>1. d \in 1..K /\ d - 1 \in 0..K
          BY <1>2, <4>3
        <5>2. GivesLists(T[d - 1], D, D)
          BY <2>1, <5>1 DEF GivesLists
        <5>3. r[m] \in Seq(D)
          BY <1>2, <4>3 DEF Ordered
        <5>4. PICK a : a = Along(r[m], T[d - 1])
          OBVIOUS
        <5>5. a \in Seq(D)
          BY <5>2, <5>3, <5>4, AlongIsList
        <5>6. T[d][m] = J[m][a]
          BY <2>1, <4>3, <5>1, <5>4, <5>5 DEF Layered
        <5>7. T[d][m] = Along(q[m].rules, T[d - 1])
          BY <1>3, <1>5, <4>3, <5>4, <5>5, <5>6
        <5> QED  BY <1>3, <4>3, <5>7
      <4> QED  BY <4>1, <4>2, <4>3
    <3> QED  BY <3>1, <3>2
  <2>3. T = [d \in 0..K |-> T[d]]
    BY <2>1
  <2>4. T = [d \in 0..K |-> Layer(T, d)]
    <3> HIDE DEF Layer
    <3> QED  BY <2>2, <2>3
  <2> QED  BY <2>4
<1>7. Form(rules)
  <2>1. rules = CHOOSE f : Form(f)
    BY DEF K, D
  <2> HIDE DEF Form, rules
  <2> QED  BY <1>6, <2>1
<1> HIDE DEF rules
<1>8. ASSUME NEW d \in 0..K
      PROVE  rules[d] = Layer(rules, d)
  <2> HIDE DEF Layer
  <2> QED  BY <1>7
<1>9. Layered(D, G, r, J, K, rules)
  <2>1. \A d \in 0..K : rules[d] = [m \in D |-> rules[d][m]]
    BY <1>8
  <2>2. \A d \in 0..K : \A m \in D \ G : rules[d][m] = <<m>>
    BY <1>3, <1>8
  <2>3. \A m \in G : rules[0][m] = <<>>
    <3>1. 0 \in 0..K
      BY <1>2
    <3> QED  BY <1>2, <1>3, <1>8, <3>1
  <2>4. ASSUME NEW d \in 1..K, NEW m \in G, Along(r[m], rules[d - 1]) \in Seq(D)
        PROVE  rules[d][m] = J[m][Along(r[m], rules[d - 1])]
    <3>1. d \in 0..K /\ d # 0 /\ m \in D
      BY <1>2
    <3>2. rules[d][m] = Along(q[m].rules, rules[d - 1])
      BY ZenonT(30), <1>3, <1>8, <3>1
    <3> QED  BY <1>3, <1>5, <2>4, <3>1, <3>2
  <2> QED  BY <2>1, <2>2, <2>3, <2>4 DEF Layered
<1>10. /\ rules[K] \in [D -> Seq(D)]
       /\ \A m \in D \ G : rules[K][m] = <<m>>
       /\ \A m \in G : rules[K][m] = J[m][Along(r[m], rules[K])]
  BY <1>2, <1>4, <1>9, LayersSettle
<1>11. Conditions(q) = rules[K]
  BY <1>1, <1>10 DEF Conditions, D
<1>12. ASSUME NEW m \in G
       PROVE  rules[K][m] = Along(q[m].rules, rules[K])
  <2>1. GivesLists(rules[K], D, D)
    BY <1>10 DEF GivesLists
  <2>2. r[m] \in Seq(D) /\ m \in D
    BY <1>2 DEF Ordered
  <2>3. PICK a : a = Along(r[m], rules[K])
    OBVIOUS
  <2>4. a \in Seq(D)
    BY <2>1, <2>2, <2>3, AlongIsList
  <2> QED  BY <1>3, <1>5, <1>10, <2>2, <2>3, <2>4
<1> QED  BY <1>1, <1>10, <1>11, <1>12 DEF D, G

(* What pruning leaves of a group with the members s left.                 *)
Collapsed(q, m, s) ==
  IF s = <<>> THEN <<>> ELSE IF Len(s) = 1 /\ IsGroup(q, s[1]) THEN s ELSE <<m>>

Survivors(q, sv) ==
  /\ sv \in [DOMAIN q -> Seq(DOMAIN q)]
  /\ \A m \in DOMAIN q \ Groups(q) : sv[m] = <<m>>
  /\ \A m \in Groups(q) : sv[m] = Collapsed(q, m, Along(q[m].rules, sv))

Collapse(q, sv) == [n \in DOMAIN q |-> [q[n] EXCEPT !.rules = Along(@, sv)]]

(* Pruning leaves of each group the survivors of its members.              *)
LEMMA PruneReads ==
  ASSUME NEW q, NEW w, Ranked(q, w)
  PROVE  \E sv : Survivors(q, sv) /\ PruneQuery(q) = Kept(Collapse(q, sv))
<1> DEFINE K == Cardinality(Groups(q))
           D == DOMAIN q
           G == Groups(q)
           r == RulesOf(q)
           J == [m \in G |-> [s \in Seq(D) |-> Collapsed(q, m, s)]]
           survivors[d \in 0..Cardinality(Groups(q))] ==
             [n \in DOMAIN q |->
                LET rules == Along(q[n].rules, survivors[d - 1])
                IN IF ~IsGroup(q, n) THEN <<n>>
                   ELSE IF d = 0 \/ rules = <<>> THEN <<>>
                   ELSE IF Len(rules) = 1 /\ IsGroup(q, rules[1]) THEN rules
                   ELSE <<n>>]
           Row(m, d, s) == IF ~IsGroup(q, m) THEN <<m>>
                           ELSE IF d = 0 \/ s = <<>> THEN <<>>
                           ELSE IF Len(s) = 1 /\ IsGroup(q, s[1]) THEN s
                           ELSE <<m>>
           Layer(f, d) == [m \in D |-> Row(m, d, Along(q[m].rules, f[d - 1]))]
           Form(f) == f = [d \in 0..K |-> Layer(f, d)]
<1>1. PruneQuery(q) = Kept(Collapse(q, survivors[K]))
  BY DEF PruneQuery, Collapse
<1>2. Ordered(D, G, r, w, K) /\ K \in Nat /\ G \subseteq D
  BY DEF Ranked, Ordered
<1>3. /\ \A m \in D : r[m] = q[m].rules
      /\ \A m \in D : IsGroup(q, m) <=> m \in G
  BY DEF RulesOf, Groups
<1>4. Makes(D, G, J) /\ \A m \in G : J[m][<<>>] = <<>>
  <2>1. \A m \in G : \A s \in Seq(D) : Collapsed(q, m, s) \in Seq(D)
    <3>1. \A m \in D : <<m>> \in Seq(D)
      OBVIOUS
    <3>2. <<>> \in Seq(D) /\ \A m \in G : m \in D
      BY <1>2, EmptySeq
    <3> QED  BY <3>1, <3>2 DEF Collapsed
  <2>2. \A m \in G : Collapsed(q, m, <<>>) = <<>>
    BY DEF Collapsed
  <2>3. <<>> \in Seq(D)
    BY EmptySeq
  <2> QED  BY <2>1, <2>2, <2>3 DEF Makes
<1>5. \A m \in G, s \in Seq(D) : J[m][s] = Collapsed(q, m, s)
  OBVIOUS
<1> HIDE DEF K, D, G, r, J
<1>6. \E f : Form(f)
  <2>1. PICK T : T \in [0..K -> [D -> Seq(D)]] /\ Layered(D, G, r, J, K, T)
    BY <1>2, <1>4, LayersExist
  <2>2. ASSUME NEW d \in 0..K
        PROVE  T[d] = Layer(T, d)
    <3>1. T[d] = [m \in D |-> T[d][m]]
      BY <2>1
    <3>2. ASSUME NEW m \in D
          PROVE  T[d][m] = Row(m, d, Along(q[m].rules, T[d - 1]))
      <4>1. CASE m \notin G
        BY <1>3, <2>1, <4>1 DEF Layered
      <4>2. CASE m \in G /\ d = 0
        BY <1>3, <2>1, <4>2 DEF Layered
      <4>3. CASE m \in G /\ d # 0
        <5>1. d \in 1..K /\ d - 1 \in 0..K
          BY <1>2, <4>3
        <5>2. GivesLists(T[d - 1], D, D)
          BY <2>1, <5>1 DEF GivesLists
        <5>3. r[m] \in Seq(D)
          BY <1>2, <4>3 DEF Ordered
        <5>4. PICK a : a = Along(r[m], T[d - 1])
          OBVIOUS
        <5>5. a \in Seq(D)
          BY <5>2, <5>3, <5>4, AlongIsList
        <5>6. T[d][m] = J[m][a]
          BY <2>1, <4>3, <5>1, <5>4, <5>5 DEF Layered
        <5>7. a = Along(q[m].rules, T[d - 1]) /\ T[d][m] = Collapsed(q, m, a)
          BY <1>3, <1>5, <4>3, <5>4, <5>5, <5>6
        <5>8. IsGroup(q, m)
          BY <1>3, <4>3
        <5> QED  BY <4>3, <5>7, <5>8 DEF Collapsed
      <4> QED  BY <4>1, <4>2, <4>3
    <3> QED  BY <3>1, <3>2
  <2>3. T = [d \in 0..K |-> T[d]]
    BY <2>1
  <2>4. T = [d \in 0..K |-> Layer(T, d)]
    <3> HIDE DEF Layer
    <3> QED  BY <2>2, <2>3
  <2> QED  BY <2>4
<1>7. Form(survivors)
  <2>1. survivors = CHOOSE f : Form(f)
    BY DEF K, D
  <2> HIDE DEF Form, survivors
  <2> QED  BY <1>6, <2>1
<1> HIDE DEF survivors
<1>8. ASSUME NEW d \in 0..K
      PROVE  survivors[d] = Layer(survivors, d)
  <2> HIDE DEF Layer
  <2> QED  BY <1>7
<1>13. ASSUME NEW d \in 0..K, NEW m \in D
       PROVE  survivors[d][m] = Row(m, d, Along(q[m].rules, survivors[d - 1]))
  <2> HIDE DEF Row
  <2> QED  BY <1>8
<1>9. Layered(D, G, r, J, K, survivors)
  <2>1. \A d \in 0..K : survivors[d] = [m \in D |-> survivors[d][m]]
    <3> HIDE DEF Row
    <3> QED  BY <1>8
  <2>2. ASSUME NEW d \in 0..K, NEW m \in D \ G
        PROVE  survivors[d][m] = <<m>>
    <3>1. ~IsGroup(q, m) /\ m \in D
      BY <1>3
    <3>2. \A s : Row(m, d, s) = <<m>>
      BY <3>1
    <3> HIDE DEF Row
    <3> QED  BY <1>13, <3>1, <3>2
  <2>3. ASSUME NEW m \in G
        PROVE  survivors[0][m] = <<>>
    <3>1. 0 \in 0..K /\ m \in D /\ IsGroup(q, m)
      BY <1>2, <1>3
    <3>2. \A s : Row(m, 0, s) = <<>>
      BY <3>1
    <3> HIDE DEF Row
    <3> QED  BY <1>13, <3>1, <3>2
  <2>4. ASSUME NEW d \in 1..K, NEW m \in G, Along(r[m], survivors[d - 1]) \in Seq(D)
        PROVE  survivors[d][m] = J[m][Along(r[m], survivors[d - 1])]
    <3>1. d \in 0..K /\ d # 0 /\ m \in D
      BY <1>2
    <3>2. PICK a : a = Along(r[m], survivors[d - 1]) /\ a = Along(q[m].rules, survivors[d - 1])
      BY <1>3, <3>1
    <3>3. survivors[d][m] = Row(m, d, a)
      <4> HIDE DEF Row
      <4> QED  BY <1>13, <3>1, <3>2
    <3>4. IsGroup(q, m)
      BY <1>3, <3>1
    <3>5. survivors[d][m] = Collapsed(q, m, a)
      BY <3>1, <3>3, <3>4 DEF Collapsed
    <3> QED  BY <1>5, <2>4, <3>2, <3>5
  <2> QED  BY <2>1, <2>2, <2>3, <2>4 DEF Layered
<1>10. /\ survivors[K] \in [D -> Seq(D)]
       /\ \A m \in D \ G : survivors[K][m] = <<m>>
       /\ \A m \in G : survivors[K][m] = J[m][Along(r[m], survivors[K])]
  BY <1>2, <1>4, <1>9, LayersSettle
<1>11. ASSUME NEW m \in G
       PROVE  survivors[K][m] = Collapsed(q, m, Along(q[m].rules, survivors[K]))
  <2>1. GivesLists(survivors[K], D, D)
    BY <1>10 DEF GivesLists
  <2>2. r[m] \in Seq(D) /\ m \in D
    BY <1>2 DEF Ordered
  <2>3. PICK a : a = Along(r[m], survivors[K])
    OBVIOUS
  <2>4. a \in Seq(D)
    BY <2>1, <2>2, <2>3, AlongIsList
  <2> QED  BY <1>3, <1>5, <1>10, <2>2, <2>3, <2>4
<1>12. Survivors(q, survivors[K])
  BY <1>10, <1>11 DEF Survivors, D, G
<1> QED  BY <1>1, <1>12

(* What holds of every rule, and of a group when it holds of its members,  *)
(* holds of all.                                                           *)
Rises(D, G, r, P) ==
  /\ \A m \in D \ G : m \in P
  /\ \A g \in G : (\A i \in 1..Len(r[g]) : r[g][i] \in P) => g \in P

LEMMA ByRank ==
  ASSUME NEW D, NEW G, NEW r, NEW w, NEW K, Ordered(D, G, r, w, K), NEW P, Rises(D, G, r, P)
  PROVE  \A m \in D : m \in P
<1> DEFINE S == {d \in Nat : \A m \in D : w[m] <= d => m \in P}
<1>0. /\ K \in Nat /\ G \subseteq D /\ w \in [D -> 0..K]
      /\ \A g \in G : /\ r[g] \in Seq(D) /\ w[g] >= 1
                      /\ \A i \in 1..Len(r[g]) : w[r[g][i]] < w[g]
  BY DEF Ordered
<1>1. \A m \in D : w[m] \in Nat /\ w[m] <= K
  BY <1>0
<1>2. 0 \in S
  <2>1. ASSUME NEW m \in D, w[m] <= 0
        PROVE  m \notin G
    BY <1>0, <2>1
  <2> QED  BY <2>1 DEF Rises
<1>3. ASSUME NEW d \in Nat, d \in S
      PROVE  d + 1 \in S
  <2>1. ASSUME NEW m \in D, w[m] <= d + 1
        PROVE  m \in P
    <3>1. CASE m \in G
      <4>1. ASSUME NEW i \in 1..Len(r[m])
            PROVE  r[m][i] \in P
        <5>1. r[m] \in Seq(D)
          BY <1>0, <3>1
        <5>2. r[m][i] \in D
          BY <5>1, LenProperties
        <5>3. w[r[m][i]] < w[m]
          BY <1>0, <3>1
        <5>4. w[r[m][i]] <= d
          BY <1>1, <2>1, <5>2, <5>3
        <5> QED  BY <1>3, <5>2, <5>4
      <4> QED  BY <3>1, <4>1 DEF Rises
    <3>2. CASE m \notin G
      BY <3>2 DEF Rises
    <3> QED  BY <3>1, <3>2
  <2> QED  BY <2>1
<1>4. Nat \subseteq S
  <2> HIDE DEF S
  <2> QED  BY <1>2, <1>3, FromZeroOn
<1> QED  BY <1>0, <1>1, <1>4

(* The groups beneath a node.                                              *)
Depth(q, m) == Cardinality(Groups(q) \cap Under(q, m))

(* A tree is such an order: the fewer groups are beneath a node, the lower *)
(* it ranks.                                                               *)
LEMMA TreeIsRanked ==
  ASSUME NEW q, Tree(q), IsFiniteSet(DOMAIN q)
  PROVE  \E w : Ranked(q, w)
<1> DEFINE D == DOMAIN q
           G == Groups(q)
           C == Kids(q)
           w == [m \in D |-> Depth(q, m)]
<1>1. /\ G \subseteq D
      /\ IsFiniteSet(G) /\ Cardinality(G) \in Nat
  <2>1. G \subseteq D
    BY DEF Groups
  <2> QED  BY <2>1, FS_Subset, FS_CardinalityType
<1>2. ASSUME NEW m \in D
      PROVE  /\ Below(D, C, m, Under(q, m))
             /\ IsFiniteSet(G \cap Under(q, m))
             /\ Depth(q, m) \in 0..Cardinality(G) /\ Depth(q, m) \in Nat
  <2>1. Below(D, C, m, Under(q, m))
    BY TreeUnder
  <2>2. G \cap Under(q, m) \subseteq G
    OBVIOUS
  <2> HIDE DEF G
  <2>3. /\ IsFiniteSet(G \cap Under(q, m))
        /\ Cardinality(G \cap Under(q, m)) <= Cardinality(G)
    BY <1>1, <2>2, FS_Subset
  <2>4. Cardinality(G \cap Under(q, m)) \in Nat
    BY <2>3, FS_CardinalityType
  <2> QED  BY <1>1, <2>1, <2>3, <2>4 DEF Depth, G
<1>3. ASSUME NEW g \in G, NEW c \in C[g]
      PROVE  c \in D /\ Depth(q, c) < Depth(q, g)
  <2>1. g \in D /\ Arbor(D, C)
    BY <1>1 DEF Tree
  <2>2. c \in D
    BY <2>1 DEF Arbor
  <2>3. Below(D, C, c, Under(q, c)) /\ Below(D, C, g, Under(q, g))
    BY <1>2, <2>1, <2>2
  <2>4. g \notin Under(q, c)
    BY <2>1, <2>3, NotAbove
  <2>5. Under(q, c) \subseteq Under(q, g) /\ g \in Under(q, g)
    <3>1. c \in Under(q, g)
      BY <2>3 DEF Below, Hung
    <3> QED  BY <2>3, <3>1 DEF Below
  <2> HIDE DEF G, D, C
  <2>6. /\ G \cap Under(q, c) \subseteq G \cap Under(q, g)
        /\ G \cap Under(q, c) # G \cap Under(q, g)
    BY <2>4, <2>5
  <2>7. IsFiniteSet(G \cap Under(q, g)) /\ IsFiniteSet(G \cap Under(q, c))
    BY <1>2, <2>1, <2>2
  <2>8. Cardinality(G \cap Under(q, c)) < Cardinality(G \cap Under(q, g))
    <3>1. PICK A : A = G \cap Under(q, c)
      OBVIOUS
    <3>2. PICK B : B = G \cap Under(q, g)
      OBVIOUS
    <3>3. Cardinality(A) <= Cardinality(B) /\ (Cardinality(A) = Cardinality(B) => A = B)
      BY <2>6, <2>7, <3>1, <3>2, FS_Subset
    <3>4. Cardinality(A) \in Nat /\ Cardinality(B) \in Nat
      BY <2>7, <3>1, <3>2, FS_CardinalityType
    <3> QED  BY <2>6, <3>1, <3>2, <3>3, <3>4
  <2> QED  BY <2>2, <2>8 DEF Depth, G
<1>4. ASSUME NEW g \in G
      PROVE  /\ RulesOf(q)[g] \in Seq(D) /\ w[g] >= 1
             /\ \A i \in 1..Len(RulesOf(q)[g]) : w[RulesOf(q)[g][i]] < w[g]
  <2>0. g \in D
    BY <1>1
  <2>1. PICK s : s = q[g].rules /\ s = RulesOf(q)[g]
    BY <2>0 DEF RulesOf
  <2>2. ListOf(s, C[g])
    BY <2>0, <2>1 DEF Tree, WellFormed, Holds
  <2>3. s \in Seq(Nat) /\ Len(s) \in Nat /\ \A i \in 1..Len(s) : s[i] \in C[g]
    BY <2>2, ListFacts
  <2>4. \A i \in 1..Len(s) : s[i] \in D /\ Depth(q, s[i]) < Depth(q, g)
    BY <1>3, <2>3
  <2>5. s \in Seq(D)
    <3> HIDE DEF D
    <3> QED  BY <2>3, <2>4, OverMembers
  <2>6. Depth(q, g) >= 1
    <3>1. g \in G \cap Under(q, g)
      BY <1>2, <2>0 DEF Below
    <3>2. G \cap Under(q, g) # {} /\ IsFiniteSet(G \cap Under(q, g))
      BY <1>2, <2>0, <3>1
    <3>3. Cardinality(G \cap Under(q, g)) # 0
      <4> HIDE DEF G
      <4> QED  BY <3>2, FS_EmptySet
    <3>4. Depth(q, g) \in Nat
      BY <1>2, <2>0
    <3> QED  BY <3>3, <3>4 DEF Depth
  <2> QED  BY <2>0, <2>1, <2>4, <2>5, <2>6
<1>5. w \in [D -> 0..Cardinality(G)]
  BY <1>2
<1> HIDE DEF w, D, G
<1>6. Ordered(D, G, RulesOf(q), w, Cardinality(G))
  BY <1>1, <1>4, <1>5 DEF Ordered
<1> QED  BY <1>6 DEF Ranked, D, G

(* A list with a member put in or taken out, but for that member.          *)
LEMMA OneAside ==
  ASSUME NEW s \in Seq(Nat), NEW x \in Nat
  PROVE  /\ \A j \in 1..Len(s) + 1 : Without(InsertAt(s, j, x), {x}) = Without(s, {x})
         /\ \A j \in 1..Len(s) : s[j] = x => Without(RemoveAt(s, j), {x}) = Without(s, {x})
<1>0. Len(s) \in Nat /\ <<x>> \in Seq(Nat) /\ <<>> \in Seq(Nat)
  BY EmptySeq
<1>1. Without(<<x>>, {x}) = <<>>
  <2>1. <<x>> \in Seq({x})
    OBVIOUS
  <2> QED  BY <2>1, WithoutAll
<1>2. \A a, b : Without(a \o <<x>> \o b, {x}) = Without(a \o b, {x})
        \/ a \notin Seq(Nat) \/ b \notin Seq(Nat)
  <2>1. SUFFICES ASSUME NEW a \in Seq(Nat), NEW b \in Seq(Nat)
                 PROVE  Without(a \o <<x>> \o b, {x}) = Without(a \o b, {x})
    OBVIOUS
  <2>2. PICK c : c = a \o <<x>> /\ c \in Seq(Nat)
    BY <1>0, ConcatProperties
  <2>3. Without(c, {x}) = Without(a, {x}) \o Without(<<x>>, {x})
    BY ZenonT(30), <1>0, <2>2, WithoutJoined
  <2>4. Without(a, {x}) \in Seq(Nat)
    BY WithoutIsList
  <2>5. Without(c, {x}) = Without(a, {x})
    BY <1>1, <2>3, <2>4, ConcatEmptySeq
  <2>6. /\ Without(c \o b, {x}) = Without(c, {x}) \o Without(b, {x})
        /\ Without(a \o b, {x}) = Without(a, {x}) \o Without(b, {x})
    BY ZenonT(30), <2>2, WithoutJoined
  <2> QED  BY <2>2, <2>5, <2>6
<1>3. ASSUME NEW j \in 1..Len(s) + 1
      PROVE  Without(InsertAt(s, j, x), {x}) = Without(s, {x})
  <2>0. j - 1 \in 0..Len(s) /\ (j - 1) + 1 = j /\ j - 1 \in Nat
    BY <1>0
  <2>1. PICK a : a = SubSeq(s, 1, j - 1)
    OBVIOUS
  <2>2. PICK b : b = SubSeq(s, j, Len(s))
    OBVIOUS
  <2>3. /\ a \in Seq(Nat) /\ Len(a) = j - 1 /\ \A i \in 1..j - 1 : a[i] = s[i]
        /\ b \in Seq(Nat) /\ Len(b) = Len(s) - (j - 1)
        /\ \A i \in 1..Len(s) - (j - 1) : b[i] = s[(j - 1) + i]
    <3>1. PICK k : k = j - 1 /\ k \in 0..Len(s) /\ k + 1 = j
      BY <2>0
    <3>2. /\ SubSeq(s, 1, k) \in Seq(Nat) /\ Len(SubSeq(s, 1, k)) = k
          /\ \A i \in 1..k : SubSeq(s, 1, k)[i] = s[i]
      BY <3>1, AroundSlot
    <3>3. /\ SubSeq(s, k + 1, Len(s)) \in Seq(Nat) /\ Len(SubSeq(s, k + 1, Len(s))) = Len(s) - k
          /\ \A i \in 1..Len(s) - k : SubSeq(s, k + 1, Len(s))[i] = s[k + i]
      BY <3>1, AroundSlot
    <3> QED  BY <2>1, <2>2, <3>1, <3>2, <3>3
  <2>4. InsertAt(s, j, x) = a \o <<x>> \o b
    BY <2>1, <2>2 DEF InsertAt
  <2>5. a \o b = s
    <3>1. /\ a \o b \in Seq(Nat) /\ Len(a \o b) = Len(s)
          /\ \A i \in 1..Len(s) : (a \o b)[i] = IF i <= j - 1 THEN a[i] ELSE b[i - (j - 1)]
      <4>1. /\ a \o b \in Seq(Nat) /\ Len(a \o b) = Len(a) + Len(b)
            /\ \A i \in 1..Len(a) + Len(b) :
                 (a \o b)[i] = IF i <= Len(a) THEN a[i] ELSE b[i - Len(a)]
        BY <2>3, ConcatProperties
      <4>2. Len(a) + Len(b) = Len(s) /\ Len(a) = j - 1
        BY <1>0, <2>0, <2>3
      <4> QED  BY <4>1, <4>2
    <3>2. ASSUME NEW i \in 1..Len(s)
          PROVE  (a \o b)[i] = s[i]
      <4>1. CASE i <= j - 1
        BY <2>0, <2>3, <3>1, <4>1
      <4>2. CASE ~(i <= j - 1)
        <5>1. i - (j - 1) \in 1..Len(s) - (j - 1) /\ (j - 1) + (i - (j - 1)) = i
          BY <1>0, <2>0, <4>2
        <5> QED  BY <2>3, <3>1, <4>2, <5>1
      <4> QED  BY <4>1, <4>2
    <3> QED  BY <3>1, <3>2, SeqEqual
  <2> QED  BY <1>2, <2>3, <2>4, <2>5
<1>4. ASSUME NEW j \in 1..Len(s), s[j] = x
      PROVE  Without(RemoveAt(s, j), {x}) = Without(s, {x})
  <2>1. SubSeq(s, 1, j - 1) \in Seq(Nat)
    BY <1>0, Piece
  <2>2. SubSeq(s, j + 1, Len(s)) \in Seq(Nat)
    BY <1>0, Piece
  <2>3. RemoveAt(s, j) = SubSeq(s, 1, j - 1) \o SubSeq(s, j + 1, Len(s))
    BY DEF RemoveAt
  <2>4. SubSeq(s, 1, j - 1) \o <<s[j]>> \o SubSeq(s, j + 1, Len(s)) = s
    BY InPieces
  <2> QED  BY <1>2, <1>4, <2>1, <2>2, <2>3, <2>4
<1> QED  BY <1>3, <1>4

(* A drop moves one node, and keeps what is beneath it.                    *)
MovesOne(q, r, n) ==
  /\ \A m \in DOMAIN q : IsGroup(r, m) <=> IsGroup(q, m)
  /\ \A m \in DOMAIN q : Without(r[m].rules, {n}) = Without(q[m].rules, {n})
  /\ \A m \in Under(q, n) : r[m] = q[m]

LEMMA DropMovesOne ==
  ASSUME NEW q, Tree(q), AFunction(q), NEW n \in DOMAIN q \ {Root},
         NEW p \in Groups(q) \ Under(q, n), NEW k \in 0..Len(q[p].rules),
         NEW r, r = MoveNodeTo(q, n, p, k)
  PROVE  MovesOne(q, r, n)
<1> DEFINE g == Parent(q, n)
           i == Index(q, n) + 1
           left == RemoveAt(q[g].rules, i)
           w == Detach(q, n)
           u == TargetIndex(q, n, p, k)
           t == InsertAt(w[p].rules, Smaller(u, Len(w[p].rules)) + 1, n)
<1>1. HasParent(q, n)
  BY OneParent
<1>2. /\ g \in DOMAIN q /\ ListOf(q[g].rules, Kids(q)[g])
      /\ Index(q, n) \in 0..Len(q[g].rules) - 1
      /\ i \in 1..Len(q[g].rules) /\ q[g].rules[i] = n /\ n \in Nat /\ n \in Kids(q)[g]
      /\ IsGroup(q, g)
  BY <1>1, ParentFacts
<1>3. /\ w = Rewritten(q, g, left)
      /\ q[g] \in QueryNode
      /\ DOMAIN w = DOMAIN q
      /\ w[g].rules = left
      /\ \A m \in DOMAIN q : m # g => w[m] = q[m]
      /\ \A m \in DOMAIN q : IsGroup(q, m) => IsGroup(w, m)
  BY <1>1, Detached
<1>4. p \in DOMAIN q /\ IsGroup(q, p) /\ IsGroup(w, p) /\ p \notin Under(q, n)
  BY <1>3 DEF Groups
<1>5. r = Rewritten(w, p, t)
  <2>1. r = InsertNode(w, n, <<>>, p, u)
    BY <1>1, <1>4 DEF MoveNodeTo, MayMoveTo
  <2> HIDE DEF w, u
  <2>2. AFunction(w)
    BY <1>3, EditsMakeFunctions
  <2>3. With(<<>>, w) = w
    BY <2>2, WithNothing
  <2> QED  BY <1>4, <2>1, <2>3 DEF InsertNode, Rewritten
<1>6. g \notin Under(q, n)
  <2>1. Below(DOMAIN q, Kids(q), n, Under(q, n)) /\ Arbor(DOMAIN q, Kids(q))
    BY TreeUnder DEF Tree
  <2> QED  BY <1>2, <2>1, NotAbove
<1>7. left \in Seq(Nat) /\ Without(left, {n}) = Without(q[g].rules, {n})
  <2>1. q[g].rules \in Seq(Nat) /\ ListOf(left, Kids(q)[g] \ {n})
    BY ZenonT(30), <1>2, ListFacts, RemovedList
  <2> QED  BY <1>2, <2>1, ListFacts, OneAside
<1> HIDE DEF w, left
<1>8. w[g] = [q[g] EXCEPT !.rules = left]
  BY <1>2, <1>3 DEF Rewritten
<1>9. ASSUME NEW m \in DOMAIN q
      PROVE  /\ w[m] \in QueryNode /\ w[m].type = q[m].type
             /\ Without(w[m].rules, {n}) = Without(q[m].rules, {n})
  <2>1. CASE m = g
    <3>1. w[m] \in QueryNode /\ w[m].type = q[m].type /\ w[m].rules = left
      BY <1>3, <1>7, <1>8, <2>1 DEF QueryNode
    <3> QED  BY <1>7, <2>1, <3>1
  <2>2. CASE m # g
    BY <1>3, <2>2 DEF Tree, WellFormed, Holds
  <2> QED  BY <2>1, <2>2
<1>10. Without(t, {n}) = Without(w[p].rules, {n}) /\ t \in Seq(Nat)
  <2>1. PICK s : s = w[p].rules
    OBVIOUS
  <2>2. s \in Seq(Nat) /\ Len(s) \in Nat
    BY <1>4, <1>9, <2>1 DEF QueryNode
  <2>3. u \in Nat
    <3>1. k \in Nat /\ Index(q, n) \in Nat
      <4>1. Len(q[p].rules) \in Nat
        BY <1>4 DEF Tree, WellFormed, Holds, QueryNode
      <4> QED  BY <1>2, <4>1
    <3> QED  BY <3>1 DEF TargetIndex
  <2> HIDE DEF u
  <2>4. Smaller(u, Len(s)) + 1 \in 1..Len(s) + 1
    BY <2>2, <2>3 DEF Smaller
  <2>5. InsertAt(s, Smaller(u, Len(s)) + 1, n) \in Seq(Nat)
    BY <1>2, <2>2, <2>4, OneMoreRow
  <2> QED  BY <1>2, <2>1, <2>2, <2>4, <2>5, OneAside
<1> HIDE DEF t
<1>11. ASSUME NEW m \in DOMAIN q
       PROVE  /\ r[m].type = q[m].type
              /\ Without(r[m].rules, {n}) = Without(q[m].rules, {n})
  <2>1. CASE m = p
    <3>1. r[p] = [w[p] EXCEPT !.rules = t]
      BY <1>3, <1>4, <1>5 DEF Rewritten
    <3>2. r[p].type = q[p].type /\ r[p].rules = t
      BY <1>4, <1>9, <1>10, <3>1 DEF QueryNode
    <3> QED  BY <1>4, <1>9, <1>10, <2>1, <3>2
  <2>2. CASE m # p
    <3>1. r[m] = w[m]
      BY <1>3, <1>4, <1>5, <2>2 DEF Rewritten
    <3> QED  BY <1>9, <3>1
  <2> QED  BY <2>1, <2>2
<1>12. DOMAIN r = DOMAIN q
  BY <1>3, <1>5 DEF Rewritten
<1>13. ASSUME NEW m \in Under(q, n)
       PROVE  r[m] = q[m]
  <2>1. m \in DOMAIN q
    BY TreeUnder DEF Below
  <2>2. m # g /\ m # p
    BY <1>4, <1>6
  <2>3. r[m] = w[m]
    BY <1>3, <1>4, <1>5, <2>1, <2>2 DEF Rewritten
  <2> QED  BY <1>3, <2>1, <2>2, <2>3
<1> QED  BY <1>11, <1>12, <1>13 DEF IsGroup, MovesOne

(* What is read of a node is beneath it.                                   *)
LEMMA FlattensBeneath ==
  ASSUME NEW q, Tree(q), NEW w, Ranked(q, w), NEW n \in DOMAIN q, NEW m \in Under(q, n)
  PROVE  Flatten(q, m) \in Seq(Under(q, n))
<1> DEFINE D == DOMAIN q
           G == Groups(q)
           F == Conditions(q)
           U == Under(q, n)
           P == {x \in D : x \in U => F[x] \in Seq(U)}
<1>1. /\ U \subseteq D /\ G \subseteq D
      /\ \A x \in U, c \in D : c \in Children(q, x) => c \in U
  <2>1. Below(D, Kids(q), n, U)
    BY TreeUnder
  <2> QED  BY <2>1 DEF Below, Hung, Kids, Groups
<1>2. Ordered(D, G, RulesOf(q), w, Cardinality(G)) /\ \A g \in G : RulesOf(q)[g] = q[g].rules
  BY <1>1 DEF Ranked, RulesOf
<1>3. /\ F \in [D -> Seq(D)] /\ \A x \in D : F[x] = Flatten(q, x)
      /\ \A x \in D \ G : F[x] = <<x>>
      /\ \A x \in G : F[x] = Along(q[x].rules, F)
  <2>1. \A x \in D : F[x] = Flatten(q, x)
    BY DEF Conditions
  <2> HIDE DEF F
  <2> QED  BY <1>1, <2>1, FlattenReads DEF F
<1> HIDE DEF F, D, G, U
<1>4. \A x \in D \ G : x \in P
  <2>1. \A x \in U : <<x>> \in Seq(U)
    OBVIOUS
  <2> QED  BY <1>3, <2>1
<1>5. ASSUME NEW g \in G, \A i \in 1..Len(RulesOf(q)[g]) : RulesOf(q)[g][i] \in P
      PROVE  g \in P
  <2>1. PICK s : s = q[g].rules /\ s = RulesOf(q)[g]
    BY <1>2
  <2>2. ASSUME g \in U
        PROVE  F[g] \in Seq(U)
    <3>1. s \in Seq(D) /\ Len(s) \in Nat
      BY <1>2, <2>1 DEF Ordered
    <3>2. \A i \in 1..Len(s) : s[i] \in D /\ s[i] \in Children(q, g)
      BY <2>1, <3>1, LenProperties DEF Children, ToSet
    <3>3. \A i \in 1..Len(s) : s[i] \in P \cap U
      BY <1>1, <1>5, <2>1, <2>2, <3>2
    <3>4. GivesLists(F, P \cap U, U)
      BY DEF GivesLists
    <3> HIDE DEF P
    <3>5. s \in Seq(P \cap U)
      <4>1. PICK E : E = P \cap U
        OBVIOUS
      <4> QED  BY <3>1, <3>3, <4>1, OverMembers
    <3>6. Along(s, F) \in Seq(U)
      <4>1. PICK E : E = P \cap U
        OBVIOUS
      <4> QED  BY <3>4, <3>5, <4>1, AlongIsList
    <3> QED  BY <1>3, <2>1, <3>6
  <2> QED  BY <1>1, <2>2
<1>6. \A x \in D : x \in P
  <2> HIDE DEF P
  <2>1. Ordered(D, G, RulesOf(q), w, Cardinality(G))
    BY <1>2
  <2>2. Rises(D, G, RulesOf(q), P)
    <3>1. \A x \in D \ G : x \in P
      BY <1>4
    <3>2. \A g \in G : (\A i \in 1..Len(RulesOf(q)[g]) : RulesOf(q)[g][i] \in P) => g \in P
      BY <1>5
    <3> QED  BY <3>1, <3>2 DEF Rises
  <2> QED  BY <2>1, <2>2, ByRank
<1> QED  BY <1>1, <1>3, <1>6 DEF U

(* A drop keeps the order of the conditions it carries, and of the others. *)
LEMMA DropKeepsTheOrder ==
  ASSUME NEW q, Tree(q), AFunction(q), IsFiniteSet(DOMAIN q), NEW n \in DOMAIN q \ {Root},
         NEW p \in Groups(q) \ Under(q, n), NEW k \in 0..Len(q[p].rules),
         NEW r, r = MoveNodeTo(q, n, p, k)
  PROVE  /\ Flatten(r, n) = Flatten(q, n)
         /\ Without(Flatten(r, Root), Under(q, n)) = Without(Flatten(q, Root), Under(q, n))
<1> DEFINE D == DOMAIN q
           G == Groups(q)
           R == RulesOf(q)
           F == Conditions(q)
           H == Conditions(r)
           U == Under(q, n)
           f == [m \in D |-> Without(F[m], U)]
           h == [m \in D |-> Without(H[m], U)]
<1>1. Tree(r) /\ DOMAIN r = D
  <2>1. k \in Nat
    <3>1. Len(q[p].rules) \in Nat
      BY DEF Groups, Tree, WellFormed, Holds, QueryNode
    <3> QED  BY <3>1
  <2> QED  BY <2>1, MovedTree
<1>2. /\ \A m \in D : IsGroup(r, m) <=> IsGroup(q, m)
      /\ \A m \in D : Without(r[m].rules, {n}) = Without(q[m].rules, {n})
      /\ \A m \in U : r[m] = q[m]
  <2>1. MovesOne(q, r, n)
    BY DropMovesOne
  <2> QED  BY <2>1 DEF MovesOne
<1>3. Groups(r) = G
  BY <1>1, <1>2 DEF Groups
<1>4. /\ U \subseteq D /\ G \subseteq D /\ n \in U /\ n \in D /\ Root \in D
      /\ \A x \in U, c \in D : c \in Children(q, x) => c \in U
  <2>1. Below(D, Kids(q), n, U)
    BY TreeUnder
  <2>2. Root \in D
    BY DEF Tree, Arbor
  <2> QED  BY <2>1, <2>2 DEF Below, Hung, Kids, Groups
<1>5. PICK w : Ranked(q, w)
  BY TreeIsRanked
<1>6. PICK v : Ranked(r, v)
  BY <1>1, TreeIsRanked
<1>7. /\ Ordered(D, G, R, w, Cardinality(G)) /\ \A g \in G : R[g] = q[g].rules
      /\ \A g \in G : q[g].rules \in Seq(D) /\ r[g].rules \in Seq(D)
      /\ \A g \in G : Len(q[g].rules) \in Nat
  <2>1. Ordered(D, G, R, w, Cardinality(G)) /\ \A g \in G : R[g] = q[g].rules
    BY <1>4, <1>5 DEF Ranked, RulesOf
  <2>2. Ordered(D, G, RulesOf(r), v, Cardinality(G)) /\ \A g \in G : RulesOf(r)[g] = r[g].rules
    BY <1>1, <1>3, <1>4, <1>6 DEF Ranked, RulesOf
  <2>3. \A g \in G : q[g].rules \in Seq(D) /\ r[g].rules \in Seq(D)
    BY <2>1, <2>2 DEF Ordered
  <2> QED  BY <2>1, <2>3, LenProperties
<1>8. /\ F \in [D -> Seq(D)] /\ \A x \in D : F[x] = Flatten(q, x)
      /\ \A x \in D \ G : F[x] = <<x>>
      /\ \A x \in G : F[x] = Along(q[x].rules, F)
  <2>1. \A x \in D : F[x] = Flatten(q, x)
    BY DEF Conditions
  <2> HIDE DEF F
  <2> QED  BY <1>4, <1>5, <2>1, FlattenReads DEF F
<1>9. /\ H \in [D -> Seq(D)] /\ \A x \in D : H[x] = Flatten(r, x)
      /\ \A x \in D \ G : H[x] = <<x>>
      /\ \A x \in G : H[x] = Along(r[x].rules, H)
  <2>1. \A x \in D : H[x] = Flatten(r, x)
    BY <1>1 DEF Conditions
  <2> HIDE DEF H
  <2> QED  BY <1>1, <1>3, <1>4, <1>6, <2>1, FlattenReads DEF H
<1>10. F[n] \in Seq(U)
  BY <1>4, <1>5, <1>8, FlattensBeneath
<1> HIDE DEF F, H, D, G, U, R
<1>11. \A m \in D : m \in U => H[m] = F[m]
  <2> DEFINE P == {m \in D : m \in U => H[m] = F[m]}
  <2>1. \A m \in D \ G : m \in P
    BY <1>8, <1>9
  <2>2. ASSUME NEW g \in G, \A i \in 1..Len(R[g]) : R[g][i] \in P
        PROVE  g \in P
    <3>1. PICK s \in Seq(D) : s = q[g].rules /\ s = R[g] /\ Len(s) \in Nat
      BY <1>7
    <3>2. ASSUME g \in U
          PROVE  H[g] = F[g]
      <4>1. \A i \in 1..Len(s) : s[i] \in D /\ s[i] \in Children(q, g)
        BY <3>1, LenProperties DEF Children, ToSet
      <4>2. PICK E : E = P \cap U
        OBVIOUS
      <4>3. \A i \in 1..Len(s) : s[i] \in E
        BY <1>4, <2>2, <3>1, <3>2, <4>1, <4>2
      <4>4. s \in Seq(E)
        <5> HIDE DEF P
        <5> QED  BY <3>1, <4>3, OverMembers
      <4>5. \A x \in E : H[x] = F[x]
        BY <4>2
      <4>6. Along(s, H) = Along(s, F)
        BY <4>4, <4>5, AlongAgree
      <4>7. r[g] = q[g]
        BY <1>2, <3>2
      <4>8. H[g] = Along(s, H) /\ F[g] = Along(s, F)
        BY <1>8, <1>9, <3>1, <4>7
      <4> QED  BY <4>6, <4>8
    <3> QED  BY <1>4, <3>2
  <2>3. \A m \in D : m \in P
    <3> HIDE DEF P
    <3>1. Ordered(D, G, R, w, Cardinality(G))
      BY <1>7
    <3>2. Rises(D, G, R, P)
      <4>1. \A m \in D \ G : m \in P
        BY <2>1
      <4>2. \A g \in G : (\A i \in 1..Len(R[g]) : R[g][i] \in P) => g \in P
        BY <2>2
      <4> QED  BY <4>1, <4>2 DEF Rises
    <3> QED  BY <3>1, <3>2, ByRank
  <2> QED  BY <2>3
<1>12. /\ \A m \in D : f[m] = Without(F[m], U)
       /\ \A m \in D : h[m] = Without(H[m], U)
  OBVIOUS
<1>13. f[n] = <<>> /\ h[n] = <<>>
  <2>1. Without(F[n], U) = <<>>
    BY <1>10, WithoutAll
  <2> QED  BY <1>4, <1>11, <1>12, <2>1
<1> HIDE DEF f, h
<1>14. GivesLists(f, D, D) /\ GivesLists(h, D, D) /\ GivesLists(F, D, D) /\ GivesLists(H, D, D)
  <2>1. GivesLists(F, D, D) /\ GivesLists(H, D, D)
    BY <1>8, <1>9 DEF GivesLists
  <2>2. ASSUME NEW m \in D
        PROVE  f[m] \in Seq(D) /\ h[m] \in Seq(D)
    <3>1. PICK a \in Seq(D), b \in Seq(D) : a = F[m] /\ b = H[m]
      BY <1>8, <1>9
    <3>2. Without(a, U) \in Seq(D) /\ Without(b, U) \in Seq(D)
      BY WithoutIsList
    <3> QED  BY <1>12, <3>1, <3>2
  <2> QED  BY <2>1, <2>2 DEF GivesLists
<1>15. ASSUME NEW g \in G
       PROVE  /\ f[g] = Along(Without(q[g].rules, {n}), f)
              /\ h[g] = Along(Without(q[g].rules, {n}), h)
  <2>1. PICK s \in Seq(D) : s = q[g].rules
    BY <1>7
  <2>2. PICK t \in Seq(D) : t = r[g].rules
    BY <1>7
  <2>3. Without(Along(s, F), U) = Along(s, f) /\ Without(Along(t, H), U) = Along(t, h)
    BY <1>12, <1>14, WithoutAlong
  <2>4. PICK O : O = {n}
    OBVIOUS
  <2>5. \A x \in D \cap O : f[x] = <<>> /\ h[x] = <<>>
    BY <1>13, <2>4
  <2>6. Along(Without(s, O), f) = Along(s, f)
    BY <1>14, <2>5, AlongWithout
  <2>7. Along(Without(t, O), h) = Along(t, h)
    BY <1>14, <2>5, AlongWithout
  <2>8. Without(t, O) = Without(s, O)
    BY <1>2, <1>4, <2>1, <2>2, <2>4
  <2> QED  BY <1>4, <1>8, <1>9, <1>12, <2>1, <2>2, <2>3, <2>4, <2>6, <2>7, <2>8
<1>16. \A m \in D : f[m] = h[m]
  <2> DEFINE P == {m \in D : f[m] = h[m]}
  <2>1. \A m \in D \ G : m \in P
    BY ZenonT(30), <1>8, <1>9, <1>12
  <2>2. ASSUME NEW g \in G, \A i \in 1..Len(R[g]) : R[g][i] \in P
        PROVE  g \in P
    <3>1. PICK s \in Seq(D) : s = q[g].rules /\ s = R[g] /\ Len(s) \in Nat
      BY <1>7
    <3>2. s \in Seq(P)
      <4>1. \A i \in 1..Len(s) : s[i] \in P
        BY <2>2, <3>1
      <4> HIDE DEF P
      <4> QED  BY <3>1, <4>1, OverMembers
    <3>3. \A x \in P : f[x] = h[x]
      OBVIOUS
    <3> HIDE DEF P
    <3>4. PICK t \in Seq(P) : t = Without(s, {n})
      BY <3>2, WithoutIsList
    <3>5. Along(t, f) = Along(t, h)
      BY <3>3, <3>4, AlongAgree
    <3>6. f[g] = h[g]
      BY <1>15, <3>1, <3>4, <3>5
    <3> QED  BY <1>4, <3>6 DEF P
  <2>3. \A m \in D : m \in P
    <3> HIDE DEF P
    <3>1. Ordered(D, G, R, w, Cardinality(G))
      BY <1>7
    <3>2. Rises(D, G, R, P)
      <4>1. \A m \in D \ G : m \in P
        BY <2>1
      <4>2. \A g \in G : (\A i \in 1..Len(R[g]) : R[g][i] \in P) => g \in P
        BY <2>2
      <4> QED  BY <4>1, <4>2 DEF Rises
    <3> QED  BY <3>1, <3>2, ByRank
  <2> QED  BY <2>3
<1>17. Flatten(r, n) = Flatten(q, n)
  BY <1>4, <1>8, <1>9, <1>11
<1>18. Without(H[Root], U) = Without(F[Root], U)
  BY <1>4, <1>12, <1>16
<1> QED  BY <1>4, <1>8, <1>9, <1>17, <1>18 DEF U

(* What a removal takes, layer by layer.                                   *)

Emptied(q, id) == {id} \cup {g \in Groups(q) : q[g].rules = <<>>}

GoneUp(q, id, S) == S \cup {g \in Above(q, id) \ {Root} : Children(q, g) \subseteq S}

(* The removed node, the groups that are empty, and the groups above the   *)
(* node all of whose members go: these and no others.                      *)
Goners(q, id, O) ==
  /\ Emptied(q, id) \subseteq O
  /\ \A g \in Above(q, id) \ {Root} : Children(q, g) \subseteq O => g \in O
  /\ \A S : /\ Emptied(q, id) \subseteq S
            /\ \A g \in Above(q, id) \ {Root} : Children(q, g) \subseteq S => g \in S
            => O \subseteq S

LEMMA GoneReads ==
  ASSUME NEW q, NEW w, Ranked(q, w), NEW id
  PROVE  Goners(q, id, Gone(q, id))
<1> DEFINE K == Cardinality(Groups(q))
           D == DOMAIN q
           A == Above(q, id) \ {Root}
           B == Emptied(q, id)
           X == SUBSET (D \cup {id})
           gone[d \in 0..Cardinality(Groups(q))] ==
             LET already == gone[d - 1]
             IN IF d = 0 THEN {id} \cup {g \in Groups(q) : q[g].rules = <<>>}
                ELSE already \cup {g \in Above(q, id) \ {Root} : Children(q, g) \subseteq already}
           Form(f) == f = [d \in 0..Cardinality(Groups(q)) |->
                             IF d = 0 THEN {id} \cup {g \in Groups(q) : q[g].rules = <<>>}
                             ELSE f[d - 1] \cup {g \in Above(q, id) \ {Root} :
                                                   Children(q, g) \subseteq f[d - 1]}]
           Layers(f) == /\ f[0] = B
                        /\ \A d \in 1..K : f[d] = GoneUp(q, id, f[d - 1])
                        /\ f = [d \in 0..K |-> f[d]]
<1>1. Gone(q, id) = gone[K]
  BY DEF Gone
<1>2. /\ K \in Nat /\ w \in [D -> 0..K] /\ A \subseteq Groups(q) /\ Groups(q) \subseteq D
      /\ \A g \in A : w[g] >= 1 /\ \A c \in Children(q, g) : c \in D /\ w[c] < w[g]
      /\ \A g \in Groups(q) : w[g] >= 1
  <2>1. Ordered(D, Groups(q), RulesOf(q), w, K)
    BY DEF Ranked
  <2>2. A \subseteq Groups(q) /\ Groups(q) \subseteq D
    BY DEF Above, Groups
  <2>3. ASSUME NEW g \in Groups(q)
        PROVE  w[g] >= 1 /\ \A c \in Children(q, g) : c \in D /\ w[c] < w[g]
    <3>1. PICK s : s = q[g].rules /\ s = RulesOf(q)[g]
      BY <2>2 DEF RulesOf
    <3>2. s \in Seq(D) /\ w[g] >= 1 /\ \A i \in 1..Len(s) : w[s[i]] < w[g]
      BY <2>1, <3>1 DEF Ordered
    <3>3. DOMAIN s = 1..Len(s) /\ \A i \in 1..Len(s) : s[i] \in D
      BY <3>2, LenProperties
    <3> QED  BY <3>1, <3>2, <3>3 DEF Children, ToSet
  <2> QED  BY <2>1, <2>2, <2>3 DEF Ordered
<1>3. ASSUME NEW f
      PROVE  Form(f) <=> Layers(f)
  <2>1. /\ 0 \in 0..K /\ \A d \in 1..K : d \in 0..K /\ d # 0
        /\ \A d \in 0..K : d # 0 => d \in 1..K
    BY <1>2
  <2>2. ASSUME Form(f)
        PROVE  Layers(f)
    <3>1. f[0] = B
      BY <2>1, <2>2 DEF Emptied
    <3>2. \A d \in 1..K : f[d] = GoneUp(q, id, f[d - 1])
      BY <2>1, <2>2 DEF GoneUp
    <3>3. f = [d \in 0..K |-> f[d]]
      BY <2>2
    <3> QED  BY <3>1, <3>2, <3>3
  <2>3. ASSUME Layers(f)
        PROVE  Form(f)
    <3>1. \A d \in 0..K : f[d] = IF d = 0 THEN B ELSE GoneUp(q, id, f[d - 1])
      BY <2>1, <2>3
    <3>2. f = [d \in 0..K |-> IF d = 0 THEN B ELSE GoneUp(q, id, f[d - 1])]
      BY <2>3, <3>1
    <3> QED  BY <3>2 DEF Emptied, GoneUp
  <2> QED  BY <2>2, <2>3
<1>4. \E f : Layers(f)
  <2> DEFINE step == [d \in Nat |-> [S \in X |-> GoneUp(q, id, S)]]
  <2>1. B \in X /\ \A S \in X : GoneUp(q, id, S) \in X
    BY <1>2 DEF Emptied, GoneUp
  <2>2. StepsIn(X, step)
    BY <2>1 DEF StepsIn
  <2>3. \A d \in Nat, S \in X : step[d][S] = GoneUp(q, id, S)
    OBVIOUS
  <2> HIDE DEF step, X, B, K
  <2>4. PICK f : Goes(f, X, B, step, K)
    BY <1>2, <2>1, <2>2, Iterated
  <2>5. ASSUME NEW d \in 1..K
        PROVE  f[d] = GoneUp(q, id, f[d - 1])
    <3>1. d \in Nat /\ d - 1 \in 0..K
      BY <1>2
    <3> QED  BY <2>3, <2>4, <2>5, <3>1 DEF Goes
  <2> QED  BY <2>4, <2>5 DEF Goes
<1>5. Layers(gone)
  <2>1. gone = CHOOSE f : Form(f)
    OBVIOUS
  <2> HIDE DEF Form, Layers, gone
  <2> QED  BY <1>3, <1>4, <2>1
<1> HIDE DEF gone, K, D, A, B
<1>6. \A d \in 1..K : gone[d] = gone[d - 1] \cup {g \in A : Children(q, g) \subseteq gone[d - 1]}
  BY <1>5 DEF GoneUp, A
<1>7. gone[0] = B
  BY <1>5
<1>8. ASSUME NEW S, B \subseteq S, \A g \in A : Children(q, g) \subseteq S => g \in S
      PROVE  gone[K] \subseteq S
  <2> DEFINE T == {d \in Nat : d <= K => gone[d] \subseteq S}
  <2>1. 0 \in T
    BY <1>7, <1>8
  <2>2. ASSUME NEW d \in Nat, d \in T
        PROVE  d + 1 \in T
    <3>1. ASSUME d + 1 <= K
          PROVE  gone[d + 1] \subseteq S
      <4>1. d + 1 \in 1..K /\ (d + 1) - 1 = d /\ d <= K
        BY <1>2, <3>1
      <4>2. gone[d] \subseteq S
        BY <2>2, <4>1
      <4> QED  BY <1>6, <1>8, <4>1, <4>2
    <3> QED  BY <3>1
  <2>3. Nat \subseteq T
    <3> HIDE DEF T
    <3> QED  BY <2>1, <2>2, FromZeroOn
  <2> QED  BY <1>2, <2>3
<1>9. ASSUME NEW d \in Nat
      PROVE  d <= K => B \subseteq gone[d]
  <2> DEFINE T == {e \in Nat : e <= K => B \subseteq gone[e]}
  <2>1. 0 \in T
    BY <1>7
  <2>2. ASSUME NEW e \in Nat, e \in T
        PROVE  e + 1 \in T
    <3>1. ASSUME e + 1 <= K
          PROVE  B \subseteq gone[e + 1]
      <4>1. e + 1 \in 1..K /\ (e + 1) - 1 = e /\ e <= K
        BY <1>2, <3>1
      <4> QED  BY <1>6, <2>2, <4>1
    <3> QED  BY <3>1
  <2>3. Nat \subseteq T
    <3> HIDE DEF T
    <3> QED  BY <2>1, <2>2, FromZeroOn
  <2> QED  BY <2>3
<1> DEFINE Low(d) == \A e \in 0..K : \A x \in gone[e] \cap D : w[x] <= d => x \in gone[d]
<1>10. ASSUME NEW d \in Nat, d <= K, d = 0 \/ Low(d - 1)
       PROVE  Low(d)
  <2> DEFINE T == {e \in Nat : e <= K => \A x \in gone[e] \cap D : w[x] <= d => x \in gone[d]}
  <2>1. 0 \in T
    BY <1>7, <1>9, <1>10
  <2>2. ASSUME NEW e \in Nat, e \in T
        PROVE  e + 1 \in T
    <3>1. ASSUME e + 1 <= K, NEW x \in gone[e + 1], x \in D, w[x] <= d
          PROVE  x \in gone[d]
      <4>1. e + 1 \in 1..K /\ (e + 1) - 1 = e /\ e <= K /\ e \in 0..K
        BY <1>2, <3>1
      <4>2. CASE x \in gone[e]
        BY <2>2, <3>1, <4>1, <4>2
      <4>3. CASE x \notin gone[e]
        <5>1. x \in A /\ Children(q, x) \subseteq gone[e]
          BY <1>6, <3>1, <4>1, <4>3
        <5>2. w[x] >= 1 /\ w[x] \in Nat
          BY <1>2, <3>1, <5>1
        <5>3. d # 0 /\ d \in 1..K /\ d - 1 \in Nat
          BY <1>2, <1>10, <3>1, <5>2
        <5>4. ASSUME NEW c \in Children(q, x)
              PROVE  c \in gone[d - 1]
          <6>1. c \in D /\ w[c] < w[x] /\ w[c] \in Nat
            BY <1>2, <5>1
          <6>2. w[c] <= d - 1
            BY <3>1, <5>2, <5>3, <6>1
          <6>3. c \in gone[e] \cap D
            BY <5>1, <6>1
          <6> QED  BY <1>10, <4>1, <5>3, <6>2, <6>3
        <5>5. gone[d] = gone[d - 1] \cup {g \in A : Children(q, g) \subseteq gone[d - 1]}
          BY <1>6, <5>3
        <5> QED  BY <5>1, <5>4, <5>5
      <4> QED  BY <4>2, <4>3
    <3> QED  BY <3>1
  <2>3. Nat \subseteq T
    <3> HIDE DEF T
    <3> QED  BY <2>1, <2>2, FromZeroOn
  <2> QED  BY <1>2, <2>3
<1>11. ASSUME NEW d \in Nat
       PROVE  d <= K => Low(d)
  <2> DEFINE T == {e \in Nat : e <= K => Low(e)}
  <2>1. 0 \in T
    <3>1. 0 \in Nat /\ (0 <= K => Low(0))
      <4> HIDE DEF Low
      <4> QED  BY <1>10
    <3> QED  BY <3>1
  <2>2. ASSUME NEW e \in Nat, e \in T
        PROVE  e + 1 \in T
    <3>1. e + 1 \in Nat /\ (e + 1) - 1 = e /\ (e + 1 <= K => e <= K)
      BY <1>2
    <3>2. e <= K => Low(e)
      BY <2>2
    <3>3. e + 1 <= K => Low((e + 1) - 1)
      <4> HIDE DEF Low
      <4> QED  BY <3>1, <3>2
    <3>4. e + 1 <= K => Low(e + 1)
      <4> HIDE DEF Low
      <4> QED  BY <1>10, <3>1, <3>3
    <3> QED  BY <3>1, <3>4
  <2>3. Nat \subseteq T
    <3> HIDE DEF T
    <3> QED  BY <2>1, <2>2, FromZeroOn
  <2> QED  BY <2>3
<1>12. ASSUME NEW g \in A, Children(q, g) \subseteq gone[K]
       PROVE  g \in gone[K]
  <2>1. g \in D /\ w[g] \in 1..K
    BY <1>2
  <2>2. K \in 1..K /\ K - 1 \in Nat /\ K - 1 <= K /\ K \in 0..K
    BY <1>2, <2>1
  <2>3. ASSUME NEW c \in Children(q, g)
        PROVE  c \in gone[K - 1]
    <3>1. c \in D /\ w[c] < w[g] /\ w[c] \in Nat
      BY <1>2
    <3>2. w[c] <= K - 1
      BY <1>2, <2>1, <3>1
    <3>3. c \in gone[K] \cap D
      BY <1>12, <3>1
    <3>4. Low(K - 1)
      BY <1>11, <2>2
    <3> QED  BY <2>2, <3>2, <3>3, <3>4
  <2>4. gone[K] = gone[K - 1] \cup {x \in A : Children(q, x) \subseteq gone[K - 1]}
    BY <1>6, <2>2
  <2> QED  BY <2>3, <2>4
<1>13. B \subseteq gone[K]
  BY <1>2, <1>9
<1> QED  BY <1>1, <1>8, <1>12, <1>13 DEF Goners, A, B

(* The groups above a removed node lose what goes, and nothing else does.  *)
Pared(q, r, A, O) ==
  /\ DOMAIN r \subseteq DOMAIN q
  /\ \A m \in DOMAIN r : r[m].type = q[m].type
  /\ \A m \in DOMAIN r \cap A : r[m].rules = Without(q[m].rules, O)
  /\ \A m \in DOMAIN r \ A : r[m].rules = q[m].rules

LEMMA RemovalPares ==
  ASSUME NEW q, Tree(q), NEW n, NEW r, r = RemoveNode(q, n)
  PROVE  Pared(q, r, Above(q, n), Gone(q, n))
<1> DEFINE A == Above(q, n)
           O == Gone(q, n)
           rest == [g \in DOMAIN q |->
                      IF g \in A THEN [q[g] EXCEPT !.rules = Without(@, O)] ELSE q[g]]
<1>1. r = Kept(rest)
  BY DEF RemoveNode
<1>2. DOMAIN r \subseteq DOMAIN q
  BY DeletedTree
<1>3. \A m \in DOMAIN r : r[m] = rest[m]
  BY <1>1 DEF Kept, Restrict
<1>4. \A m \in DOMAIN q : q[m] \in QueryNode
  BY DEF Tree, WellFormed, Holds
<1> HIDE DEF A, O
<1>5. ASSUME NEW m \in DOMAIN r
      PROVE  /\ r[m].type = q[m].type
             /\ m \in A => r[m].rules = Without(q[m].rules, O)
             /\ m \notin A => r[m].rules = q[m].rules
  <2>1. m \in DOMAIN q /\ q[m] \in QueryNode
    BY <1>2, <1>4
  <2>2. CASE m \in A
    <3>1. r[m] = [q[m] EXCEPT !.rules = Without(q[m].rules, O)]
      BY <1>3, <2>1, <2>2
    <3> QED  BY <2>1, <2>2, <3>1 DEF QueryNode
  <2>3. CASE m \notin A
    BY <1>3, <2>1, <2>3
  <2> QED  BY <2>2, <2>3
<1> QED  BY <1>2, <1>5 DEF Pared, A, O

(* Of a node beneath n, so is the parent.                                  *)
LEMMA ParentBeneath ==
  ASSUME NEW D, NEW C, Arbor(D, C), NEW n \in D, NEW U, Below(D, C, n, U),
         NEW m \in D, NEW c \in C[m], c \in U, c # n
  PROVE  m \in U
<1>1. U \subseteq D /\ n \in U /\ Hung(C, U)
  BY DEF Below
<1>2. PICK g \in U : c \in C[g]
  <2> SUFFICES ASSUME \A g \in U : c \notin C[g]
               PROVE  FALSE
    OBVIOUS
  <2>1. Hung(C, U \ {c}) /\ n \in U \ {c} /\ U \ {c} \subseteq D
    BY <1>1 DEF Hung
  <2>2. U \subseteq U \ {c}
    BY <2>1 DEF Below
  <2> QED  BY <2>2
<1>3. g = m
  BY <1>1, <1>2 DEF Arbor, Disjoint
<1> QED  BY <1>2, <1>3

(* Nothing beneath the removed node is left.                               *)
LEMMA RemovedAll ==
  ASSUME NEW q, Tree(q), NEW n \in DOMAIN q \ {Root}, NEW r, Tree(r),
         NEW O, n \in O, Pared(q, r, Above(q, n), O)
  PROVE  DOMAIN r \cap Under(q, n) = {}
<1> DEFINE D == DOMAIN q
           E == DOMAIN r
           U == Under(q, n)
           A == Above(q, n)
<1>1. Below(D, Kids(q), n, U) /\ Arbor(D, Kids(q))
  BY TreeUnder DEF Tree
<1>2. Arbor(E, Kids(r))
  BY DEF Tree
<1>3. /\ E \subseteq D /\ Root \in E /\ Root \in D
      /\ \A m \in D : Kids(q)[m] = Children(q, m) /\ Children(q, m) \subseteq D
      /\ \A m \in E : Kids(r)[m] = Children(r, m) /\ Children(r, m) \subseteq E
  <2>1. /\ \A m \in D : Kids(q)[m] = Children(q, m)
        /\ \A m \in E : Kids(r)[m] = Children(r, m)
    BY DEF Kids
  <2> QED  BY <1>1, <1>2, <2>1 DEF Arbor, Pared
<1>4. PICK g \in D : n \in Kids(q)[g]
  BY <1>1, NoOrphan
<1>5. Root \notin U
  BY <1>1, <1>4, NotAbove
<1>6. ASSUME NEW m \in E \ U, NEW c \in Children(r, m)
      PROVE  c \notin U
  <2>1. c \in Children(q, m) /\ (m \in A => c \notin O)
    <3>1. CASE m \in A
      <4>1. PICK s : s = q[m].rules /\ s \in Seq(Nat)
        BY <1>3 DEF Tree, WellFormed, Holds, QueryNode
      <4>2. r[m].rules = Without(s, O)
        BY <3>1, <4>1 DEF Pared
      <4>3. ListOf(s, Kids(q)[m])
        BY <1>3, <4>1 DEF Tree, WellFormed, Holds
      <4>4. ListOf(Without(s, O), Kids(q)[m] \ O)
        BY <4>3, ListWithout
      <4>5. ToSet(Without(s, O)) = Kids(q)[m] \ O
        BY <4>4, ListFacts
      <4> QED  BY <1>3, <4>2, <4>5 DEF Children
    <3>2. CASE m \notin A
      BY <3>2 DEF Pared, Children
    <3> QED  BY <3>1, <3>2
  <2>2. CASE c = n
    <3>1. m \in A
      <4>1. m \in D /\ m # n /\ n \in Children(q, m)
        <5>1. m # n
          BY <1>1 DEF Below
        <5> QED  BY <1>3, <2>1, <2>2, <5>1
      <4>2. Below(D, Kids(q), m, Under(q, m))
        BY <4>1, TreeUnder
      <4>3. n \in Under(q, m)
        BY <1>3, <4>1, <4>2 DEF Below, Hung
      <4>4. IsGroup(q, m)
        <5>1. Holds(q[m], Kids(q)[m])
          BY <4>1 DEF Tree, WellFormed
        <5>2. q[m].type = "rule" => q[m].rules = <<>>
          BY <5>1 DEF Holds
        <5>3. q[m].rules # <<>>
          BY <4>1 DEF Children, ToSet
        <5>4. q[m].type \in {"rule", "group"}
          BY <5>1 DEF Holds, QueryNode
        <5> QED  BY <4>1, <5>2, <5>3, <5>4 DEF IsGroup
      <4> QED  BY <4>1, <4>3, <4>4 DEF Above, Groups
    <3> QED  BY <2>1, <2>2, <3>1
  <2>3. CASE c # n
    <3>1. c \in U => m \in U
      <4>1. m \in D /\ c \in Kids(q)[m]
        BY <1>3, <2>1
      <4> QED  BY <1>1, <2>3, <4>1, ParentBeneath
    <3> QED  BY <3>1
  <2> QED  BY <2>2, <2>3
<1>7. E \ U = E
  <2>1. Root \in E \ U /\ E \ U \in SUBSET E
    BY <1>3, <1>5
  <2>2. Hung(Kids(r), E \ U)
    BY <1>3, <1>6 DEF Hung
  <2> QED  BY <1>2, <2>1, <2>2 DEF Arbor
<1> QED  BY <1>7

(* What a query reads like: a rule is itself and a group its members.      *)
Reads(q, w, D, G, R, F) ==
  /\ D = DOMAIN q /\ G = Groups(q) /\ G \subseteq D /\ R = RulesOf(q)
  /\ Ordered(D, G, R, w, Cardinality(G))
  /\ \A g \in G : R[g] = q[g].rules /\ R[g] \in Seq(D) /\ Len(R[g]) \in Nat
  /\ F \in [D -> Seq(D)] /\ GivesLists(F, D, D)
  /\ \A m \in D : F[m] = Flatten(q, m)
  /\ \A m \in D \ G : F[m] = <<m>>
  /\ \A m \in G : F[m] = Along(R[m], F)

LEMMA RankedReads ==
  ASSUME NEW q, NEW w, Ranked(q, w)
  PROVE  \E D, G, R, F : Reads(q, w, D, G, R, F)
<1> DEFINE D == DOMAIN q
           G == Groups(q)
           R == RulesOf(q)
           F == Conditions(q)
<1>1. G \subseteq D /\ Ordered(D, G, R, w, Cardinality(G))
  BY DEF Ranked, Groups
<1>2. \A g \in G : R[g] = q[g].rules /\ R[g] \in Seq(D)
  BY <1>1 DEF RulesOf, Ordered
<1>3. \A m \in D : F[m] = Flatten(q, m)
  BY DEF Conditions
<1> HIDE DEF F
<1>4. /\ F \in [D -> Seq(D)]
      /\ \A m \in D \ G : F[m] = <<m>>
      /\ \A m \in G : F[m] = Along(q[m].rules, F)
  BY <1>1, <1>3, FlattenReads DEF F
<1> HIDE DEF D, G, R
<1>5. \A m \in G : F[m] = Along(R[m], F)
  BY <1>2, <1>4
<1>6. \A g \in G : Len(R[g]) \in Nat
  BY <1>2, LenProperties
<1>7. GivesLists(F, D, D)
  BY <1>4 DEF GivesLists
<1>8. Reads(q, w, D, G, R, F)
  BY <1>1, <1>2, <1>3, <1>4, <1>5, <1>6, <1>7 DEF Reads, D, G, R
<1> QED  BY <1>8

(* A removal takes the conditions beneath the node and no others.          *)
LEMMA RemovalTakesItsOwn ==
  ASSUME NEW q, Tree(q), IsFiniteSet(DOMAIN q), NEW n \in DOMAIN q \ {Root},
         NEW r, r = RemoveNode(q, n)
  PROVE  Flatten(r, Root) = Without(Flatten(q, Root), Under(q, n))
<1>1. Tree(r) /\ Pared(q, r, Above(q, n), Gone(q, n)) /\ IsFiniteSet(DOMAIN r) /\ Root \in DOMAIN r
  <2>1. Tree(r) /\ DOMAIN r \subseteq DOMAIN q
    BY DeletedTree
  <2>2. IsFiniteSet(DOMAIN r)
    BY <2>1, FS_Subset
  <2>3. Root \in DOMAIN r
    BY <2>1 DEF Tree, Arbor
  <2> QED  BY <2>1, <2>2, <2>3, RemovalPares
<1>2. PICK w : Ranked(q, w)
  BY TreeIsRanked
<1>3. PICK v : Ranked(r, v)
  BY <1>1, TreeIsRanked
<1>4. PICK D, G, R, F : Reads(q, w, D, G, R, F)
  BY <1>2, RankedReads
<1>5. PICK E, L, T, H : Reads(r, v, E, L, T, H)
  BY <1>3, RankedReads
<1>6. PICK U : U = Under(q, n)
  OBVIOUS
<1>7. PICK A, O : A = Above(q, n) /\ O = Gone(q, n)
  OBVIOUS
<1>8. Goners(q, n, O)
  BY <1>2, <1>7, GoneReads
<1>9. E \cap U = {} /\ E \subseteq D /\ L = G \cap E /\ A \subseteq G
  <2>1. n \in O
    BY <1>8 DEF Goners, Emptied
  <2>2. E \cap U = {}
    BY <1>1, <1>5, <1>6, <1>7, <2>1, RemovedAll DEF Reads
  <2>3. E \subseteq D /\ L = G \cap E
    BY <1>1, <1>4, <1>5 DEF Reads, Pared, Groups, IsGroup
  <2> QED  BY <1>4, <1>7, <2>2, <2>3 DEF Above, Reads
<1> DEFINE f == [m \in D |-> Without(F[m], U)]
<1>10. \A m \in D : f[m] = Without(F[m], U)
  OBVIOUS
<1> HIDE DEF f
<1>11. GivesLists(f, D, D)
  <2>1. ASSUME NEW m \in D
        PROVE  f[m] \in Seq(D)
    <3>1. PICK a \in Seq(D) : a = F[m]
      BY <1>4 DEF Reads
    <3> QED  BY <1>10, <3>1, WithoutIsList
  <2> QED  BY <2>1 DEF GivesLists
<1>12. \A g \in G : f[g] = Along(R[g], f)
  <2>1. ASSUME NEW g \in G
        PROVE  f[g] = Along(R[g], f)
    <3>1. PICK s \in Seq(D) : s = R[g]
      BY <1>4 DEF Reads
    <3>2. GivesLists(F, D, D) /\ F[g] = Along(s, F) /\ g \in D
      BY <1>4, <3>1 DEF Reads
    <3>3. Without(Along(s, F), U) = Along(s, f)
      BY <1>10, <3>2, WithoutAlong
    <3> QED  BY <1>10, <3>1, <3>2, <3>3
  <2> QED  BY <2>1
<1>13. \A x \in D \cap O : f[x] = <<>>
  <2> DEFINE S == {x \in D \cup {n} : f[x] = <<>>}
  <2>1. n \in S
    <3>1. F[n] \in Seq(U)
      <4>1. n \in Under(q, n)
        BY TreeUnder DEF Below
      <4>2. Flatten(q, n) \in Seq(Under(q, n))
        BY <1>2, <4>1, FlattensBeneath
      <4> QED  BY <1>4, <1>6, <4>2 DEF Reads
    <3>2. Without(F[n], U) = <<>>
      BY <3>1, WithoutAll
    <3>3. n \in D
      BY <1>4 DEF Reads
    <3> QED  BY <1>10, <3>2, <3>3
  <2>2. ASSUME NEW g \in G, q[g].rules = <<>>
        PROVE  g \in S
    <3>1. f[g] = Along(<<>>, f) /\ g \in D
      BY <1>4, <1>12, <2>2 DEF Reads
    <3> QED  BY <3>1, AlongNone
  <2>3. ASSUME NEW g \in A \ {Root}, Children(q, g) \subseteq S
        PROVE  g \in S
    <3>1. g \in G /\ g \in D
      BY <1>4, <1>9 DEF Reads
    <3>2. PICK s \in Seq(D) : s = R[g] /\ s = q[g].rules /\ Len(s) \in Nat
      BY <1>4, <3>1 DEF Reads
    <3>3. DOMAIN s = 1..Len(s)
      BY <3>2, LenProperties
    <3>4. \A i \in 1..Len(s) : s[i] \in S
      BY <2>3, <3>2, <3>3 DEF Children, ToSet
    <3>5. \A x \in S : f[x] = <<>>
      OBVIOUS
    <3> HIDE DEF S
    <3>6. s \in Seq(S)
      BY <3>2, <3>4, OverMembers
    <3>7. Along(s, f) = <<>>
      BY <3>5, <3>6, AlongNothing
    <3>8. f[g] = <<>>
      BY <1>12, <3>1, <3>2, <3>7
    <3> QED  BY <3>1, <3>8 DEF S
  <2>4. Emptied(q, n) \subseteq S
    <3> HIDE DEF S
    <3> QED  BY <1>4, <2>1, <2>2 DEF Emptied, Reads
  <2>5. O \subseteq S
    <3> HIDE DEF S
    <3> QED  BY <1>7, <1>8, <2>3, <2>4 DEF Goners
  <2> QED  BY <2>5
<1>14. \A m \in E : H[m] = f[m]
  <2> DEFINE P == {m \in E : H[m] = f[m]}
  <2>1. ASSUME NEW m \in E \ L
        PROVE  m \in P
    <3>1. m \in D \ G /\ m \notin U
      BY <1>9
    <3>2. F[m] = <<m>> /\ H[m] = <<m>>
      BY <1>4, <1>5, <3>1 DEF Reads
    <3>3. <<m>> \in Seq({m}) /\ {m} \cap U = {}
      BY <3>1
    <3>4. Without(<<m>>, U) = <<m>>
      <4>1. PICK Z : Z = {m}
        OBVIOUS
      <4> QED  BY <3>3, <4>1, WithoutOthers
    <3> QED  BY <1>10, <3>1, <3>2, <3>4
  <2>2. ASSUME NEW g \in L, \A i \in 1..Len(T[g]) : T[g][i] \in P
        PROVE  g \in P
    <3>1. g \in G /\ g \in E /\ g \in D
      BY <1>9
    <3>2. PICK t \in Seq(E) : t = T[g] /\ t = r[g].rules /\ Len(t) \in Nat
      BY <1>5 DEF Reads
    <3>3. PICK s \in Seq(D) : s = R[g] /\ s = q[g].rules
      BY <1>4, <3>1 DEF Reads
    <3>4. \A i \in 1..Len(t) : t[i] \in P
      BY <2>2, <3>2
    <3>5. \A x \in P : H[x] = f[x]
      OBVIOUS
    <3> HIDE DEF P
    <3>6. t \in Seq(P)
      BY <3>2, <3>4, OverMembers
    <3>7. Along(t, H) = Along(t, f)
      BY <3>5, <3>6, AlongAgree
    <3>8. Along(t, f) = Along(s, f)
      <4>1. CASE g \in A
        <5>1. t = Without(s, O)
          BY <1>1, <1>5, <1>7, <3>1, <3>2, <3>3, <4>1 DEF Pared, Reads
        <5>2. Along(Without(s, O), f) = Along(s, f)
          BY <1>11, <1>13, AlongWithout
        <5> QED  BY <5>1, <5>2
      <4>2. CASE g \notin A
        <5>1. t = s
          BY <1>1, <1>5, <1>7, <3>1, <3>2, <3>3, <4>2 DEF Pared, Reads
        <5> QED  BY <5>1
      <4> QED  BY <4>1, <4>2
    <3>9. H[g] = Along(t, H)
      BY <1>5, <3>2 DEF Reads
    <3>10. f[g] = Along(s, f)
      BY <1>12, <3>1, <3>3
    <3> QED  BY <3>1, <3>7, <3>8, <3>9, <3>10 DEF P
  <2>3. Ordered(E, L, T, v, Cardinality(L))
    BY <1>5 DEF Reads
  <2>4. \A m \in E : m \in P
    <3> HIDE DEF P
    <3>1. Ordered(E, L, T, v, Cardinality(L))
      BY <2>3
    <3>2. Rises(E, L, T, P)
      <4>1. \A m \in E \ L : m \in P
        BY <2>1
      <4>2. \A g \in L : (\A i \in 1..Len(T[g]) : T[g][i] \in P) => g \in P
        BY <2>2
      <4> QED  BY <4>1, <4>2 DEF Rises
    <3> QED  BY <3>1, <3>2, ByRank
  <2> QED  BY <2>4
<1>15. Root \in E /\ Root \in D
  BY <1>1, <1>5, <1>9 DEF Reads
<1>16. H[Root] = Without(F[Root], U)
  BY <1>10, <1>14, <1>15
<1> QED  BY <1>4, <1>5, <1>6, <1>15, <1>16 DEF Reads

(* And leaves no group empty that was not.                                 *)
LEMMA RemovalEmptiesNone ==
  ASSUME NEW q, Tree(q), IsFiniteSet(DOMAIN q), NEW n \in DOMAIN q \ {Root},
         NEW r, r = RemoveNode(q, n), NEW g \in Groups(r) \ {Root}, r[g].rules = <<>>
  PROVE  q[g].rules = <<>>
<1>1. Tree(r) /\ Pared(q, r, Above(q, n), Gone(q, n))
  BY DeletedTree, RemovalPares
<1>2. PICK w : Ranked(q, w)
  BY TreeIsRanked
<1>3. PICK A, O : A = Above(q, n) /\ O = Gone(q, n)
  OBVIOUS
<1>4. Goners(q, n, O) /\ n \in O
  <2>1. Goners(q, n, O)
    BY <1>2, <1>3, GoneReads
  <2> QED  BY <2>1 DEF Goners, Emptied
<1>5. /\ DOMAIN r \subseteq DOMAIN q /\ g \in DOMAIN r /\ g \in DOMAIN q /\ g # Root
      /\ Arbor(DOMAIN r, Kids(r)) /\ Arbor(DOMAIN q, Kids(q))
  BY <1>1 DEF Pared, Groups, Tree
<1>6. CASE g \notin A
  BY <1>1, <1>3, <1>5, <1>6 DEF Pared
<1>7. CASE g \in A
  <2>1. PICK s : s = q[g].rules /\ s \in Seq(Nat) /\ DOMAIN s = 1..Len(s)
    BY <1>5 DEF Tree, WellFormed, Holds, QueryNode
  <2>2. Without(s, O) = <<>>
    BY <1>1, <1>3, <1>5, <1>7, <2>1 DEF Pared
  <2>3. \A i \in 1..Len(s) : s[i] \in O
    BY <2>1, <2>2, NothingLeft
  <2>4. Children(q, g) \subseteq O
    BY <2>1, <2>3 DEF Children, ToSet
  <2>5. g \in O
    BY <1>3, <1>4, <1>5, <1>7, <2>4 DEF Goners
  <2>6. PICK m \in DOMAIN r : g \in Kids(r)[m]
    BY <1>5, NoOrphan
  <2>7. m \in DOMAIN q /\ g \in Children(r, m)
    BY <1>5, <2>6 DEF Kids
  <2>8. PICK z : z = q[m].rules /\ z \in Seq(Nat) /\ ListOf(z, Kids(q)[m])
    BY <2>7 DEF Tree, WellFormed, Holds, QueryNode
  <2>9. g \in Kids(q)[m] /\ (m \in A => g \notin O)
    <3>1. CASE m \in A
      <4>1. r[m].rules = Without(z, O)
        BY <1>1, <1>3, <2>8, <3>1 DEF Pared
      <4>2. ListOf(Without(z, O), Kids(q)[m] \ O)
        BY <2>8, ListWithout
      <4>3. ToSet(Without(z, O)) = Kids(q)[m] \ O
        BY <4>2, ListFacts
      <4> QED  BY <2>7, <4>1, <4>3 DEF Children
    <3>2. CASE m \notin A
      <4>1. r[m].rules = z
        BY <1>1, <1>3, <2>8, <3>2 DEF Pared
      <4>2. ToSet(z) = Kids(q)[m]
        BY <2>8, ListFacts
      <4> QED  BY <2>7, <3>2, <4>1, <4>2 DEF Children
    <3> QED  BY <3>1, <3>2
  <2>10. n \in Under(q, g) /\ g # n
    BY <1>3, <1>7 DEF Above
  <2>11. Below(DOMAIN q, Kids(q), g, Under(q, g)) /\ Below(DOMAIN q, Kids(q), m, Under(q, m))
    BY <1>5, <2>7, TreeUnder
  <2>12. m \notin Under(q, g)
    BY <1>5, <2>7, <2>9, <2>11, NotAbove
  <2>13. n \in Under(q, m) /\ n # m
    <3>1. g \in Under(q, m)
      BY <2>7, <2>9, <2>11 DEF Below, Hung
    <3>2. Under(q, g) \subseteq Under(q, m)
      BY <2>11, <3>1 DEF Below
    <3> QED  BY <2>10, <2>12, <3>2
  <2>14. m \in Groups(q)
    <3>1. Holds(q[m], Kids(q)[m])
      BY <2>7 DEF Tree, WellFormed
    <3>2. q[m].type = "rule" => z = <<>>
      BY <2>8, <3>1 DEF Holds
    <3>3. z # <<>>
      <4>1. ToSet(z) = Kids(q)[m]
        BY <2>8, ListFacts
      <4> QED  BY <2>9, <4>1 DEF ToSet
    <3>4. q[m].type \in {"rule", "group"}
      BY <3>1 DEF Holds, QueryNode
    <3> QED  BY <2>7, <3>2, <3>3, <3>4 DEF IsGroup, Groups
  <2>15. m \in A
    BY <1>3, <2>13, <2>14 DEF Above
  <2> QED  BY <2>5, <2>9, <2>15
<1> QED  BY <1>6, <1>7

(* What is beneath a child is beneath its parent, and is not its parent.   *)
LEMMA ChildBeneath ==
  ASSUME NEW q, Tree(q), NEW g \in DOMAIN q, NEW c \in Children(q, g)
  PROVE  c \in DOMAIN q /\ Under(q, c) \subseteq Under(q, g) \ {g, Root}
<1>1. Arbor(DOMAIN q, Kids(q)) /\ c \in Kids(q)[g]
  BY DEF Tree, Kids
<1>2. c \in DOMAIN q
  BY <1>1 DEF Arbor
<1>3. Below(DOMAIN q, Kids(q), c, Under(q, c)) /\ Below(DOMAIN q, Kids(q), g, Under(q, g))
  BY <1>2, TreeUnder
<1>4. Root \notin Under(q, c) /\ g \notin Under(q, c)
  BY <1>1, <1>3, NotAbove
<1>5. c \in Under(q, g)
  BY <1>1, <1>3 DEF Below, Hung
<1>6. Under(q, c) \subseteq Under(q, g)
  BY <1>3, <1>5 DEF Below
<1> QED  BY <1>2, <1>4, <1>6

(* The members of a list of a tree, and what they are a list of.           *)
LEMMA MembersOfGroups ==
  ASSUME NEW q, NEW w, NEW D, NEW G, NEW R, NEW F, Reads(q, w, D, G, R, F), NEW g \in G
  PROVE  R[g] \in Seq(Children(q, g)) /\ Children(q, g) \subseteq D
<1>1. PICK s \in Seq(D) : s = R[g] /\ s = q[g].rules /\ Len(s) \in Nat
  BY DEF Reads
<1>2. DOMAIN s = 1..Len(s) /\ \A i \in 1..Len(s) : s[i] \in D
  BY <1>1, LenProperties
<1>3. \A i \in 1..Len(s) : s[i] \in Children(q, g)
  BY <1>1, <1>2 DEF Children, ToSet
<1>4. Children(q, g) \subseteq D
  BY <1>1, <1>2 DEF Children, ToSet
<1>5. s \in Seq(Children(q, g))
  BY <1>1, <1>3, OverMembers
<1> QED  BY <1>1, <1>4, <1>5

(* The survivors of a node are beneath it, and those of the members of a   *)
(* group beneath the group and not itself.                                 *)
LEMMA SurvivorsBeneath ==
  ASSUME NEW q, Tree(q), NEW w, NEW D, NEW G, NEW R, NEW F, Reads(q, w, D, G, R, F),
         NEW sv, Survivors(q, sv)
  PROVE  /\ \A x \in D : sv[x] \in Seq(Under(q, x))
         /\ \A g \in G : Along(R[g], sv) \in Seq(Under(q, g) \ {g, Root})
<1> DEFINE P == {x \in D : sv[x] \in Seq(Under(q, x))}
<1>0. /\ D = DOMAIN q /\ G = Groups(q) /\ G \subseteq D
      /\ Ordered(D, G, R, w, Cardinality(G))
      /\ \A g \in G : R[g] = q[g].rules /\ R[g] \in Seq(D) /\ Len(R[g]) \in Nat
  BY DEF Reads
<1>1. /\ sv \in [D -> Seq(D)]
      /\ \A m \in D \ G : sv[m] = <<m>>
      /\ \A g \in G : sv[g] = Collapsed(q, g, Along(R[g], sv))
  BY <1>0 DEF Survivors
<1>2. \A x \in D : x \in Under(q, x)
  BY <1>0, TreeUnder DEF Below
<1>3. \A x \in D : <<x>> \in Seq(Under(q, x))
  BY <1>2
<1>4. \A m \in D \ G : m \in P
  BY <1>1, <1>3
<1>5. ASSUME NEW g \in G, \A i \in 1..Len(R[g]) : R[g][i] \in P
      PROVE  Along(R[g], sv) \in Seq(Under(q, g) \ {g, Root})
  <2>1. PICK V : V = Under(q, g) \ {g, Root}
    OBVIOUS
  <2>2. PICK E : E = P \cap Children(q, g)
    OBVIOUS
  <2>3. R[g] \in Seq(Children(q, g)) /\ g \in D
    BY <1>0, MembersOfGroups
  <2>4. ASSUME NEW c \in E
        PROVE  sv[c] \in Seq(V)
    <3>1. Under(q, c) \subseteq V
      BY <1>0, <2>1, <2>2, <2>3, ChildBeneath
    <3>2. PICK W : W = Under(q, c)
      OBVIOUS
    <3>3. sv[c] \in Seq(W)
      BY <2>2, <3>2
    <3> QED  BY <3>1, <3>2, <3>3
  <2>5. R[g] \in Seq(E)
    <3>1. \A i \in 1..Len(R[g]) : R[g][i] \in E
      <4>1. \A i \in 1..Len(R[g]) : R[g][i] \in Children(q, g)
        BY <2>3, LenProperties
      <4> HIDE DEF P
      <4> QED  BY <1>5, <2>2, <4>1
    <3> HIDE DEF P
    <3>2. PICK s : s = R[g]
      OBVIOUS
    <3> QED  BY <1>0, <3>1, <3>2, OverMembers
  <2>6. GivesLists(sv, E, V)
    BY <2>4 DEF GivesLists
  <2> QED  BY <2>1, <2>5, <2>6, AlongIsList
<1>6. ASSUME NEW g \in G, \A i \in 1..Len(R[g]) : R[g][i] \in P
      PROVE  g \in P
  <2>1. PICK a : a = Along(R[g], sv)
    OBVIOUS
  <2>2. a \in Seq(Under(q, g) \ {g, Root})
    BY <1>5, <1>6, <2>1
  <2>3. PICK U, V : U = Under(q, g) /\ V = U \ {g, Root}
    OBVIOUS
  <2>4. a \in Seq(U) /\ <<g>> \in Seq(U) /\ <<>> \in Seq(U)
    <3>1. a \in Seq(V) /\ V \subseteq U
      BY <2>2, <2>3
    <3>2. a \in Seq(U)
      BY <3>1
    <3> QED  BY <1>0, <1>3, <2>3, <3>2, EmptySeq
  <2>5. sv[g] = Collapsed(q, g, a)
    BY <1>1, <2>1
  <2>6. sv[g] \in Seq(U)
    BY <2>4, <2>5 DEF Collapsed
  <2> QED  BY <1>0, <2>3, <2>6
<1>7. \A m \in D : m \in P
  <2> HIDE DEF P
  <2>1. Ordered(D, G, R, w, Cardinality(G))
    BY <1>0
  <2>2. Rises(D, G, R, P)
    <3>1. \A m \in D \ G : m \in P
      BY <1>4
    <3>2. \A g \in G : (\A i \in 1..Len(R[g]) : R[g][i] \in P) => g \in P
      BY <1>6
    <3> QED  BY <3>1, <3>2 DEF Rises
  <2> QED  BY <2>1, <2>2, ByRank
<1>8. ASSUME NEW g \in G
      PROVE  Along(R[g], sv) \in Seq(Under(q, g) \ {g, Root})
  <2>1. \A i \in 1..Len(R[g]) : R[g][i] \in P
    <3>1. \A i \in 1..Len(R[g]) : R[g][i] \in D
      BY <1>0, LenProperties
    <3> HIDE DEF P
    <3> QED  BY <1>7, <3>1
  <2> QED  BY <1>5, <2>1
<1> QED  BY <1>7, <1>8

(* A survivor survives itself.                                             *)
LEMMA SurvivorsSurvive ==
  ASSUME NEW q, NEW w, NEW D, NEW G, NEW R, NEW F, Reads(q, w, D, G, R, F),
         NEW sv, Survivors(q, sv), NEW Z, Z = {z \in D : sv[z] = <<z>>}
  PROVE  \A x \in D : sv[x] \in Seq(Z)
<1> DEFINE P == {x \in D : sv[x] \in Seq(Z)}
<1>0. /\ D = DOMAIN q /\ G = Groups(q) /\ G \subseteq D
      /\ Ordered(D, G, R, w, Cardinality(G))
      /\ \A g \in G : R[g] = q[g].rules /\ R[g] \in Seq(D) /\ Len(R[g]) \in Nat
  BY DEF Reads
<1>1. /\ \A m \in D \ G : sv[m] = <<m>>
      /\ \A g \in G : sv[g] = Collapsed(q, g, Along(R[g], sv))
  BY <1>0 DEF Survivors
<1>2. \A z \in Z : <<z>> \in Seq(Z)
  OBVIOUS
<1>3. ASSUME NEW m \in D \ G
      PROVE  m \in P
  <2>1. sv[m] = <<m>>
    BY <1>1
  <2>2. m \in Z
    BY <2>1
  <2>3. sv[m] \in Seq(Z)
    BY <1>2, <2>1, <2>2
  <2> QED  BY <2>3
<1>4. ASSUME NEW g \in G, \A i \in 1..Len(R[g]) : R[g][i] \in P
      PROVE  g \in P
  <2>1. GivesLists(sv, P, Z)
    BY DEF GivesLists
  <2>2. R[g] \in Seq(P)
    <3> HIDE DEF P
    <3>1. PICK s : s = R[g]
      OBVIOUS
    <3> QED  BY <1>0, <1>4, <3>1, OverMembers
  <2>3. PICK a \in Seq(Z) : a = Along(R[g], sv)
    <3> HIDE DEF P
    <3> QED  BY <2>1, <2>2, AlongIsList
  <2>4. sv[g] = Collapsed(q, g, a) /\ g \in D
    BY <1>0, <1>1, <2>3
  <2>5. sv[g] \in Seq(Z)
    <3>1. CASE sv[g] = <<g>>
      <4>1. g \in Z
        BY <2>4, <3>1
      <4> QED  BY <1>2, <3>1, <4>1
    <3>2. CASE sv[g] # <<g>>
      BY <2>3, <2>4, <3>2, EmptySeq DEF Collapsed
    <3> QED  BY <3>1, <3>2
  <2> QED  BY <2>4, <2>5
<1>5. \A m \in D : m \in P
  <2> HIDE DEF P
  <2>1. Ordered(D, G, R, w, Cardinality(G))
    BY <1>0
  <2>2. Rises(D, G, R, P)
    <3>1. \A m \in D \ G : m \in P
      BY <1>3
    <3>2. \A g \in G : (\A i \in 1..Len(R[g]) : R[g][i] \in P) => g \in P
      BY <1>4
    <3> QED  BY <3>1, <3>2 DEF Rises
  <2> QED  BY <2>1, <2>2, ByRank
<1> QED  BY <1>5

(* Reading the survivors of a node is reading the node.                    *)
LEMMA SurvivorsRead ==
  ASSUME NEW q, NEW w, NEW D, NEW G, NEW R, NEW F, Reads(q, w, D, G, R, F),
         NEW sv, Survivors(q, sv)
  PROVE  \A x \in D : Along(sv[x], F) = F[x]
<1> DEFINE P == {x \in D : Along(sv[x], F) = F[x]}
<1>0. /\ D = DOMAIN q /\ G = Groups(q) /\ G \subseteq D
      /\ Ordered(D, G, R, w, Cardinality(G))
      /\ \A g \in G : R[g] = q[g].rules /\ R[g] \in Seq(D) /\ Len(R[g]) \in Nat
      /\ GivesLists(F, D, D)
      /\ \A g \in G : F[g] = Along(R[g], F)
  BY DEF Reads
<1>1. /\ \A m \in D \ G : sv[m] = <<m>>
      /\ \A g \in G : sv[g] = Collapsed(q, g, Along(R[g], sv))
      /\ GivesLists(sv, D, D)
  BY <1>0 DEF Survivors, GivesLists
<1>2. \A x \in D : Along(<<x>>, F) = F[x]
  <2>1. GivesLists(F, D, D)
    BY <1>0
  <2> HIDE DEF P
  <2> QED  BY <2>1, AlongOne
<1>3. \A m \in D \ G : m \in P
  BY <1>1, <1>2
<1>4. ASSUME NEW g \in G, \A i \in 1..Len(R[g]) : R[g][i] \in P
      PROVE  g \in P
  <2>0. g \in D
    BY <1>0
  <2>1. PICK s \in Seq(D) : s = R[g] /\ Len(s) \in Nat
    BY <1>0
  <2>2. \A x \in P : F[x] = Along(sv[x], F)
    OBVIOUS
  <2>3. P \subseteq D
    OBVIOUS
  <2> HIDE DEF P
  <2>4. s \in Seq(P)
    BY <1>4, <2>1, OverMembers
  <2>5. GivesLists(sv, P, D)
    BY <1>1, <2>3 DEF GivesLists
  <2>6. Along(Along(s, sv), F) = Along(s, F)
    BY <1>0, <2>2, <2>4, <2>5, AlongTwice
  <2>7. PICK a : a = Along(s, sv)
    OBVIOUS
  <2>8. Along(a, F) = F[g] /\ sv[g] = Collapsed(q, g, a)
    BY <1>0, <1>1, <2>1, <2>6, <2>7
  <2>9. Along(sv[g], F) = F[g]
    <3>1. CASE sv[g] = <<g>>
      BY <1>2, <2>0, <3>1
    <3>2. CASE sv[g] # <<g>>
      <4>1. sv[g] = a
        BY <2>8, <3>2 DEF Collapsed
      <4> QED  BY <2>8, <4>1
    <3> QED  BY <3>1, <3>2
  <2> QED  BY <2>0, <2>9 DEF P
<1>5. \A m \in D : m \in P
  <2> HIDE DEF P
  <2>1. Ordered(D, G, R, w, Cardinality(G))
    BY <1>0
  <2>2. Rises(D, G, R, P)
    <3>1. \A m \in D \ G : m \in P
      BY <1>3
    <3>2. \A g \in G : (\A i \in 1..Len(R[g]) : R[g][i] \in P) => g \in P
      BY <1>4
    <3> QED  BY <3>1, <3>2 DEF Rises
  <2> QED  BY <2>1, <2>2, ByRank
<1> QED  BY <1>5

(* What is left of a query when each group has the survivors of its        *)
(* members.                                                                *)
Shrunk(q, r, D, G, R, sv, E) ==
  /\ E = DOMAIN r /\ E \subseteq D /\ Root \in E
  /\ AFunction(r)
  /\ Groups(r) = G \cap E
  /\ \A g \in G \cap E : r[g].rules = Along(R[g], sv)
  /\ \A m \in E \ G : r[m].rules = <<>>
  /\ \A m \in E : r[m] \in QueryNode /\ Children(r, m) \subseteq E
  /\ Below(E, Kids(r), Root, E) /\ Under(r, Root) = E

LEMMA PruningShrinks ==
  ASSUME NEW q, Tree(q), NEW w, NEW D, NEW G, NEW R, NEW F, Reads(q, w, D, G, R, F),
         NEW sv, Survivors(q, sv), NEW r, r = Kept(Collapse(q, sv))
  PROVE  Shrunk(q, r, D, G, R, sv, DOMAIN r)
<1> DEFINE c == Collapse(q, sv)
           E == DOMAIN r
<1>0. /\ D = DOMAIN q /\ G = Groups(q) /\ G \subseteq D
      /\ \A g \in G : R[g] = q[g].rules /\ R[g] \in Seq(D)
      /\ Root \in D /\ D \subseteq Nat
      /\ \A m \in D : q[m] \in QueryNode /\ (q[m].type = "rule" => q[m].rules = <<>>)
  <2>1. Root \in DOMAIN q /\ DOMAIN q \subseteq Nat
    BY DEF Tree, Arbor, WellFormed
  <2>2. \A m \in DOMAIN q : q[m] \in QueryNode /\ (q[m].type = "rule" => q[m].rules = <<>>)
    BY DEF Tree, WellFormed, Holds
  <2> QED  BY <2>1, <2>2 DEF Reads
<1>1. GivesLists(sv, D, D)
  BY <1>0 DEF Survivors, GivesLists
<1>2. ASSUME NEW m \in D
      PROVE  /\ c[m] \in QueryNode /\ c[m].type = q[m].type
             /\ c[m].rules = Along(q[m].rules, sv) /\ c[m].rules \in Seq(D)
             /\ m \notin G => c[m].rules = <<>>
  <2>1. c[m] = [q[m] EXCEPT !.rules = Along(q[m].rules, sv)]
    BY <1>0 DEF Collapse
  <2>2. q[m].rules \in Seq(D) /\ (m \notin G => q[m].rules = <<>>)
    <3>1. CASE m \in G
      BY <1>0, <3>1
    <3>2. CASE m \notin G
      <4>1. q[m].type = "rule"
        BY <1>0, <3>2 DEF Groups, IsGroup, QueryNode
      <4> QED  BY <1>0, <3>2, <4>1, EmptySeq
    <3> QED  BY <3>1, <3>2
  <2>3. PICK a : a = Along(q[m].rules, sv)
    OBVIOUS
  <2>4. a \in Seq(D)
    <3>1. PICK s \in Seq(D) : s = q[m].rules
      BY <2>2
    <3> QED  BY <1>1, <2>3, <3>1, AlongIsList
  <2>5. a \in Seq(Nat)
    BY <1>0, <2>4
  <2>6. m \notin G => a = <<>>
    BY <2>2, <2>3, AlongNone
  <2>7. q[m] \in QueryNode /\ c[m] = [q[m] EXCEPT !.rules = a]
    BY <1>0, <2>1, <2>3
  <2>8. c[m] \in QueryNode /\ c[m].type = q[m].type /\ c[m].rules = a
    BY <2>5, <2>7 DEF QueryNode
  <2> QED  BY <2>3, <2>4, <2>6, <2>8
<1>3. DOMAIN c = D
  BY <1>0 DEF Collapse
<1> HIDE DEF c
<1>4. \A m \in D : Children(c, m) \subseteq D
  <2>1. ASSUME NEW m \in D
        PROVE  Children(c, m) \subseteq D
    <3>1. PICK s \in Seq(D) : s = c[m].rules
      BY <1>2
    <3>2. DOMAIN s = 1..Len(s) /\ \A i \in 1..Len(s) : s[i] \in D
      BY LenProperties
    <3> QED  BY <3>1, <3>2 DEF Children, ToSet
  <2> QED  BY <2>1
<1>5. Below(D, Kids(c), Root, Under(c, Root))
  BY <1>0, <1>3, <1>4, ChildrenBelow
<1>6. E = Under(c, Root) /\ AFunction(r) /\ \A m \in E : r[m] = c[m]
  BY DEF Kept, Restrict, AFunction, c
<1>7. E \subseteq D /\ Root \in E
  BY <1>5, <1>6 DEF Below
<1>8. \A m \in E : Kids(c)[m] = Children(c, m) /\ Kids(r)[m] = Children(c, m)
  BY <1>3, <1>6, <1>7 DEF Kids, Children
<1>9. \A m \in E : Children(r, m) = Children(c, m) /\ Children(c, m) \subseteq E
  <2>1. \A m \in E : Children(r, m) = Children(c, m)
    BY <1>6 DEF Children
  <2>2. \A m \in E : Kids(c)[m] \subseteq E
    BY <1>5, <1>6 DEF Below, Hung
  <2> QED  BY <1>8, <2>1, <2>2
<1>10. Below(E, Kids(r), Root, E)
  <2>1. ASSUME NEW S \in SUBSET E, Root \in S, Hung(Kids(r), S)
        PROVE  E \subseteq S
    <3>1. Hung(Kids(c), S) /\ S \in SUBSET D
      BY <1>7, <1>8, <2>1 DEF Hung
    <3> QED  BY <1>5, <1>6, <2>1, <3>1 DEF Below
  <2>2. Hung(Kids(r), E)
    BY <1>8, <1>9 DEF Hung
  <2> QED  BY <1>7, <2>1, <2>2 DEF Below
<1>11. Under(r, Root) = E
  <2>1. \A m \in DOMAIN r : Children(r, m) \subseteq DOMAIN r
    BY <1>9
  <2>2. Below(E, Kids(r), Root, Under(r, Root))
    BY <1>7, <2>1, ChildrenBelow
  <2> QED  BY <1>10, <2>2 DEF Below
<1>12. Groups(r) = G \cap E
  BY <1>0, <1>2, <1>6, <1>7 DEF Groups, IsGroup
<1>13. \A g \in G \cap E : r[g].rules = Along(R[g], sv)
  BY ZenonT(30), <1>0, <1>2, <1>6
<1>14. \A m \in E \ G : r[m].rules = <<>>
  BY <1>2, <1>6, <1>7
<1>15. \A m \in E : r[m] \in QueryNode
  BY <1>2, <1>6, <1>7
<1> QED  BY <1>6, <1>7, <1>9, <1>10, <1>11, <1>12, <1>13, <1>14, <1>15 DEF Shrunk

(* The members of what is left of a group are beneath it, and survivors.   *)
Remain(q, r, G, R, sv, E, Z) ==
  /\ \A g \in G : Along(R[g], sv) \in Seq(Z)
  /\ \A g \in G \cap E : r[g].rules \in Seq(E)
  /\ \A g \in G \cap E : \A c \in Children(r, g) :
       c \in Z /\ c # Root /\ c # g /\ c \in Under(q, g)
  /\ \A m \in E \ {Root} : m \in Z

LEMMA ShrunkMembers ==
  ASSUME NEW q, Tree(q), NEW w, NEW D, NEW G, NEW R, NEW F, Reads(q, w, D, G, R, F),
         NEW sv, Survivors(q, sv), NEW r, NEW E, Shrunk(q, r, D, G, R, sv, E),
         NEW Z, Z = {z \in D : sv[z] = <<z>>}
  PROVE  Remain(q, r, G, R, sv, E, Z)
<1>0. /\ D = DOMAIN q /\ G = Groups(q) /\ G \subseteq D
      /\ \A g \in G : R[g] = q[g].rules /\ R[g] \in Seq(D)
  BY DEF Reads
<1>1. ASSUME NEW g \in G
      PROVE  /\ Along(R[g], sv) \in Seq(Z) /\ Along(R[g], sv) \in Seq(Under(q, g) \ {g, Root})
  <2>1. Along(R[g], sv) \in Seq(Under(q, g) \ {g, Root})
    BY SurvivorsBeneath
  <2>2. \A x \in D : sv[x] \in Seq(Z)
    BY SurvivorsSurvive
  <2>3. GivesLists(sv, D, Z)
    BY <2>2 DEF GivesLists
  <2>4. PICK s \in Seq(D) : s = R[g]
    BY <1>0
  <2>5. Along(s, sv) \in Seq(Z)
    BY <2>3, <2>4, AlongIsList
  <2> QED  BY <2>1, <2>4, <2>5
<1>2. ASSUME NEW g \in G \cap E
      PROVE  /\ r[g].rules \in Seq(E)
             /\ \A c \in Children(r, g) : c \in Z /\ c # Root /\ c # g /\ c \in Under(q, g)
  <2>1. PICK s : s = r[g].rules
    OBVIOUS
  <2>2. PICK V : V = Under(q, g) \ {g, Root}
    OBVIOUS
  <2>3. s \in Seq(Z) /\ s \in Seq(V)
    BY <1>1, <2>1, <2>2 DEF Shrunk
  <2>4. DOMAIN s = 1..Len(s) /\ Len(s) \in Nat /\ \A i \in 1..Len(s) : s[i] \in Z /\ s[i] \in V
    BY <2>3, LenProperties
  <2>5. Children(r, g) = {s[i] : i \in 1..Len(s)}
    BY <2>1, <2>4 DEF Children, ToSet
  <2>6. \A i \in 1..Len(s) : s[i] \in E
    BY <2>5 DEF Shrunk
  <2>7. s \in Seq(E)
    BY <2>3, <2>6, OverMembers
  <2> QED  BY <2>1, <2>2, <2>4, <2>5, <2>7
<1>3. \A m \in E \ {Root} : m \in Z
  <2>1. Below(E, Kids(r), Root, E) /\ Root \in E /\ E = DOMAIN r
    BY DEF Shrunk
  <2>2. ASSUME NEW m \in E, NEW c \in Kids(r)[m]
        PROVE  c \in E /\ c \in Z
    <3>1. c \in Children(r, m)
      BY <2>1 DEF Kids
    <3>2. m \in G
      <4>1. m \notin G => r[m].rules = <<>>
        BY DEF Shrunk
      <4>2. r[m].rules # <<>>
        BY <3>1 DEF Children, ToSet
      <4> QED  BY <4>1, <4>2
    <3>3. c \in E
      BY <3>1 DEF Shrunk
    <3> QED  BY <1>2, <3>1, <3>2, <3>3
  <2>3. PICK S : S = {Root} \cup (E \cap Z)
    OBVIOUS
  <2>4. Hung(Kids(r), S) /\ S \in SUBSET E /\ Root \in S
    BY <2>1, <2>2, <2>3 DEF Hung
  <2>5. E \subseteq S
    BY <2>1, <2>4 DEF Below
  <2> QED  BY <2>3, <2>5
<1> QED  BY <1>1, <1>2, <1>3 DEF Remain

(* Two nodes are not beneath each other.                                   *)
LEMMA NotBothWays ==
  ASSUME NEW q, Tree(q), NEW g \in DOMAIN q, NEW c \in Under(q, g), c # g
  PROVE  g \notin Under(q, c)
<1> DEFINE D == DOMAIN q
           U == Under(q, g)
           V == {g} \cup {x \in U : g \notin Under(q, x)}
<1>1. Below(D, Kids(q), g, U) /\ U \subseteq D
  BY TreeUnder DEF Below
<1>2. ASSUME NEW x \in V, NEW y \in Kids(q)[x]
      PROVE  y \in V
  <2>1. x \in D /\ x \in U
    BY <1>1 DEF Below
  <2>2. y \in U /\ y \in Children(q, x)
    BY <1>1, <2>1 DEF Below, Hung, Kids
  <2>3. Under(q, y) \subseteq Under(q, x) \ {x, Root}
    BY <2>1, <2>2, ChildBeneath
  <2>4. g \notin Under(q, y)
    <3>1. CASE x = g
      BY <2>3, <3>1
    <3>2. CASE x # g
      BY <2>3, <3>2
    <3> QED  BY <3>1, <3>2
  <2> QED  BY <2>2, <2>4
<1>3. g \in V /\ V \in SUBSET D /\ Hung(Kids(q), V)
  BY <1>1, <1>2 DEF Hung, Below
<1>4. U \subseteq V
  BY <1>1, <1>3 DEF Below
<1> QED  BY <1>4

(* What is left of a query is such an order too.                           *)
LEMMA ShrunkIsRanked ==
  ASSUME NEW q, Tree(q), IsFiniteSet(DOMAIN q),
         NEW w, NEW D, NEW G, NEW R, NEW F, Reads(q, w, D, G, R, F),
         NEW sv, Survivors(q, sv), NEW r, NEW E, Shrunk(q, r, D, G, R, sv, E)
  PROVE  \E v : Ranked(r, v)
<1> DEFINE L == Groups(r)
           T == RulesOf(r)
           In(m) == L \cap Under(q, m)
           v == [m \in E |-> Cardinality(In(m))]
<1>0. /\ D = DOMAIN q /\ G = Groups(q) /\ G \subseteq D
      /\ E = DOMAIN r /\ E \subseteq D /\ L = G \cap E
      /\ \A m \in E : Children(r, m) \subseteq E
  BY DEF Reads, Shrunk
<1>1. PICK Z : Z = {z \in D : sv[z] = <<z>>}
  OBVIOUS
<1>2. /\ \A g \in L : r[g].rules \in Seq(E)
      /\ \A g \in L : \A c \in Children(r, g) : c # g /\ c \in Under(q, g)
  <2>1. Remain(q, r, G, R, sv, E, Z)
    BY <1>1, ShrunkMembers
  <2> HIDE DEF L
  <2> QED  BY <1>0, <2>1 DEF Remain
<1>3. IsFiniteSet(L) /\ Cardinality(L) \in Nat
  <2>1. L \subseteq DOMAIN q
    BY <1>0
  <2> QED  BY <2>1, FS_Subset, FS_CardinalityType
<1> HIDE DEF L
<1>4. ASSUME NEW m \in D
      PROVE  /\ IsFiniteSet(In(m)) /\ Cardinality(In(m)) \in 0..Cardinality(L)
             /\ Cardinality(In(m)) \in Nat
  <2>1. PICK A : A = In(m)
    OBVIOUS
  <2>2. A \subseteq L
    BY <2>1
  <2>3. IsFiniteSet(A) /\ Cardinality(A) <= Cardinality(L) /\ Cardinality(A) \in Nat
    BY <1>3, <2>2, FS_Subset, FS_CardinalityType
  <2> HIDE DEF In
  <2> QED  BY <1>3, <2>1, <2>3
<1>5. ASSUME NEW g \in L, NEW c \in Children(r, g)
      PROVE  c \in E /\ Cardinality(In(c)) < Cardinality(In(g))
  <2>0. g \in D /\ c \in E /\ c \in D
    BY <1>0
  <2>1. c # g /\ c \in Under(q, g)
    BY <1>2
  <2>2. Below(D, Kids(q), g, Under(q, g)) /\ Below(D, Kids(q), c, Under(q, c))
    BY <1>0, <2>0, TreeUnder
  <2>3. Under(q, c) \subseteq Under(q, g) /\ g \in Under(q, g)
    BY <2>1, <2>2 DEF Below
  <2>4. g \notin Under(q, c)
    BY <1>0, <2>0, <2>1, NotBothWays
  <2>5. In(c) \subseteq In(g) /\ In(c) # In(g)
    BY <2>3, <2>4
  <2>6. PICK A, B : A = In(c) /\ B = In(g)
    OBVIOUS
  <2>7. IsFiniteSet(A) /\ IsFiniteSet(B) /\ Cardinality(A) \in Nat /\ Cardinality(B) \in Nat
    <3> HIDE DEF In
    <3> QED  BY <1>4, <2>0, <2>6
  <2>8. A \subseteq B /\ A # B
    BY <2>5, <2>6
  <2>9. Cardinality(A) <= Cardinality(B) /\ (Cardinality(B) = Cardinality(A) => B = A)
    BY <2>7, <2>8, FS_Subset
  <2> HIDE DEF In
  <2>10. Cardinality(A) < Cardinality(B)
    BY <2>7, <2>8, <2>9
  <2> QED  BY <2>0, <2>6, <2>10
<1>6. ASSUME NEW g \in L
      PROVE  /\ T[g] \in Seq(E) /\ v[g] >= 1
             /\ \A i \in 1..Len(T[g]) : v[T[g][i]] < v[g]
  <2>0. g \in E /\ g \in D
    BY <1>0
  <2>1. PICK s : s = r[g].rules /\ s = T[g]
    BY <1>0, <2>0 DEF RulesOf
  <2>2. s \in Seq(E)
    BY <1>2, <2>1
  <2>3. DOMAIN s = 1..Len(s)
    BY <2>2, LenProperties
  <2>4. \A i \in 1..Len(s) : s[i] \in Children(r, g)
    BY <2>1, <2>3 DEF Children, ToSet
  <2>5. v[g] >= 1
    <3>1. g \in In(g)
      BY <1>0, <2>0, TreeUnder DEF Below
    <3>2. In(g) # {} /\ IsFiniteSet(In(g))
      BY <1>4, <2>0, <3>1
    <3>3. Cardinality(In(g)) # 0 /\ Cardinality(In(g)) \in Nat
      <4> HIDE DEF In
      <4> QED  BY <1>4, <2>0, <3>2, FS_EmptySet
    <3> HIDE DEF In
    <3> QED  BY <2>0, <3>3
  <2>6. \A i \in 1..Len(s) : v[s[i]] < v[g]
    <3> HIDE DEF In
    <3> QED  BY <1>5, <2>0, <2>4
  <2> QED  BY <2>1, <2>2, <2>5, <2>6
<1>7. v \in [E -> 0..Cardinality(L)]
  <2> HIDE DEF In
  <2> QED  BY <1>0, <1>4
<1>8. L \subseteq E
  BY <1>0
<1> HIDE DEF v, T
<1>9. Ordered(E, L, T, v, Cardinality(L))
  BY <1>3, <1>6, <1>7, <1>8 DEF Ordered
<1> QED  BY <1>0, <1>9 DEF Ranked, L, T

(* Pruning keeps the conditions in order.                                  *)
LEMMA PrunedReadsTheSame ==
  ASSUME NEW q, Tree(q), NEW w, NEW D, NEW G, NEW R, NEW F, Reads(q, w, D, G, R, F),
         NEW sv, Survivors(q, sv), NEW r, NEW E, Shrunk(q, r, D, G, R, sv, E),
         NEW v, Ranked(r, v)
  PROVE  Flatten(r, Root) = Flatten(q, Root)
<1>1. PICK X, L, T, H : Reads(r, v, X, L, T, H)
  BY RankedReads
<1>2. X = E /\ E \subseteq D /\ L = G \cap E /\ Root \in E
  BY <1>1 DEF Reads, Shrunk
<1> DEFINE P == {m \in E : H[m] = F[m]}
<1>3. \A m \in X \ L : m \in P
  BY <1>1, <1>2 DEF Reads
<1>4. ASSUME NEW g \in L, \A i \in 1..Len(T[g]) : T[g][i] \in P
      PROVE  g \in P
  <2>0. g \in E /\ g \in G /\ g \in D
    BY <1>2
  <2>1. PICK t \in Seq(E) : t = T[g] /\ t = r[g].rules /\ Len(t) \in Nat
    BY <1>1, <1>2 DEF Reads
  <2>2. PICK s \in Seq(D) : s = R[g]
    BY <2>0 DEF Reads
  <2>3. t = Along(s, sv)
    BY <1>2, <2>0, <2>1, <2>2 DEF Shrunk
  <2>4. \A x \in P : H[x] = F[x]
    OBVIOUS
  <2>5. \A i \in 1..Len(t) : t[i] \in P
    BY <1>4, <2>1
  <2> HIDE DEF P
  <2>6. t \in Seq(P)
    BY <2>1, <2>5, OverMembers
  <2>7. Along(t, H) = Along(t, F)
    BY <2>4, <2>6, AlongAgree
  <2>8. GivesLists(sv, D, D)
    BY DEF Survivors, Reads, GivesLists
  <2>9. GivesLists(F, D, D)
    BY DEF Reads
  <2>10. \A x \in D : F[x] = Along(sv[x], F)
    BY SurvivorsRead
  <2>11. Along(Along(s, sv), F) = Along(s, F)
    BY <2>8, <2>9, <2>10, AlongTwice
  <2>12. H[g] = Along(t, H) /\ F[g] = Along(s, F)
    BY <1>1, <2>0, <2>1, <2>2 DEF Reads
  <2> QED  BY <2>0, <2>3, <2>7, <2>11, <2>12 DEF P
<1>5. \A m \in X : m \in P
  <2> HIDE DEF P
  <2>1. Ordered(X, L, T, v, Cardinality(L))
    BY <1>1 DEF Reads
  <2>2. Rises(X, L, T, P)
    <3>1. \A m \in X \ L : m \in P
      BY <1>3
    <3>2. \A g \in L : (\A i \in 1..Len(T[g]) : T[g][i] \in P) => g \in P
      BY <1>4
    <3> QED  BY <3>1, <3>2 DEF Rises
  <2> QED  BY <2>1, <2>2, ByRank
<1>6. H[Root] = F[Root]
  BY <1>2, <1>5
<1> QED  BY <1>1, <1>2, <1>6 DEF Reads

(* There is nothing left to prune.                                         *)
LEMMA PruningSettles ==
  ASSUME NEW q, Tree(q), NEW w, NEW D, NEW G, NEW R, NEW F, Reads(q, w, D, G, R, F),
         NEW sv, Survivors(q, sv), NEW r, NEW E, Shrunk(q, r, D, G, R, sv, E),
         NEW v, Ranked(r, v)
  PROVE  PruneQuery(r) = r
<1>1. PICK X, L, T, H : Reads(r, v, X, L, T, H)
  BY RankedReads
<1>2. PICK tv : Survivors(r, tv) /\ PruneQuery(r) = Kept(Collapse(r, tv))
  BY PruneReads
<1>3. PICK Z : Z = {z \in D : sv[z] = <<z>>}
  OBVIOUS
<1>4. /\ X = E /\ E = DOMAIN r /\ E \subseteq D /\ L = G \cap E /\ Root \in E
      /\ L = Groups(r) /\ G = Groups(q) /\ D = DOMAIN q
      /\ Ordered(X, L, T, v, Cardinality(L))
      /\ \A g \in L : T[g] = r[g].rules /\ Len(T[g]) \in Nat
      /\ \A g \in L : r[g].rules = Along(R[g], sv)
  BY <1>1 DEF Reads, Shrunk
<1>5. /\ \A g \in L : r[g].rules \in Seq(E)
      /\ \A g \in L : \A c \in Children(r, g) : c # Root /\ c # g
      /\ \A m \in E \ {Root} : m \in Z
  <2>1. Remain(q, r, G, R, sv, E, Z)
    BY <1>3, ShrunkMembers
  <2> QED  BY <1>4, <2>1 DEF Remain
<1>6. ASSUME NEW g \in L
      PROVE  \A i \in 1..Len(T[g]) : T[g][i] \in E /\ T[g][i] # Root /\ T[g][i] # g
  <2>1. PICK t \in Seq(E) : t = T[g] /\ t = r[g].rules
    BY <1>4, <1>5
  <2>2. DOMAIN t = 1..Len(t) /\ \A i \in 1..Len(t) : t[i] \in E
    BY LenProperties
  <2>3. \A i \in 1..Len(t) : t[i] \in Children(r, g)
    BY <2>1, <2>2 DEF Children, ToSet
  <2> QED  BY <1>5, <2>1, <2>2, <2>3
<1> DEFINE S == {m \in E : m # Root /\ tv[m] = <<m>>}
           P == {m \in E : m # Root => m \in S}
<1>7. \A m \in X \ L : m \in P
  <2>1. \A m \in E \ L : tv[m] = <<m>>
    BY <1>2, <1>4 DEF Survivors
  <2> QED  BY <1>4, <2>1
<1>8. ASSUME NEW g \in L, \A i \in 1..Len(T[g]) : T[g][i] \in S
      PROVE  /\ Along(r[g].rules, tv) = r[g].rules
             /\ tv[g] = Collapsed(r, g, r[g].rules)
  <2>1. PICK t \in Seq(E) : t = T[g] /\ t = r[g].rules /\ Len(t) \in Nat
    BY <1>4, <1>5
  <2>2. \A x \in S : tv[x] = <<x>>
    OBVIOUS
  <2> HIDE DEF S
  <2>3. t \in Seq(S)
    BY <1>8, <2>1, OverMembers
  <2>4. Along(t, tv) = t
    BY <2>2, <2>3, AlongItself
  <2>5. tv[g] = Collapsed(r, g, Along(r[g].rules, tv))
    BY <1>2, <1>4 DEF Survivors
  <2> QED  BY <2>1, <2>4, <2>5
<1>9. ASSUME NEW g \in L, \A i \in 1..Len(T[g]) : T[g][i] \in P
      PROVE  g \in P
  <2>1. g \in E /\ g \in G
    BY <1>4
  <2>2. \A i \in 1..Len(T[g]) : T[g][i] \in S
    BY <1>6, <1>9
  <2>3. ASSUME g # Root
        PROVE  tv[g] = <<g>>
    <3>1. PICK t : t = r[g].rules /\ t = T[g]
      BY <1>4
    <3>2. tv[g] = Collapsed(r, g, t)
      BY <1>8, <2>2, <3>1
    <3>3. sv[g] = <<g>>
      BY <1>3, <1>5, <2>1, <2>3
    <3>4. sv[g] = Collapsed(q, g, t)
      <4>1. R[g] = q[g].rules
        BY <2>1 DEF Reads
      <4>2. t = Along(q[g].rules, sv)
        BY <1>4, <3>1, <4>1
      <4> QED  BY <1>4, <2>1, <4>2 DEF Survivors
    <3>5. t \in Seq(E) /\ Len(t) \in Nat
      BY <1>4, <1>5, <3>1
    <3>6. t # <<>> /\ (Len(t) = 1 => t # <<g>> /\ t[1] \in E)
      <4>1. t # <<>>
        BY <3>3, <3>4 DEF Collapsed
      <4>2. ASSUME Len(t) = 1
            PROVE  t[1] \in E /\ t[1] # g
        <5>1. 1 \in 1..Len(T[g])
          BY <3>1, <4>2
        <5> QED  BY <1>6, <3>1, <5>1
      <4> QED  BY <4>1, <4>2
    <3>7. ~(Len(t) = 1 /\ IsGroup(q, t[1]))
      <4> SUFFICES ASSUME Len(t) = 1, IsGroup(q, t[1])
                   PROVE  FALSE
        OBVIOUS
      <4>1. sv[g] = t
        BY <3>4, <3>6 DEF Collapsed
      <4> QED  BY <3>3, <3>6, <4>1
    <3>8. IsGroup(r, t[1]) => IsGroup(q, t[1])
      BY <1>4 DEF Groups, IsGroup
    <3> QED  BY <3>2, <3>6, <3>7, <3>8 DEF Collapsed
  <2> QED  BY <2>1, <2>3
<1>10. \A m \in X : m \in P
  <2> HIDE DEF P
  <2>1. Ordered(X, L, T, v, Cardinality(L))
    BY <1>4
  <2>2. Rises(X, L, T, P)
    <3>1. \A m \in X \ L : m \in P
      BY <1>7
    <3>2. \A g \in L : (\A i \in 1..Len(T[g]) : T[g][i] \in P) => g \in P
      BY <1>9
    <3> QED  BY <3>1, <3>2 DEF Rises
  <2> QED  BY <2>1, <2>2, ByRank
<1>11. ASSUME NEW m \in E
       PROVE  Along(r[m].rules, tv) = r[m].rules
  <2>1. CASE m \in L
    <3>1. \A i \in 1..Len(T[m]) : T[m][i] \in S
      BY <1>4, <1>6, <1>10, <2>1
    <3> QED  BY <1>8, <2>1, <3>1
  <2>2. CASE m \notin L
    <3>1. r[m].rules = <<>>
      BY <1>4, <2>2 DEF Shrunk
    <3> QED  BY <3>1, AlongNone
  <2> QED  BY <2>1, <2>2
<1>12. Collapse(r, tv) = r
  <2>1. ASSUME NEW m \in E
        PROVE  [r[m] EXCEPT !.rules = Along(r[m].rules, tv)] = r[m]
    <3>1. r[m] \in QueryNode
      BY DEF Shrunk
    <3>2. [r[m] EXCEPT !.rules = r[m].rules] = r[m]
      BY <3>1 DEF QueryNode
    <3> QED  BY <1>11, <3>2
  <2>2. r = [m \in E |-> r[m]]
    BY <1>4 DEF Shrunk, AFunction
  <2>3. Collapse(r, tv) = [m \in E |-> [r[m] EXCEPT !.rules = Along(r[m].rules, tv)]]
    BY <1>4 DEF Collapse
  <2> QED  BY <2>1, <2>2, <2>3
<1>13. Kept(r) = r
  BY <1>4 DEF Shrunk, AFunction, Kept, Restrict
<1> QED  BY <1>2, <1>12, <1>13

(* And no group but the root is empty or has a group for its only child.   *)
LEMMA PruningLeavesFull ==
  ASSUME NEW q, Tree(q), NEW w, NEW D, NEW G, NEW R, NEW F, Reads(q, w, D, G, R, F),
         NEW sv, Survivors(q, sv), NEW r, NEW E, Shrunk(q, r, D, G, R, sv, E),
         NEW g \in Groups(r) \ {Root}
  PROVE  ~(Len(r[g].rules) <= 1 /\ \A c \in Children(r, g) : IsGroup(r, c))
<1>1. PICK Z : Z = {z \in D : sv[z] = <<z>>}
  OBVIOUS
<1>2. /\ g \in G \cap E /\ g # Root /\ E = DOMAIN r /\ Groups(r) = G \cap E
      /\ D = DOMAIN q /\ G = Groups(q) /\ R[g] = q[g].rules
      /\ r[g].rules = Along(R[g], sv)
  BY DEF Reads, Shrunk
<1>3. /\ \A c \in Children(r, g) : c # g
      /\ r[g].rules \in Seq(E)
      /\ g \in Z
  <2>1. Remain(q, r, G, R, sv, E, Z)
    BY <1>1, ShrunkMembers
  <2> QED  BY <1>2, <2>1 DEF Remain
<1>4. PICK t \in Seq(E) : t = r[g].rules
  BY <1>3
<1>5. DOMAIN t = 1..Len(t) /\ Len(t) \in Nat
  BY LenProperties
<1>6. sv[g] = <<g>> /\ sv[g] = Collapsed(q, g, t)
  BY <1>1, <1>2, <1>3, <1>4 DEF Survivors
<1>7. t # <<>>
  <2>1. <<g>> # <<>>
    OBVIOUS
  <2> QED  BY <1>6, <2>1 DEF Collapsed
<1> SUFFICES ASSUME Len(t) <= 1, \A c \in Children(r, g) : IsGroup(r, c)
             PROVE  FALSE
  BY <1>4
<1>8. Len(t) = 1
  BY <1>5, <1>7, EmptySeq
<1>9. t[1] \in Children(r, g)
  BY <1>4, <1>5, <1>8 DEF Children, ToSet
<1>10. IsGroup(q, t[1])
  <2>1. t[1] \in Groups(r)
    BY <1>9 DEF Groups, IsGroup
  <2> QED  BY <1>2, <2>1 DEF Groups
<1>11. sv[g] = t
  BY <1>6, <1>7, <1>8, <1>10 DEF Collapsed
<1> QED  BY <1>3, <1>6, <1>9, <1>11
-----------------------------------------------------------------------------
(* The laws of the edits, of every query that is a tree. *)

LEMMA DropsKeepOrder ==
  ASSUME FilterInvariant, AFunction(query), IsFiniteSet(DOMAIN query)
  PROVE  DropsKeepTheOrder
<1> SUFFICES ASSUME NEW n \in DOMAIN query \ {Root}, NEW slot \in Slots(query, n)
             PROVE  /\ Flatten(MoveNodeTo(query, n, slot[1], slot[2]), n) = Flatten(query, n)
                    /\ Without(Flatten(MoveNodeTo(query, n, slot[1], slot[2]), Root),
                               Under(query, n))
                         = Without(Flatten(query, Root), Under(query, n))
  BY DEF DropsKeepTheOrder
<1>1. PICK p \in Groups(query) \ Under(query, n) :
        \E k \in 0..Len(query[p].rules) : slot = <<p, k>>
  BY DEF Slots
<1>2. PICK k \in 0..Len(query[p].rules) : slot = <<p, k>>
  BY <1>1
<1>3. PICK r : r = MoveNodeTo(query, n, p, k)
  OBVIOUS
<1>4. /\ Flatten(r, n) = Flatten(query, n)
      /\ Without(Flatten(r, Root), Under(query, n)) = Without(Flatten(query, Root), Under(query, n))
  BY <1>3, DropKeepsTheOrder DEF FilterInvariant
<1>5. slot[1] = p /\ slot[2] = k
  BY <1>2
<1> QED  BY <1>3, <1>4, <1>5

LEMMA RemovalsTake ==
  ASSUME FilterInvariant, IsFiniteSet(DOMAIN query)
  PROVE  RemovalsAreExact
<1> SUFFICES ASSUME NEW n \in DOMAIN query \ {Root}, NEW r, r = RemoveNode(query, n)
             PROVE  /\ Flatten(r, Root) = Without(Flatten(query, Root), Under(query, n))
                    /\ \A g \in Groups(r) \ {Root} :
                         r[g].rules = <<>> => query[g].rules = <<>>
  BY DEF RemovalsAreExact
<1>1. Tree(query)
  BY DEF FilterInvariant
<1>2. Flatten(r, Root) = Without(Flatten(query, Root), Under(query, n))
  BY <1>1, RemovalTakesItsOwn
<1>3. \A g \in Groups(r) \ {Root} : r[g].rules = <<>> => query[g].rules = <<>>
  BY <1>1, RemovalEmptiesNone
<1> QED  BY <1>2, <1>3

LEMMA PruningKeeps ==
  ASSUME FilterInvariant, IsFiniteSet(DOMAIN query)
  PROVE  PruningIsExact
<1>1. Tree(query)
  BY DEF FilterInvariant
<1>2. PICK w : Ranked(query, w)
  BY <1>1, TreeIsRanked
<1>3. PICK D, G, R, F : Reads(query, w, D, G, R, F)
  BY <1>2, RankedReads
<1>4. PICK sv : Survivors(query, sv) /\ PruneQuery(query) = Kept(Collapse(query, sv))
  BY <1>2, PruneReads
<1>5. PICK r : r = PruneQuery(query) /\ r = Kept(Collapse(query, sv))
  BY <1>4
<1>6. PICK E : E = DOMAIN r /\ Shrunk(query, r, D, G, R, sv, E)
  BY <1>1, <1>3, <1>4, <1>5, PruningShrinks
<1>7. PICK v : Ranked(r, v)
  BY <1>1, <1>3, <1>4, <1>6, ShrunkIsRanked
<1>8. Flatten(r, Root) = Flatten(query, Root)
  BY <1>1, <1>3, <1>4, <1>6, <1>7, PrunedReadsTheSame
<1>9. PruneQuery(r) = r
  BY <1>1, <1>3, <1>4, <1>6, <1>7, PruningSettles
<1>10. \A g \in Groups(r) \ {Root} :
         ~(Len(r[g].rules) <= 1 /\ \A c \in Children(r, g) : IsGroup(r, c))
  BY <1>1, <1>3, <1>4, <1>6, PruningLeavesFull
<1> QED  BY <1>5, <1>8, <1>9, <1>10 DEF PruningIsExact

(* However often the query has been edited: a dropped row comes between    *)
(* the rows before and after its slot and changes the order of no others,  *)
(* a new group round a node can be dissolved again, a removal takes the    *)
(* conditions beneath its node, in place, and empties no group, and        *)
(* pruning keeps the conditions in order and has nothing left to prune.    *)
THEOREM EditsStayExact == FilterSpec => []EditsAreExact
<1>1. FilterInit => AFunction(query)
  BY EditsMakeFunctions DEF FilterInit
<1>2. AFunction(query) /\ [FilterNext]_filterVars => AFunction(query)'
  BY StaysAFunction
<1>3. FilterSpec => []AFunction(query)
  BY <1>1, <1>2, PTL DEF FilterSpec
<1>4. FilterInvariant => IsFiniteSet(DOMAIN query)
  <2> SUFFICES ASSUME FilterInvariant
               PROVE  IsFiniteSet(DOMAIN query)
    OBVIOUS
  <2>1. DOMAIN query \subseteq 0..lastId /\ lastId \in 0..MaxIds
    BY DEF FilterInvariant
  <2>2. IsFiniteSet(0..lastId)
    BY <2>1, FilterConstants, FS_Interval DEF FilterConstants
  <2> QED  BY <2>1, <2>2, FS_Subset
<1>5. FilterInvariant /\ AFunction(query) => EditsAreExact
  BY <1>4, FilterConstants, DropsAreAimed, WrapsCancel, DropsKeepOrder, RemovalsTake, PruningKeeps
     DEF EditsAreExact
<1> QED  BY <1>3, <1>5, FilterInvariantHolds, PTL
=============================================================================
