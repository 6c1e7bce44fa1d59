----------------------------- MODULE TreeProofs -----------------------------
(***************************************************************************)
(* Proofs about Tree, for any number of nodes, all values and all arrays   *)
(* of them.  TreeHolds is not inductive: its parts say nothing of a tree   *)
(* whose links make two of them meet.  TreeInv says more.  D gives each    *)
(* node those that hang at it, itself and what hangs at its children, and  *)
(* no node hangs at two places, TreeForest; smaller values are to the left,*)
(* TreeSorted.  A call makes another D of it: an insertion adds a leaf,    *)
(* TreeInserted; a deletion puts the child of a node in its place, or the  *)
(* right one with the left one on its left, and with what hung there below *)
(* the end of the left one, TreeMoved; and a call that takes an array is a *)
(* run of such steps.  TreeInduction follows a way down, and the walk of   *)
(* the tree in order, by the number of nodes that hang below.  The second  *)
(* half is about the iterators, TreeIterator.                              *)
(***************************************************************************)
EXTENDS TreeIterator, FiniteSetTheorems, SequenceTheorems, WellFoundedInduction, TLAPS

(* What holds at 0, and at n + 1 if it holds at n, holds of every number.  *)
LEMMA SetInduction ==
  ASSUME NEW S, 0 \in S, \A n \in S \cap Nat : n + 1 \in S
  PROVE  Nat \subseteq S
<1> DEFINE R == {ss \in Nat \X Nat : ss[1] < ss[2]}
           T == Nat \ S
<1> SUFFICES ASSUME T # {} PROVE FALSE
  OBVIOUS
<1>1. IsWellFoundedOn(R, Nat)
  BY NatLessThanWellFounded DEF OpToRel
<1>2. \A x, y \in Nat : x < y => <<x, y>> \in R
  OBVIOUS
<1> HIDE DEF R
<1>3. PICK m \in T : \A y \in T : ~(<<y, m>> \in R)
  <2>1. T \subseteq Nat
    OBVIOUS
  <2> HIDE DEF T
  <2> QED BY <1>1, <2>1, WFMin
<1>4. m \in Nat /\ m # 0 /\ m - 1 \in Nat /\ m - 1 < m
  OBVIOUS
<1>5. m - 1 \in T
  BY <1>4
<1> QED BY <1>2, <1>3, <1>4, <1>5

-----------------------------------------------------------------------------
(* The tree, and what hangs where.                                         *)

TreeLinks == [TreeNodes -> TreeNodes \cup {NULL}]
TreeBelow(D, n) == IF n = NULL THEN {} ELSE D[n]

(* By the links l and r no node hangs below itself or in two places; D[n]  *)
(* are the nodes that hang at n, with n.  Left and right are alike here.   *)
TreeForest(l, r, D) ==
  /\ l \in TreeLinks /\ r \in TreeLinks /\ D \in [TreeNodes -> SUBSET TreeNodes]
  /\ \A n \in TreeNodes :
       /\ D[n] = {n} \cup TreeBelow(D, l[n]) \cup TreeBelow(D, r[n])
       /\ n \notin TreeBelow(D, l[n]) /\ n \notin TreeBelow(D, r[n])
       /\ TreeBelow(D, l[n]) \cap TreeBelow(D, r[n]) = {}
  /\ \A a, b \in TreeNodes : D[a] \cap D[b] = {} \/ a \in D[b] \/ b \in D[a]

TreeTop(D, c) == \A x \in TreeNodes : c \in D[x] => x = c
TreeCut(D, p, c) ==
  [x \in TreeNodes |-> IF p \in D[x] THEN D[x] \ TreeBelow(D, c) ELSE D[x]]
TreeJoin(D, p, c) ==
  [x \in TreeNodes |-> IF p \in D[x] THEN D[x] \cup TreeBelow(D, c) ELSE D[x]]

LEMMA TreeNullNoNode == NULL \notin TreeNodes
BY TreeAssumption DEF TreeNodes

LEMMA TreeNodesFinite == IsFiniteSet(TreeNodes)
BY FS_Interval, TreeAssumption DEF TreeNodes

LEMMA TreeForestSwaps ==
  ASSUME NEW l, NEW r, NEW D, TreeForest(l, r, D)
  PROVE  TreeForest(r, l, D)
BY DEF TreeForest

(* Fewer nodes hang at the child of a node than at the node.               *)
LEMMA TreeRank ==
  ASSUME NEW l, NEW r, NEW D, TreeForest(l, r, D), NEW n \in TreeNodes
  PROVE  /\ Cardinality(D[n]) \in Nat
         /\ \A c \in TreeNodes : c = l[n] \/ c = r[n] =>
              Cardinality(D[c]) \in Nat /\ Cardinality(D[c]) < Cardinality(D[n])
<1>1. \A m \in TreeNodes : IsFiniteSet(D[m]) /\ Cardinality(D[m]) \in Nat
  <2> TAKE m \in TreeNodes
  <2>1. D[m] \in SUBSET TreeNodes
    BY DEF TreeForest
  <2> QED BY <2>1, TreeNodesFinite, FS_Subset, FS_CardinalityType
<1>2. ASSUME NEW c \in TreeNodes, c = l[n] \/ c = r[n]
      PROVE  Cardinality(D[c]) < Cardinality(D[n])
  <2>1. D[c] \in SUBSET D[n] /\ n \in D[n] /\ n \notin D[c]
    BY <1>2, TreeNullNoNode DEF TreeForest, TreeBelow
  <2>2. Cardinality(D[c]) <= Cardinality(D[n]) /\ Cardinality(D[c]) # Cardinality(D[n])
    BY <1>1, <2>1, FS_Subset
  <2> QED BY <1>1, <2>2
<1> QED BY <1>1, <1>2

(* What holds at a node whenever it holds at its children holds at all.    *)
LEMMA TreeInduction ==
  ASSUME NEW l, NEW r, NEW D, TreeForest(l, r, D), NEW S,
         \A n \in TreeNodes :
           (\A c \in TreeNodes : c = l[n] \/ c = r[n] => c \in S) => n \in S
  PROVE  TreeNodes \subseteq S
<1> DEFINE T == {k \in Nat : \A n \in TreeNodes : Cardinality(D[n]) < k => n \in S}
<1>1. 0 \in T
  BY TreeRank
<1>2. ASSUME NEW k \in T \cap Nat PROVE k + 1 \in T
  <2> SUFFICES ASSUME NEW n \in TreeNodes, Cardinality(D[n]) < k + 1 PROVE n \in S
    OBVIOUS
  <2>1. ASSUME NEW c \in TreeNodes, c = l[n] \/ c = r[n] PROVE c \in S
    <3>1. /\ Cardinality(D[c]) \in Nat /\ Cardinality(D[n]) \in Nat
          /\ Cardinality(D[c]) < Cardinality(D[n])
      BY <2>1, TreeRank
    <3>2. Cardinality(D[c]) < k
      BY <3>1
    <3> QED BY <3>2
  <2> QED BY <2>1
<1>3. Nat \subseteq T
  <2> HIDE DEF T
  <2> QED BY <1>1, <1>2, SetInduction
<1>4. ASSUME NEW n \in TreeNodes PROVE n \in S
  <2>1. Cardinality(D[n]) \in Nat
    BY TreeRank
  <2>2. Cardinality(D[n]) + 1 \in T /\ Cardinality(D[n]) < Cardinality(D[n]) + 1
    BY <2>1, <1>3
  <2> QED BY <2>2
<1> QED BY <1>4

LEMMA TreeSelf ==
  ASSUME NEW l, NEW r, NEW D, TreeForest(l, r, D), NEW n \in TreeNodes
  PROVE  n \in D[n] /\ D[n] \subseteq TreeNodes
BY DEF TreeForest

(* What hangs at a node of D[n] hangs at n.                                *)
LEMMA TreeTransitive ==
  ASSUME NEW l, NEW r, NEW D, TreeForest(l, r, D),
         NEW n \in TreeNodes, NEW m \in D[n]
  PROVE  D[m] \subseteq D[n]
<1> DEFINE S == {x \in TreeNodes : \A y \in D[x] : D[y] \subseteq D[x]}
<1>1. ASSUME NEW x \in TreeNodes, \A c \in TreeNodes : c = l[x] \/ c = r[x] => c \in S
      PROVE  x \in S
  <2>1. ASSUME NEW y \in D[x] PROVE D[y] \subseteq D[x]
    <3>1. D[x] = {x} \cup TreeBelow(D, l[x]) \cup TreeBelow(D, r[x])
          /\ l[x] \in TreeNodes \cup {NULL} /\ r[x] \in TreeNodes \cup {NULL}
      BY DEF TreeForest, TreeLinks
    <3>2. CASE y = x
      BY <3>2
    <3>3. CASE y \in TreeBelow(D, l[x])
      <4>1. l[x] \in S /\ y \in D[l[x]] /\ D[l[x]] \subseteq D[x]
        BY <3>1, <3>3, <1>1 DEF TreeBelow
      <4> QED BY <4>1
    <3>4. CASE y \in TreeBelow(D, r[x])
      <4>1. r[x] \in S /\ y \in D[r[x]] /\ D[r[x]] \subseteq D[x]
        BY <3>1, <3>4, <1>1 DEF TreeBelow
      <4> QED BY <4>1
    <3> QED BY <3>1, <3>2, <3>3, <3>4
  <2> QED BY <2>1
<1>2. TreeNodes \subseteq S
  <2> HIDE DEF S
  <2> QED BY <1>1, TreeInduction
<1> QED BY <1>2

LEMMA TreeBelowTransitive ==
  ASSUME NEW l, NEW r, NEW D, TreeForest(l, r, D),
         NEW n \in TreeNodes \cup {NULL}, NEW m \in TreeBelow(D, n)
  PROVE  m \in TreeNodes /\ D[m] \subseteq TreeBelow(D, n)
BY TreeTransitive, TreeSelf DEF TreeBelow

LEMMA TreeAntisymmetric ==
  ASSUME NEW l, NEW r, NEW D, TreeForest(l, r, D),
         NEW n \in TreeNodes, NEW m \in D[n], n \in D[m]
  PROVE  m = n
<1> SUFFICES ASSUME m # n PROVE FALSE
  OBVIOUS
<1>1. m \in TreeBelow(D, l[n]) \/ m \in TreeBelow(D, r[n])
  BY DEF TreeForest
<1>2. n \in TreeBelow(D, l[n]) \/ n \in TreeBelow(D, r[n])
  <2>1. l[n] \in TreeNodes \cup {NULL} /\ r[n] \in TreeNodes \cup {NULL}
    BY DEF TreeForest, TreeLinks
  <2> QED BY <1>1, <2>1, TreeBelowTransitive
<1> QED BY <1>2 DEF TreeForest

LEMMA TreeOneParent ==
  ASSUME NEW l, NEW r, NEW D, TreeForest(l, r, D), NEW c \in TreeNodes,
         NEW a \in TreeNodes, c = l[a] \/ c = r[a],
         NEW b \in TreeNodes, c = l[b] \/ c = r[b]
  PROVE  a = b
<1>1. ASSUME NEW x \in TreeNodes, c = l[x] \/ c = r[x],
             NEW y \in TreeNodes, c = l[y] \/ c = r[y], x \in D[y], x # y
      PROVE  FALSE
  <2>1. x \in TreeBelow(D, l[y]) \/ x \in TreeBelow(D, r[y])
    BY <1>1 DEF TreeForest
  <2>2. c \in D[x] /\ c \in D[c] /\ x \notin D[c]
    BY <1>1, TreeSelf, TreeNullNoNode DEF TreeForest, TreeBelow
  <2>3. l[y] \in TreeNodes \cup {NULL} /\ r[y] \in TreeNodes \cup {NULL}
    BY DEF TreeForest, TreeLinks
  <2>4. CASE x \in TreeBelow(D, l[y])
    <3>1. c \in TreeBelow(D, l[y]) /\ l[y] # c
      BY <2>2, <2>3, <2>4, TreeBelowTransitive, TreeNullNoNode DEF TreeBelow
    <3>2. c \in TreeBelow(D, r[y])
      BY <1>1, <2>2, <3>1, TreeNullNoNode DEF TreeBelow
    <3> QED BY <3>1, <3>2 DEF TreeForest
  <2>5. CASE x \in TreeBelow(D, r[y])
    <3>1. c \in TreeBelow(D, r[y]) /\ r[y] # c
      BY <2>2, <2>3, <2>5, TreeBelowTransitive, TreeNullNoNode DEF TreeBelow
    <3>2. c \in TreeBelow(D, l[y])
      BY <1>1, <2>2, <3>1, TreeNullNoNode DEF TreeBelow
    <3> QED BY <3>1, <3>2 DEF TreeForest
  <2> QED BY <2>1, <2>4, <2>5
<1>2. c \in D[a] /\ c \in D[b]
  BY TreeSelf, TreeNullNoNode DEF TreeForest, TreeBelow
<1>3. a \in D[b] \/ b \in D[a]
  BY <1>2 DEF TreeForest
<1> QED BY <1>1, <1>3

(* A node other than p at which p hangs has it on one side.                *)
LEMMA TreeSides ==
  ASSUME NEW l, NEW r, NEW D, TreeForest(l, r, D),
         NEW x \in TreeNodes, NEW p \in D[x], p # x
  PROVE  \/ /\ l[x] \in TreeNodes /\ p \in D[l[x]] /\ p \notin TreeBelow(D, r[x])
            /\ D[x] = {x} \cup D[l[x]] \cup TreeBelow(D, r[x])
         \/ /\ r[x] \in TreeNodes /\ p \in D[r[x]] /\ p \notin TreeBelow(D, l[x])
            /\ D[x] = {x} \cup D[r[x]] \cup TreeBelow(D, l[x])
<1>1. l[x] \in TreeNodes \cup {NULL} /\ r[x] \in TreeNodes \cup {NULL}
  BY DEF TreeForest, TreeLinks
<1>2. p \in TreeBelow(D, l[x]) \/ p \in TreeBelow(D, r[x])
  BY DEF TreeForest
<1>3. /\ D[x] = {x} \cup TreeBelow(D, l[x]) \cup TreeBelow(D, r[x])
      /\ TreeBelow(D, l[x]) \cap TreeBelow(D, r[x]) = {}
  BY DEF TreeForest
<1> QED BY <1>1, <1>2, <1>3 DEF TreeBelow

(* A subtree cut off.                                                      *)
LEMMA TreeCuts ==
  ASSUME NEW l, NEW r, NEW D, TreeForest(l, r, D), NEW p \in TreeNodes
  PROVE  /\ TreeForest([l EXCEPT ![p] = NULL], r, TreeCut(D, p, l[p]))
         /\ l[p] # NULL => TreeTop(TreeCut(D, p, l[p]), l[p])
<1> DEFINE c == l[p]
           E == TreeCut(D, p, c)
           C == TreeBelow(D, l[p])
           k == [l EXCEPT ![p] = NULL]
<1>0. /\ \A x \in TreeNodes : /\ l[x] \in TreeNodes \cup {NULL} /\ r[x] \in TreeNodes \cup {NULL}
                              /\ D[x] \subseteq TreeNodes
      /\ k \in TreeLinks /\ E \in [TreeNodes -> SUBSET TreeNodes]
  BY DEF TreeForest, TreeLinks, TreeCut
<1>1. \A x \in TreeNodes : E[x] = IF p \in D[x] THEN D[x] \ C ELSE D[x]
  BY DEF TreeCut
<1>2. p \notin C /\ C \subseteq D[p] /\ C \subseteq TreeNodes
  BY <1>0 DEF TreeForest
<1>3. \A x \in C : D[x] \subseteq C
  BY <1>0, TreeBelowTransitive
<1>4. k[p] = NULL /\ \A x \in TreeNodes : x # p => k[x] = l[x]
  BY DEF TreeForest, TreeLinks
<1>5. ASSUME NEW x \in TreeNodes
      PROVE  /\ E[x] = {x} \cup TreeBelow(E, k[x]) \cup TreeBelow(E, r[x])
             /\ x \notin TreeBelow(E, k[x]) /\ x \notin TreeBelow(E, r[x])
             /\ TreeBelow(E, k[x]) \cap TreeBelow(E, r[x]) = {}
  <2>1. /\ D[x] = {x} \cup TreeBelow(D, l[x]) \cup TreeBelow(D, r[x])
        /\ x \notin TreeBelow(D, l[x]) /\ x \notin TreeBelow(D, r[x])
        /\ TreeBelow(D, l[x]) \cap TreeBelow(D, r[x]) = {}
    BY DEF TreeForest
  <2>2. CASE x = p
    <3>1. p \notin TreeBelow(D, r[p]) /\ TreeBelow(E, r[p]) = TreeBelow(D, r[p])
      BY <1>0, <1>1, <2>1, <2>2 DEF TreeBelow
    <3>2. E[p] = D[p] \ C /\ TreeBelow(E, k[p]) = {}
      BY <1>1, <1>4, TreeSelf DEF TreeBelow
    <3> QED BY <2>1, <2>2, <3>1, <3>2, <1>2
  <2>3. CASE x # p /\ p \in D[x]
    <3>1. E[x] = D[x] \ C /\ x \notin C /\ k[x] = l[x]
      BY <1>1, <1>2, <1>3, <1>4, <2>3
    <3>2. ASSUME NEW e \in TreeNodes, NEW f \in TreeNodes \cup {NULL}, p \in D[e],
                 p \notin TreeBelow(D, f), D[e] \cap TreeBelow(D, f) = {},
                 D[x] = {x} \cup D[e] \cup TreeBelow(D, f)
          PROVE  /\ TreeBelow(E, f) = TreeBelow(D, f) /\ E[e] = D[e] \ C
                 /\ E[x] = {x} \cup E[e] \cup TreeBelow(E, f)
      <4>1. TreeBelow(E, f) = TreeBelow(D, f)
        BY <1>1, <3>2 DEF TreeBelow
      <4>2. E[e] = D[e] \ C /\ C \subseteq D[e]
        BY <1>1, <1>2, <3>2, TreeTransitive
      <4> QED BY <3>1, <3>2, <4>1, <4>2
    <3>3. \/ l[x] \in TreeNodes /\ p \in D[l[x]] /\ p \notin TreeBelow(D, r[x])
          \/ r[x] \in TreeNodes /\ p \in D[r[x]] /\ p \notin TreeBelow(D, l[x])
      BY <2>3, TreeSides
    <3>4. CASE l[x] \in TreeNodes /\ p \in D[l[x]] /\ p \notin TreeBelow(D, r[x])
      <4>1. TreeBelow(D, l[x]) = D[l[x]] /\ TreeBelow(E, l[x]) = E[l[x]]
        BY <3>4, TreeNullNoNode DEF TreeBelow
      <4>2. /\ TreeBelow(E, r[x]) = TreeBelow(D, r[x]) /\ E[l[x]] = D[l[x]] \ C
            /\ E[x] = {x} \cup E[l[x]] \cup TreeBelow(E, r[x])
        BY <1>0, <2>1, <3>2, <3>4, <4>1
      <4> QED BY <2>1, <3>1, <4>1, <4>2
    <3>5. CASE r[x] \in TreeNodes /\ p \in D[r[x]] /\ p \notin TreeBelow(D, l[x])
      <4>1. TreeBelow(D, r[x]) = D[r[x]] /\ TreeBelow(E, r[x]) = E[r[x]]
        BY <3>5, TreeNullNoNode DEF TreeBelow
      <4>2. /\ TreeBelow(E, l[x]) = TreeBelow(D, l[x]) /\ E[r[x]] = D[r[x]] \ C
            /\ E[x] = {x} \cup E[r[x]] \cup TreeBelow(E, l[x])
        BY <1>0, <2>1, <3>2, <3>5, <4>1
      <4> QED BY <2>1, <3>1, <4>1, <4>2
    <3> QED BY <3>3, <3>4, <3>5
  <2>4. CASE p \notin D[x]
    <3>1. k[x] = l[x] /\ E[x] = D[x]
      BY <1>1, <1>4, <2>4, TreeSelf
    <3>2. TreeBelow(E, l[x]) = TreeBelow(D, l[x]) /\ TreeBelow(E, r[x]) = TreeBelow(D, r[x])
      BY <1>0, <1>1, <2>1, <2>4 DEF TreeBelow
    <3> QED BY <2>1, <3>1, <3>2
  <2> QED BY <2>2, <2>3, <2>4
<1>6. ASSUME NEW a \in TreeNodes, NEW b \in TreeNodes, a \in D[b], E[a] \cap E[b] # {}
      PROVE  a \in E[b]
  <2>1. a \notin C \/ p \notin D[b]
    BY <1>1, <1>3, <1>6
  <2> QED BY <1>1, <1>6, <2>1
<1>7. ASSUME NEW a \in TreeNodes, NEW b \in TreeNodes
      PROVE  E[a] \cap E[b] = {} \/ a \in E[b] \/ b \in E[a]
  <2>1. D[a] \cap D[b] = {} \/ a \in D[b] \/ b \in D[a]
    BY DEF TreeForest
  <2>2. E[a] \subseteq D[a] /\ E[b] \subseteq D[b]
    BY <1>1
  <2> QED BY <2>1, <2>2, <1>6
<1>8. ASSUME c # NULL PROVE TreeTop(E, c)
  <2>1. c \in TreeNodes /\ C = D[c] /\ c \in C
    BY <1>0, <1>8, TreeSelf DEF TreeBelow
  <2>2. ASSUME NEW x \in TreeNodes, c \in E[x] PROVE x = c
    <3>1. c \in D[x] /\ p \notin D[x] /\ c \in D[p]
      BY <1>1, <1>2, <2>1, <2>2
    <3>2. x \in D[p] /\ x # p
      <4>1. D[x] \cap D[p] = {} \/ x \in D[p] \/ p \in D[x]
        BY DEF TreeForest
      <4> QED BY <3>1, <4>1, TreeSelf
    <3>3. CASE x \in C
      BY <2>1, <3>1, <3>3, TreeAntisymmetric
    <3>4. CASE x \in TreeBelow(D, r[p])
      <4>1. c \in TreeBelow(D, r[p])
        BY <1>0, <3>1, <3>4, TreeBelowTransitive
      <4> QED BY <2>1, <4>1 DEF TreeForest
    <3> QED BY <3>2, <3>3, <3>4 DEF TreeForest
  <2> QED BY <2>2 DEF TreeTop
<1>9. TreeForest(k, r, E)
  <2> HIDE DEF k
  <2> QED BY <1>0, <1>5, <1>7 DEF TreeForest
<1> QED BY <1>8, <1>9

(* A subtree that hangs nowhere hung at a free link.                       *)
LEMMA TreeJoins ==
  ASSUME NEW l, NEW r, NEW D, TreeForest(l, r, D), NEW p \in TreeNodes, l[p] = NULL,
         NEW c \in TreeNodes \cup {NULL}, c # NULL => TreeTop(D, c) /\ p \notin D[c],
         NEW E, E = TreeJoin(D, p, c)
  PROVE  /\ TreeForest([l EXCEPT ![p] = c], r, E)
         /\ TreeBelow(E, c) = TreeBelow(D, c)
         /\ \A x \in TreeNodes :
              /\ TreeBelow(E, [l EXCEPT ![p] = c][x]) =
                   IF x = p THEN TreeBelow(D, c)
                   ELSE IF p \in TreeBelow(D, l[x]) THEN TreeBelow(D, l[x]) \cup TreeBelow(D, c)
                   ELSE TreeBelow(D, l[x])
              /\ TreeBelow(E, r[x]) =
                   IF p \in TreeBelow(D, r[x]) THEN TreeBelow(D, r[x]) \cup TreeBelow(D, c)
                   ELSE TreeBelow(D, r[x])
         /\ \A e \in TreeNodes : e # c /\ TreeTop(D, e) => TreeTop(E, e)
<1> DEFINE C == TreeBelow(D, c)
           k == [l EXCEPT ![p] = c]
<1>0. /\ \A x \in TreeNodes : /\ l[x] \in TreeNodes \cup {NULL} /\ r[x] \in TreeNodes \cup {NULL}
                              /\ D[x] \subseteq TreeNodes
      /\ k \in TreeLinks /\ C \subseteq TreeNodes /\ E \in [TreeNodes -> SUBSET TreeNodes]
  BY DEF TreeForest, TreeLinks, TreeJoin, TreeBelow
<1>1. \A x \in TreeNodes : E[x] = IF p \in D[x] THEN D[x] \cup C ELSE D[x]
  BY DEF TreeJoin
<1>2. p \notin C /\ \A x \in C : D[x] \subseteq C
  BY <1>0, TreeBelowTransitive DEF TreeBelow
<1>3. ASSUME NEW x \in TreeNodes, x \notin C PROVE C \cap D[x] = {}
  <2> SUFFICES ASSUME c \in TreeNodes, C = D[c], D[c] \cap D[x] # {} PROVE FALSE
    BY DEF TreeBelow
  <2>1. c \in D[x]
    BY <1>3 DEF TreeForest
  <2> QED BY <2>1, <1>3, TreeSelf, TreeNullNoNode DEF TreeTop
<1>4. \A x \in TreeNodes : p \in D[x] => x \notin C /\ C \cap D[x] = {}
  BY <1>2, <1>3
<1>5. k[p] = c /\ \A x \in TreeNodes : x # p => k[x] = l[x]
  BY DEF TreeForest, TreeLinks
<1>6. TreeBelow(E, c) = C
  BY <1>1, <1>2 DEF TreeBelow
<1>7. \A x \in TreeNodes \cup {NULL} :
        TreeBelow(E, x) = IF p \in TreeBelow(D, x) THEN TreeBelow(D, x) \cup C ELSE TreeBelow(D, x)
  BY <1>1, TreeNullNoNode DEF TreeBelow
<1>8. ASSUME NEW x \in TreeNodes
      PROVE  /\ E[x] = {x} \cup TreeBelow(E, k[x]) \cup TreeBelow(E, r[x])
             /\ x \notin TreeBelow(E, k[x]) /\ x \notin TreeBelow(E, r[x])
             /\ TreeBelow(E, k[x]) \cap TreeBelow(E, r[x]) = {}
  <2>1. /\ D[x] = {x} \cup TreeBelow(D, l[x]) \cup TreeBelow(D, r[x])
        /\ x \notin TreeBelow(D, l[x]) /\ x \notin TreeBelow(D, r[x])
        /\ TreeBelow(D, l[x]) \cap TreeBelow(D, r[x]) = {}
    BY DEF TreeForest
  <2>2. CASE x = p
    <3>1. E[p] = D[p] \cup C /\ C \cap D[p] = {} /\ TreeBelow(D, l[p]) = {}
      BY <1>1, <1>4, TreeSelf DEF TreeBelow
    <3>2. TreeBelow(E, r[p]) = TreeBelow(D, r[p])
      BY <1>0, <1>7, <2>1, <2>2
    <3> QED BY <2>1, <2>2, <3>1, <3>2, <1>2, <1>5, <1>6
  <2>3. CASE x # p /\ p \in D[x]
    <3>1. E[x] = D[x] \cup C /\ C \cap D[x] = {} /\ x \notin C /\ k[x] = l[x]
      BY <1>1, <1>4, <1>5, <2>3
    <3>2. \/ p \in TreeBelow(D, l[x]) /\ p \notin TreeBelow(D, r[x])
          \/ p \in TreeBelow(D, r[x]) /\ p \notin TreeBelow(D, l[x])
      BY <2>1, <2>3
    <3>3. \/ TreeBelow(E, l[x]) = TreeBelow(D, l[x]) \cup C /\ TreeBelow(E, r[x]) = TreeBelow(D, r[x])
          \/ TreeBelow(E, r[x]) = TreeBelow(D, r[x]) \cup C /\ TreeBelow(E, l[x]) = TreeBelow(D, l[x])
      BY <1>0, <1>7, <3>2
    <3> QED BY <2>1, <3>1, <3>3
  <2>4. CASE p \notin D[x]
    <3>1. k[x] = l[x] /\ E[x] = D[x]
      BY <1>1, <1>5, <2>4, TreeSelf
    <3>2. TreeBelow(E, l[x]) = TreeBelow(D, l[x]) /\ TreeBelow(E, r[x]) = TreeBelow(D, r[x])
      BY <1>0, <1>7, <2>1, <2>4
    <3> QED BY <2>1, <3>1, <3>2
  <2> QED BY <2>2, <2>3, <2>4
<1>9. ASSUME NEW a \in TreeNodes, NEW b \in TreeNodes, p \in D[a], p \notin D[b]
      PROVE  E[a] \cap E[b] = {} \/ a \in E[b] \/ b \in E[a]
  <2>1. D[a] \cap D[b] = {} \/ a \in D[b] \/ b \in D[a]
    BY DEF TreeForest
  <2>2. C \cap D[b] = {} \/ b \in C
    BY <1>3
  <2> QED BY <1>1, <1>9, <2>1, <2>2
<1>10. ASSUME NEW a \in TreeNodes, NEW b \in TreeNodes
       PROVE  E[a] \cap E[b] = {} \/ a \in E[b] \/ b \in E[a]
  <2>1. D[a] \cap D[b] = {} \/ a \in D[b] \/ b \in D[a]
    BY DEF TreeForest
  <2>2. CASE p \in D[a] /\ p \in D[b]
    BY <1>1, <2>1, <2>2
  <2>3. CASE p \notin D[a] /\ p \notin D[b]
    BY <1>1, <2>1, <2>3
  <2>4. CASE p \in D[a] /\ p \notin D[b]
    BY <1>9, <2>4
  <2>5. CASE p \notin D[a] /\ p \in D[b]
    <3>1. E[b] \cap E[a] = {} \/ b \in E[a] \/ a \in E[b]
      BY <1>9, <2>5
    <3> QED BY <3>1
  <2> QED BY <2>2, <2>3, <2>4, <2>5
<1>11. ASSUME NEW e \in TreeNodes, e # c, TreeTop(D, e) PROVE TreeTop(E, e)
  <2>1. e \notin C
    BY <1>11 DEF TreeTop, TreeBelow
  <2> QED BY <1>1, <1>11, <2>1 DEF TreeTop
<1>12. TreeForest(k, r, E)
  <2> HIDE DEF k
  <2> QED BY <1>0, <1>8, <1>10 DEF TreeForest
<1>13. ASSUME NEW x \in TreeNodes
       PROVE  /\ TreeBelow(E, k[x]) =
                   IF x = p THEN TreeBelow(D, c)
                   ELSE IF p \in TreeBelow(D, l[x]) THEN TreeBelow(D, l[x]) \cup TreeBelow(D, c)
                   ELSE TreeBelow(D, l[x])
              /\ TreeBelow(E, r[x]) =
                   IF p \in TreeBelow(D, r[x]) THEN TreeBelow(D, r[x]) \cup TreeBelow(D, c)
                   ELSE TreeBelow(D, r[x])
  BY <1>0, <1>5, <1>6, <1>7
<1> QED BY <1>6, <1>11, <1>12, <1>13

(* Some way down: to one child or the other, or an end.                    *)
TreeWay(next, l, r) ==
  next \in TreeLinks /\ \A n \in TreeNodes : next[n] \in {NULL, l[n], r[n]}

TreeLasts(last, next, good) ==
  /\ last[NULL] = NULL
  /\ \A m \in TreeNodes :
       last[m] = IF last[next[m]] # NULL THEN last[next[m]]
                 ELSE IF m \in good THEN m ELSE NULL

(* A way that comes to its end ends at the last node: the rank says how    *)
(* far the end may be.                                                     *)
TreeRanked(next, rank) ==
  /\ next \in TreeLinks /\ rank \in [TreeNodes -> 0..Cardinality(TreeNodes)]
  /\ \A m \in TreeNodes : next[m] # NULL => rank[next[m]] < rank[m]

LEMMA TreeLastOnRanked ==
  ASSUME NEW next, NEW rank, TreeRanked(next, rank), NEW good
  PROVE  \E last : /\ TreeLasts(last, next, good)
                   /\ \A n : TreeLastOn(next, good, n) = last[n]
<1> DEFINE N == TreeNodes \cup {NULL}
           deep(f, m) == IF m = NULL THEN NULL
                         ELSE IF f[next[m]] # NULL THEN f[next[m]]
                         ELSE IF m \in good THEN m ELSE NULL
           far(m) == IF m = NULL THEN 0 ELSE rank[m] + 1
           upto(f, k) == \A m \in N : far(m) <= k => f[m] = deep(f, m)
           S == {k \in Nat : \E f \in [N -> N] : upto(f, k)}
           last == CHOOSE f : f = [m \in N |-> deep(f, m)]
<1>1. \A n : TreeLastOn(next, good, n) = last[n]
  BY DEF TreeLastOn
<1>2. Cardinality(TreeNodes) \in Nat
  BY TreeNodesFinite, FS_CardinalityType
<1>3. \A m \in TreeNodes : rank[m] \in Nat /\ rank[m] <= Cardinality(TreeNodes)
  BY <1>2 DEF TreeRanked
<1>4. \A m \in N : far(m) \in Nat /\ (m # NULL => far(m) # 0)
  BY <1>3
<1>5. \A m \in TreeNodes : next[m] \in N /\ far(next[m]) < far(m)
  <2> TAKE m \in TreeNodes
  <2>1. next[m] \in N
    BY DEF TreeRanked, TreeLinks
  <2>2. next[m] # NULL => rank[next[m]] < rank[m]
    BY DEF TreeRanked
  <2> QED BY <1>3, <2>1, <2>2, TreeNullNoNode
<1>6. \A f \in [N -> N], m \in N : deep(f, m) \in N
  BY <1>5
<1>7. 0 \in S
  <2> DEFINE f == [m \in N |-> NULL]
  <2>1. upto(f, 0)
    <3> SUFFICES ASSUME NEW m \in N, far(m) <= 0 PROVE f[m] = deep(f, m)
      OBVIOUS
    <3>1. m = NULL
      BY <1>4
    <3> QED BY <3>1
  <2>2. f \in [N -> N]
    OBVIOUS
  <2> QED BY <2>1, <2>2
<1>8. ASSUME NEW k \in S \cap Nat PROVE k + 1 \in S
  <2>1. PICK f \in [N -> N] : upto(f, k)
    OBVIOUS
  <2> DEFINE g == [m \in N |-> deep(f, m)]
  <2>2. g \in [N -> N]
    <3> HIDE DEF deep
    <3> QED BY <1>6
  <2>3. \A m \in N : far(m) <= k => g[m] = f[m]
    <3> HIDE DEF deep, far
    <3> QED BY <2>1
  <2>4. ASSUME NEW m \in N, far(m) <= k + 1 PROVE g[m] = deep(g, m)
    <3>1. CASE m = NULL
      BY <3>1
    <3>2. CASE m # NULL
      <4>1. m \in TreeNodes /\ far(m) \in Nat
        BY <1>4, <3>2
      <4> HIDE DEF far
      <4>2. next[m] \in N /\ far(next[m]) < far(m) /\ far(next[m]) \in Nat
        BY <1>4, <1>5, <4>1
      <4>3. far(next[m]) <= k
        BY <2>4, <4>1, <4>2
      <4>4. g[next[m]] = f[next[m]]
        BY <2>3, <4>2, <4>3
      <4>5. g[m] = deep(f, m)
        OBVIOUS
      <4> HIDE DEF g
      <4>6. deep(f, m) = deep(g, m)
        BY <4>4
      <4> QED BY <4>5, <4>6
    <3> QED BY <3>1, <3>2
  <2> HIDE DEF g, deep, far
  <2> QED BY <2>2, <2>4
<1>9. \E f : f = [m \in N |-> deep(f, m)]
  <2> DEFINE top == Cardinality(TreeNodes) + 1
  <2>1. top \in Nat /\ \A m \in N : far(m) <= top
    BY <1>2, <1>3
  <2>2. top \in S
    <3> HIDE DEF S, top
    <3> QED BY <1>7, <1>8, <2>1, SetInduction
  <2>3. PICK f \in [N -> N] : upto(f, top)
    BY <2>2
  <2>4. \A m \in N : f[m] = deep(f, m)
    BY <2>1, <2>3
  <2>5. f = [m \in N |-> f[m]]
    OBVIOUS
  <2> HIDE DEF deep
  <2>6. f = [m \in N |-> deep(f, m)]
    BY <2>4, <2>5
  <2> QED BY <2>6
<1>10. last = [m \in N |-> deep(last, m)]
  <2> HIDE DEF deep
  <2> QED BY <1>9
<1> HIDE DEF last
<1>11. TreeLasts(last, next, good)
  BY <1>10, TreeNullNoNode DEF TreeLasts
<1> QED BY <1>1, <1>11

LEMMA TreeHangsWithin ==
  ASSUME NEW l, NEW r, NEW D, TreeForest(l, r, D), NEW n \in TreeNodes
  PROVE  Cardinality(D[n]) \in 0..Cardinality(TreeNodes)
<1>1. Cardinality(TreeNodes) \in Nat /\ Cardinality(D[n]) \in Nat
  BY TreeNodesFinite, FS_CardinalityType, TreeRank
<1>2. Cardinality(D[n]) <= Cardinality(TreeNodes)
  BY TreeSelf, TreeNodesFinite, FS_Subset
<1> QED BY <1>1, <1>2

LEMMA TreeLastOnIs ==
  ASSUME NEW l, NEW r, NEW D, TreeForest(l, r, D), NEW next, TreeWay(next, l, r), NEW good
  PROVE  \E last : /\ TreeLasts(last, next, good)
                   /\ \A n : TreeLastOn(next, good, n) = last[n]
<1> DEFINE rank == [m \in TreeNodes |-> Cardinality(D[m])]
<1>1. rank \in [TreeNodes -> 0..Cardinality(TreeNodes)]
  BY TreeHangsWithin
<1>2. ASSUME NEW m \in TreeNodes, next[m] # NULL PROVE rank[next[m]] < rank[m]
  <2>1. next[m] \in TreeNodes /\ (next[m] = l[m] \/ next[m] = r[m])
    BY <1>2 DEF TreeWay, TreeLinks
  <2> QED BY <2>1, TreeRank
<1> HIDE DEF rank
<1>3. TreeRanked(next, rank)
  BY <1>1, <1>2 DEF TreeRanked, TreeWay
<1> QED BY <1>3, TreeLastOnRanked

(* The last node hangs at the first, or there is none.                     *)
LEMMA TreeLastBelow ==
  ASSUME NEW l, NEW r, NEW D, TreeForest(l, r, D), NEW next, TreeWay(next, l, r), NEW good,
         NEW n \in TreeNodes \cup {NULL}
  PROVE  TreeLastOn(next, good, n) \in (TreeBelow(D, n) \cap good) \cup {NULL}
<1>1. PICK last : /\ TreeLasts(last, next, good)
                  /\ \A m : TreeLastOn(next, good, m) = last[m]
  BY TreeLastOnIs
<1> DEFINE S == {m \in TreeNodes : last[m] \in (D[m] \cap good) \cup {NULL}}
<1>2. ASSUME NEW m \in TreeNodes, \A c \in TreeNodes : c = l[m] \/ c = r[m] => c \in S
      PROVE  m \in S
  <2>1. next[m] = NULL \/ (next[m] \in TreeNodes /\ (next[m] = l[m] \/ next[m] = r[m]))
    BY DEF TreeWay, TreeLinks
  <2>2. last[m] = IF last[next[m]] # NULL THEN last[next[m]]
                  ELSE IF m \in good THEN m ELSE NULL
    BY <1>1 DEF TreeLasts
  <2>3. next[m] \in TreeNodes => last[next[m]] \in (D[next[m]] \cap good) \cup {NULL}
    BY <1>2, <2>1, TreeNullNoNode
  <2>4. next[m] \in TreeNodes => D[next[m]] \subseteq D[m]
    BY <2>1, TreeNullNoNode DEF TreeForest, TreeBelow
  <2>5. last[NULL] = NULL
    BY <1>1 DEF TreeLasts
  <2> QED BY <2>1, <2>2, <2>3, <2>4, <2>5, TreeSelf
<1>3. TreeNodes \subseteq S
  <2> HIDE DEF S
  <2> QED BY <1>2, TreeInduction
<1> QED BY <1>1, <1>3, TreeNullNoNode DEF TreeBelow, TreeLasts

(* A way to a child of each node, as long as there is one, ends at a node  *)
(* with none there, and passes every node above on the side it lies on.    *)
LEMMA TreeLastEnds ==
  ASSUME NEW l, NEW r, NEW D, TreeForest(l, r, D), NEW next \in TreeLinks,
         \A m \in TreeNodes : next[m] = l[m] \/ next[m] = r[m],
         NEW n \in TreeNodes,
         NEW e, e = TreeLastOn(next, TreeNodes, n)
  PROVE  /\ e \in D[n] /\ next[e] = NULL
         /\ \A x \in D[n] : /\ e \in TreeBelow(D, l[x]) => next[x] = l[x]
                            /\ e \in TreeBelow(D, r[x]) => next[x] = r[x]
<1>1. TreeWay(next, l, r)
  BY DEF TreeWay
<1>2. PICK last : /\ TreeLasts(last, next, TreeNodes)
                  /\ \A m : TreeLastOn(next, TreeNodes, m) = last[m]
  BY <1>1, TreeLastOnIs
<1> DEFINE sided(w, x) == /\ w \in TreeBelow(D, l[x]) => next[x] = l[x]
                          /\ w \in TreeBelow(D, r[x]) => next[x] = r[x]
           S == {m \in TreeNodes : /\ last[m] \in D[m] /\ next[last[m]] = NULL
                                   /\ \A x \in D[m] : sided(last[m], x)}
<1>3. ASSUME NEW m \in TreeNodes, \A c \in TreeNodes : c = l[m] \/ c = r[m] => c \in S
      PROVE  m \in S
  <2>1. last[m] = IF last[next[m]] # NULL THEN last[next[m]] ELSE m
    BY <1>2 DEF TreeLasts
  <2>2. /\ D[m] = {m} \cup TreeBelow(D, l[m]) \cup TreeBelow(D, r[m])
        /\ m \notin TreeBelow(D, l[m]) /\ m \notin TreeBelow(D, r[m])
        /\ TreeBelow(D, l[m]) \cap TreeBelow(D, r[m]) = {}
    BY DEF TreeForest
  <2>3. l[m] \in TreeNodes \cup {NULL} /\ r[m] \in TreeNodes \cup {NULL}
    BY DEF TreeForest, TreeLinks
  <2>4. CASE next[m] = NULL
    <3>1. last[m] = m
      BY <1>2, <2>1, <2>4 DEF TreeLasts
    <3>2. ASSUME NEW x \in D[m] PROVE m \notin TreeBelow(D, l[x]) /\ m \notin TreeBelow(D, r[x])
      <4>1. x \in TreeNodes
        BY TreeSelf
      <4>2. TreeBelow(D, l[x]) \subseteq D[x] /\ TreeBelow(D, r[x]) \subseteq D[x]
        BY <4>1 DEF TreeForest
      <4>3. m \in D[x] => x = m
        BY <4>1, TreeAntisymmetric
      <4> QED BY <2>2, <4>2, <4>3
    <3> QED BY <2>4, <3>1, <3>2, TreeSelf
  <2>5. CASE next[m] # NULL
    <3> DEFINE c == next[m]
    <3>1. c \in TreeNodes /\ (c = l[m] \/ c = r[m])
      BY <2>3, <2>5
    <3>2. c \in S
      BY <1>3, <3>1
    <3>3. last[c] \in D[c] /\ next[last[c]] = NULL /\ \A x \in D[c] : sided(last[c], x)
      BY <3>2
    <3>4. last[c] \in TreeNodes /\ last[m] = last[c]
      BY <2>1, <3>1, <3>3, TreeSelf, TreeNullNoNode
    <3>5. TreeBelow(D, c) = D[c]
      BY <2>5 DEF TreeBelow
    <3>6. ASSUME NEW x \in D[m] PROVE sided(last[c], x)
      <4>1. CASE x = m
        <5>1. last[c] \in TreeBelow(D, c)
          BY <3>3, <3>5
        <5> QED BY <2>2, <3>1, <4>1, <5>1
      <4>2. CASE x \in D[c]
        BY <3>3, <4>2
      <4>3. CASE x # m /\ x \notin D[c]
        <5>1. \E d \in {l[m], r[m]} : x \in TreeBelow(D, d) /\ TreeBelow(D, d) \cap D[c] = {}
          BY <2>2, <3>1, <3>5, <3>6, <4>3
        <5>2. x \in TreeNodes /\ D[x] \cap D[c] = {}
          BY <2>3, <5>1, TreeBelowTransitive
        <5>3. TreeBelow(D, l[x]) \subseteq D[x] /\ TreeBelow(D, r[x]) \subseteq D[x]
          BY <5>2 DEF TreeForest
        <5> QED BY <3>3, <5>2, <5>3
      <4> QED BY <4>1, <4>2, <4>3
    <3>7. D[c] \subseteq D[m]
      BY <2>2, <3>1, <3>5
    <3> QED BY <3>3, <3>4, <3>6, <3>7
  <2> QED BY <2>4, <2>5
<1>4. TreeNodes \subseteq S
  <2> HIDE DEF S
  <2> QED BY <1>3, TreeInduction
<1> QED BY <1>2, <1>4

(* Smaller values to the left, and the others to the right.                *)
TreeLess(D, l, val) ==
  \A x \in TreeNodes : \A m \in TreeBelow(D, l[x]) : val[m] < val[x]
TreeMore(D, r, val) ==
  \A x \in TreeNodes : \A m \in TreeBelow(D, r[x]) : val[m] >= val[x]
TreeSorted(l, r, D, val) ==
  /\ TreeForest(l, r, D) /\ val \in [TreeNodes -> Nat]
  /\ TreeLess(D, l, val) /\ TreeMore(D, r, val)

(* What is in C may hang at p, for every node above p.                     *)
TreeFits(l, r, D, val, p, C) ==
  \A x \in TreeNodes :
    /\ p \in TreeBelow(D, l[x]) => \A m \in C : val[m] < val[x]
    /\ p \in TreeBelow(D, r[x]) => \A m \in C : val[m] >= val[x]

LEMMA TreeChild ==
  ASSUME NEW l, NEW r, NEW D, TreeForest(l, r, D), NEW n \in TreeNodes
  PROVE  /\ l[n] \in TreeNodes \cup {NULL} /\ r[n] \in TreeNodes \cup {NULL}
         /\ D[n] = {n} \cup TreeBelow(D, l[n]) \cup TreeBelow(D, r[n])
         /\ n \notin TreeBelow(D, l[n]) /\ n \notin TreeBelow(D, r[n])
         /\ TreeBelow(D, l[n]) \cap TreeBelow(D, r[n]) = {}
BY DEF TreeForest, TreeLinks

(* Links taken away leave an order an order.                               *)
LEMMA TreeCutSorted ==
  ASSUME NEW l, NEW r, NEW D, NEW val, TreeSorted(l, r, D, val),
         NEW k, NEW s, NEW E, TreeForest(k, s, E),
         \A x \in TreeNodes : /\ E[x] \subseteq D[x]
                              /\ k[x] = l[x] \/ k[x] = NULL
                              /\ s[x] = r[x] \/ s[x] = NULL
  PROVE  TreeSorted(k, s, E, val)
<1>1. ASSUME NEW x \in TreeNodes
      PROVE  /\ TreeBelow(E, k[x]) \subseteq TreeBelow(D, l[x])
             /\ TreeBelow(E, s[x]) \subseteq TreeBelow(D, r[x])
  <2>1. l[x] \in TreeNodes \cup {NULL} /\ r[x] \in TreeNodes \cup {NULL}
    BY TreeChild DEF TreeSorted
  <2> QED BY <2>1 DEF TreeBelow
<1>2. TreeLess(E, k, val)
  BY <1>1 DEF TreeSorted, TreeLess
<1>3. TreeMore(E, s, val)
  BY <1>1 DEF TreeSorted, TreeMore
<1> QED BY <1>2, <1>3 DEF TreeSorted

LEMMA TreeJoinLeft ==
  ASSUME NEW l, NEW r, NEW D, NEW val, TreeSorted(l, r, D, val),
         NEW p \in TreeNodes, l[p] = NULL,
         NEW c \in TreeNodes \cup {NULL}, c # NULL => TreeTop(D, c) /\ p \notin D[c],
         TreeFits(l, r, D, val, p, TreeBelow(D, c)),
         \A m \in TreeBelow(D, c) : val[m] < val[p]
  PROVE  TreeSorted([l EXCEPT ![p] = c], r, TreeJoin(D, p, c), val)
<1> DEFINE E == TreeJoin(D, p, c)
           k == [l EXCEPT ![p] = c]
<1>1. /\ TreeForest(k, r, E)
      /\ \A x \in TreeNodes :
              /\ TreeBelow(E, k[x]) =
                   IF x = p THEN TreeBelow(D, c)
                   ELSE IF p \in TreeBelow(D, l[x]) THEN TreeBelow(D, l[x]) \cup TreeBelow(D, c)
                   ELSE TreeBelow(D, l[x])
              /\ TreeBelow(E, r[x]) =
                   IF p \in TreeBelow(D, r[x]) THEN TreeBelow(D, r[x]) \cup TreeBelow(D, c)
                   ELSE TreeBelow(D, r[x])
  <2>1. E = TreeJoin(D, p, c) /\ TreeForest(l, r, D)
    BY DEF TreeSorted
  <2> HIDE DEF E
  <2> QED BY <2>1, TreeJoins
<1> HIDE DEF E, k
<1>2. TreeLess(E, k, val)
  BY <1>1 DEF TreeSorted, TreeLess, TreeFits
<1>3. TreeMore(E, r, val)
  BY <1>1 DEF TreeSorted, TreeMore, TreeFits
<1> QED BY <1>1, <1>2, <1>3 DEF TreeSorted, E, k

LEMMA TreeJoinRight ==
  ASSUME NEW l, NEW r, NEW D, NEW val, TreeSorted(l, r, D, val),
         NEW p \in TreeNodes, r[p] = NULL,
         NEW c \in TreeNodes \cup {NULL}, c # NULL => TreeTop(D, c) /\ p \notin D[c],
         TreeFits(l, r, D, val, p, TreeBelow(D, c)),
         \A m \in TreeBelow(D, c) : val[m] >= val[p]
  PROVE  TreeSorted(l, [r EXCEPT ![p] = c], TreeJoin(D, p, c), val)
<1> DEFINE E == TreeJoin(D, p, c)
           k == [r EXCEPT ![p] = c]
<1>0. TreeForest(r, l, D)
  BY TreeForestSwaps DEF TreeSorted
<1>1. /\ TreeForest(k, l, E)
      /\ \A x \in TreeNodes :
              /\ TreeBelow(E, k[x]) =
                   IF x = p THEN TreeBelow(D, c)
                   ELSE IF p \in TreeBelow(D, r[x]) THEN TreeBelow(D, r[x]) \cup TreeBelow(D, c)
                   ELSE TreeBelow(D, r[x])
              /\ TreeBelow(E, l[x]) =
                   IF p \in TreeBelow(D, l[x]) THEN TreeBelow(D, l[x]) \cup TreeBelow(D, c)
                   ELSE TreeBelow(D, l[x])
  <2>1. E = TreeJoin(D, p, c)
    OBVIOUS
  <2> HIDE DEF E
  <2> QED BY <1>0, <2>1, TreeJoins, SMTT(60)
<1>2. TreeForest(l, k, E)
  <2> HIDE DEF k, E
  <2> QED BY <1>1, TreeForestSwaps
<1> HIDE DEF E, k
<1>3. TreeLess(E, l, val)
  BY <1>1 DEF TreeSorted, TreeLess, TreeFits
<1>4. TreeMore(E, k, val)
  BY <1>1 DEF TreeSorted, TreeMore, TreeFits
<1> QED BY <1>2, <1>3, <1>4 DEF TreeSorted, E, k

(* A node that hangs nowhere lets both its subtrees go.                    *)
TreeLetGo(l, r, D, val, n, E) ==
  /\ TreeSorted([l EXCEPT ![n] = NULL], [r EXCEPT ![n] = NULL], E, val)
  /\ E[n] = {n} /\ \A x \in TreeNodes : x # n => E[x] = D[x]
  /\ l[n] # NULL => TreeTop(E, l[n])
  /\ r[n] # NULL => TreeTop(E, r[n])

LEMMA TreeEmptied ==
  ASSUME NEW l, NEW r, NEW D, NEW val, TreeSorted(l, r, D, val),
         NEW n \in TreeNodes, TreeTop(D, n)
  PROVE  \E E : TreeLetGo(l, r, D, val, n, E)
<1> DEFINE E == TreeCut(D, n, l[n])
           F == TreeCut(E, n, r[n])
           k == [l EXCEPT ![n] = NULL]
           s == [r EXCEPT ![n] = NULL]
<1>0. TreeForest(l, r, D)
  BY DEF TreeSorted
<1>1. /\ TreeForest(k, r, E) /\ \A x \in TreeNodes : E[x] \subseteq D[x]
      /\ l[n] # NULL => TreeTop(E, l[n])
  <2>1. \A x \in TreeNodes : E[x] \subseteq D[x]
    BY DEF TreeCut
  <2>2. TreeForest(k, r, E)
    BY <1>0, TreeCuts
  <2>3. l[n] # NULL => TreeTop(E, l[n])
    BY <1>0, TreeCuts
  <2> QED BY <2>1, <2>2, <2>3
<1>2. E[n] = D[n] \ TreeBelow(D, l[n]) /\ \A x \in TreeNodes \ {n} : E[x] = D[x]
  BY <1>0, TreeSelf DEF TreeCut, TreeTop
<1> HIDE DEF E
<1>3. TreeForest(r, k, E)
  BY <1>1, TreeForestSwaps
<1>4. /\ TreeForest(s, k, F) /\ \A x \in TreeNodes : F[x] \subseteq E[x]
      /\ r[n] # NULL => TreeTop(F, r[n])
  <2>1. \A x \in TreeNodes : F[x] \subseteq E[x]
    BY DEF TreeCut
  <2>2. TreeForest(s, k, F)
    BY <1>3, TreeCuts
  <2>3. r[n] # NULL => TreeTop(F, r[n])
    BY <1>3, TreeCuts
  <2> QED BY <2>1, <2>2, <2>3
<1>5. /\ n \notin TreeBelow(D, r[n]) /\ r[n] \in TreeNodes \cup {NULL}
      /\ D[n] = {n} \cup TreeBelow(D, l[n]) \cup TreeBelow(D, r[n])
      /\ n \notin TreeBelow(D, l[n]) /\ r[n] # n
  BY <1>0, TreeChild, TreeSelf, TreeNullNoNode DEF TreeBelow
<1>6. TreeBelow(E, r[n]) = TreeBelow(D, r[n])
  BY <1>2, <1>5 DEF TreeBelow
<1>7. F[n] = {n}
  <2>1. n \in E[n] /\ F[n] = E[n] \ TreeBelow(E, r[n])
    BY <1>3, TreeSelf DEF TreeCut
  <2> QED BY <1>2, <1>5, <1>6, <2>1
<1>8. ASSUME NEW x \in TreeNodes \ {n} PROVE F[x] = D[x]
  <2>1. n \notin D[x] /\ E[x] = D[x]
    BY <1>2 DEF TreeTop
  <2> QED BY <2>1 DEF TreeCut
<1> HIDE DEF F, k, s
<1>9. l[n] # NULL => TreeTop(F, l[n])
  BY <1>1, <1>4 DEF TreeTop
<1>10. TreeForest(k, s, F)
  BY <1>4, TreeForestSwaps
<1>11. \A x \in TreeNodes : /\ F[x] \subseteq D[x]
                            /\ k[x] = l[x] \/ k[x] = NULL
                            /\ s[x] = r[x] \/ s[x] = NULL
  BY <1>0, <1>1, <1>4 DEF TreeForest, TreeLinks, k, s
<1>12. TreeSorted(k, s, F, val)
  BY <1>10, <1>11, TreeCutSorted
<1> QED BY <1>4, <1>7, <1>8, <1>9, <1>12 DEF k, s, TreeLetGo

LEMMA TreeUnderTop ==
  ASSUME NEW l, NEW r, NEW D, TreeForest(l, r, D), NEW a \in TreeNodes, TreeTop(D, a),
         NEW x \in TreeNodes, D[x] \cap D[a] # {}
  PROVE  x \in D[a]
BY TreeSelf DEF TreeForest, TreeTop

(* tree_reorder_rol: a goes to the left below b, and what was there to the *)
(* right below the last node e of a.                                       *)
TreeRolled(l, r, D, val, a, b, e, E) ==
  /\ TreeSorted([l EXCEPT ![b] = a], [r EXCEPT ![e] = l[b]], E, val)
  /\ E[b] = D[a] \cup D[b] /\ TreeTop(E, b)
  /\ \A x \in TreeNodes : x \notin D[a] \cup D[b] => E[x] = D[x]

LEMMA TreeRolls ==
  ASSUME NEW l, NEW r, NEW D, NEW val, TreeSorted(l, r, D, val),
         NEW a \in TreeNodes, NEW b \in TreeNodes, TreeTop(D, a), TreeTop(D, b),
         D[a] \cap D[b] = {}, \A m \in D[a], q \in D[b] : val[m] < val[q],
         NEW e \in D[a], r[e] = NULL, \A x \in D[a] : e \notin TreeBelow(D, l[x])
  PROVE  \E E : TreeRolled(l, r, D, val, a, b, e, E)
<1> DEFINE c == l[b]
           C == TreeBelow(D, c)
           G == TreeCut(D, b, c)
           k == [l EXCEPT ![b] = NULL]
           H == TreeJoin(G, e, c)
           s == [r EXCEPT ![e] = c]
           I == TreeJoin(H, b, a)
<1>0. TreeForest(l, r, D)
  BY DEF TreeSorted
<1>1. /\ c \in TreeNodes \cup {NULL} /\ b \notin C /\ C \subseteq D[b] /\ C \subseteq TreeNodes
      /\ a \in D[a] /\ b \in D[b] /\ e \in TreeNodes /\ e # b /\ a # b
      /\ D[a] \subseteq TreeNodes /\ D[b] \subseteq TreeNodes
  BY <1>0, TreeChild, TreeSelf
<1>2. G[b] = D[b] \ C /\ \A x \in TreeNodes \ {b} : G[x] = D[x]
  BY <1>1 DEF TreeCut, TreeTop
<1>3. /\ TreeForest(k, r, G) /\ (c # NULL => TreeTop(G, c))
      /\ \A x \in TreeNodes : G[x] \subseteq D[x]
  <2>1. \A x \in TreeNodes : G[x] \subseteq D[x]
    BY DEF TreeCut
  <2> QED BY <1>0, <2>1, TreeCuts
<1>4. k[b] = NULL /\ \A x \in TreeNodes \ {b} : k[x] = l[x]
  BY <1>0 DEF TreeForest, TreeLinks
<1> HIDE DEF G, k
<1>5. TreeSorted(k, r, G, val)
  <2>1. \A x \in TreeNodes : /\ G[x] \subseteq D[x]
                             /\ k[x] = l[x] \/ k[x] = NULL
                             /\ r[x] = r[x] \/ r[x] = NULL
    BY <1>3, <1>4
  <2> QED BY <1>3, <2>1, TreeCutSorted
<1>6. TreeBelow(G, c) = C
  BY <1>1, <1>2, TreeSelf, TreeNullNoNode DEF TreeBelow
<1>7. TreeTop(G, a) /\ TreeTop(G, b)
  BY <1>3 DEF TreeTop
<1>8. c # NULL => e \notin G[c]
  BY <1>1, <1>6 DEF TreeBelow
<1>9. \A x \in TreeNodes : e \in G[x] => x \in D[a] /\ x # b
  BY <1>0, <1>1, <1>3, TreeUnderTop
<1>10. TreeFits(k, r, G, val, e, C)
  <2>1. ASSUME NEW x \in TreeNodes, e \in TreeBelow(G, k[x]) PROVE FALSE
    <3>1. e \in G[x]
      BY <2>1, <1>3, TreeChild
    <3>2. x \in D[a] /\ k[x] = l[x] /\ l[x] \in TreeNodes \cup {NULL}
      BY <3>1, <1>0, <1>4, <1>9, TreeChild
    <3>3. TreeBelow(G, l[x]) \subseteq TreeBelow(D, l[x])
      BY <1>3, <3>2 DEF TreeBelow
    <3> QED BY <2>1, <3>2, <3>3
  <2>2. ASSUME NEW x \in TreeNodes, e \in TreeBelow(G, r[x]), NEW m \in C
        PROVE  val[m] >= val[x]
    <3>1. e \in G[x]
      BY <2>2, <1>3, TreeChild
    <3>2. x \in D[a] /\ m \in D[b] /\ m \in TreeNodes
      BY <3>1, <1>1, <1>9
    <3>3. val[x] < val[m] /\ val[x] \in Nat /\ val[m] \in Nat
      BY <3>2 DEF TreeSorted
    <3> QED BY <3>3
  <2> QED BY <2>1, <2>2 DEF TreeFits
<1>11. \A m \in C : val[m] >= val[e]
  <2> TAKE m \in C
  <2>1. val[e] < val[m] /\ val[e] \in Nat /\ val[m] \in Nat
    BY <1>1 DEF TreeSorted
  <2> QED BY <2>1
<1>12. TreeSorted(k, s, H, val)
  <2>1. c # NULL => TreeTop(G, c) /\ e \notin G[c]
    BY <1>3, <1>8
  <2> HIDE DEF c, C
  <2> QED BY <1>1, <1>5, <1>6, <1>10, <1>11, <2>1, TreeJoinRight
<1>13. H[a] = D[a] \cup C /\ H[b] = D[b] \ C
  BY <1>1, <1>2, <1>6 DEF TreeJoin
<1>14. \A x \in TreeNodes : x \notin D[a] \cup D[b] => H[x] = D[x]
  BY <1>1, <1>2, <1>9 DEF TreeJoin
<1>15. TreeTop(H, a) /\ TreeTop(H, b)
  <2>1. \A x \in TreeNodes : H[x] \subseteq G[x] \cup C
    BY <1>6 DEF TreeJoin
  <2>2. a \notin C /\ b \notin C
    BY <1>1
  <2> HIDE DEF H
  <2> QED BY <1>7, <2>1, <2>2 DEF TreeTop
<1> HIDE DEF H, s
<1>16. TreeFits(k, s, H, val, b, H[a])
  <2>1. ASSUME NEW x \in TreeNodes, b \in TreeBelow(H, k[x]) \cup TreeBelow(H, s[x]) PROVE FALSE
    <3>0. TreeForest(k, s, H)
      BY <1>12 DEF TreeSorted
    <3>1. b \in H[x]
      BY <2>1, <3>0, TreeChild
    <3>2. x = b
      BY <3>1, <1>15 DEF TreeTop
    <3> QED BY <2>1, <3>0, <3>2, TreeChild
  <2> QED BY <2>1 DEF TreeFits
<1>17. \A m \in H[a] : val[m] < val[b]
  BY <1>1, <1>13 DEF TreeSorted, TreeLess
<1>18. TreeSorted([k EXCEPT ![b] = a], s, I, val)
  <2>1. a # NULL /\ TreeBelow(H, a) = H[a] /\ b \notin H[a] /\ a \in TreeNodes \cup {NULL}
    BY <1>1, <1>13, TreeNullNoNode DEF TreeBelow
  <2> QED BY <1>4, <1>12, <1>15, <1>16, <1>17, <2>1, TreeJoinLeft
<1>19. [k EXCEPT ![b] = a] = [l EXCEPT ![b] = a]
  BY <1>0 DEF TreeForest, TreeLinks, k
<1>20. \A x \in TreeNodes : x # b => I[x] = H[x]
  BY <1>15 DEF TreeJoin, TreeTop
<1>21. I[b] = D[a] \cup D[b]
  <2>1. b \in H[b] /\ TreeBelow(H, a) = H[a]
    BY <1>1, <1>13, TreeNullNoNode DEF TreeBelow
  <2> QED BY <1>1, <1>13, <2>1 DEF TreeJoin
<1>22. TreeTop(I, b)
  BY <1>15, <1>20 DEF TreeTop
<1>23. \A x \in TreeNodes : x \notin D[a] \cup D[b] => I[x] = D[x]
  BY <1>1, <1>14, <1>20
<1> HIDE DEF I
<1>24. TreeRolled(l, r, D, val, a, b, e, I)
  BY <1>18, <1>19, <1>21, <1>22, <1>23 DEF s, TreeRolled
<1> QED BY <1>24

(* The links when n has gone, and what hangs in its place: its right child *)
(* with the left one below it, or the child there is.                      *)
TreeHeir(l, r, n) == IF r[n] # NULL THEN r[n] ELSE l[n]
TreeTwo(l, r, n) == l[n] # NULL /\ r[n] # NULL
TreeLeftGone(l, r, n) ==
  IF TreeTwo(l, r, n) THEN [l EXCEPT ![n] = NULL, ![r[n]] = l[n]] ELSE [l EXCEPT ![n] = NULL]
TreeRightGone(l, r, n, e) ==
  IF TreeTwo(l, r, n) THEN [r EXCEPT ![n] = NULL, ![e] = l[r[n]]] ELSE [r EXCEPT ![n] = NULL]

(* e is where the right links from n end.                                  *)
TreeEndOf(l, r, D, n, e) ==
  /\ n \in TreeNodes /\ e \in D[n] /\ r[e] = NULL
  /\ \A x \in D[n] : e \notin TreeBelow(D, l[x])

TreeMerged(l, r, D, val, n, e, E) ==
  /\ TreeSorted(TreeLeftGone(l, r, n), TreeRightGone(l, r, n, e), E, val)
  /\ TreeBelow(E, TreeHeir(l, r, n)) = D[n] \ {n}
  /\ TreeHeir(l, r, n) # NULL => TreeTop(E, TreeHeir(l, r, n))
  /\ \A x \in D[n] : E[x] \subseteq D[n]
  /\ \A x \in TreeNodes : x \notin D[n] => E[x] = D[x]

LEMMA TreeMerges ==
  ASSUME NEW l, NEW r, NEW D, NEW val, TreeSorted(l, r, D, val),
         NEW n \in TreeNodes, TreeTop(D, n), NEW e,
         TreeTwo(l, r, n) => TreeEndOf(l, r, D, l[n], e)
  PROVE  \E E : TreeMerged(l, r, D, val, n, e, E)
<1> DEFINE a == l[n]
           b == r[n]
           m == TreeHeir(l, r, n)
           k == [l EXCEPT ![n] = NULL]
           s == [r EXCEPT ![n] = NULL]
<1>0. /\ TreeForest(l, r, D) /\ a \in TreeNodes \cup {NULL} /\ b \in TreeNodes \cup {NULL}
      /\ D[n] = {n} \cup TreeBelow(D, a) \cup TreeBelow(D, b)
      /\ n \notin TreeBelow(D, a) /\ n \notin TreeBelow(D, b)
      /\ TreeBelow(D, a) \cap TreeBelow(D, b) = {} /\ D[n] \subseteq TreeNodes
  <2>1. TreeForest(l, r, D)
    BY DEF TreeSorted
  <2> QED BY <2>1, TreeChild, TreeSelf
<1>1. m = IF b # NULL THEN b ELSE a
  BY DEF TreeHeir
<1>2. PICK F : TreeLetGo(l, r, D, val, n, F)
  BY TreeEmptied
<1>3. /\ TreeSorted(k, s, F, val)
      /\ F[n] = {n} /\ \A x \in TreeNodes : x # n => F[x] = D[x]
      /\ a # NULL => TreeTop(F, a)
      /\ b # NULL => TreeTop(F, b)
  BY <1>2 DEF TreeLetGo
<1>4. TreeForest(k, s, F)
  BY <1>3 DEF TreeSorted
<1>5. a # n /\ b # n
      /\ TreeBelow(F, a) = TreeBelow(D, a) /\ TreeBelow(F, b) = TreeBelow(D, b)
  <2>1. a # n /\ b # n
    BY <1>0, TreeSelf, TreeNullNoNode DEF TreeBelow
  <2>2. \A x \in TreeBelow(D, a) \cup TreeBelow(D, b) : x # n
    BY <1>0
  <2> QED BY <1>0, <1>3, <2>1 DEF TreeBelow
<1>6. CASE ~TreeTwo(l, r, n)
  <2>1. TreeLeftGone(l, r, n) = k /\ TreeRightGone(l, r, n, e) = s
    BY <1>6 DEF TreeLeftGone, TreeRightGone
  <2>2. (m = a /\ b = NULL) \/ (m = b /\ a = NULL)
    BY <1>1, <1>6 DEF TreeTwo
  <2>3. TreeBelow(F, m) = D[n] \ {n} /\ (m # NULL => TreeTop(F, m))
    BY <1>0, <1>3, <1>5, <2>2 DEF TreeBelow
  <2>4. ASSUME NEW x \in D[n] PROVE F[x] \subseteq D[n]
    BY <1>0, <1>3, <2>4, TreeTransitive
  <2>5. \A x \in TreeNodes : x \notin D[n] => F[x] = D[x]
    BY <1>0, <1>3
  <2> QED BY <1>3, <2>1, <2>3, <2>4, <2>5 DEF TreeMerged
<1>7. CASE TreeTwo(l, r, n)
  <2>1. /\ a \in TreeNodes /\ b \in TreeNodes /\ m = b
        /\ F[a] = D[a] /\ F[b] = D[b] /\ TreeBelow(D, a) = D[a] /\ TreeBelow(D, b) = D[b]
        /\ TreeTop(F, a) /\ TreeTop(F, b) /\ D[a] \cap D[b] = {}
    BY <1>0, <1>3, <1>5, <1>7, <1>1 DEF TreeTwo, TreeBelow
  <2>2. \A x \in TreeNodes : x # n => k[x] = l[x] /\ s[x] = r[x]
    BY <1>0 DEF TreeForest, TreeLinks
  <2>3. e \in F[a] /\ s[e] = NULL /\ \A x \in F[a] : e \notin TreeBelow(F, k[x])
    <3>1. e \in D[a] /\ r[e] = NULL /\ \A x \in D[a] : e \notin TreeBelow(D, l[x])
      BY <1>7 DEF TreeEndOf
    <3>2. e # n /\ e \in TreeNodes
      BY <1>0, <2>1, <3>1
    <3>3. ASSUME NEW x \in D[a] PROVE e \notin TreeBelow(F, k[x])
      <4>1. x \in TreeNodes /\ x # n /\ l[x] \in TreeNodes \cup {NULL} /\ l[x] # n
        <5>1. x \in TreeNodes /\ x # n
          BY <1>0, <2>1
        <5>2. l[x] # n
          BY <1>0, <1>3, <2>1, <5>1, TreeSelf, TreeChild, TreeNullNoNode DEF TreeBelow, TreeTop
        <5> QED BY <5>1, <5>2, <1>0, TreeChild
      <4>2. TreeBelow(F, k[x]) = TreeBelow(D, l[x])
        BY <1>3, <2>2, <4>1 DEF TreeBelow
      <4> QED BY <3>1, <4>2
    <3> QED BY <2>1, <2>2, <3>1, <3>2, <3>3
  <2>4. \A x \in F[a], y \in F[b] : val[x] < val[y]
    <3> TAKE x \in F[a], y \in F[b]
    <3>1. x \in TreeNodes /\ y \in TreeNodes
      BY <1>0, <2>1
    <3>2. val[x] < val[n] /\ val[y] >= val[n]
      BY <2>1 DEF TreeSorted, TreeLess, TreeMore
    <3>3. val[x] \in Nat /\ val[y] \in Nat /\ val[n] \in Nat
      BY <3>1 DEF TreeSorted
    <3> QED BY <3>2, <3>3
  <2>5. PICK E : TreeRolled(k, s, F, val, a, b, e, E)
    <3> HIDE DEF a, b, k, s
    <3> QED BY <1>3, <2>1, <2>3, <2>4, TreeRolls
  <2>6. /\ TreeSorted([k EXCEPT ![b] = a], [s EXCEPT ![e] = k[b]], E, val)
        /\ E[b] = F[a] \cup F[b] /\ TreeTop(E, b)
        /\ \A x \in TreeNodes : x \notin F[a] \cup F[b] => E[x] = F[x]
    BY <2>5 DEF TreeRolled
  <2>7. /\ [k EXCEPT ![b] = a] = TreeLeftGone(l, r, n)
        /\ [s EXCEPT ![e] = k[b]] = TreeRightGone(l, r, n, e)
    <3>1. k[b] = l[b]
      BY <1>5, <2>1, <2>2
    <3> QED BY <1>7, <3>1 DEF TreeLeftGone, TreeRightGone
  <2>8. TreeBelow(E, m) = D[n] \ {n}
    BY <1>0, <2>1, <2>6, TreeNullNoNode DEF TreeBelow
  <2>9. \A x \in TreeNodes : x \notin D[n] => E[x] = D[x]
    BY <1>0, <1>3, <2>1, <2>6
  <2>10. ASSUME NEW x \in D[n] PROVE E[x] \subseteq D[n]
    <3>1. CASE x = n
      BY <1>0, <1>3, <2>1, <2>6, <3>1
    <3>2. CASE x # n
      <4>1. x \in E[b] /\ TreeForest(TreeLeftGone(l, r, n), TreeRightGone(l, r, n, e), E)
        BY <1>0, <2>1, <2>6, <2>7, <3>2 DEF TreeSorted
      <4>2. E[x] \subseteq E[b]
        BY <2>1, <4>1, TreeTransitive
      <4> QED BY <1>0, <2>1, <2>6, <4>2
    <3> QED BY <3>1, <3>2
  <2>11. TreeSorted(TreeLeftGone(l, r, n), TreeRightGone(l, r, n, e), E, val)
    BY <2>6, <2>7
  <2>12. m # NULL => TreeTop(E, m)
    BY <2>1, <2>6
  <2> QED BY <2>8, <2>9, <2>10, <2>11, <2>12 DEF TreeMerged
<1> QED BY <1>6, <1>7

(* The links that go away below n are not those of other nodes.            *)
LEMMA TreeGoneElse ==
  ASSUME NEW l, NEW r, NEW D, TreeForest(l, r, D), NEW n \in TreeNodes, NEW e,
         TreeTwo(l, r, n) => TreeEndOf(l, r, D, l[n], e),
         NEW x \in TreeNodes, x \notin D[n]
  PROVE  TreeLeftGone(l, r, n)[x] = l[x] /\ TreeRightGone(l, r, n, e)[x] = r[x]
<1>1. x # n
  BY TreeSelf
<1>2. TreeTwo(l, r, n) => r[n] \in D[n] /\ e \in D[n]
  BY TreeChild, TreeSelf DEF TreeTwo, TreeEndOf, TreeBelow
<1>3. l \in [TreeNodes -> TreeNodes \cup {NULL}] /\ r \in [TreeNodes -> TreeNodes \cup {NULL}]
  BY DEF TreeForest, TreeLinks
<1>4. CASE TreeTwo(l, r, n)
  BY <1>1, <1>2, <1>3, <1>4 DEF TreeLeftGone, TreeRightGone
<1>5. CASE ~TreeTwo(l, r, n)
  BY <1>1, <1>3, <1>5 DEF TreeLeftGone, TreeRightGone
<1> QED BY <1>4, <1>5

(* l1 and r1 are the links with n cut off from p, and E1 is what hangs.    *)
TreeCutAt(l, r, D, p, n, l1, r1, E1) ==
  /\ TreeForest(l1, r1, E1) /\ TreeTop(E1, n) /\ n # p
  /\ \A x \in TreeNodes :
       /\ x # p => l1[x] = l[x] /\ r1[x] = r[x]
       /\ l1[x] \in {NULL, l[x]} /\ r1[x] \in {NULL, r[x]}
       /\ E1[x] = IF p \in D[x] THEN D[x] \ D[n] ELSE D[x]

LEMMA TreeCutsAt ==
  ASSUME NEW l, NEW r, NEW D, NEW val, TreeSorted(l, r, D, val),
         NEW p \in TreeNodes, NEW n \in TreeNodes
  PROVE  /\ l[p] = n => TreeCutAt(l, r, D, p, n, [l EXCEPT ![p] = NULL], r, TreeCut(D, p, n))
         /\ r[p] = n => TreeCutAt(l, r, D, p, n, l, [r EXCEPT ![p] = NULL], TreeCut(D, p, n))
<1> DEFINE E == TreeCut(D, p, n)
           k == [l EXCEPT ![p] = NULL]
           s == [r EXCEPT ![p] = NULL]
<1>1. TreeForest(l, r, D) /\ TreeForest(r, l, D)
  BY TreeForestSwaps DEF TreeSorted
<1>2. \A x \in TreeNodes : E[x] = IF p \in D[x] THEN D[x] \ D[n] ELSE D[x]
  BY TreeNullNoNode DEF TreeCut, TreeBelow
<1>3. \A x \in TreeNodes : /\ x # p => k[x] = l[x] /\ s[x] = r[x]
                           /\ k[x] \in {NULL, l[x]} /\ s[x] \in {NULL, r[x]}
  BY <1>1 DEF TreeForest, TreeLinks
<1>4. CASE l[p] = n
  <2>1. TreeForest(k, r, E) /\ TreeTop(E, n)
    <3>1. TreeForest(k, r, TreeCut(D, p, l[p]))
      BY <1>1, TreeCuts
    <3>2. l[p] # NULL => TreeTop(TreeCut(D, p, l[p]), l[p])
      BY <1>1, TreeCuts
    <3> QED BY <1>4, <3>1, <3>2, TreeNullNoNode
  <2>2. n # p
    BY <1>1, <1>4, TreeChild, TreeSelf, TreeNullNoNode DEF TreeBelow
  <2> HIDE DEF E, k, s
  <2>3. TreeCutAt(l, r, D, p, n, k, r, E)
    BY <1>2, <1>3, <2>1, <2>2 DEF TreeCutAt
  <2>4. r[p] # n
    BY <1>1, <1>4, TreeChild, TreeSelf, TreeNullNoNode DEF TreeBelow
  <2> QED BY <2>3, <2>4 DEF E, k
<1>5. CASE r[p] = n
  <2>1. TreeForest(s, l, E) /\ TreeTop(E, n)
    <3>1. TreeForest(s, l, TreeCut(D, p, r[p]))
      BY <1>1, TreeCuts
    <3>2. r[p] # NULL => TreeTop(TreeCut(D, p, r[p]), r[p])
      BY <1>1, TreeCuts
    <3> QED BY <1>5, <3>1, <3>2, TreeNullNoNode
  <2>2. n # p
    BY <1>1, <1>5, TreeChild, TreeSelf, TreeNullNoNode DEF TreeBelow
  <2> HIDE DEF E, k, s
  <2>3. TreeForest(l, s, E)
    BY <2>1, TreeForestSwaps
  <2>4. TreeCutAt(l, r, D, p, n, l, s, E)
    BY <1>2, <1>3, <2>1, <2>2, <2>3 DEF TreeCutAt
  <2>5. l[p] # n
    BY <1>1, <1>5, TreeChild, TreeSelf, TreeNullNoNode DEF TreeBelow
  <2> QED BY <2>4, <2>5 DEF E, s
<1> QED BY <1>4, <1>5

(* What was below n may hang at p again.                                   *)
TreeHeirAt(l, r, D, val, p, n, e, l1, r1, E1, F) ==
  /\ TreeMerged(l1, r1, E1, val, n, e, F)
  /\ TreeFits(TreeLeftGone(l1, r1, n), TreeRightGone(l1, r1, n, e), F, val, p, D[n])
  /\ p \notin D[n] /\ E1[n] = D[n] /\ TreeHeir(l1, r1, n) = TreeHeir(l, r, n)
  /\ TreeHeir(l, r, n) \in TreeNodes \cup {NULL}
  /\ TreeLeftGone(l1, r1, n)[p] = l1[p] /\ TreeRightGone(l1, r1, n, e)[p] = r1[p]

LEMMA TreeHeirFits ==
  ASSUME NEW l, NEW r, NEW D, NEW val, TreeSorted(l, r, D, val),
         NEW p \in TreeNodes, NEW n \in TreeNodes, n = l[p] \/ n = r[p], NEW e,
         TreeTwo(l, r, n) => TreeEndOf(l, r, D, l[n], e),
         NEW l1, NEW r1, NEW E1, TreeCutAt(l, r, D, p, n, l1, r1, E1)
  PROVE  \E F : TreeHeirAt(l, r, D, val, p, n, e, l1, r1, E1, F)
<1> DEFINE k == TreeLeftGone(l1, r1, n)
           s == TreeRightGone(l1, r1, n, e)
<1>0. TreeForest(l, r, D) /\ TreeForest(l1, r1, E1)
  BY DEF TreeSorted, TreeCutAt
<1>1. n \in D[p] /\ p \notin D[n] /\ D[n] \subseteq TreeNodes
  BY <1>0, TreeChild, TreeSelf, TreeNullNoNode DEF TreeBelow
<1>2. \A x \in TreeNodes :
       /\ x # p => l1[x] = l[x] /\ r1[x] = r[x]
       /\ l1[x] \in {NULL, l[x]} /\ r1[x] \in {NULL, r[x]}
       /\ E1[x] = IF p \in D[x] THEN D[x] \ D[n] ELSE D[x]
  BY DEF TreeCutAt
<1>3. TreeSorted(l1, r1, E1, val)
  <2>1. \A x \in TreeNodes : /\ E1[x] \subseteq D[x]
                             /\ l1[x] = l[x] \/ l1[x] = NULL
                             /\ r1[x] = r[x] \/ r1[x] = NULL
    BY <1>2
  <2> QED BY <1>0, <2>1, TreeCutSorted
<1>4. l1[n] = l[n] /\ r1[n] = r[n] /\ TreeTop(E1, n) /\ E1[n] = D[n]
  BY <1>1, <1>2 DEF TreeCutAt
<1>5. TreeTwo(l1, r1, n) => TreeEndOf(l1, r1, E1, l1[n], e)
  <2> SUFFICES ASSUME TreeTwo(l, r, n) PROVE TreeEndOf(l1, r1, E1, l[n], e)
    BY <1>4 DEF TreeTwo
  <2> DEFINE a == l[n]
  <2>1. /\ a \in TreeNodes /\ e \in D[a] /\ r[e] = NULL
        /\ \A x \in D[a] : e \notin TreeBelow(D, l[x])
    BY DEF TreeEndOf
  <2>2. D[a] \subseteq D[n]
    BY <1>0, <2>1, TreeChild, TreeNullNoNode DEF TreeBelow
  <2>3. E1[a] = D[a] /\ e \in TreeNodes /\ r1[e] = NULL
    BY <1>1, <1>2, <2>1, <2>2
  <2>4. ASSUME NEW x \in D[a] PROVE e \notin TreeBelow(E1, l1[x])
    <3>1. x \in TreeNodes /\ x # p /\ l[x] \in TreeNodes \cup {NULL}
      BY <1>0, <1>1, <2>2, TreeChild
    <3>2. TreeBelow(E1, l[x]) \subseteq TreeBelow(D, l[x])
      BY <1>2, <3>1 DEF TreeBelow
    <3> QED BY <1>2, <2>1, <3>1, <3>2
  <2> QED BY <2>1, <2>3, <2>4 DEF TreeEndOf
<1>6. PICK F : TreeMerged(l1, r1, E1, val, n, e, F)
  BY <1>3, <1>4, <1>5, TreeMerges
<1>7. /\ TreeForest(k, s, F) /\ \A x \in D[n] : F[x] \subseteq D[n]
      /\ \A x \in TreeNodes : x \notin D[n] => F[x] = E1[x]
  BY <1>4, <1>6 DEF TreeMerged, TreeSorted
<1>8. \A x \in TreeNodes : x \notin D[n] => k[x] = l1[x] /\ s[x] = r1[x]
  BY <1>0, <1>4, <1>5, TreeGoneElse
<1> HIDE DEF k, s
<1>9. ASSUME NEW x \in TreeNodes
      PROVE  /\ p \in TreeBelow(F, k[x]) => D[n] \subseteq TreeBelow(D, l[x])
             /\ p \in TreeBelow(F, s[x]) => D[n] \subseteq TreeBelow(D, r[x])
  <2>1. ASSUME NEW c \in TreeNodes, p \in F[c] PROVE D[n] \subseteq D[c]
    <3>1. c \notin D[n]
      BY <1>1, <1>7, <2>1
    <3>2. p \in D[c]
      BY <1>2, <1>7, <2>1, <3>1
    <3>3. D[p] \subseteq D[c] /\ D[n] \subseteq D[p]
      BY <1>0, <1>1, <3>2, TreeTransitive
    <3> QED BY <3>3
  <2>2. ASSUME p \in F[x] PROVE x \notin D[n]
    BY <1>1, <1>7, <2>2
  <2>3. ASSUME p \in TreeBelow(F, k[x]) PROVE D[n] \subseteq TreeBelow(D, l[x])
    <3>1. p \in F[x] /\ k[x] \in TreeNodes /\ p \in F[k[x]] /\ k[x] # NULL
      BY <1>7, <2>3, TreeChild, TreeNullNoNode DEF TreeBelow
    <3>2. k[x] = l[x]
      BY <1>2, <1>8, <2>2, <3>1
    <3> QED BY <2>1, <3>1, <3>2 DEF TreeBelow
  <2>4. ASSUME p \in TreeBelow(F, s[x]) PROVE D[n] \subseteq TreeBelow(D, r[x])
    <3>1. p \in F[x] /\ s[x] \in TreeNodes /\ p \in F[s[x]] /\ s[x] # NULL
      BY <1>7, <2>4, TreeChild, TreeNullNoNode DEF TreeBelow
    <3>2. s[x] = r[x]
      BY <1>2, <1>8, <2>2, <3>1
    <3> QED BY <2>1, <3>1, <3>2 DEF TreeBelow
  <2> QED BY <2>3, <2>4
<1>10. TreeFits(k, s, F, val, p, D[n])
  <2>1. /\ \A x \in TreeNodes : \A m \in TreeBelow(D, l[x]) : val[m] < val[x]
        /\ \A x \in TreeNodes : \A m \in TreeBelow(D, r[x]) : val[m] >= val[x]
    BY DEF TreeSorted, TreeLess, TreeMore
  <2> QED BY <1>9, <2>1 DEF TreeFits
<1>11. TreeHeir(l1, r1, n) = TreeHeir(l, r, n) /\ TreeHeir(l, r, n) \in TreeNodes \cup {NULL}
  <2>1. l[n] \in TreeNodes \cup {NULL} /\ r[n] \in TreeNodes \cup {NULL}
    BY <1>0, TreeChild
  <2> QED BY <1>4, <2>1 DEF TreeHeir
<1>12. k[p] = l1[p] /\ s[p] = r1[p]
  BY <1>1, <1>8
<1> QED BY <1>1, <1>4, <1>6, <1>10, <1>11, <1>12 DEF k, s, TreeHeirAt

(* k and s are the links without n, whose parent p has the heir instead.   *)
TreeWithout(l, r, n, e, p, k, s) ==
  /\ k \in TreeLinks /\ s \in TreeLinks
  /\ \A x \in TreeNodes :
       /\ k[x] = IF x = n THEN NULL
                 ELSE IF x = p /\ l[x] = n THEN TreeHeir(l, r, n)
                 ELSE IF TreeTwo(l, r, n) /\ x = r[n] THEN l[n] ELSE l[x]
       /\ s[x] = IF x = n THEN NULL
                 ELSE IF x = p /\ l[x] # n THEN TreeHeir(l, r, n)
                 ELSE IF TreeTwo(l, r, n) /\ x = e THEN l[r[n]] ELSE r[x]

LEMMA TreeGoneIs ==
  ASSUME NEW l \in TreeLinks, NEW r \in TreeLinks, NEW n \in TreeNodes, NEW e,
         r[n] # n, TreeTwo(l, r, n) => e \in TreeNodes /\ e # n
  PROVE  /\ TreeLeftGone(l, r, n) =
              [x \in TreeNodes |-> IF x = n THEN NULL
                                   ELSE IF TreeTwo(l, r, n) /\ x = r[n] THEN l[n] ELSE l[x]]
         /\ TreeRightGone(l, r, n, e) =
              [x \in TreeNodes |-> IF x = n THEN NULL
                                   ELSE IF TreeTwo(l, r, n) /\ x = e THEN l[r[n]] ELSE r[x]]
<1>1. r[n] \in TreeNodes \cup {NULL}
  BY DEF TreeLinks
<1>2. CASE TreeTwo(l, r, n)
  <2>1. r[n] \in TreeNodes
    BY <1>1, <1>2 DEF TreeTwo
  <2>2. TreeLeftGone(l, r, n) = [l EXCEPT ![n] = NULL, ![r[n]] = l[n]]
    BY <1>2 DEF TreeLeftGone
  <2>3. TreeRightGone(l, r, n, e) = [r EXCEPT ![n] = NULL, ![e] = l[r[n]]]
    BY <1>2 DEF TreeRightGone
  <2>4. TreeLeftGone(l, r, n) =
          [x \in TreeNodes |-> IF x = n THEN NULL ELSE IF x = r[n] THEN l[n] ELSE l[x]]
    BY <2>1, <2>2 DEF TreeLinks
  <2>5. TreeRightGone(l, r, n, e) =
          [x \in TreeNodes |-> IF x = n THEN NULL ELSE IF x = e THEN l[r[n]] ELSE r[x]]
    BY <1>2, <2>3 DEF TreeLinks
  <2> QED BY <1>2, <2>4, <2>5
<1>3. CASE ~TreeTwo(l, r, n)
  <2>1. TreeLeftGone(l, r, n) = [l EXCEPT ![n] = NULL]
    BY <1>3 DEF TreeLeftGone
  <2>2. TreeRightGone(l, r, n, e) = [r EXCEPT ![n] = NULL]
    BY <1>3 DEF TreeRightGone
  <2>3. TreeLeftGone(l, r, n) = [x \in TreeNodes |-> IF x = n THEN NULL ELSE l[x]]
    BY <2>1 DEF TreeLinks
  <2>4. TreeRightGone(l, r, n, e) = [x \in TreeNodes |-> IF x = n THEN NULL ELSE r[x]]
    BY <2>2 DEF TreeLinks
  <2> QED BY <1>3, <2>3, <2>4
<1> QED BY <1>2, <1>3

LEMMA TreeUnlinksRoot ==
  ASSUME NEW l, NEW r, NEW D, NEW val, TreeSorted(l, r, D, val),
         NEW n \in TreeNodes, TreeTop(D, n), NEW e,
         TreeTwo(l, r, n) => TreeEndOf(l, r, D, l[n], e),
         NEW k, NEW s, TreeWithout(l, r, n, e, NULL, k, s)
  PROVE  \E E : /\ TreeSorted(k, s, E, val)
                /\ TreeBelow(E, TreeHeir(l, r, n)) = D[n] \ {n}
<1>1. PICK E : TreeMerged(l, r, D, val, n, e, E)
  BY TreeMerges
<1>2. /\ TreeForest(l, r, D) /\ l \in TreeLinks /\ r \in TreeLinks /\ r[n] # n
      /\ TreeTwo(l, r, n) => e \in TreeNodes /\ e # n
  <2>1. TreeForest(l, r, D)
    BY DEF TreeSorted
  <2>2. r[n] # n
    BY <2>1, TreeChild, TreeSelf, TreeNullNoNode DEF TreeBelow
  <2>3. ASSUME TreeTwo(l, r, n) PROVE e \in TreeNodes /\ e # n
    <3>1. l[n] \in TreeNodes /\ e \in D[l[n]]
      BY <2>3 DEF TreeEndOf
    <3>2. n \notin D[l[n]] /\ D[l[n]] \subseteq TreeNodes
      BY <2>1, <3>1, TreeChild, TreeSelf, TreeNullNoNode DEF TreeBelow
    <3> QED BY <3>1, <3>2
  <2> QED BY <2>1, <2>2, <2>3 DEF TreeForest
<1>3. k = TreeLeftGone(l, r, n)
  <2>1. k = [x \in TreeNodes |-> IF x = n THEN NULL
                                 ELSE IF TreeTwo(l, r, n) /\ x = r[n] THEN l[n] ELSE l[x]]
    BY TreeNullNoNode DEF TreeWithout, TreeLinks
  <2> QED BY <1>2, <2>1, TreeGoneIs
<1>4. s = TreeRightGone(l, r, n, e)
  <2>1. s = [x \in TreeNodes |-> IF x = n THEN NULL
                                 ELSE IF TreeTwo(l, r, n) /\ x = e THEN l[r[n]] ELSE r[x]]
    BY TreeNullNoNode DEF TreeWithout, TreeLinks
  <2> QED BY <1>2, <2>1, TreeGoneIs
<1> QED BY <1>1, <1>3, <1>4 DEF TreeMerged

LEMMA TreeUnlinksBelow ==
  ASSUME NEW l, NEW r, NEW D, NEW val, TreeSorted(l, r, D, val),
         NEW root \in TreeNodes, NEW p \in D[root],
         NEW n \in TreeNodes, n = l[p] \/ n = r[p], NEW e,
         TreeTwo(l, r, n) => TreeEndOf(l, r, D, l[n], e),
         NEW k, NEW s, TreeWithout(l, r, n, e, p, k, s)
  PROVE  \E E : TreeSorted(k, s, E, val) /\ E[root] = D[root] \ {n}
<1> DEFINE m == TreeHeir(l, r, n)
           E1 == TreeCut(D, p, n)
<1>1. TreeForest(l, r, D) /\ l \in TreeLinks /\ r \in TreeLinks
  BY DEF TreeSorted, TreeForest
<1>2. /\ p \in TreeNodes /\ n \in D[p] /\ n \in D[root] /\ D[n] \subseteq D[root]
      /\ p \notin D[n] /\ n # p /\ n \in D[n]
  <2>1. p \in TreeNodes /\ D[p] \subseteq D[root] /\ n \in D[n]
    BY <1>1, TreeSelf, TreeTransitive
  <2>2. n \in D[p] /\ p \notin D[n] /\ D[n] \subseteq D[p]
    BY <1>1, <2>1, TreeChild, TreeNullNoNode DEF TreeBelow
  <2> QED BY <2>1, <2>2
<1>3. root \notin D[n]
  BY <1>1, <1>2, TreeTransitive
<1>4. r[n] # n /\ r[n] # p /\ (TreeTwo(l, r, n) => e \in TreeNodes /\ e # n /\ e # p)
  <2>1. ASSUME NEW c \in TreeNodes, c = l[n] \/ c = r[n]
        PROVE  c # n /\ c \in D[n] /\ D[c] \subseteq D[n] /\ D[c] \subseteq TreeNodes /\ n \notin D[c]
    BY <1>1, <2>1, TreeChild, TreeSelf, TreeNullNoNode DEF TreeBelow
  <2>2. l[n] \in TreeNodes \cup {NULL} /\ r[n] \in TreeNodes \cup {NULL}
    BY <1>1, TreeChild
  <2>3. TreeTwo(l, r, n) => l[n] \in TreeNodes /\ e \in D[l[n]]
    BY DEF TreeEndOf
  <2> QED BY <1>2, <2>1, <2>2, <2>3, TreeNullNoNode
<1>5. \A x \in TreeNodes :
       /\ k[x] = IF x = n THEN NULL
                 ELSE IF x = p /\ l[x] = n THEN m
                 ELSE IF TreeTwo(l, r, n) /\ x = r[n] THEN l[n] ELSE l[x]
       /\ s[x] = IF x = n THEN NULL
                 ELSE IF x = p /\ l[x] # n THEN m
                 ELSE IF TreeTwo(l, r, n) /\ x = e THEN l[r[n]] ELSE r[x]
  BY DEF TreeWithout
<1>6. k \in [TreeNodes -> TreeNodes \cup {NULL}] /\ s \in [TreeNodes -> TreeNodes \cup {NULL}]
  BY DEF TreeWithout, TreeLinks
<1>7. \A x \in TreeNodes : E1[x] = IF p \in D[x] THEN D[x] \ D[n] ELSE D[x]
  BY <1>2, TreeNullNoNode DEF TreeCut, TreeBelow
<1> HIDE DEF m, E1
<1>8. ASSUME NEW l1, NEW r1, NEW F, TreeMerged(l1, r1, E1, val, n, e, F),
             E1[n] = D[n], TreeHeir(l1, r1, n) = m, m \in TreeNodes \cup {NULL}
      PROVE  /\ TreeJoin(F, p, m)[root] = D[root] \ {n} /\ TreeBelow(F, m) = D[n] \ {n}
             /\ m # NULL => TreeTop(F, m) /\ p \notin F[m]
  <2>1. /\ TreeBelow(F, m) = D[n] \ {n} /\ (m # NULL => TreeTop(F, m))
        /\ F[root] = E1[root]
    BY <1>3, <1>8 DEF TreeMerged
  <2>2. F[root] = D[root] \ D[n] /\ p \in F[root]
    BY <1>2, <1>7, <2>1
  <2>3. TreeJoin(F, p, m)[root] = F[root] \cup (D[n] \ {n})
    BY <2>1, <2>2 DEF TreeJoin
  <2>4. m # NULL => p \notin F[m]
    BY <1>2, <2>1 DEF TreeBelow
  <2> QED BY <1>2, <2>1, <2>2, <2>3, <2>4
<1>9. CASE l[p] = n
  <2> DEFINE l1 == [l EXCEPT ![p] = NULL]
             k1 == TreeLeftGone(l1, r, n)
             s1 == TreeRightGone(l1, r, n, e)
  <2>1. TreeCutAt(l, r, D, p, n, l1, r, E1)
    BY <1>2, <1>9, TreeCutsAt DEF E1
  <2>2. l1 \in TreeLinks /\ \A x \in TreeNodes : l1[x] = IF x = p THEN NULL ELSE l[x]
    BY <1>1, <1>2 DEF TreeLinks
  <2> HIDE DEF l1
  <2>3. PICK F : TreeHeirAt(l, r, D, val, p, n, e, l1, r, E1, F)
    BY <1>2, <2>1, TreeHeirFits
  <2>4. /\ TreeMerged(l1, r, E1, val, n, e, F)
        /\ TreeFits(k1, s1, F, val, p, D[n])
        /\ E1[n] = D[n] /\ TreeHeir(l1, r, n) = m /\ m \in TreeNodes \cup {NULL}
        /\ k1[p] = l1[p] /\ s1[p] = r[p]
    BY <2>3 DEF TreeHeirAt, m
  <2>5. /\ TreeJoin(F, p, m)[root] = D[root] \ {n} /\ TreeBelow(F, m) = D[n] \ {n}
        /\ m # NULL => TreeTop(F, m) /\ p \notin F[m]
    BY <1>8, <2>4
  <2>6. TreeTwo(l, r, n) => l1[r[n]] = l[r[n]]
    <3>1. r[n] \in TreeNodes \cup {NULL}
      BY <1>1, TreeChild
    <3> QED BY <1>4, <2>2, <3>1 DEF TreeTwo
  <2>7. TreeSorted(k1, s1, F, val)
    BY <2>4 DEF TreeMerged
  <2>8. k1 = [x \in TreeNodes |-> IF x = n THEN NULL
                                  ELSE IF TreeTwo(l1, r, n) /\ x = r[n] THEN l1[n] ELSE l1[x]]
        /\ s1 = [x \in TreeNodes |-> IF x = n THEN NULL
                                     ELSE IF TreeTwo(l1, r, n) /\ x = e THEN l1[r[n]] ELSE r[x]]
    <3>1. TreeTwo(l1, r, n) => e \in TreeNodes /\ e # n
      BY <1>2, <1>4, <2>2 DEF TreeTwo
    <3> QED BY <1>1, <1>4, <2>2, <3>1, TreeGoneIs
  <2> HIDE DEF k1, s1
  <2>9. \A q \in TreeBelow(F, m) : val[q] < val[p]
    BY <1>2, <1>9, <2>5, TreeNullNoNode DEF TreeSorted, TreeLess, TreeBelow
  <2>10. TreeFits(k1, s1, F, val, p, TreeBelow(F, m))
    BY <2>4, <2>5 DEF TreeFits
  <2>11. TreeSorted([k1 EXCEPT ![p] = m], s1, TreeJoin(F, p, m), val)
    BY <1>2, <2>2, <2>4, <2>5, <2>7, <2>9, <2>10, TreeJoinLeft
  <2>12. TreeTwo(l1, r, n) = TreeTwo(l, r, n) /\ l1[n] = l[n]
    BY <1>2, <2>2 DEF TreeTwo
  <2>13. \A x \in TreeNodes : [k1 EXCEPT ![p] = m][x] = k[x]
    BY <1>2, <1>4, <1>5, <1>9, <2>2, <2>8, <2>12
  <2>14. \A x \in TreeNodes : s1[x] = s[x]
    BY <1>2, <1>4, <1>5, <1>9, <2>6, <2>8, <2>12
  <2>15. k = [k1 EXCEPT ![p] = m]
    BY <1>2, <1>6, <2>8, <2>13
  <2>16. s = s1
    BY <1>6, <2>8, <2>14
  <2> QED BY <2>5, <2>11, <2>15, <2>16
<1>10. CASE l[p] # n
  <2> DEFINE r1 == [r EXCEPT ![p] = NULL]
             k1 == TreeLeftGone(l, r1, n)
             s1 == TreeRightGone(l, r1, n, e)
  <2>1. TreeCutAt(l, r, D, p, n, l, r1, E1)
    BY <1>2, <1>10, TreeCutsAt DEF E1
  <2>2. r1 \in TreeLinks /\ \A x \in TreeNodes : r1[x] = IF x = p THEN NULL ELSE r[x]
    BY <1>1, <1>2 DEF TreeLinks
  <2> HIDE DEF r1
  <2>3. PICK F : TreeHeirAt(l, r, D, val, p, n, e, l, r1, E1, F)
    BY <1>2, <2>1, TreeHeirFits
  <2>4. /\ TreeMerged(l, r1, E1, val, n, e, F)
        /\ TreeFits(k1, s1, F, val, p, D[n])
        /\ E1[n] = D[n] /\ TreeHeir(l, r1, n) = m /\ m \in TreeNodes \cup {NULL}
        /\ k1[p] = l[p] /\ s1[p] = r1[p]
    BY <2>3 DEF TreeHeirAt, m
  <2>5. /\ TreeJoin(F, p, m)[root] = D[root] \ {n} /\ TreeBelow(F, m) = D[n] \ {n}
        /\ m # NULL => TreeTop(F, m) /\ p \notin F[m]
    BY <1>8, <2>4
  <2>6. TreeTwo(l, r1, n) = TreeTwo(l, r, n) /\ r1[n] = r[n]
    BY <1>2, <2>2 DEF TreeTwo
  <2>7. TreeSorted(k1, s1, F, val)
    BY <2>4 DEF TreeMerged
  <2>8. k1 = [x \in TreeNodes |-> IF x = n THEN NULL
                                  ELSE IF TreeTwo(l, r1, n) /\ x = r1[n] THEN l[n] ELSE l[x]]
        /\ s1 = [x \in TreeNodes |-> IF x = n THEN NULL
                                     ELSE IF TreeTwo(l, r1, n) /\ x = e THEN l[r1[n]] ELSE r1[x]]
    <3>1. r1[n] # n /\ (TreeTwo(l, r1, n) => e \in TreeNodes /\ e # n)
      BY <1>4, <2>6
    <3> QED BY <1>1, <2>2, <3>1, TreeGoneIs
  <2> HIDE DEF k1, s1
  <2>9. \A q \in TreeBelow(F, m) : val[q] >= val[p]
    BY <1>2, <1>10, <2>5, TreeNullNoNode DEF TreeSorted, TreeMore, TreeBelow
  <2>10. TreeFits(k1, s1, F, val, p, TreeBelow(F, m))
    BY <2>4, <2>5 DEF TreeFits
  <2>11. TreeSorted(k1, [s1 EXCEPT ![p] = m], TreeJoin(F, p, m), val)
    BY <1>2, <2>2, <2>4, <2>5, <2>7, <2>9, <2>10, TreeJoinRight
  <2>12. \A x \in TreeNodes : [s1 EXCEPT ![p] = m][x] = s[x]
    BY <1>2, <1>4, <1>5, <1>10, <2>2, <2>8, <2>6
  <2>13. \A x \in TreeNodes : k1[x] = k[x]
    BY <1>2, <1>4, <1>5, <1>10, <2>6, <2>8
  <2>14. s = [s1 EXCEPT ![p] = m]
    BY <1>2, <1>6, <2>8, <2>12
  <2>15. k = k1
    BY <1>6, <2>8, <2>13
  <2> QED BY <2>5, <2>11, <2>14, <2>15
<1> QED BY <1>9, <1>10

(* A tree without what it holds: the links from the root are sorted, other *)
(* nodes have none, and a child has its parent, or itself, as its parent.  *)
TreeFields ==
  {"root", "num_nodes", "val", "lchild", "rchild", "parent", "holds", "excused", "crashed"}

TreeIs(t, D) ==
  /\ DOMAIN t = TreeFields
  /\ TreeSorted(t.lchild, t.rchild, D, t.val)
  /\ t.val \in [TreeNodes -> TreeVals] /\ t.parent \in TreeLinks
  /\ t.root \in TreeNodes \cup {NULL} /\ t.num_nodes \in 0..TreeMaxNodes
  /\ TreeBelow(D, t.root) \subseteq 1..t.num_nodes
  /\ t.root # NULL => t.parent[t.root] = NULL
  /\ \A x \in TreeNodes :
       x \notin TreeBelow(D, t.root) => t.lchild[x] = NULL /\ t.rchild[x] = NULL
  /\ \A q, c \in TreeNodes :
       c = t.lchild[q] \/ c = t.rchild[q] => t.parent[c] = q \/ t.parent[c] = c

(* Nodes that do not hang at the root hang nowhere, and nothing at them.   *)
LEMMA TreeLoose ==
  ASSUME NEW l, NEW r, NEW D, TreeForest(l, r, D), NEW root \in TreeNodes \cup {NULL},
         \A x \in TreeNodes : x \notin TreeBelow(D, root) => l[x] = NULL /\ r[x] = NULL
  PROVE  /\ \A n \in TreeNodes : n \notin TreeBelow(D, root) => TreeTop(D, n) /\ D[n] = {n}
         /\ root # NULL => TreeTop(D, root)
<1>1. \A x \in TreeNodes : x \notin TreeBelow(D, root) => D[x] = {x}
  BY TreeChild DEF TreeBelow
<1>2. \A x \in TreeBelow(D, root) : D[x] \subseteq TreeBelow(D, root)
  BY TreeBelowTransitive
<1>3. ASSUME NEW n \in TreeNodes, n \notin TreeBelow(D, root) PROVE TreeTop(D, n)
  BY <1>1, <1>2, <1>3 DEF TreeTop
<1>4. ASSUME root # NULL PROVE TreeTop(D, root)
  <2>1. root \in TreeNodes /\ TreeBelow(D, root) = D[root] /\ root \in D[root]
    BY <1>4, TreeSelf DEF TreeBelow
  <2>2. ASSUME NEW x \in TreeNodes, root \in D[x] PROVE x = root
    <3>1. CASE x \in D[root]
      BY <2>1, <2>2, <3>1, TreeAntisymmetric
    <3>2. CASE x \notin D[root]
      BY <1>1, <2>1, <2>2, <3>2
    <3> QED BY <3>1, <3>2
  <2> QED BY <2>2 DEF TreeTop
<1> QED BY <1>1, <1>3, <1>4

LEMMA TreeRevalue ==
  ASSUME NEW l, NEW r, NEW D, NEW val, TreeSorted(l, r, D, val),
         NEW n \in TreeNodes, TreeTop(D, n), l[n] = NULL, r[n] = NULL, NEW v \in Nat
  PROVE  TreeSorted(l, r, D, [val EXCEPT ![n] = v])
<1> DEFINE w == [val EXCEPT ![n] = v]
<1>1. TreeForest(l, r, D) /\ val \in [TreeNodes -> Nat]
  BY DEF TreeSorted
<1>2. w \in [TreeNodes -> Nat] /\ \A x \in TreeNodes : x # n => w[x] = val[x]
  BY <1>1
<1>3. ASSUME NEW x \in TreeNodes, NEW m \in TreeBelow(D, l[x]) \cup TreeBelow(D, r[x])
      PROVE  x # n /\ m # n /\ m \in TreeNodes
  <2>1. m \in D[x] /\ x # m /\ D[x] \subseteq TreeNodes
    BY <1>1, <1>3, TreeChild, TreeSelf
  <2>2. x # n
    BY <1>3 DEF TreeBelow
  <2> QED BY <2>1, <2>2 DEF TreeTop
<1> HIDE DEF w
<1>4. TreeLess(D, l, w)
  BY <1>2, <1>3 DEF TreeSorted, TreeLess
<1>5. TreeMore(D, r, w)
  BY <1>2, <1>3 DEF TreeSorted, TreeMore
<1> QED BY <1>1, <1>2, <1>4, <1>5 DEF TreeSorted, w

(* Where an insertion puts its node.                                       *)
LEMMA TreeParentFor ==
  ASSUME NEW t, NEW D, TreeIs(t, D), NEW v \in Nat, NEW p, p = tree_parent_for(t, v)
  PROVE  /\ t.root = NULL => p = NULL
         /\ t.root # NULL =>
              /\ p \in D[t.root]
              /\ v < t.val[p] => t.lchild[p] = NULL
              /\ v >= t.val[p] => t.rchild[p] = NULL
              /\ \A x \in D[t.root] : /\ p \in TreeBelow(D, t.lchild[x]) => v < t.val[x]
                                      /\ p \in TreeBelow(D, t.rchild[x]) => v >= t.val[x]
<1> DEFINE l == t.lchild
           r == t.rchild
           val == t.val
           next == [n \in TreeNodes |-> IF v < val[n] THEN l[n] ELSE r[n]]
<1>1. /\ TreeForest(l, r, D) /\ val \in [TreeNodes -> Nat]
      /\ t.root \in TreeNodes \cup {NULL}
  BY DEF TreeIs, TreeSorted
<1>2. p = TreeLastOn(next, TreeNodes, t.root)
  BY DEF tree_parent_for
<1>3. \A n \in TreeNodes : /\ v < val[n] => next[n] = l[n]
                           /\ ~(v < val[n]) => next[n] = r[n]
                           /\ next[n] = l[n] \/ next[n] = r[n]
  OBVIOUS
<1>4. next \in TreeLinks
  BY <1>1, TreeChild DEF TreeLinks
<1> HIDE DEF next, l, r, val
<1>5. CASE t.root = NULL
  <2>1. TreeWay(next, l, r)
    BY <1>3, <1>4 DEF TreeWay
  <2>2. p \in (TreeBelow(D, t.root) \cap TreeNodes) \cup {NULL}
    BY <1>1, <1>2, <2>1, TreeLastBelow
  <2> QED BY <1>5, <2>2 DEF TreeBelow
<1>6. CASE t.root # NULL
  <2>1. /\ p \in D[t.root] /\ next[p] = NULL
        /\ \A x \in D[t.root] : /\ p \in TreeBelow(D, l[x]) => next[x] = l[x]
                                /\ p \in TreeBelow(D, r[x]) => next[x] = r[x]
    BY <1>1, <1>2, <1>3, <1>4, <1>6, TreeLastEnds
  <2>2. p \in TreeNodes
    BY <1>1, <1>6, <2>1, TreeSelf
  <2>3. (v < val[p] => l[p] = NULL) /\ (v >= val[p] => r[p] = NULL)
    BY <1>1, <1>3, <2>1, <2>2
  <2>4. ASSUME NEW x \in D[t.root]
        PROVE  /\ p \in TreeBelow(D, l[x]) => v < val[x]
               /\ p \in TreeBelow(D, r[x]) => v >= val[x]
    <3>1. x \in TreeNodes /\ val[x] \in Nat
      BY <1>1, <1>6, TreeSelf
    <3>2. TreeBelow(D, l[x]) \cap TreeBelow(D, r[x]) = {}
      BY <1>1, <3>1, TreeChild
    <3>3. ASSUME p \in TreeBelow(D, l[x]) PROVE v < val[x]
      <4>1. next[x] = l[x] /\ l[x] # r[x]
        BY <2>1, <3>2, <3>3
      <4> QED BY <1>3, <3>1, <4>1
    <3>4. ASSUME p \in TreeBelow(D, r[x]) PROVE v >= val[x]
      <4>1. next[x] = r[x] /\ l[x] # r[x]
        BY <2>1, <3>2, <3>4
      <4>2. ~(v < val[x])
        BY <1>3, <3>1, <4>1
      <4> QED BY <3>1, <4>2
    <3> QED BY <3>3, <3>4
  <2> QED BY <1>6, <2>1, <2>3, <2>4 DEF l, r, val
<1> QED BY <1>5, <1>6

(* Where tree_insert puts the value v: in the node new, below p.           *)
TreeInserted(t, v, p, new, t2) ==
  /\ DOMAIN t2 = TreeFields /\ t2.num_nodes = new
  /\ t2.val = [t.val EXCEPT ![new] = v] /\ t2.parent = [t.parent EXCEPT ![new] = p]
  /\ t2.holds = t.holds /\ t2.excused = t.excused /\ t2.crashed = t.crashed
  /\ t2.root = IF p = NULL THEN new ELSE t.root
  /\ t2.lchild = IF p # NULL /\ v < t.val[p] THEN [t.lchild EXCEPT ![p] = new] ELSE t.lchild
  /\ t2.rchild = IF p # NULL /\ ~(v < t.val[p]) THEN [t.rchild EXCEPT ![p] = new] ELSE t.rchild

LEMMA TreeInsertIs ==
  ASSUME NEW t, DOMAIN t = TreeFields, ~TreeFull(t), NEW v
  PROVE  TreeInserted(t, v, tree_parent_for(t, v), t.num_nodes + 1, tree_insert(t, v))
<1> DEFINE p == tree_parent_for(t, v)
           new == t.num_nodes + 1
           t2 == tree_insert(t, v)
<1> DEFINE fresh == [t EXCEPT !.num_nodes = new, !.val[new] = v, !.parent[new] = p]
<1>1. /\ DOMAIN fresh = TreeFields /\ fresh.num_nodes = new
      /\ fresh.val = [t.val EXCEPT ![new] = v] /\ fresh.parent = [t.parent EXCEPT ![new] = p]
      /\ fresh.holds = t.holds /\ fresh.excused = t.excused /\ fresh.crashed = t.crashed
      /\ fresh.root = t.root /\ fresh.lchild = t.lchild /\ fresh.rchild = t.rchild
  BY DEF TreeFields
<1>2. t2 = tree_node_insert(t, v, p)
  BY DEF tree_insert
<1> HIDE DEF fresh, p, new, t2
<1>3. ASSUME p = NULL PROVE TreeInserted(t, v, p, new, t2)
  <2>1. t2 = [fresh EXCEPT !.root = new]
    BY <1>2, <1>3 DEF tree_node_insert, fresh, new
  <2> QED BY <1>1, <1>3, <2>1 DEF TreeFields, TreeInserted
<1>4. ASSUME p # NULL /\ v < t.val[p] PROVE TreeInserted(t, v, p, new, t2)
  <2>1. t2 = [fresh EXCEPT !.lchild[p] = new]
    BY <1>2, <1>4 DEF tree_node_insert, fresh, new
  <2> QED BY <1>1, <1>4, <2>1 DEF TreeFields, TreeInserted
<1>5. ASSUME p # NULL /\ ~(v < t.val[p]) PROVE TreeInserted(t, v, p, new, t2)
  <2>1. t2 = [fresh EXCEPT !.rchild[p] = new]
    BY <1>2, <1>5 DEF tree_node_insert, fresh, new
  <2> QED BY <1>1, <1>5, <2>1 DEF TreeFields, TreeInserted
<1>6. TreeInserted(t, v, p, new, t2)
  BY <1>3, <1>4, <1>5
<1> QED BY <1>6 DEF p, new, t2

(* How often the tree has a value.                                         *)
TreeWith(t, D, v) == {n \in TreeBelow(D, t.root) : t.val[n] = v}
TreeOf(t, D, v) == Cardinality(TreeWith(t, D, v))

TreeOneMore(t, D, v, t2, D2) ==
  \A w \in TreeVals : TreeOf(t2, D2, w) = TreeOf(t, D, w) + (IF w = v THEN 1 ELSE 0)

TreeGrown(t, D, v, t2, D2) ==
  /\ TreeIs(t2, D2) /\ t2.num_nodes = t.num_nodes + 1
  /\ t2.holds = t.holds /\ t2.excused = t.excused /\ t2.crashed = t.crashed
  /\ TreeOneMore(t, D, v, t2, D2)

LEMMA TreeOfGrown ==
  ASSUME NEW t, NEW D, NEW t2, NEW D2, NEW v, NEW new \in TreeNodes,
         TreeBelow(D, t.root) \subseteq TreeNodes, new \notin TreeBelow(D, t.root),
         TreeBelow(D2, t2.root) = TreeBelow(D, t.root) \cup {new},
         t.val \in [TreeNodes -> TreeVals], t2.val = [t.val EXCEPT ![new] = v]
  PROVE  TreeOneMore(t, D, v, t2, D2)
<1> SUFFICES ASSUME NEW w \in TreeVals
             PROVE  TreeOf(t2, D2, w) = TreeOf(t, D, w) + (IF w = v THEN 1 ELSE 0)
  BY DEF TreeOneMore
<1>1. IsFiniteSet(TreeWith(t, D, w)) /\ new \notin TreeWith(t, D, w)
  <2>1. TreeWith(t, D, w) \in SUBSET TreeNodes /\ new \notin TreeWith(t, D, w)
    BY DEF TreeWith
  <2> QED BY <2>1, TreeNodesFinite, FS_Subset
<1>2. CASE w = v
  <2>1. TreeWith(t2, D2, w) = TreeWith(t, D, w) \cup {new}
    BY <1>2 DEF TreeWith
  <2> QED BY <1>1, <1>2, <2>1, FS_AddElement DEF TreeOf
<1>3. CASE w # v
  <2>1. TreeWith(t2, D2, w) = TreeWith(t, D, w)
    BY <1>3 DEF TreeWith
  <2>2. TreeOf(t, D, w) \in Nat
    BY <1>1, FS_CardinalityType DEF TreeOf
  <2> QED BY <1>3, <2>1, <2>2 DEF TreeOf
<1> QED BY <1>2, <1>3

LEMMA TreeInserts ==
  ASSUME NEW t, NEW D, TreeIs(t, D), ~TreeFull(t), NEW v \in TreeVals
  PROVE  \E D2 : TreeGrown(t, D, v, tree_insert(t, v), D2)
<1> DEFINE p == tree_parent_for(t, v)
           new == t.num_nodes + 1
           t2 == tree_insert(t, v)
           l == t.lchild
           r == t.rchild
           R == TreeBelow(D, t.root)
           val == [t.val EXCEPT ![new] = v]
<1>0. v \in Nat /\ TreeVals \subseteq Nat
  BY TreeAssumption
<1>1. /\ DOMAIN t = TreeFields /\ TreeSorted(l, r, D, t.val) /\ TreeForest(l, r, D)
      /\ t.val \in [TreeNodes -> TreeVals] /\ t.parent \in TreeLinks
      /\ t.root \in TreeNodes \cup {NULL} /\ t.num_nodes \in 0..TreeMaxNodes
      /\ R \subseteq 1..t.num_nodes
      /\ t.root # NULL => t.parent[t.root] = NULL
      /\ \A x \in TreeNodes : x \notin R => l[x] = NULL /\ r[x] = NULL
      /\ \A q, c \in TreeNodes : c = l[q] \/ c = r[q] => t.parent[c] = q \/ t.parent[c] = c
  BY DEF TreeIs, TreeSorted
<1>2. new \in TreeNodes /\ new \in 0..TreeMaxNodes /\ new \notin R /\ t.num_nodes \in Nat
      /\ R \subseteq TreeNodes /\ R \subseteq 1..new /\ new \in 1..new
  <2>1. t.num_nodes \in Nat /\ t.num_nodes < TreeMaxNodes /\ TreeMaxNodes \in Nat
    BY <1>1, TreeAssumption DEF TreeFull
  <2> QED BY <1>1, <2>1 DEF TreeNodes
<1>3. /\ t.root = NULL => p = NULL
      /\ t.root # NULL =>
              /\ p \in D[t.root]
              /\ v < t.val[p] => l[p] = NULL
              /\ v >= t.val[p] => r[p] = NULL
              /\ \A x \in D[t.root] : /\ p \in TreeBelow(D, l[x]) => v < t.val[x]
                                      /\ p \in TreeBelow(D, r[x]) => v >= t.val[x]
  BY <1>0, TreeParentFor
<1>4. /\ DOMAIN t2 = TreeFields /\ t2.num_nodes = new
      /\ t2.val = val /\ t2.parent = [t.parent EXCEPT ![new] = p]
      /\ t2.holds = t.holds /\ t2.excused = t.excused /\ t2.crashed = t.crashed
      /\ t2.root = IF p = NULL THEN new ELSE t.root
      /\ t2.lchild = IF p # NULL /\ v < t.val[p] THEN [l EXCEPT ![p] = new] ELSE l
      /\ t2.rchild = IF p # NULL /\ ~(v < t.val[p]) THEN [r EXCEPT ![p] = new] ELSE r
  BY <1>1, TreeInsertIs DEF TreeInserted
<1> HIDE DEF t2, l, r, val, p, new
<1>5. TreeTop(D, new) /\ D[new] = {new} /\ l[new] = NULL /\ r[new] = NULL
  BY <1>1, <1>2, TreeLoose
<1>6. TreeSorted(l, r, D, val)
  BY <1>0, <1>1, <1>2, <1>5, TreeRevalue DEF val
<1>7. val \in [TreeNodes -> TreeVals] /\ val[new] = v /\ \A x \in TreeNodes : x # new => val[x] = t.val[x]
  BY <1>1, <1>2 DEF val
<1>8. p \in TreeNodes \cup {NULL} /\ p # new
  BY <1>1, <1>2, <1>3, TreeNullNoNode DEF TreeBelow
<1>9. /\ t2.parent \in TreeLinks /\ t2.parent[new] = p
      /\ \A x \in TreeNodes : x # new => t2.parent[x] = t.parent[x]
  BY <1>1, <1>2, <1>4, <1>8 DEF TreeLinks
<1>10. ASSUME NEW D2, TreeSorted(t2.lchild, t2.rchild, D2, val),
              TreeBelow(D2, t2.root) = R \cup {new}
       PROVE  TreeGrown(t, D, v, t2, D2)
  <2>1. t2.root \in TreeNodes \cup {NULL} /\ t2.parent[t2.root] = NULL
    <3>1. CASE p = NULL
      BY <1>2, <1>4, <1>9, <3>1
    <3>2. CASE p # NULL
      <4>1. t.root # NULL
        BY <1>3, <3>2
      <4>2. t2.root = t.root /\ t.root \in R /\ t.root # new
        BY <1>1, <1>2, <1>4, <3>2, <4>1, TreeSelf DEF TreeBelow
      <4> QED BY <1>1, <1>9, <4>1, <4>2
    <3> QED BY <3>1, <3>2
  <2>2. ASSUME NEW q \in TreeNodes, NEW c \in TreeNodes, c = t2.lchild[q] \/ c = t2.rchild[q]
        PROVE  t2.parent[c] = q \/ t2.parent[c] = c
    <3>1. CASE c = new
      <4>1. c # l[q] /\ c # r[q]
        <5>1. l[q] # new /\ r[q] # new
          BY <1>1, <1>2, <1>5, TreeChild, TreeSelf, TreeNullNoNode DEF TreeBelow, TreeTop
        <5> QED BY <3>1, <5>1
      <4>2. q = p
        BY <1>1, <1>4, <1>8, <2>2, <3>1, <4>1 DEF TreeForest, TreeLinks
      <4> QED BY <1>9, <3>1, <4>2
    <3>2. CASE c # new
      <4>1. c = l[q] \/ c = r[q]
        BY <1>1, <1>4, <1>8, <2>2, <3>2, TreeNullNoNode DEF TreeForest, TreeLinks
      <4> QED BY <1>1, <1>9, <3>2, <4>1
    <3> QED BY <3>1, <3>2
  <2>3. ASSUME NEW x \in TreeNodes, x \notin R \cup {new}
        PROVE  t2.lchild[x] = NULL /\ t2.rchild[x] = NULL
    <3>1. l[x] = NULL /\ r[x] = NULL
      BY <1>1, <2>3
    <3>2. p # NULL => x # p
      BY <1>3, <2>3 DEF TreeBelow
    <3>3. l \in [TreeNodes -> TreeNodes \cup {NULL}] /\ r \in [TreeNodes -> TreeNodes \cup {NULL}]
      BY <1>1 DEF TreeForest, TreeLinks
    <3> QED BY <1>4, <1>8, <3>1, <3>2, <3>3
  <2>4. TreeIs(t2, D2)
    <3>1. t2.val \in [TreeNodes -> TreeVals] /\ t2.val = val
      BY <1>4, <1>7
    <3>2. t2.num_nodes \in 0..TreeMaxNodes /\ TreeBelow(D2, t2.root) \subseteq 1..t2.num_nodes
      BY <1>2, <1>4, <1>10
    <3> QED BY <1>4, <1>9, <1>10, <2>1, <2>2, <2>3, <3>1, <3>2 DEF TreeIs
  <2>5. TreeOneMore(t, D, v, t2, D2)
    <3>1. t2.val = [t.val EXCEPT ![new] = v]
      BY <1>4 DEF val
    <3>2. /\ TreeBelow(D, t.root) \subseteq TreeNodes /\ new \notin TreeBelow(D, t.root)
          /\ TreeBelow(D2, t2.root) = TreeBelow(D, t.root) \cup {new}
          /\ t.val \in [TreeNodes -> TreeVals] /\ new \in TreeNodes
      BY <1>1, <1>2, <1>10
    <3> HIDE DEF R
    <3> QED BY <3>1, <3>2, TreeOfGrown
  <2> QED BY <1>4, <2>4, <2>5 DEF TreeGrown, new
<1>11. CASE p = NULL
  <2>1. t.root = NULL
    BY <1>1, <1>3, <1>11, TreeSelf, TreeNullNoNode
  <2>2. TreeBelow(D, t2.root) = R \cup {new}
    BY <1>2, <1>4, <1>5, <1>11, <2>1, TreeNullNoNode DEF TreeBelow
  <2>3. t2.lchild = l /\ t2.rchild = r
    BY <1>4, <1>11
  <2>4. TreeGrown(t, D, v, t2, D)
    BY <1>6, <1>10, <2>2, <2>3
  <2> QED BY <2>4 DEF t2
<1>12. CASE p # NULL
  <2> DEFINE D2 == TreeJoin(D, p, new)
  <2>1. t.root # NULL /\ t.root \in TreeNodes /\ R = D[t.root] /\ p \in TreeNodes /\ p \in R
    BY <1>1, <1>3, <1>8, <1>12 DEF TreeBelow
  <2>2. TreeBelow(D, new) = {new} /\ new \in TreeNodes \cup {NULL} /\ p \notin D[new]
    BY <1>2, <1>5, <1>8, TreeNullNoNode DEF TreeBelow
  <2>3. TreeBelow(D2, t2.root) = R \cup {new}
    <3>1. t2.root = t.root
      BY <1>4, <1>12
    <3>2. D2[t.root] = R \cup {new}
      BY <2>1, <2>2 DEF TreeJoin
    <3> QED BY <2>1, <3>1, <3>2 DEF TreeBelow
  <2>4. ASSUME NEW x \in TreeNodes, p \in D[x] PROVE x \in D[t.root] /\ x # new
    <3>1. TreeTop(D, t.root)
      BY <1>1, <2>1, TreeLoose
    <3>2. x \in D[t.root]
      BY <1>1, <2>1, <2>4, <3>1, TreeUnderTop
    <3> QED BY <1>2, <2>1, <3>2
  <2>5. ASSUME NEW x \in TreeNodes
        PROVE  /\ p \in TreeBelow(D, l[x]) => v < val[x]
               /\ p \in TreeBelow(D, r[x]) => v >= val[x]
    <3>1. p \in TreeBelow(D, l[x]) \/ p \in TreeBelow(D, r[x]) => p \in D[x]
      BY <1>1, TreeChild
    <3> QED BY <1>3, <1>7, <2>1, <2>4, <3>1
  <2>6. TreeFits(l, r, D, val, p, TreeBelow(D, new))
    BY <1>7, <2>2, <2>5 DEF TreeFits
  <2>7. val[p] = t.val[p] /\ t.val[p] \in Nat
    BY <1>0, <1>1, <1>7, <1>8, <2>1
  <2>8. TreeSorted(t2.lchild, t2.rchild, D2, val)
    <3>1. CASE v < t.val[p]
      <4>1. t2.lchild = [l EXCEPT ![p] = new] /\ t2.rchild = r
        BY <1>4, <1>12, <3>1
      <4>2. l[p] = NULL /\ \A m \in TreeBelow(D, new) : val[m] < val[p]
        BY <1>3, <1>7, <2>1, <2>2, <2>7, <3>1
      <4>3. TreeSorted([l EXCEPT ![p] = new], r, TreeJoin(D, p, new), val)
        BY <1>5, <1>6, <2>1, <2>2, <2>6, <4>2, TreeJoinLeft
      <4> QED BY <4>1, <4>3
    <3>2. CASE ~(v < t.val[p])
      <4>1. t2.lchild = l /\ t2.rchild = [r EXCEPT ![p] = new]
        BY <1>4, <1>12, <3>2
      <4>2. v >= val[p] /\ v >= t.val[p]
        BY <1>0, <2>7, <3>2
      <4>3. r[p] = NULL /\ \A m \in TreeBelow(D, new) : val[m] >= val[p]
        BY <1>3, <1>7, <2>1, <2>2, <4>2
      <4>4. TreeSorted(l, [r EXCEPT ![p] = new], TreeJoin(D, p, new), val)
        BY <1>5, <1>6, <2>1, <2>2, <2>6, <4>3, TreeJoinRight
      <4> QED BY <4>1, <4>4
    <3> QED BY <3>1, <3>2
  <2>9. TreeGrown(t, D, v, t2, D2)
    BY <1>10, <2>3, <2>8
  <2> QED BY <2>9 DEF t2
<1> QED BY <1>11, <1>12

(* Every call keeps the fields of a tree and what went wrong before.       *)
TreeKeeps(t, t2) ==
  /\ DOMAIN t2 = TreeFields /\ t2.num_nodes = t.num_nodes /\ t2.val = t.val
  /\ t2.holds = t.holds /\ t2.excused = t.excused
  /\ t2.crashed = t.crashed \/ t2.crashed = TRUE

TreeLinked(t, p, side, x, t2) ==
  /\ TreeKeeps(t, t2) /\ t2.root = t.root /\ t2.crashed = t.crashed
  /\ side = "lchild" => t2.lchild = [t.lchild EXCEPT ![p] = x] /\ t2.rchild = t.rchild
  /\ side # "lchild" => t2.lchild = t.lchild /\ t2.rchild = [t.rchild EXCEPT ![p] = x]
  /\ x = NULL => t2.parent = t.parent
  /\ x # NULL => t2.parent = [t.parent EXCEPT ![x] = p]

LEMMA TreeLinkIs ==
  ASSUME NEW t, DOMAIN t = TreeFields, NEW p, NEW side, NEW x
  PROVE  TreeLinked(t, p, side, x, TreeLink(t, p, side, x))
<1> DEFINE t2 == TreeLink(t, p, side, x)
<1> DEFINE linked == IF side = "lchild" THEN [t EXCEPT !.lchild[p] = x]
                     ELSE [t EXCEPT !.rchild[p] = x]
<1>1. /\ TreeKeeps(t, linked) /\ linked.root = t.root /\ linked.crashed = t.crashed
      /\ side = "lchild" => linked.lchild = [t.lchild EXCEPT ![p] = x] /\ linked.rchild = t.rchild
      /\ side # "lchild" => linked.lchild = t.lchild /\ linked.rchild = [t.rchild EXCEPT ![p] = x]
      /\ linked.parent = t.parent
  <2>1. CASE side = "lchild"
    BY <2>1 DEF TreeFields, TreeKeeps
  <2>2. CASE side # "lchild"
    BY <2>2 DEF TreeFields, TreeKeeps
  <2> QED BY <2>1, <2>2
<1>2. t2 = IF x = NULL THEN linked ELSE [linked EXCEPT !.parent[x] = p]
  BY DEF TreeLink
<1> HIDE DEF linked, t2
<1>3. ASSUME x = NULL PROVE TreeLinked(t, p, side, x, t2)
  <2>1. t2 = linked
    BY <1>2, <1>3
  <2> QED BY <1>1, <1>3, <2>1 DEF TreeLinked
<1>4. ASSUME x # NULL PROVE TreeLinked(t, p, side, x, t2)
  <2>1. t2 = [linked EXCEPT !.parent[x] = p]
    BY <1>2, <1>4
  <2>2. /\ DOMAIN t2 = DOMAIN linked /\ t2.parent = [linked.parent EXCEPT ![x] = p]
        /\ \A f \in {"root", "num_nodes", "val", "lchild", "rchild", "holds", "excused", "crashed"} :
             t2[f] = linked[f]
    BY <1>1, <2>1 DEF TreeFields, TreeKeeps
  <2>3. TreeKeeps(t, t2)
    BY <1>1, <2>2 DEF TreeKeeps
  <2> QED BY <1>1, <1>4, <2>2, <2>3 DEF TreeLinked
<1> QED BY <1>3, <1>4 DEF t2

TreeRooted(t, x, t2) ==
  /\ TreeKeeps(t, t2) /\ t2.root = x /\ t2.crashed = t.crashed
  /\ t2.lchild = t.lchild /\ t2.rchild = t.rchild
  /\ t2.parent = IF x = NULL THEN t.parent ELSE [t.parent EXCEPT ![x] = NULL]

LEMMA TreeSetRootIs ==
  ASSUME NEW t, DOMAIN t = TreeFields, NEW x
  PROVE  TreeRooted(t, x, TreeSetRoot(t, x))
<1> DEFINE t2 == TreeSetRoot(t, x)
<1>1. CASE x = NULL
  <2>1. t2 = [t EXCEPT !.root = NULL]
    BY <1>1 DEF TreeSetRoot
  <2> QED BY <1>1, <2>1 DEF TreeFields, TreeKeeps, TreeRooted
<1>2. CASE x # NULL
  <2>1. t2 = [t EXCEPT !.root = x, !.parent[x] = NULL]
    BY <1>2 DEF TreeSetRoot
  <2> QED BY <1>2, <2>1 DEF TreeFields, TreeKeeps, TreeRooted
<1> QED BY <1>1, <1>2

(* tree_reorder_rol.                                                       *)
TreeRol(t, a, b, e, t2) ==
  /\ TreeKeeps(t, t2) /\ t2.root = t.root /\ t2.crashed = t.crashed
  /\ t2.lchild = [t.lchild EXCEPT ![b] = a]
  /\ t2.rchild = [t.rchild EXCEPT ![e] = t.lchild[b]]
  /\ t2.parent = IF t.lchild[b] = NULL THEN [t.parent EXCEPT ![a] = b]
                 ELSE [[t.parent EXCEPT ![a] = b] EXCEPT ![t.lchild[b]] = e]

LEMMA TreeRolIs ==
  ASSUME NEW t, DOMAIN t = TreeFields, NEW a, a # NULL, NEW b
  PROVE  TreeRol(t, a, b, TreeLastOn(t.rchild, TreeNodes, a), tree_reorder_rol(t, a, b))
<1> DEFINE t1 == TreeLink(t, b, "lchild", a)
           e == TreeLastOn(t.rchild, TreeNodes, a)
           t2 == tree_reorder_rol(t, a, b)
<1>1. t2 = TreeLink(t1, e, "rchild", t.lchild[b])
  BY DEF tree_reorder_rol
<1>2. /\ TreeKeeps(t, t1) /\ t1.root = t.root /\ t1.crashed = t.crashed
      /\ t1.lchild = [t.lchild EXCEPT ![b] = a] /\ t1.rchild = t.rchild
      /\ t1.parent = [t.parent EXCEPT ![a] = b]
  <2>1. TreeLinked(t, b, "lchild", a, t1)
    BY TreeLinkIs
  <2> HIDE DEF t1
  <2> QED BY <2>1 DEF TreeLinked
<1> HIDE DEF t1, t2, e
<1>3. /\ TreeKeeps(t1, t2) /\ t2.root = t1.root /\ t2.crashed = t1.crashed
      /\ t2.lchild = t1.lchild
      /\ t2.rchild = [t1.rchild EXCEPT ![e] = t.lchild[b]]
      /\ t2.parent = IF t.lchild[b] = NULL THEN t1.parent
                     ELSE [t1.parent EXCEPT ![t.lchild[b]] = e]
  <2>1. DOMAIN t1 = TreeFields
    BY <1>2 DEF TreeKeeps
  <2>2. TreeLinked(t1, e, "rchild", t.lchild[b], t2)
    BY <1>1, <2>1, TreeLinkIs
  <2> QED BY <2>2 DEF TreeLinked
<1>4. TreeRol(t, a, b, e, t2)
  BY <1>2, <1>3 DEF TreeKeeps, TreeRol
<1> QED BY <1>4 DEF t2, e

LEMMA TreeMoveKeeps ==
  ASSUME NEW t, DOMAIN t = TreeFields, NEW n, NEW t2, t2 = tree_reorder_move(t, n)
  PROVE  TreeKeeps(t, t2)
<1> DEFINE p == t.parent[n]
           l == t.lchild[n]
           r == t.rchild[n]
           side == IF t.lchild[p] = n THEN "lchild" ELSE "rchild"
           only == IF l = NULL THEN r ELSE l
           rolled == tree_reorder_rol(t, l, r)
<1>1. \A q, s, x : TreeKeeps(t, TreeLink(t, q, s, x))
  BY TreeLinkIs DEF TreeLinked
<1>2. l # NULL => TreeKeeps(t, rolled)
  BY TreeRolIs DEF TreeRol
<1>3. \A x : TreeKeeps(t, TreeSetRoot(t, x))
  BY TreeSetRootIs DEF TreeRooted
<1>4. /\ l # NULL => \A x : TreeKeeps(rolled, TreeSetRoot(rolled, x))
      /\ l # NULL => \A q, s, x : TreeKeeps(rolled, TreeLink(rolled, q, s, x))
  <2> HIDE DEF rolled
  <2>1. l # NULL => DOMAIN rolled = TreeFields
    BY <1>2 DEF TreeKeeps
  <2>2. l # NULL => \A x : TreeKeeps(rolled, TreeSetRoot(rolled, x))
    BY <2>1, TreeSetRootIs DEF TreeRooted
  <2>3. l # NULL => \A q, s, x : TreeKeeps(rolled, TreeLink(rolled, q, s, x))
    BY <2>1, TreeLinkIs DEF TreeLinked
  <2> QED BY <2>2, <2>3
<1>5. \/ l # NULL /\ (\E x : t2 = TreeSetRoot(rolled, x))
      \/ l # NULL /\ (\E q, s, x : t2 = TreeLink(rolled, q, s, x))
      \/ \E x : t2 = TreeSetRoot(t, x)
      \/ \E q, s, x : t2 = TreeLink(t, q, s, x)
      \/ t2 = [t EXCEPT !.rchild[p] = r, !.parent[r] = r]
      \/ t2 = [t EXCEPT !.rchild[p] = NULL, !.crashed = TRUE]
  <2> HIDE DEF rolled, side, only
  <2>1. CASE p = NULL /\ l # NULL /\ r # NULL
    BY <2>1 DEF tree_reorder_move, rolled
  <2>2. CASE p = NULL /\ (l = NULL \/ r = NULL)
    <3>1. t2 = TreeSetRoot(t, only)
      BY <2>2 DEF tree_reorder_move, only
    <3> QED BY <3>1
  <2>3. CASE p # NULL /\ l # NULL /\ r # NULL
    BY <2>3 DEF tree_reorder_move, rolled
  <2>4. CASE p # NULL /\ l = NULL /\ r # NULL /\ side = "rchild"
    BY <2>4 DEF tree_reorder_move, side
  <2>5. CASE p # NULL /\ l # NULL /\ r = NULL /\ side = "rchild"
    BY <2>5 DEF tree_reorder_move, side
  <2>6. CASE p # NULL /\ ~(l # NULL /\ r # NULL) /\ ((l = NULL /\ r = NULL) \/ side # "rchild")
    <3>1. t2 = TreeLink(t, p, side, only)
      BY <2>6 DEF tree_reorder_move, side, only
    <3> QED BY <3>1
  <2> QED BY <2>1, <2>2, <2>3, <2>4, <2>5, <2>6
<1>6. CASE t2 = [t EXCEPT !.rchild[p] = r, !.parent[r] = r]
  BY <1>6 DEF TreeFields, TreeKeeps
<1>7. CASE t2 = [t EXCEPT !.rchild[p] = NULL, !.crashed = TRUE]
  BY <1>7 DEF TreeFields, TreeKeeps
<1> HIDE DEF p, l, r, side, only, rolled
<1>8. CASE l # NULL /\ TreeKeeps(rolled, t2)
  BY <1>2, <1>8 DEF TreeKeeps
<1> QED BY <1>1, <1>3, <1>4, <1>5, <1>6, <1>7, <1>8

LEMMA TreeHasParent ==
  ASSUME NEW l, NEW r, NEW D, TreeForest(l, r, D),
         NEW root \in TreeNodes, NEW n \in D[root], n # root
  PROVE  \E q \in D[root] : n = l[q] \/ n = r[q]
<1> DEFINE Has(x, m) == \E q \in D[x] : m = l[q] \/ m = r[q]
           S == {x \in TreeNodes : \A m \in D[x] : m # x => Has(x, m)}
<1>1. ASSUME NEW x \in TreeNodes, \A c \in TreeNodes : c = l[x] \/ c = r[x] => c \in S
      PROVE  x \in S
  <2>1. ASSUME NEW m \in D[x], m # x PROVE Has(x, m)
    <3>1. PICK c \in TreeNodes : (c = l[x] \/ c = r[x]) /\ m \in D[c] /\ D[c] \subseteq D[x]
      <4>1. /\ l[x] \in TreeNodes \cup {NULL} /\ r[x] \in TreeNodes \cup {NULL}
            /\ D[x] = {x} \cup TreeBelow(D, l[x]) \cup TreeBelow(D, r[x])
        BY TreeChild
      <4> QED BY <2>1, <4>1 DEF TreeBelow
    <3>2. CASE m = c
      BY <3>1, <3>2, TreeSelf
    <3>3. CASE m # c
      <4>1. Has(c, m)
        BY <1>1, <3>1, <3>3
      <4> QED BY <3>1, <4>1
    <3> QED BY <3>2, <3>3
  <2> QED BY <2>1
<1>2. TreeNodes \subseteq S
  <2> HIDE DEF S
  <2> QED BY <1>1, TreeInduction
<1> QED BY <1>2

LEMMA TreeRightEnd ==
  ASSUME NEW l, NEW r, NEW D, TreeForest(l, r, D), NEW a \in TreeNodes
  PROVE  TreeEndOf(l, r, D, a, TreeLastOn(r, TreeNodes, a))
<1> DEFINE e == TreeLastOn(r, TreeNodes, a)
<1>1. r \in TreeLinks /\ \A m \in TreeNodes : r[m] = l[m] \/ r[m] = r[m]
  BY DEF TreeForest
<1>2. /\ e \in D[a] /\ r[e] = NULL
      /\ \A x \in D[a] : e \in TreeBelow(D, l[x]) => r[x] = l[x]
  BY <1>1, TreeLastEnds
<1> HIDE DEF e
<1>3. ASSUME NEW x \in D[a] PROVE e \notin TreeBelow(D, l[x])
  <2>1. x \in TreeNodes
    BY TreeSelf
  <2>2. TreeBelow(D, l[x]) \cap TreeBelow(D, r[x]) = {}
    BY <2>1, TreeChild
  <2> QED BY <1>2, <2>2
<1>4. TreeEndOf(l, r, D, a, e)
  BY <1>2, <1>3 DEF TreeEndOf
<1> QED BY <1>4 DEF e

(* A node of the tree that is not its own parent, its parent, and where    *)
(* the right links from its left child end.                                *)
TreeSpot(t, D, n, p, e) ==
  /\ TreeIs(t, D) /\ n \in TreeBelow(D, t.root) /\ p = t.parent[n] /\ p # n
  /\ e = TreeLastOn(t.rchild, TreeNodes, t.lchild[n])

(* What the proofs of a deletion use of it: l, r are the links.            *)
TreeSpotted(l, r, D, root, n, p, e) ==
  /\ n \in TreeNodes /\ l[n] # n /\ r[n] # n
  /\ l[n] \in TreeNodes \cup {NULL} /\ r[n] \in TreeNodes \cup {NULL}
  /\ p = NULL => n = root
  /\ p # NULL => /\ root # NULL /\ p \in D[root] /\ p \in TreeNodes
                 /\ n = l[p] \/ n = r[p]
                 /\ l[p] # r[p] /\ p \notin D[n]
  /\ l[n] # NULL => l[n] \in D[n]
  /\ r[n] # NULL => r[n] \in D[n]
  /\ TreeTwo(l, r, n) =>
       /\ TreeEndOf(l, r, D, l[n], e) /\ e \in D[n] /\ e \in TreeNodes /\ e # n
       /\ l[n] # r[n] /\ l[r[n]] \in TreeNodes \cup {NULL}
       /\ l[r[n]] # NULL => /\ l[r[n]] \in D[n] /\ l[r[n]] # n
                            /\ l[r[n]] # l[n] /\ l[r[n]] # r[n]

LEMMA TreeSpotIs ==
  ASSUME NEW t, NEW D, NEW n, NEW p, NEW e, TreeSpot(t, D, n, p, e)
  PROVE  TreeSpotted(t.lchild, t.rchild, D, t.root, n, p, e)
<1> DEFINE l == t.lchild
           r == t.rchild
           root == t.root
<1>1. /\ TreeForest(l, r, D) /\ root \in TreeNodes \cup {NULL}
      /\ root # NULL => t.parent[root] = NULL
      /\ \A q, c \in TreeNodes : c = l[q] \/ c = r[q] => t.parent[c] = q \/ t.parent[c] = c
      /\ n \in TreeBelow(D, root) /\ p = t.parent[n] /\ p # n
      /\ e = TreeLastOn(r, TreeNodes, l[n])
  BY DEF TreeSpot, TreeIs, TreeSorted
<1> HIDE DEF l, r, root
<1>2. root \in TreeNodes /\ n \in D[root] /\ n \in TreeNodes /\ D[root] \subseteq TreeNodes
      /\ root # NULL
  BY <1>1, TreeSelf, TreeNullNoNode DEF TreeBelow
<1>3. /\ l[n] \in TreeNodes \cup {NULL} /\ r[n] \in TreeNodes \cup {NULL}
      /\ D[n] = {n} \cup TreeBelow(D, l[n]) \cup TreeBelow(D, r[n])
      /\ n \notin TreeBelow(D, l[n]) /\ n \notin TreeBelow(D, r[n])
      /\ TreeBelow(D, l[n]) \cap TreeBelow(D, r[n]) = {}
  BY <1>1, <1>2, TreeChild
<1>4. /\ l[n] # NULL => l[n] \in D[l[n]] /\ TreeBelow(D, l[n]) = D[l[n]] /\ l[n] \in TreeNodes
      /\ r[n] # NULL => r[n] \in D[r[n]] /\ TreeBelow(D, r[n]) = D[r[n]] /\ r[n] \in TreeNodes
  BY <1>1, <1>3, TreeSelf DEF TreeBelow
<1>5. l[n] # n /\ r[n] # n
  BY <1>2, <1>3, <1>4, TreeNullNoNode
<1>6. n = root => p = NULL
  BY <1>1, <1>2
<1>7. ASSUME n # root
      PROVE  /\ p \in D[root] /\ p \in TreeNodes /\ p # NULL
             /\ n = l[p] \/ n = r[p]
             /\ l[p] # r[p] /\ p \notin D[n]
  <2>1. PICK q \in D[root] : n = l[q] \/ n = r[q]
    BY <1>1, <1>2, <1>7, TreeHasParent
  <2>2. p = q /\ p \in TreeNodes /\ p # NULL
    BY <1>1, <1>2, <2>1, TreeNullNoNode
  <2>3. /\ TreeBelow(D, l[p]) \cap TreeBelow(D, r[p]) = {}
        /\ D[p] = {p} \cup TreeBelow(D, l[p]) \cup TreeBelow(D, r[p])
    BY <1>1, <2>2, TreeChild
  <2>4. TreeBelow(D, n) = D[n] /\ n \in D[n]
    BY <1>1, <1>2, TreeSelf, TreeNullNoNode DEF TreeBelow
  <2>5. p \notin D[n]
    BY <1>1, <1>2, <2>1, <2>2, <2>3, <2>4, TreeAntisymmetric
  <2> QED BY <2>1, <2>2, <2>3, <2>5, <2>4
<1>8. ASSUME TreeTwo(l, r, n)
      PROVE  /\ TreeEndOf(l, r, D, l[n], e) /\ e \in D[n] /\ e \in TreeNodes /\ e # n
             /\ l[n] # r[n] /\ l[r[n]] \in TreeNodes \cup {NULL}
             /\ l[r[n]] # NULL => /\ l[r[n]] \in D[n] /\ l[r[n]] # n
                                  /\ l[r[n]] # l[n] /\ l[r[n]] # r[n]
  <2>1. l[n] # NULL /\ r[n] # NULL
    BY <1>8 DEF TreeTwo
  <2>2. TreeEndOf(l, r, D, l[n], e)
    BY <1>1, <1>4, <2>1, TreeRightEnd
  <2>3. e \in D[l[n]]
    BY <2>2 DEF TreeEndOf
  <2>4. e \in D[n] /\ e \in TreeNodes /\ e # n
    BY <1>1, <1>2, <1>3, <1>4, <2>1, <2>3, TreeSelf
  <2>5. /\ l[r[n]] \in TreeNodes \cup {NULL} /\ r[n] \notin TreeBelow(D, l[r[n]])
        /\ TreeBelow(D, l[r[n]]) \subseteq D[r[n]]
    BY <1>1, <1>4, <2>1, TreeChild
  <2>6. ASSUME l[r[n]] # NULL
        PROVE  /\ l[r[n]] \in D[n] /\ l[r[n]] # n
               /\ l[r[n]] # l[n] /\ l[r[n]] # r[n]
    <3>1. l[r[n]] \in TreeBelow(D, l[r[n]])
      BY <1>1, <2>5, <2>6, TreeSelf DEF TreeBelow
    <3> QED BY <1>3, <1>4, <2>1, <2>5, <3>1
  <2>7. l[n] # r[n]
    BY <1>3, <1>4, <2>1
  <2> QED BY <2>2, <2>4, <2>5, <2>6, <2>7
<1>9. TreeSpotted(l, r, D, root, n, p, e)
  BY <1>1, <1>2, <1>3, <1>4, <1>5, <1>6, <1>7, <1>8 DEF TreeSpotted
<1> QED BY <1>9 DEF l, r, root

(* The links and parents when tree_reorder_move has taken n out.           *)
TreeMovedLinks(l, r, n, p, e, m) ==
  /\ m.lchild \in TreeLinks /\ m.rchild \in TreeLinks
  /\ \A x \in TreeNodes :
       /\ m.lchild[x] = IF x = p /\ l[x] = n THEN TreeHeir(l, r, n)
                        ELSE IF TreeTwo(l, r, n) /\ x = r[n] THEN l[n] ELSE l[x]
       /\ m.rchild[x] = IF x = p /\ l[x] # n THEN TreeHeir(l, r, n)
                        ELSE IF TreeTwo(l, r, n) /\ x = e THEN l[r[n]] ELSE r[x]

TreeMovedParents(l, r, par, n, p, e, m) ==
  /\ m.parent \in TreeLinks
  /\ \A x \in TreeNodes : x # n =>
       IF x = TreeHeir(l, r, n) THEN m.parent[x] = p \/ (p # NULL /\ m.parent[x] = x)
       ELSE IF TreeTwo(l, r, n) /\ x = l[n] THEN m.parent[x] = r[n]
       ELSE IF TreeTwo(l, r, n) /\ x = l[r[n]] THEN m.parent[x] = e
       ELSE m.parent[x] = par[x]

TreeMoved(t, n, p, e, m) ==
  /\ TreeKeeps(t, m)
  /\ m.root = IF p = NULL THEN TreeHeir(t.lchild, t.rchild, n) ELSE t.root
  /\ TreeMovedLinks(t.lchild, t.rchild, n, p, e, m)
  /\ TreeMovedParents(t.lchild, t.rchild, t.parent, n, p, e, m)

(* Both subtrees roll into one, which hangs where the node did.            *)
LEMMA TreeMovesTwo ==
  ASSUME NEW t, NEW D, NEW n, NEW p, NEW e, TreeSpot(t, D, n, p, e),
         TreeTwo(t.lchild, t.rchild, n)
  PROVE  TreeMoved(t, n, p, e, tree_reorder_move(t, n))
<1> DEFINE l == t.lchild
           r == t.rchild
           par == t.parent
           a == l[n]
           b == r[n]
           rolled == tree_reorder_rol(t, a, b)
           side == IF t.val[b] < t.val[p] THEN "lchild" ELSE "rchild"
           m == tree_reorder_move(t, n)
<1>1. /\ TreeSpotted(l, r, D, t.root, n, p, e) /\ DOMAIN t = TreeFields
      /\ TreeSorted(l, r, D, t.val) /\ TreeForest(l, r, D)
      /\ l \in TreeLinks /\ r \in TreeLinks /\ par \in TreeLinks
      /\ p = par[n] /\ p # n /\ e = TreeLastOn(r, TreeNodes, a)
      /\ a # NULL /\ b # NULL /\ TreeTwo(l, r, n)
  BY TreeSpotIs DEF TreeSpot, TreeIs, TreeSorted, TreeForest, TreeTwo
<1>2. TreeRol(t, a, b, e, rolled)
  BY <1>1, TreeRolIs
<1>3. TreeKeeps(t, tree_reorder_move(t, n))
  BY <1>1, TreeMoveKeeps
<1>4. /\ p = NULL => m = TreeSetRoot(rolled, b)
      /\ p # NULL => m = TreeLink(rolled, p, side, b)
  BY <1>1 DEF tree_reorder_move
<1> HIDE DEF m, rolled
<1>5. DOMAIN rolled = TreeFields
  BY <1>2 DEF TreeRol, TreeKeeps
<1>6. /\ p = NULL => TreeRooted(rolled, b, m)
      /\ p # NULL => TreeLinked(rolled, p, side, b, m)
  BY <1>4, <1>5, TreeSetRootIs, TreeLinkIs
<1>7. ASSUME p # NULL PROVE (side = "lchild") <=> (l[p] = n)
  <2>1. /\ p \in TreeNodes /\ n \in TreeNodes
        /\ n = l[p] \/ n = r[p]
        /\ b \in D[n] /\ b \in TreeNodes
    BY <1>1, <1>7 DEF TreeSpotted
  <2>2. TreeBelow(D, n) = D[n]
    BY <2>1, TreeNullNoNode DEF TreeBelow
  <2>3. t.val[b] \in Nat /\ t.val[p] \in Nat
    BY <1>1, <2>1 DEF TreeSorted
  <2>4. TreeLess(D, l, t.val) /\ TreeMore(D, r, t.val)
    BY <1>1 DEF TreeSorted
  <2> HIDE DEF l, r, a, b, side
  <2>5. CASE l[p] = n
    <3>1. t.val[b] < t.val[p]
      BY <2>1, <2>2, <2>5, <2>4 DEF TreeLess
    <3>2. side = "lchild"
      BY <3>1 DEF side
    <3> QED BY <2>5, <3>2
  <2>6. CASE l[p] # n
    <3>1. t.val[b] >= t.val[p]
      BY <2>1, <2>2, <2>6, <2>4 DEF TreeMore
    <3>2. ~(t.val[b] < t.val[p])
      BY <2>3, <3>1
    <3>3. side = "rchild"
      BY <3>2 DEF side
    <3> QED BY <2>6, <3>3
  <2> QED BY <2>5, <2>6
<1> HIDE DEF side
<1>8. TreeHeir(l, r, n) = b
  BY <1>1 DEF TreeHeir
<1>9. /\ a \in TreeNodes /\ b \in TreeNodes /\ l[b] \in TreeNodes \cup {NULL}
      /\ e \in TreeNodes /\ e # n /\ b # n /\ a # n /\ l[b] # n /\ a # b
      /\ l[b] # NULL => l[b] # a /\ l[b] # b
      /\ p # NULL => p \in TreeNodes /\ p # b /\ p # e
  BY <1>1, TreeNullNoNode DEF TreeSpotted
<1>10. /\ rolled.lchild = [l EXCEPT ![b] = a] /\ rolled.rchild = [r EXCEPT ![e] = l[b]]
       /\ rolled.root = t.root
       /\ l[b] = NULL => rolled.parent = [par EXCEPT ![a] = b]
       /\ l[b] # NULL => rolled.parent = [[par EXCEPT ![a] = b] EXCEPT ![l[b]] = e]
  BY <1>2 DEF TreeRol
<1>11. m.root = IF p = NULL THEN b ELSE t.root
  BY <1>6, <1>10 DEF TreeRooted, TreeLinked
<1>12. /\ p = NULL => m.parent = [rolled.parent EXCEPT ![b] = NULL]
       /\ p # NULL => m.parent = [rolled.parent EXCEPT ![b] = p]
  BY <1>1, <1>6 DEF TreeRooted, TreeLinked
<1>13. /\ p = NULL => m.lchild = rolled.lchild /\ m.rchild = rolled.rchild
       /\ p # NULL /\ l[p] = n =>
            m.lchild = [rolled.lchild EXCEPT ![p] = b] /\ m.rchild = rolled.rchild
       /\ p # NULL /\ l[p] # n =>
            m.lchild = rolled.lchild /\ m.rchild = [rolled.rchild EXCEPT ![p] = b]
  BY <1>6, <1>7 DEF TreeRooted, TreeLinked
<1>14. rolled.lchild \in TreeLinks /\ rolled.rchild \in TreeLinks /\ rolled.parent \in TreeLinks
  BY <1>1, <1>9, <1>10 DEF TreeLinks
<1>15. m.lchild \in TreeLinks /\ m.rchild \in TreeLinks /\ m.parent \in TreeLinks
  BY <1>9, <1>12, <1>13, <1>14 DEF TreeLinks
<1>16. ASSUME NEW x \in TreeNodes
       PROVE  /\ m.lchild[x] = IF x = p /\ l[x] = n THEN b ELSE IF x = b THEN a ELSE l[x]
              /\ m.rchild[x] = IF x = p /\ l[x] # n THEN b ELSE IF x = e THEN l[b] ELSE r[x]
  <2>1. /\ rolled.lchild[x] = IF x = b THEN a ELSE l[x]
        /\ rolled.rchild[x] = IF x = e THEN l[b] ELSE r[x]
    BY <1>1, <1>9, <1>10 DEF TreeLinks
  <2>2. CASE p = NULL
    BY <1>13, <2>1, <2>2, TreeNullNoNode
  <2>3. CASE p # NULL /\ l[p] = n
    BY <1>9, <1>13, <1>14, <2>1, <2>3 DEF TreeLinks
  <2>4. CASE p # NULL /\ l[p] # n
    BY <1>9, <1>13, <1>14, <2>1, <2>4 DEF TreeLinks
  <2> QED BY <2>2, <2>3, <2>4
<1>17. ASSUME NEW x \in TreeNodes, x # n
       PROVE  IF x = b THEN m.parent[x] = p \/ (p # NULL /\ m.parent[x] = x)
              ELSE IF x = a THEN m.parent[x] = b
              ELSE IF x = l[b] THEN m.parent[x] = e
              ELSE m.parent[x] = par[x]
  <2>1. m.parent[x] = IF x = b THEN p ELSE rolled.parent[x]
    BY <1>9, <1>12, <1>14 DEF TreeLinks
  <2>2. x = a => rolled.parent[x] = b
    BY <1>1, <1>9, <1>10 DEF TreeLinks
  <2>3. x = l[b] => rolled.parent[x] = e
    BY <1>1, <1>9, <1>10, TreeNullNoNode DEF TreeLinks
  <2>4. x # a /\ x # l[b] => rolled.parent[x] = par[x]
    BY <1>1, <1>9, <1>10 DEF TreeLinks
  <2> QED BY <2>1, <2>2, <2>3, <2>4
<1>18. TreeMovedLinks(l, r, n, p, e, m)
  BY <1>1, <1>8, <1>15, <1>16 DEF TreeMovedLinks
<1>19. TreeMovedParents(l, r, par, n, p, e, m)
  BY <1>1, <1>8, <1>15, <1>17 DEF TreeMovedParents
<1>20. TreeMoved(t, n, p, e, m)
  BY <1>3, <1>8, <1>11, <1>18, <1>19 DEF TreeMoved, m
<1> QED BY <1>20 DEF m

(* The only child, if there is one, hangs where the node did.              *)
LEMMA TreeMovesOne ==
  ASSUME NEW t, NEW D, NEW n, NEW p, NEW e, TreeSpot(t, D, n, p, e),
         ~TreeTwo(t.lchild, t.rchild, n), tree_reorder_move(t, n).crashed # TRUE
  PROVE  TreeMoved(t, n, p, e, tree_reorder_move(t, n))
<1> DEFINE l == t.lchild
           r == t.rchild
           par == t.parent
           only == IF l[n] = NULL THEN r[n] ELSE l[n]
           side == IF l[p] = n THEN "lchild" ELSE "rchild"
           m == tree_reorder_move(t, n)
<1>1. /\ TreeSpotted(l, r, D, t.root, n, p, e) /\ DOMAIN t = TreeFields
      /\ l \in TreeLinks /\ r \in TreeLinks /\ par \in TreeLinks
      /\ p = par[n] /\ p # n
      /\ ~(l[n] # NULL /\ r[n] # NULL) /\ ~TreeTwo(l, r, n) /\ m.crashed # TRUE
  BY TreeSpotIs DEF TreeSpot, TreeIs, TreeSorted, TreeForest, TreeTwo
<1>2. TreeKeeps(t, tree_reorder_move(t, n))
  BY <1>1, TreeMoveKeeps
<1>3. /\ n \in TreeNodes /\ only \in TreeNodes \cup {NULL} /\ only # n
      /\ p # NULL => p \in TreeNodes /\ p # only
      /\ TreeHeir(l, r, n) = only
  BY <1>1, TreeNullNoNode DEF TreeSpotted, TreeHeir
<1>4. p = NULL => TreeRooted(t, only, m)
  <2>1. p = NULL => m = TreeSetRoot(t, only)
    BY <1>1 DEF tree_reorder_move
  <2> QED BY <1>1, <2>1, TreeSetRootIs
<1>5. (side = "lchild" <=> l[p] = n) /\ (side = "rchild" <=> l[p] # n)
  OBVIOUS
<1>6. ~(p # NULL /\ l[n] # NULL /\ r[n] = NULL /\ side = "rchild")
  <2> HIDE DEF side
  <2> SUFFICES ASSUME p # NULL /\ l[n] # NULL /\ r[n] = NULL /\ side = "rchild" PROVE FALSE
    OBVIOUS
  <2>1. m = [t EXCEPT !.rchild[p] = NULL, !.crashed = TRUE]
    BY <1>1, <1>5 DEF tree_reorder_move
  <2> QED BY <1>1, <2>1 DEF TreeFields
<1>7. ASSUME p # NULL, l[n] = NULL, r[n] # NULL, side = "rchild"
      PROVE  /\ m.root = t.root /\ m.lchild = l /\ m.rchild = [r EXCEPT ![p] = only]
             /\ m.parent = [par EXCEPT ![only] = only]
  <2> HIDE DEF side
  <2>1. m = [t EXCEPT !.rchild[p] = r[n], !.parent[r[n]] = r[n]]
    BY <1>1, <1>7, <1>5 DEF tree_reorder_move
  <2> QED BY <1>1, <1>7, <2>1 DEF TreeFields
<1>8. ASSUME p # NULL, ~(l[n] = NULL /\ r[n] # NULL /\ side = "rchild")
      PROVE  TreeLinked(t, p, side, only, m)
  <2>1. m = TreeLink(t, p, side, only)
    BY <1>1, <1>6, <1>8 DEF tree_reorder_move
  <2> QED BY <1>1, <2>1, TreeLinkIs
<1> HIDE DEF m, only, side
<1>9. m.root = IF p = NULL THEN only ELSE t.root
  BY <1>4, <1>7, <1>8 DEF TreeRooted, TreeLinked
<1>10. /\ p = NULL => m.lchild = l /\ m.rchild = r
       /\ p # NULL /\ l[p] = n => m.lchild = [l EXCEPT ![p] = only] /\ m.rchild = r
       /\ p # NULL /\ l[p] # n => m.lchild = l /\ m.rchild = [r EXCEPT ![p] = only]
  <2>1. p = NULL => m.lchild = l /\ m.rchild = r
    BY <1>4 DEF TreeRooted
  <2>2. p # NULL /\ l[p] = n => m.lchild = [l EXCEPT ![p] = only] /\ m.rchild = r
    BY <1>8, <1>5 DEF TreeLinked, side
  <2>3. p # NULL /\ l[p] # n => m.lchild = l /\ m.rchild = [r EXCEPT ![p] = only]
    BY <1>7, <1>8, <1>5 DEF TreeLinked, side
  <2> QED BY <2>1, <2>2, <2>3
<1>11. /\ only = NULL => m.parent = par
       /\ only # NULL => m.parent = [par EXCEPT ![only] = p]
                         \/ (p # NULL /\ m.parent = [par EXCEPT ![only] = only])
  <2>1. CASE p = NULL
    BY <1>4, <2>1 DEF TreeRooted
  <2>2. CASE p # NULL /\ l[n] = NULL /\ r[n] # NULL /\ side = "rchild"
    <3>1. only = r[n]
      BY <2>2 DEF only
    <3> QED BY <1>7, <2>2, <3>1
  <2>3. CASE p # NULL /\ ~(l[n] = NULL /\ r[n] # NULL /\ side = "rchild")
    BY <1>8, <2>3 DEF TreeLinked
  <2> QED BY <2>1, <2>2, <2>3
<1>12. m.lchild \in TreeLinks /\ m.rchild \in TreeLinks
  BY <1>1, <1>3, <1>10 DEF TreeLinks
<1>13. m.parent \in TreeLinks
  BY <1>1, <1>3, <1>11 DEF TreeLinks
<1>14. ASSUME NEW x \in TreeNodes
       PROVE  /\ m.lchild[x] = IF x = p /\ l[x] = n THEN only ELSE l[x]
              /\ m.rchild[x] = IF x = p /\ l[x] # n THEN only ELSE r[x]
  <2>1. CASE p = NULL
    BY <1>10, <2>1, TreeNullNoNode
  <2>2. CASE p # NULL /\ l[p] = n
    BY <1>1, <1>3, <1>10, <2>2 DEF TreeLinks
  <2>3. CASE p # NULL /\ l[p] # n
    BY <1>1, <1>3, <1>10, <2>3 DEF TreeLinks
  <2> QED BY <2>1, <2>2, <2>3
<1>15. ASSUME NEW x \in TreeNodes, x # n
       PROVE  IF x = only THEN m.parent[x] = p \/ (p # NULL /\ m.parent[x] = x)
              ELSE m.parent[x] = par[x]
  <2>1. CASE x = only
    <3>1. only # NULL
      BY <2>1, TreeNullNoNode
    <3> QED BY <1>1, <1>3, <1>11, <2>1, <3>1 DEF TreeLinks
  <2>2. CASE x # only
    BY <1>1, <1>3, <1>11, <2>2 DEF TreeLinks
  <2> QED BY <2>1, <2>2
<1>16. TreeMovedLinks(l, r, n, p, e, m)
  BY <1>1, <1>3, <1>12, <1>14 DEF TreeMovedLinks
<1>17. TreeMovedParents(l, r, par, n, p, e, m)
  BY <1>1, <1>3, <1>13, <1>15 DEF TreeMovedParents
<1>18. TreeMoved(t, n, p, e, m)
  BY <1>2, <1>3, <1>9, <1>16, <1>17 DEF TreeMoved, m
<1> QED BY <1>18 DEF m

(* tree_node_delete on top of tree_reorder_move.                           *)
TreeReaped(t, m, n, t2) ==
  /\ DOMAIN t2 = TreeFields /\ t2.root = m.root /\ t2.num_nodes = m.num_nodes
  /\ t2.val = [m.val EXCEPT ![n] = 0] /\ t2.parent = [m.parent EXCEPT ![n] = NULL]
  /\ t2.lchild = [m.lchild EXCEPT ![n] = NULL] /\ t2.rchild = [m.rchild EXCEPT ![n] = NULL]
  /\ t2.holds = [m.holds EXCEPT ![t.val[n]] = IF @ = 0 THEN 0 ELSE @ - 1]
  /\ t2.excused = (m.excused \/ t.parent[n] = n) /\ t2.crashed = m.crashed

LEMMA TreeNodeDeleteIs ==
  ASSUME NEW t, DOMAIN t = TreeFields, NEW n
  PROVE  TreeReaped(t, tree_reorder_move(t, n), n, tree_node_delete(t, n))
<1> DEFINE m == tree_reorder_move(t, n)
           b == tree_reap(m, n)
           t2 == tree_node_delete(t, n)
<1>1. DOMAIN m = TreeFields
  <2>1. TreeKeeps(t, m)
    BY TreeMoveKeeps
  <2> QED BY <2>1 DEF TreeKeeps
<1> HIDE DEF m
<1>2. /\ DOMAIN b = TreeFields /\ b.root = m.root /\ b.num_nodes = m.num_nodes
      /\ b.val = [m.val EXCEPT ![n] = 0] /\ b.parent = [m.parent EXCEPT ![n] = NULL]
      /\ b.lchild = [m.lchild EXCEPT ![n] = NULL] /\ b.rchild = [m.rchild EXCEPT ![n] = NULL]
      /\ b.holds = m.holds /\ b.excused = m.excused /\ b.crashed = m.crashed
  BY <1>1 DEF tree_reap, TreeFields
<1>3. t2 = [b EXCEPT !.holds[t.val[n]] = IF @ = 0 THEN 0 ELSE @ - 1,
                     !.excused = @ \/ t.parent[n] = n]
  BY DEF tree_node_delete, m
<1> HIDE DEF b, t2
<1>4. /\ DOMAIN t2 = TreeFields /\ t2.root = b.root /\ t2.num_nodes = b.num_nodes
      /\ t2.val = b.val /\ t2.parent = b.parent
      /\ t2.lchild = b.lchild /\ t2.rchild = b.rchild /\ t2.crashed = b.crashed
  BY <1>2, <1>3 DEF TreeFields
<1>5. t2.holds = [b.holds EXCEPT ![t.val[n]] = IF @ = 0 THEN 0 ELSE @ - 1]
  BY <1>2, <1>3 DEF TreeFields
<1>6. t2.excused = (b.excused \/ t.parent[n] = n)
  BY <1>2, <1>3 DEF TreeFields
<1>7. TreeReaped(t, m, n, t2)
  BY <1>2, <1>4, <1>5, <1>6 DEF TreeReaped
<1> QED BY <1>7 DEF m, t2

TreeOneLess(t, D, n, t2, E) ==
  \A w \in TreeVals :
    /\ w = t.val[n] => TreeOf(t, D, w) = TreeOf(t2, E, w) + 1
    /\ w # t.val[n] => TreeOf(t, D, w) = TreeOf(t2, E, w)

TreeShrunk(t, D, n, t2, E) ==
  /\ TreeIs(t2, E) /\ t2.num_nodes = t.num_nodes
  /\ t2.holds = [t.holds EXCEPT ![t.val[n]] = IF @ = 0 THEN 0 ELSE @ - 1]
  /\ TreeOneLess(t, D, n, t2, E)

LEMMA TreeOfShrunk ==
  ASSUME NEW t, NEW D, NEW t2, NEW E, NEW n \in TreeNodes,
         TreeBelow(D, t.root) \subseteq TreeNodes, n \in TreeBelow(D, t.root),
         TreeBelow(E, t2.root) = TreeBelow(D, t.root) \ {n},
         t.val \in [TreeNodes -> TreeVals], t2.val = [t.val EXCEPT ![n] = 0]
  PROVE  TreeOneLess(t, D, n, t2, E)
<1> SUFFICES ASSUME NEW w \in TreeVals
             PROVE  /\ w = t.val[n] => TreeOf(t, D, w) = TreeOf(t2, E, w) + 1
                    /\ w # t.val[n] => TreeOf(t, D, w) = TreeOf(t2, E, w)
  BY DEF TreeOneLess
<1>1. IsFiniteSet(TreeWith(t2, E, w)) /\ n \notin TreeWith(t2, E, w)
  <2>1. TreeWith(t2, E, w) \in SUBSET TreeNodes /\ n \notin TreeWith(t2, E, w)
    BY DEF TreeWith
  <2> QED BY <2>1, TreeNodesFinite, FS_Subset
<1>2. ASSUME w = t.val[n] PROVE TreeOf(t, D, w) = TreeOf(t2, E, w) + 1
  <2>1. TreeWith(t, D, w) = TreeWith(t2, E, w) \cup {n}
    BY <1>2 DEF TreeWith
  <2> QED BY <1>1, <2>1, FS_AddElement DEF TreeOf
<1>3. ASSUME w # t.val[n] PROVE TreeOf(t, D, w) = TreeOf(t2, E, w)
  <2>1. TreeWith(t2, E, w) = TreeWith(t, D, w)
    BY <1>3 DEF TreeWith
  <2> QED BY <2>1 DEF TreeOf
<1> QED BY <1>2, <1>3

(* After the deletion a child has its parent, or itself, as its parent.    *)
LEMMA TreeParentsAfter ==
  ASSUME NEW l, NEW r, NEW D, TreeForest(l, r, D), NEW par, NEW root, NEW n, NEW p, NEW e,
         TreeSpotted(l, r, D, root, n, p, e), NEW m,
         TreeMovedParents(l, r, par, n, p, e, m),
         \A q, c \in TreeNodes : c = l[q] \/ c = r[q] => par[c] = q \/ par[c] = c,
         NEW k, NEW s, TreeWithout(l, r, n, e, p, k, s),
         NEW q \in TreeNodes, NEW c \in TreeNodes, c # n, c = k[q] \/ c = s[q]
  PROVE  m.parent[c] = q \/ m.parent[c] = c
<1> DEFINE two == TreeTwo(l, r, n)
           heir == TreeHeir(l, r, n)
<1>1. /\ n \in TreeNodes /\ l[n] # n /\ r[n] # n
      /\ l[n] \in TreeNodes \cup {NULL} /\ r[n] \in TreeNodes \cup {NULL}
      /\ two => /\ e # n /\ l[n] # r[n] /\ l[r[n]] \in TreeNodes \cup {NULL}
                /\ l[r[n]] # NULL => l[r[n]] # n /\ l[r[n]] # l[n] /\ l[r[n]] # r[n]
  BY DEF TreeSpotted
<1>2. two => heir = r[n] /\ r[n] # NULL /\ l[n] # NULL /\ r[n] \in TreeNodes
  BY <1>1 DEF TreeTwo, TreeHeir
<1>3. heir \in {l[n], r[n]}
  BY DEF TreeHeir
<1>4. q # n
  BY TreeNullNoNode DEF TreeWithout
<1>5. /\ c = heir => m.parent[c] = p \/ m.parent[c] = c
      /\ c # heir /\ two /\ c = l[n] => m.parent[c] = r[n]
      /\ c # heir /\ two /\ c # l[n] /\ c = l[r[n]] => m.parent[c] = e
      /\ c # heir /\ (two => c # l[n] /\ c # l[r[n]]) => m.parent[c] = par[c]
  BY DEF TreeMovedParents
<1>6. \/ q = p /\ c = heir
      \/ two /\ q = r[n] /\ c = l[n]
      \/ two /\ q = e /\ c = l[r[n]]
      \/ (two => q # r[n]) /\ c = l[q]
      \/ (two => q # e) /\ c = r[q]
  <2>1. CASE c = k[q]
    BY <1>4, <2>1 DEF TreeWithout
  <2>2. CASE c = s[q]
    BY <1>4, <2>2 DEF TreeWithout
  <2> QED BY <2>1, <2>2
<1> HIDE DEF two, heir
<1>7. CASE q = p /\ c = heir
  BY <1>5, <1>7
<1>8. CASE two /\ q = r[n] /\ c = l[n]
  BY <1>1, <1>2, <1>5, <1>8
<1>9. CASE two /\ q = e /\ c = l[r[n]]
  BY <1>1, <1>2, <1>5, <1>9, TreeNullNoNode
<1>10. ASSUME c = l[q] \/ c = r[q], c = l[q] => (two => q # r[n])
       PROVE  m.parent[c] = q \/ m.parent[c] = c
  <2>1. c # l[n] /\ c # r[n]
    BY <1>1, <1>4, <1>10, TreeOneParent
  <2>2. ASSUME two, c = l[r[n]] PROVE FALSE
    <3>1. q = r[n]
      BY <1>2, <1>10, <2>2, TreeOneParent
    <3>2. c = l[q] /\ c = r[q] => FALSE
      <4>1. TreeBelow(D, l[q]) \cap TreeBelow(D, r[q]) = {}
        BY TreeChild
      <4>2. c \in TreeBelow(D, c)
        BY TreeSelf, TreeNullNoNode DEF TreeBelow
      <4> QED BY <4>1, <4>2
    <3> QED BY <1>10, <2>2, <3>1, <3>2
  <2>3. m.parent[c] = par[c]
    BY <1>3, <1>5, <2>1, <2>2
  <2> QED BY <1>10, <2>3
<1>11. CASE (two => q # r[n]) /\ c = l[q]
  BY <1>10, <1>11
<1>12. CASE (two => q # e) /\ c = r[q]
  <2>1. c = l[q] => (two => q # r[n])
    <3>1. TreeBelow(D, l[q]) \cap TreeBelow(D, r[q]) = {}
      BY TreeChild
    <3>2. c \in TreeBelow(D, c)
      BY TreeSelf, TreeNullNoNode DEF TreeBelow
    <3> QED BY <1>12, <3>1, <3>2
  <2> QED BY <1>10, <1>12, <2>1
<1> QED BY <1>6, <1>7, <1>8, <1>9, <1>11, <1>12

LEMMA TreeDeletes ==
  ASSUME NEW t, NEW D, NEW n, NEW p, NEW e, TreeSpot(t, D, n, p, e),
         tree_node_delete(t, n).crashed # TRUE
  PROVE  \E E : TreeShrunk(t, D, n, tree_node_delete(t, n), E)
<1> DEFINE l == t.lchild
           r == t.rchild
           root == t.root
           R == TreeBelow(D, root)
           heir == TreeHeir(l, r, n)
           m == tree_reorder_move(t, n)
           t2 == tree_node_delete(t, n)
           k == t2.lchild
           s == t2.rchild
<1>0. TreeVals \subseteq Nat /\ 0 \in TreeVals /\ 0 \in Nat
  BY TreeAssumption
<1>1. /\ TreeIs(t, D) /\ DOMAIN t = TreeFields
      /\ TreeSorted(l, r, D, t.val) /\ TreeForest(l, r, D)
      /\ t.val \in [TreeNodes -> TreeVals] /\ t.parent \in TreeLinks
      /\ root \in TreeNodes \cup {NULL} /\ t.num_nodes \in 0..TreeMaxNodes
      /\ R \subseteq 1..t.num_nodes /\ n \in R
      /\ root # NULL => t.parent[root] = NULL
      /\ \A x \in TreeNodes : x \notin R => l[x] = NULL /\ r[x] = NULL
      /\ \A q, c \in TreeNodes : c = l[q] \/ c = r[q] => t.parent[c] = q \/ t.parent[c] = c
      /\ p = t.parent[n] /\ p # n
  BY DEF TreeSpot, TreeIs, TreeSorted
<1>2. TreeSpotted(l, r, D, root, n, p, e)
  BY TreeSpotIs
<1>3. TreeReaped(t, m, n, t2)
  BY <1>1, TreeNodeDeleteIs
<1>4. m.crashed # TRUE
  BY <1>3 DEF TreeReaped
<1>5. TreeMoved(t, n, p, e, m)
  BY <1>4, TreeMovesTwo, TreeMovesOne
<1> HIDE DEF m, t2
<1>6. /\ TreeMovedLinks(l, r, n, p, e, m) /\ TreeMovedParents(l, r, t.parent, n, p, e, m)
      /\ m.root = IF p = NULL THEN heir ELSE root
      /\ m.num_nodes = t.num_nodes /\ m.val = t.val /\ m.holds = t.holds
  BY <1>5 DEF TreeMoved, TreeKeeps
<1>7. /\ n \in TreeNodes /\ R \subseteq TreeNodes
      /\ root \in TreeNodes /\ root # NULL /\ R = D[root] /\ TreeTop(D, root)
  BY <1>1, <1>2, TreeSelf, TreeLoose, TreeNullNoNode DEF TreeBelow, TreeSpotted
<1>8. D[n] \subseteq R /\ n \in D[n]
  BY <1>1, <1>7, TreeTransitive, TreeSelf
<1>9. /\ DOMAIN t2 = TreeFields /\ t2.root = IF p = NULL THEN heir ELSE root
      /\ t2.num_nodes = t.num_nodes /\ t2.val = [t.val EXCEPT ![n] = 0]
      /\ t2.parent = [m.parent EXCEPT ![n] = NULL]
      /\ k = [m.lchild EXCEPT ![n] = NULL] /\ s = [m.rchild EXCEPT ![n] = NULL]
      /\ t2.holds = [t.holds EXCEPT ![t.val[n]] = IF @ = 0 THEN 0 ELSE @ - 1]
  BY <1>3, <1>6 DEF TreeReaped
<1> HIDE DEF l, r, root, R, heir, k, s
<1>10. TreeWithout(l, r, n, e, p, k, s)
  <2>1. m.lchild \in TreeLinks /\ m.rchild \in TreeLinks
    BY <1>6 DEF TreeMovedLinks
  <2>2. k \in TreeLinks /\ s \in TreeLinks
    BY <1>9, <2>1 DEF TreeLinks
  <2>3. \A x \in TreeNodes : /\ k[x] = IF x = n THEN NULL ELSE m.lchild[x]
                             /\ s[x] = IF x = n THEN NULL ELSE m.rchild[x]
    BY <1>9, <2>1 DEF TreeLinks
  <2>4. ASSUME NEW x \in TreeNodes
        PROVE  /\ k[x] = IF x = n THEN NULL
                         ELSE IF x = p /\ l[x] = n THEN TreeHeir(l, r, n)
                         ELSE IF TreeTwo(l, r, n) /\ x = r[n] THEN l[n] ELSE l[x]
               /\ s[x] = IF x = n THEN NULL
                         ELSE IF x = p /\ l[x] # n THEN TreeHeir(l, r, n)
                         ELSE IF TreeTwo(l, r, n) /\ x = e THEN l[r[n]] ELSE r[x]
    BY <1>6, <2>3 DEF TreeMovedLinks
  <2> QED BY <2>2, <2>4 DEF TreeWithout
<1>11. /\ heir \in TreeNodes \cup {NULL}
       /\ heir # NULL => heir \in D[n] /\ heir # n /\ (heir = l[n] \/ heir = r[n])
  BY <1>2 DEF heir, TreeHeir, TreeSpotted
<1>12. TreeTwo(l, r, n) => /\ TreeEndOf(l, r, D, l[n], e) /\ e \in D[n] /\ r[n] \in D[n]
                           /\ l[n] \in D[n] /\ (l[r[n]] # NULL => l[r[n]] \in D[n])
  BY <1>2 DEF TreeSpotted, TreeTwo
<1>13. \E E : /\ TreeSorted(k, s, E, t.val) /\ TreeBelow(E, t2.root) = R \ {n}
              /\ t2.root \in TreeNodes \cup {NULL}
  <2>1. CASE p = NULL
    <3>1. n = root /\ TreeTop(D, n) /\ R = D[n] /\ t2.root = heir
      BY <1>2, <1>7, <1>9, <2>1 DEF TreeSpotted
    <3>2. \E E : /\ TreeSorted(k, s, E, t.val)
                 /\ TreeBelow(E, TreeHeir(l, r, n)) = D[n] \ {n}
      BY <1>1, <1>7, <1>10, <1>12, <2>1, <3>1, TreeUnlinksRoot, SMTT(30)
    <3> QED BY <1>11, <3>1, <3>2 DEF heir
  <2>2. CASE p # NULL
    <3>1. p \in D[root] /\ p \in TreeNodes /\ (n = l[p] \/ n = r[p])
      BY <1>2, <2>2 DEF TreeSpotted
    <3>2. \E E : TreeSorted(k, s, E, t.val) /\ E[root] = D[root] \ {n}
      BY <1>1, <1>7, <1>10, <1>12, <3>1, TreeUnlinksBelow
    <3>3. t2.root = root /\ \A E : TreeBelow(E, t2.root) = E[root]
      BY <1>7, <1>9, <2>2 DEF TreeBelow
    <3> QED BY <1>7, <3>2, <3>3
  <2> QED BY <2>1, <2>2
<1>14. PICK E : /\ TreeSorted(k, s, E, t.val) /\ TreeBelow(E, t2.root) = R \ {n}
                /\ t2.root \in TreeNodes \cup {NULL}
  BY <1>13
<1>15. TreeForest(k, s, E)
  BY <1>14 DEF TreeSorted
<1>16. ASSUME NEW x \in TreeNodes, x \notin R \ {n} PROVE k[x] = NULL /\ s[x] = NULL
  <2>1. CASE x = n
    BY <1>10, <2>1 DEF TreeWithout
  <2>2. CASE x # n
    <3>1. x \notin R /\ l[x] = NULL /\ r[x] = NULL
      BY <1>1, <1>16, <2>2 DEF l, r, R
    <3>2. x # p
      BY <1>2, <1>7, <3>1, TreeNullNoNode DEF TreeSpotted
    <3>3. TreeTwo(l, r, n) => x # e /\ x # r[n]
      BY <1>8, <1>12, <3>1
    <3> QED BY <1>10, <2>2, <3>1, <3>2, <3>3 DEF TreeWithout
  <2> QED BY <2>1, <2>2
<1>17. /\ TreeTop(E, n) /\ k[n] = NULL /\ s[n] = NULL
       /\ t2.root # NULL => TreeTop(E, t2.root)
  <2>1. \A x \in TreeNodes : x \notin TreeBelow(E, t2.root) => k[x] = NULL /\ s[x] = NULL
    BY <1>14, <1>16
  <2>2. n \notin TreeBelow(E, t2.root)
    BY <1>14
  <2> QED BY <1>7, <1>14, <1>15, <2>1, <2>2, TreeLoose
<1>18. t2.val = [t.val EXCEPT ![n] = 0]
  BY <1>9
<1>19. TreeSorted(k, s, E, t2.val)
  <2>1. TreeSorted(k, s, E, [t.val EXCEPT ![n] = 0])
    BY <1>0, <1>7, <1>14, <1>17, TreeRevalue
  <2> QED BY <1>18, <2>1
<1>20. t2.val \in [TreeNodes -> TreeVals]
  <2>1. t.val \in [TreeNodes -> TreeVals] /\ 0 \in TreeVals
    BY <1>0, <1>1
  <2> QED BY <1>18, <2>1
<1>21. /\ t2.parent \in TreeLinks /\ \A x \in TreeNodes : x # n => t2.parent[x] = m.parent[x]
  <2>1. m.parent \in TreeLinks
    BY <1>6 DEF TreeMovedParents
  <2> QED BY <1>9, <2>1 DEF TreeLinks
<1>22. ASSUME NEW q \in TreeNodes, NEW c \in TreeNodes, c = k[q] \/ c = s[q]
       PROVE  t2.parent[c] = q \/ t2.parent[c] = c
  <2>1. c # n
    <3>1. c \in E[q] /\ q \notin E[c]
      <4>1. /\ E[q] = {q} \cup TreeBelow(E, k[q]) \cup TreeBelow(E, s[q])
            /\ q \notin TreeBelow(E, k[q]) /\ q \notin TreeBelow(E, s[q])
        BY <1>15, TreeChild
      <4>2. TreeBelow(E, c) = E[c] /\ c \in E[c]
        BY <1>15, TreeSelf, TreeNullNoNode DEF TreeBelow
      <4> QED BY <1>22, <4>1, <4>2
    <3>2. q \in E[q]
      BY <1>15, TreeSelf
    <3> QED BY <1>17, <3>1, <3>2 DEF TreeTop
  <2>2. m.parent[c] = q \/ m.parent[c] = c
    BY <1>1, <1>2, <1>6, <1>10, <1>22, <2>1, TreeParentsAfter DEF l, r
  <2> QED BY <1>21, <2>1, <2>2
<1>23. ASSUME t2.root # NULL PROVE t2.parent[t2.root] = NULL
  <2>1. t2.root \in TreeNodes /\ t2.root # n
    BY <1>14, <1>15, <1>23, TreeSelf DEF TreeBelow
  <2>2. t2.parent[t2.root] = m.parent[t2.root]
    BY <1>21, <2>1
  <2>3. CASE p = NULL
    <3>1. t2.root = heir
      BY <1>9, <2>3
    <3> QED BY <1>6, <2>1, <2>2, <2>3, <3>1 DEF TreeMovedParents, heir
  <2>4. CASE p # NULL
    <3>1. t2.root = root /\ root # n
      BY <1>9, <2>1, <2>4
    <3>2. root \notin D[n]
      BY <1>7, <3>1 DEF TreeTop
    <3>3. root # heir /\ (TreeTwo(l, r, n) => root # l[n] /\ root # l[r[n]])
      BY <1>7, <1>11, <1>12, <3>2
    <3>4. m.parent[root] = t.parent[root]
      BY <1>6, <1>7, <3>1, <3>3 DEF TreeMovedParents, heir
    <3> QED BY <1>1, <1>7, <2>2, <3>1, <3>4 DEF root
  <2> QED BY <2>3, <2>4
<1>24. TreeIs(t2, E)
  <2>1. t2.num_nodes \in 0..TreeMaxNodes /\ TreeBelow(E, t2.root) \subseteq 1..t2.num_nodes
    BY <1>1, <1>9, <1>14 DEF R
  <2>2. \A x \in TreeNodes : x \notin TreeBelow(E, t2.root) => k[x] = NULL /\ s[x] = NULL
    BY <1>14, <1>16
  <2> QED BY <1>9, <1>14, <1>19, <1>20, <1>21, <1>22, <1>23, <2>1, <2>2 DEF TreeIs, k, s
<1>25. TreeOneLess(t, D, n, t2, E)
  <2>1. /\ TreeBelow(D, t.root) \subseteq TreeNodes /\ n \in TreeBelow(D, t.root)
        /\ TreeBelow(E, t2.root) = TreeBelow(D, t.root) \ {n}
    BY <1>1, <1>7, <1>14 DEF R, root
  <2> QED BY <1>1, <1>7, <1>9, <2>1, TreeOfShrunk
<1>26. TreeShrunk(t, D, n, t2, E)
  BY <1>9, <1>24, <1>25 DEF TreeShrunk
<1> QED BY <1>26 DEF t2

(* The inductive invariant of a tree: as long as nothing went wrong, it is *)
(* a sorted tree with the values it is said to hold.                       *)
TreeHas(t, D) ==
  /\ TreeIs(t, D) /\ t.holds \in [TreeVals -> Nat]
  /\ \A v \in TreeVals : t.holds[v] = TreeOf(t, D, v)

TreeSound(t) ==
  /\ DOMAIN t = TreeFields /\ t.excused \in BOOLEAN /\ t.crashed \in BOOLEAN
  /\ ~t.excused /\ ~t.crashed => \E D : TreeHas(t, D)

(* What went wrong stays.                                                  *)
TreeLater(t, t2) ==
  (t.excused => t2.excused) /\ (t.crashed => t2.crashed)

LEMMA TreeInitSound == TreeSound(tree_init)
<1> DEFINE t == tree_init
           D == [n \in TreeNodes |-> {n}]
<1>1. /\ DOMAIN t = TreeFields /\ t.excused \in BOOLEAN /\ t.crashed \in BOOLEAN
      /\ t.lchild = [n \in TreeNodes |-> NULL] /\ t.rchild = [n \in TreeNodes |-> NULL]
      /\ t.parent = [n \in TreeNodes |-> NULL] /\ t.val = [n \in TreeNodes |-> 0]
      /\ t.root = NULL /\ t.num_nodes = 0 /\ t.holds = [v \in TreeVals |-> 0]
  BY DEF tree_init, TreeFields
<1> HIDE DEF t
<1>2. TreeForest(t.lchild, t.rchild, D)
  BY <1>1, TreeNullNoNode DEF TreeForest, TreeLinks, TreeBelow
<1>3. TreeSorted(t.lchild, t.rchild, D, t.val)
  BY <1>1, <1>2 DEF TreeSorted, TreeLess, TreeMore, TreeBelow
<1>4. TreeIs(t, D)
  <2>1. 0 \in 0..TreeMaxNodes /\ 0 \in TreeVals
    BY TreeAssumption
  <2>2. t.parent \in TreeLinks /\ TreeBelow(D, t.root) = {}
    BY <1>1 DEF TreeLinks, TreeBelow
  <2>3. \A q, c \in TreeNodes : ~(c = t.lchild[q] \/ c = t.rchild[q])
    BY <1>1, TreeNullNoNode
  <2> QED BY <1>1, <1>3, <2>1, <2>2, <2>3 DEF TreeIs
<1>5. \A v \in TreeVals : t.holds[v] = TreeOf(t, D, v)
  <2> TAKE v \in TreeVals
  <2>1. TreeWith(t, D, v) = {}
    BY <1>1 DEF TreeWith, TreeBelow
  <2> QED BY <1>1, <2>1, FS_EmptySet DEF TreeOf
<1>6. TreeHas(t, D)
  BY <1>1, <1>4, <1>5 DEF TreeHas
<1> HIDE DEF D
<1>7. TreeSound(t)
  BY <1>1, <1>6 DEF TreeSound
<1> QED BY <1>7 DEF t

(* An insertion keeps all but the links, the values and the count of nodes.*)
LEMMA TreeInsertKeeps ==
  ASSUME NEW t, DOMAIN t = TreeFields, NEW v
  PROVE  LET t2 == tree_insert(t, v)
         IN /\ DOMAIN t2 = TreeFields /\ t2.holds = t.holds
            /\ t2.excused = t.excused /\ t2.crashed = t.crashed
<1>1. CASE TreeFull(t)
  BY <1>1 DEF tree_insert
<1>2. CASE ~TreeFull(t)
  BY <1>2, TreeInsertIs DEF TreeInserted
<1> QED BY <1>1, <1>2

LEMMA TreeInsertSound ==
  ASSUME NEW t, TreeSound(t), ~TreeFull(t), NEW v \in TreeVals
  PROVE  LET t2 == [tree_insert(t, v) EXCEPT !.holds[v] = @ + 1]
         IN TreeSound(t2) /\ TreeLater(t, t2)
<1> DEFINE t1 == tree_insert(t, v)
           t2 == [t1 EXCEPT !.holds[v] = @ + 1]
<1>1. /\ DOMAIN t1 = TreeFields /\ t1.holds = t.holds
      /\ t1.excused = t.excused /\ t1.crashed = t.crashed
  BY TreeInsertKeeps DEF TreeSound
<1>2. ASSUME ~t.excused, ~t.crashed PROVE \E D2 : TreeHas(t2, D2)
  <2>1. PICK D : TreeHas(t, D)
    BY <1>2 DEF TreeSound
  <2>2. PICK D2 : TreeGrown(t, D, v, t1, D2)
    BY <2>1, TreeInserts DEF TreeHas
  <2> HIDE DEF t1
  <2>3. TreeIs(t1, D2) /\ TreeOneMore(t, D, v, t1, D2)
    BY <2>2 DEF TreeGrown
  <2>4. t.holds \in [TreeVals -> Nat] /\ \A w \in TreeVals : t.holds[w] = TreeOf(t, D, w)
    BY <2>1 DEF TreeHas
  <2>5. /\ DOMAIN t2 = TreeFields /\ t2.holds = [t.holds EXCEPT ![v] = @ + 1]
        /\ t2.root = t1.root /\ t2.val = t1.val /\ t2.lchild = t1.lchild
        /\ t2.rchild = t1.rchild /\ t2.parent = t1.parent /\ t2.num_nodes = t1.num_nodes
    BY <1>1 DEF TreeFields
  <2> HIDE DEF t2
  <2>6. TreeIs(t2, D2)
    BY <2>3, <2>5 DEF TreeIs
  <2>7. t2.holds \in [TreeVals -> Nat]
    BY <2>4, <2>5
  <2>8. ASSUME NEW w \in TreeVals PROVE t2.holds[w] = TreeOf(t2, D2, w)
    <3>1. TreeOf(t2, D2, w) = TreeOf(t1, D2, w)
      BY <2>5 DEF TreeOf, TreeWith
    <3>2. TreeOf(t1, D2, w) = t.holds[w] + (IF w = v THEN 1 ELSE 0)
      BY <2>3, <2>4 DEF TreeOneMore
    <3>3. CASE w = v
      BY <2>4, <2>5, <3>1, <3>2, <3>3
    <3>4. CASE w # v
      BY <2>4, <2>5, <3>1, <3>2, <3>4
    <3> QED BY <3>3, <3>4
  <2>9. TreeHas(t2, D2)
    BY <2>6, <2>7, <2>8 DEF TreeHas
  <2> QED BY <2>9
<1>3. /\ DOMAIN t2 = TreeFields /\ t2.excused = t.excused /\ t2.crashed = t.crashed
  BY <1>1 DEF TreeFields
<1> HIDE DEF t2
<1>4. TreeSound(t2) /\ TreeLater(t, t2)
  BY <1>2, <1>3 DEF TreeSound, TreeLater
<1> QED BY <1>4 DEF t2

(* A lookup returns a node of the tree with the value, or NULL.            *)
LEMMA TreeLookupIn ==
  ASSUME NEW t, NEW D, TreeIs(t, D), NEW v \in TreeVals, tree_lookup(t, v) # NULL
  PROVE  /\ tree_lookup(t, v) \in TreeBelow(D, t.root)
         /\ t.val[tree_lookup(t, v)] = v
<1> DEFINE l == t.lchild
           r == t.rchild
           next == [n \in TreeNodes |-> IF v < t.val[n] THEN l[n]
                                        ELSE IF v > t.val[n] THEN r[n] ELSE NULL]
           good == {n \in TreeNodes : t.val[n] = v}
<1>1. TreeForest(l, r, D) /\ t.root \in TreeNodes \cup {NULL}
  BY DEF TreeIs, TreeSorted
<1>2. TreeWay(next, l, r)
  BY <1>1, TreeChild DEF TreeWay, TreeLinks
<1>3. tree_lookup(t, v) = TreeLastOn(next, good, t.root)
  BY DEF tree_lookup
<1> HIDE DEF next, good
<1>4. tree_lookup(t, v) \in (TreeBelow(D, t.root) \cap good) \cup {NULL}
  BY <1>1, <1>2, <1>3, TreeLastBelow
<1> QED BY <1>4 DEF good

LEMMA TreeNodeDeleteSound ==
  ASSUME NEW t, TreeSound(t), NEW v \in TreeVals, TreeDeletable(t, tree_lookup(t, v))
  PROVE  TreeSound(tree_delete(t, v)) /\ TreeLater(t, tree_delete(t, v))
<1> DEFINE n == tree_lookup(t, v)
           p == t.parent[n]
           e == TreeLastOn(t.rchild, TreeNodes, t.lchild[n])
           m == tree_reorder_move(t, n)
           t2 == tree_node_delete(t, n)
<1>1. tree_delete(t, v) = t2 /\ n # NULL
  BY DEF tree_delete, TreeDeletable
<1>2. DOMAIN t = TreeFields /\ t.excused \in BOOLEAN /\ t.crashed \in BOOLEAN
  BY DEF TreeSound
<1>3. TreeReaped(t, m, n, t2) /\ TreeKeeps(t, m)
  BY <1>2, TreeNodeDeleteIs, TreeMoveKeeps
<1> HIDE DEF m, t2
<1>4. /\ DOMAIN t2 = TreeFields
      /\ t2.excused = (t.excused \/ t.parent[n] = n)
      /\ t2.crashed = t.crashed \/ t2.crashed = TRUE
  BY <1>3 DEF TreeReaped, TreeKeeps
<1>5. t2.excused \in BOOLEAN /\ t2.crashed \in BOOLEAN
  BY <1>2, <1>4
<1>6. TreeLater(t, t2)
  <2>1. t.excused => t2.excused
    BY <1>4
  <2>2. t.crashed => t2.crashed
    BY <1>4
  <2> QED BY <2>1, <2>2 DEF TreeLater
<1>7. ASSUME ~t2.excused, ~t2.crashed PROVE \E E : TreeHas(t2, E)
  <2>1. ~t.excused /\ ~t.crashed /\ t.parent[n] # n
    BY <1>4, <1>6, <1>7 DEF TreeLater
  <2>2. PICK D : TreeHas(t, D)
    BY <2>1 DEF TreeSound
  <2>3. /\ TreeIs(t, D) /\ t.holds \in [TreeVals -> Nat]
        /\ \A w \in TreeVals : t.holds[w] = TreeOf(t, D, w)
    BY <2>2 DEF TreeHas
  <2>4. n \in TreeBelow(D, t.root) /\ t.val[n] = v
    BY <1>1, <2>3, TreeLookupIn
  <2>5. TreeSpot(t, D, n, p, e)
    BY <2>1, <2>3, <2>4 DEF TreeSpot
  <2>6. \E E : TreeShrunk(t, D, n, tree_node_delete(t, n), E)
    <3>1. tree_node_delete(t, n).crashed # TRUE
      BY <1>7 DEF t2
    <3> HIDE DEF n, p, e
    <3> QED BY <2>5, <3>1, TreeDeletes
  <2>7. PICK E : TreeShrunk(t, D, n, t2, E)
    BY <2>6 DEF t2
  <2> HIDE DEF n
  <2>8. /\ TreeIs(t2, E) /\ t2.holds = [t.holds EXCEPT ![v] = IF @ = 0 THEN 0 ELSE @ - 1]
        /\ TreeOneLess(t, D, n, t2, E)
    BY <2>4, <2>7 DEF TreeShrunk
  <2>9. t2.holds \in [TreeVals -> Nat]
    BY <2>3, <2>8
  <2>10. ASSUME NEW w \in TreeVals PROVE t2.holds[w] = TreeOf(t2, E, w)
    <3>1. /\ w = v => t.holds[w] = TreeOf(t2, E, w) + 1
          /\ w # v => t.holds[w] = TreeOf(t2, E, w)
      BY <2>3, <2>4, <2>8 DEF TreeOneLess
    <3>2. TreeOf(t2, E, w) \in Nat
      <4>1. TreeBelow(E, t2.root) \subseteq TreeNodes
        BY <2>8, TreeSelf DEF TreeIs, TreeSorted, TreeBelow
      <4>2. TreeWith(t2, E, w) \in SUBSET TreeNodes
        BY <4>1 DEF TreeWith
      <4> QED BY <4>2, TreeNodesFinite, FS_Subset, FS_CardinalityType DEF TreeOf
    <3>3. CASE w = v
      BY <2>3, <2>8, <3>1, <3>2, <3>3
    <3>4. CASE w # v
      BY <2>3, <2>8, <3>1, <3>4
    <3> QED BY <3>3, <3>4
  <2>11. TreeHas(t2, E)
    BY <2>8, <2>9, <2>10 DEF TreeHas
  <2> QED BY <2>11
<1>8. TreeSound(t2)
  BY <1>4, <1>5, <1>7 DEF TreeSound
<1> QED BY <1>1, <1>6, <1>8

(* The runs of the calls that take an array.                               *)
TreeInsertAt(t, vals, positions, i) == tree_insert(t, vals[positions[i] + 1])
TreeDeleteFrom(t) == [t |-> t, ok |-> TRUE]

(* The trees after each insertion.                                          *)
LEMMA TreeInsertRun ==
  ASSUME NEW t, NEW vals, NEW positions, NEW num \in Nat
  PROVE  \E run : /\ run[0] = t
                  /\ \A i \in 1..num : run[i] = TreeInsertAt(run[i - 1], vals, positions, i)
                  /\ Len(positions) = num => TreeInsertAll(t, vals, positions) = run[num]
<1> DEFINE S == {n \in Nat : \E r :
                   r = [i \in 0..n |-> IF i = 0 THEN t ELSE TreeInsertAt(r[i - 1], vals, positions, i)]}
<1>1. 0 \in S
  <2> DEFINE r == [i \in 0..0 |-> t]
  <2>1. r = [i \in 0..0 |-> IF i = 0 THEN t ELSE TreeInsertAt(r[i - 1], vals, positions, i)]
    OBVIOUS
  <2> QED BY <2>1
<1>2. ASSUME NEW n \in S \cap Nat PROVE n + 1 \in S
  <2>1. PICK r : r = [i \in 0..n |-> IF i = 0 THEN t ELSE TreeInsertAt(r[i - 1], vals, positions, i)]
    OBVIOUS
  <2> DEFINE u ==
               [i \in 0..n + 1 |-> IF i = n + 1 THEN TreeInsertAt(r[n], vals, positions, n + 1) ELSE r[i]]
  <2>2. ASSUME NEW i \in 0..n + 1
        PROVE  u[i] = IF i = 0 THEN t ELSE TreeInsertAt(u[i - 1], vals, positions, i)
    <3>1. CASE i = n + 1
      BY <3>1
    <3>2. CASE i # n + 1
      <4>1. i \in 0..n /\ u[i] = r[i]
        BY <3>2
      <4>2. i # 0 => i - 1 \in 0..n /\ u[i - 1] = r[i - 1]
        BY <3>2
      <4>3. r[i] = IF i = 0 THEN t ELSE TreeInsertAt(r[i - 1], vals, positions, i)
        BY <2>1, <4>1
      <4> QED BY <4>1, <4>2, <4>3
    <3> QED BY <3>1, <3>2
  <2>3. u = [i \in 0..n + 1 |-> u[i]]
    OBVIOUS
  <2> HIDE DEF u
  <2>4. u = [i \in 0..n + 1 |-> IF i = 0 THEN t ELSE TreeInsertAt(u[i - 1], vals, positions, i)]
    BY <2>2, <2>3
  <2> QED BY <2>4
<1> DEFINE run ==
             CHOOSE r : r = [i \in 0..num |-> IF i = 0 THEN t ELSE TreeInsertAt(r[i - 1], vals, positions, i)]
<1>3. run = [i \in 0..num |-> IF i = 0 THEN t ELSE TreeInsertAt(run[i - 1], vals, positions, i)]
  <2>1. num \in S
    <3> HIDE DEF S
    <3> QED BY <1>1, <1>2, SetInduction
  <2> QED BY <2>1
<1>4. Len(positions) = num => TreeInsertAll(t, vals, positions) = run[num]
  BY DEF TreeInsertAll, TreeInsertAt
<1> HIDE DEF run
<1>5. run[0] = t /\ \A i \in 1..num : run[i] = TreeInsertAt(run[i - 1], vals, positions, i)
  BY <1>3
<1> QED BY <1>4, <1>5

(* The trees after each deletion.                                          *)
LEMMA TreeDeleteRun ==
  ASSUME NEW t, NEW vals, NEW num \in Nat
  PROVE  \E run : /\ run[0] = TreeDeleteFrom(t)
                  /\ \A i \in 1..num : run[i] = TreeDeleteNext(run[i - 1], vals[i])
                  /\ Len(vals) = num => tree_delete_many(t, vals) = run[num]
<1> DEFINE S == {n \in Nat : \E r :
                   r = [i \in 0..n |-> IF i = 0 THEN TreeDeleteFrom(t) ELSE TreeDeleteNext(r[i - 1], vals[i])]}
<1>1. 0 \in S
  <2> DEFINE r == [i \in 0..0 |-> TreeDeleteFrom(t)]
  <2>1. r = [i \in 0..0 |-> IF i = 0 THEN TreeDeleteFrom(t) ELSE TreeDeleteNext(r[i - 1], vals[i])]
    OBVIOUS
  <2> QED BY <2>1
<1>2. ASSUME NEW n \in S \cap Nat PROVE n + 1 \in S
  <2>1. PICK r : r = [i \in 0..n |-> IF i = 0 THEN TreeDeleteFrom(t) ELSE TreeDeleteNext(r[i - 1], vals[i])]
    OBVIOUS
  <2> DEFINE u ==
               [i \in 0..n + 1 |-> IF i = n + 1 THEN TreeDeleteNext(r[n], vals[n + 1]) ELSE r[i]]
  <2>2. ASSUME NEW i \in 0..n + 1
        PROVE  u[i] = IF i = 0 THEN TreeDeleteFrom(t) ELSE TreeDeleteNext(u[i - 1], vals[i])
    <3>1. CASE i = n + 1
      BY <3>1
    <3>2. CASE i # n + 1
      <4>1. i \in 0..n /\ u[i] = r[i]
        BY <3>2
      <4>2. i # 0 => i - 1 \in 0..n /\ u[i - 1] = r[i - 1]
        BY <3>2
      <4>3. r[i] = IF i = 0 THEN TreeDeleteFrom(t) ELSE TreeDeleteNext(r[i - 1], vals[i])
        BY <2>1, <4>1
      <4> QED BY <4>1, <4>2, <4>3
    <3> QED BY <3>1, <3>2
  <2>3. u = [i \in 0..n + 1 |-> u[i]]
    OBVIOUS
  <2> HIDE DEF u
  <2>4. u = [i \in 0..n + 1 |-> IF i = 0 THEN TreeDeleteFrom(t) ELSE TreeDeleteNext(u[i - 1], vals[i])]
    BY <2>2, <2>3
  <2> QED BY <2>4
<1> DEFINE run ==
             CHOOSE r : r = [i \in 0..num |-> IF i = 0 THEN TreeDeleteFrom(t) ELSE TreeDeleteNext(r[i - 1], vals[i])]
<1>3. run = [i \in 0..num |-> IF i = 0 THEN TreeDeleteFrom(t) ELSE TreeDeleteNext(run[i - 1], vals[i])]
  <2>1. num \in S
    <3> HIDE DEF S
    <3> QED BY <1>1, <1>2, SetInduction
  <2> QED BY <2>1
<1>4. Len(vals) = num => tree_delete_many(t, vals) = run[num]
  BY DEF tree_delete_many, TreeDeleteFrom
<1> HIDE DEF run
<1>5. run[0] = TreeDeleteFrom(t) /\ \A i \in 1..num : run[i] = TreeDeleteNext(run[i - 1], vals[i])
  BY <1>3
<1> QED BY <1>4, <1>5

TreeHalf(pos, n) == IF n = 0 THEN <<>> ELSE << <<pos, n>> >>
TreeWhole(len) == TreeHalf(len \div 2, len)
TreeSplit(q) ==
  LET n == Head(q)[2]
      lower == n \div 2
      upper == n - lower - 1
  IN Tail(q) \o TreeHalf(lower \div 2, lower) \o TreeHalf(lower + 1 + upper \div 2, upper)

(* The halves that are left after each position of a sorted array.         *)
LEMMA TreePositionsRun ==
  ASSUME NEW len \in Nat
  PROVE  \E run : /\ run[0] = TreeWhole(len)
                  /\ \A i \in 1..len : run[i] = TreeSplit(run[i - 1])
                  /\ TreePositions(len) = [i \in 1..len |-> Head(run[i - 1])[1]]
<1> DEFINE S == {n \in Nat : \E r :
                   r = [i \in 0..n |-> IF i = 0 THEN TreeWhole(len) ELSE TreeSplit(r[i - 1])]}
<1>1. 0 \in S
  <2> DEFINE r == [i \in 0..0 |-> TreeWhole(len)]
  <2>1. r = [i \in 0..0 |-> IF i = 0 THEN TreeWhole(len) ELSE TreeSplit(r[i - 1])]
    OBVIOUS
  <2> QED BY <2>1
<1>2. ASSUME NEW n \in S \cap Nat PROVE n + 1 \in S
  <2>1. PICK r : r = [i \in 0..n |-> IF i = 0 THEN TreeWhole(len) ELSE TreeSplit(r[i - 1])]
    OBVIOUS
  <2> DEFINE u ==
               [i \in 0..n + 1 |-> IF i = n + 1 THEN TreeSplit(r[n]) ELSE r[i]]
  <2>2. ASSUME NEW i \in 0..n + 1
        PROVE  u[i] = IF i = 0 THEN TreeWhole(len) ELSE TreeSplit(u[i - 1])
    <3>1. CASE i = n + 1
      BY <3>1
    <3>2. CASE i # n + 1
      <4>1. i \in 0..n /\ u[i] = r[i]
        BY <3>2
      <4>2. i # 0 => i - 1 \in 0..n /\ u[i - 1] = r[i - 1]
        BY <3>2
      <4>3. r[i] = IF i = 0 THEN TreeWhole(len) ELSE TreeSplit(r[i - 1])
        BY <2>1, <4>1
      <4> QED BY <4>1, <4>2, <4>3
    <3> QED BY <3>1, <3>2
  <2>3. u = [i \in 0..n + 1 |-> u[i]]
    OBVIOUS
  <2> HIDE DEF u
  <2>4. u = [i \in 0..n + 1 |-> IF i = 0 THEN TreeWhole(len) ELSE TreeSplit(u[i - 1])]
    BY <2>2, <2>3
  <2> QED BY <2>4
<1> DEFINE run ==
             CHOOSE r : r = [i \in 0..len |-> IF i = 0 THEN TreeWhole(len) ELSE TreeSplit(r[i - 1])]
<1>3. run = [i \in 0..len |-> IF i = 0 THEN TreeWhole(len) ELSE TreeSplit(run[i - 1])]
  <2>1. len \in S
    <3> HIDE DEF S
    <3> QED BY <1>1, <1>2, SetInduction
  <2> QED BY <2>1
<1>4. TreePositions(len) = [i \in 1..len |-> Head(run[i - 1])[1]]
  BY DEF TreePositions, TreeSplit, TreeHalf, TreeWhole
<1> HIDE DEF run
<1>5. run[0] = TreeWhole(len) /\ \A i \in 1..len : run[i] = TreeSplit(run[i - 1])
  BY <1>3
<1> QED BY <1>4, <1>5

(* The calls that are several in one.                                      *)
LEMMA TreeUpdatedSound ==
  ASSUME NEW t, TreeSound(t), NEW new \in TreeVals, NEW old \in TreeVals,
         TreeDeletable(t, tree_lookup(t, old))
  PROVE  TreeSound(TreeUpdated(t, new, old))
<1> DEFINE less == tree_delete(t, old)
<1>1. TreeSound(less)
  BY TreeNodeDeleteSound
<1>2. TreeUpdated(t, new, old) =
        IF TreeFull(less) \/ less.crashed THEN less
        ELSE [tree_insert(less, new) EXCEPT !.holds[new] = @ + 1]
  BY DEF TreeUpdated
<1> HIDE DEF less
<1>3. CASE TreeFull(less) \/ less.crashed
  BY <1>1, <1>2, <1>3
<1>4. CASE ~(TreeFull(less) \/ less.crashed)
  <2>1. TreeSound([tree_insert(less, new) EXCEPT !.holds[new] = @ + 1])
    BY <1>1, <1>4, TreeInsertSound
  <2> QED BY <1>2, <1>4, <2>1
<1> QED BY <1>3, <1>4

LEMMA TreeDeleteManySound ==
  ASSUME NEW t, TreeSound(t), NEW vals \in Seq(TreeVals)
  PROVE  TreeSound(tree_delete_many(t, vals).t)
<1> DEFINE num == Len(vals)
<1>1. num \in Nat /\ \A i \in 1..num : vals[i] \in TreeVals
  OBVIOUS
<1> HIDE DEF num
<1>2. PICK run : /\ run[0] = TreeDeleteFrom(t)
                 /\ \A i \in 1..num : run[i] = TreeDeleteNext(run[i - 1], vals[i])
                 /\ tree_delete_many(t, vals) = run[num]
  BY <1>1, TreeDeleteRun DEF num
<1> DEFINE S == {i \in Nat : i \in 0..num => TreeSound(run[i].t)}
<1>3. 0 \in S
  <2>1. run[0].t = t
    BY <1>2 DEF TreeDeleteFrom
  <2> QED BY <2>1
<1>4. ASSUME NEW i \in S \cap Nat PROVE i + 1 \in S
  <2> SUFFICES ASSUME i + 1 \in 0..num PROVE TreeSound(run[i + 1].t)
    BY <1>1
  <2>1. i \in 0..num /\ i + 1 \in 1..num /\ TreeSound(run[i].t) /\ vals[i + 1] \in TreeVals
    BY <1>1
  <2> DEFINE u == run[i]
             v == vals[i + 1]
  <2>2. run[i + 1] = TreeDeleteNext(u, v)
    BY <1>2, <2>1
  <2>3. TreeSound(u.t) /\ v \in TreeVals
    BY <2>1
  <2> HIDE DEF u, v, S
  <2>4. CASE u.ok /\ TreeDeletable(u.t, tree_lookup(u.t, v))
    <3>1. run[i + 1].t = tree_delete(u.t, v)
      BY <2>2, <2>4 DEF TreeDeleteNext
    <3> QED BY <2>3, <2>4, <3>1, TreeNodeDeleteSound
  <2>5. CASE ~(u.ok /\ TreeDeletable(u.t, tree_lookup(u.t, v)))
    <3>1. run[i + 1].t = u.t
      BY <2>2, <2>5 DEF TreeDeleteNext
    <3> QED BY <2>3, <3>1
  <2> QED BY <2>4, <2>5
<1>5. num \in S
  <2> HIDE DEF S
  <2> QED BY <1>1, <1>3, <1>4, SetInduction
<1> QED BY <1>1, <1>2, <1>5

(* The positions of a sorted array of at most four values.                 *)
TreePermutes(positions, len) ==
  /\ DOMAIN positions = 1..len
  /\ \/ len = 0
     \/ len = 1 /\ positions[1] = 0
     \/ len = 2 /\ positions[1] = 1 /\ positions[2] = 0
     \/ len = 3 /\ positions[1] = 1 /\ positions[2] = 0 /\ positions[3] = 2
     \/ len = 4 /\ positions[1] = 2 /\ positions[2] = 1 /\ positions[3] = 3 /\ positions[4] = 0

TreeSplitAt(q, lower, upper, a, b) ==
  /\ Head(q)[2] \div 2 = lower /\ Head(q)[2] - lower - 1 = upper
  /\ lower \div 2 = a /\ lower + 1 + upper \div 2 = b
TreeSplitGives(q, lower, upper, a, b, q2) ==
  /\ lower # 0 /\ upper = 0 /\ Tail(q) = << >> => q2 = << <<a, lower>> >>
  /\ lower # 0 /\ upper # 0 /\ Tail(q) = << >> => q2 = << <<a, lower>>, <<b, upper>> >>
  /\ \A x : /\ lower = 0 /\ upper = 0 /\ Tail(q) = <<x>> => q2 = <<x>>
            /\ lower # 0 /\ upper = 0 /\ Tail(q) = <<x>> => q2 = <<x, <<a, lower>> >>

LEMMA TreeJoinTwo ==
  ASSUME NEW x, NEW y
  PROVE  <<x>> \o <<y>> = <<x, y>>
<1> DEFINE s == <<x>> \o <<y>>
<1>1. s \in Seq({x, y}) /\ Len(s) = 2 /\ s[1] = x /\ s[2] = y
  OBVIOUS
<1>2. s = [i \in 1..2 |-> s[i]]
  BY <1>1
<1>3. <<x, y>> = [i \in 1..2 |-> <<x, y>>[i]]
  OBVIOUS
<1> HIDE DEF s
<1>4. \A i \in 1..2 : s[i] = <<x, y>>[i]
  BY <1>1
<1>5. s = <<x, y>>
  BY <1>2, <1>3, <1>4
<1> QED BY <1>5 DEF s

(* What one position leaves of the halves.                                 *)
LEMMA TreeSplitIs ==
  ASSUME NEW q, NEW lower, NEW upper, NEW a, NEW b,
         TreeSplitAt(q, lower, upper, a, b)
  PROVE  TreeSplitGives(q, lower, upper, a, b, TreeSplit(q))
<1> DEFINE h == TreeHalf(a, lower)
           k == TreeHalf(b, upper)
           y == <<a, lower>>
           z == <<b, upper>>
<1>1. TreeSplit(q) = Tail(q) \o h \o k
  BY DEF TreeSplit, TreeSplitAt
<1>2. /\ lower # 0 => h = <<y>>
      /\ lower = 0 => h = << >>
      /\ upper # 0 => k = <<z>>
      /\ upper = 0 => k = << >>
  BY DEF TreeHalf
<1> HIDE DEF h, k, y, z
<1>3. ASSUME NEW x
      PROVE  << >> \o <<x>> = <<x>> /\ <<x>> \o << >> = <<x>> /\ <<x, y>> \o << >> = <<x, y>>
  OBVIOUS
<1>4. /\ lower # 0 /\ upper = 0 /\ Tail(q) = << >> => TreeSplit(q) = <<y>>
      /\ lower # 0 /\ upper # 0 /\ Tail(q) = << >> => TreeSplit(q) = <<y, z>>
  <2>1. << >> \o <<y>> = <<y>> /\ <<y>> \o << >> = <<y>> /\ <<y>> \o <<z>> = <<y, z>>
    BY <1>3, TreeJoinTwo
  <2>2. ASSUME lower # 0, upper = 0, Tail(q) = << >> PROVE TreeSplit(q) = <<y>>
    <3>1. TreeSplit(q) = << >> \o <<y>> \o << >>
      BY <1>1, <1>2, <2>2
    <3> QED BY <2>1, <3>1
  <2>3. ASSUME lower # 0, upper # 0, Tail(q) = << >> PROVE TreeSplit(q) = <<y, z>>
    <3>1. TreeSplit(q) = << >> \o <<y>> \o <<z>>
      BY <1>1, <1>2, <2>3
    <3> QED BY <2>1, <3>1
  <2> QED BY <2>2, <2>3
<1>5. ASSUME NEW x
      PROVE  /\ lower = 0 /\ upper = 0 /\ Tail(q) = <<x>> => TreeSplit(q) = <<x>>
             /\ lower # 0 /\ upper = 0 /\ Tail(q) = <<x>> => TreeSplit(q) = <<x, y>>
  <2>1. /\ <<x>> \o << >> = <<x>> /\ <<x>> \o <<y>> = <<x, y>>
        /\ <<x, y>> \o << >> = <<x, y>>
    BY <1>3, TreeJoinTwo
  <2>2. ASSUME lower = 0, upper = 0, Tail(q) = <<x>> PROVE TreeSplit(q) = <<x>>
    <3>1. TreeSplit(q) = <<x>> \o << >> \o << >>
      BY <1>1, <1>2, <2>2
    <3> QED BY <2>1, <3>1
  <2>3. ASSUME lower # 0, upper = 0, Tail(q) = <<x>> PROVE TreeSplit(q) = <<x, y>>
    <3>1. TreeSplit(q) = <<x>> \o <<y>> \o << >>
      BY <1>1, <1>2, <2>3
    <3> QED BY <2>1, <3>1
  <2> QED BY <2>2, <2>3
<1> QED BY <1>4, <1>5 DEF y, z, TreeSplitGives

LEMMA TreePositionsSmall ==
  ASSUME NEW len \in 0..4
  PROVE  TreePermutes(TreePositions(len), len)
<1> DEFINE positions == TreePositions(len)
<1>0. len \in Nat
  OBVIOUS
<1>1. PICK run : /\ run[0] = TreeWhole(len)
                 /\ \A i \in 1..len : run[i] = TreeSplit(run[i - 1])
                 /\ positions = [i \in 1..len |-> Head(run[i - 1])[1]]
  BY <1>0, TreePositionsRun
<1> HIDE DEF positions
<1>2. DOMAIN positions = 1..len /\ \A i \in 1..len : positions[i] = Head(run[i - 1])[1]
  BY <1>1
<1>3. run[0] = TreeHalf(len \div 2, len)
  BY <1>1 DEF TreeWhole
<1>4. ASSUME len = 0 PROVE TreePermutes(positions, len)
  BY <1>2, <1>4 DEF TreePermutes
<1>5. ASSUME len = 1 PROVE TreePermutes(positions, len)
  <2>1. run[0] = << <<0, 1>> >>
    BY <1>3, <1>5 DEF TreeHalf
  <2>2. positions[1] = 0
    BY <1>2, <1>5, <2>1
  <2> QED BY <1>2, <1>5, <2>2 DEF TreePermutes
<1>6. ASSUME len = 2 PROVE TreePermutes(positions, len)
  <2>1. run[0] = << <<1, 2>> >>
    BY <1>3, <1>6 DEF TreeHalf
  <2>2. run[1] = << <<0, 1>> >>
    <3>1. run[1] = TreeSplit(run[0])
      BY <1>1, <1>6
    <3>2. Head(run[0])[2] = 2 /\ Tail(run[0]) = << >>
      BY <2>1
    <3>3. TreeSplitAt(run[0], 1, 0, 0, 2)
      BY <3>2 DEF TreeSplitAt
    <3> QED BY <3>1, <3>2, <3>3, TreeSplitIs DEF TreeSplitGives
  <2>3. positions[1] = 1 /\ positions[2] = 0
    BY <1>2, <1>6, <2>1, <2>2
  <2> QED BY <1>2, <1>6, <2>3 DEF TreePermutes
<1>7. ASSUME len = 3 PROVE TreePermutes(positions, len)
  <2>1. run[0] = << <<1, 3>> >>
    BY <1>3, <1>7 DEF TreeHalf
  <2>2. run[1] = << <<0, 1>>, <<2, 1>> >>
    <3>1. run[1] = TreeSplit(run[0])
      BY <1>1, <1>7
    <3>2. Head(run[0])[2] = 3 /\ Tail(run[0]) = << >>
      BY <2>1
    <3>3. TreeSplitAt(run[0], 1, 1, 0, 2)
      BY <3>2 DEF TreeSplitAt
    <3> QED BY <3>1, <3>2, <3>3, TreeSplitIs DEF TreeSplitGives
  <2>3. run[2] = << <<2, 1>> >>
    <3>1. run[2] = TreeSplit(run[1])
      BY <1>1, <1>7
    <3>2. Head(run[1])[2] = 1 /\ Tail(run[1]) = << <<2, 1>> >>
      BY <2>2
    <3>3. TreeSplitAt(run[1], 0, 0, 0, 1)
      BY <3>2 DEF TreeSplitAt
    <3> QED BY <3>1, <3>2, <3>3, TreeSplitIs DEF TreeSplitGives
  <2>4. positions[1] = 1 /\ positions[2] = 0 /\ positions[3] = 2
    BY <1>2, <1>7, <2>1, <2>2, <2>3
  <2> QED BY <1>2, <1>7, <2>4 DEF TreePermutes
<1>8. ASSUME len = 4 PROVE TreePermutes(positions, len)
  <2>1. run[0] = << <<2, 4>> >>
    BY <1>3, <1>8 DEF TreeHalf
  <2>2. run[1] = << <<1, 2>>, <<3, 1>> >>
    <3>1. run[1] = TreeSplit(run[0])
      BY <1>1, <1>8
    <3>2. Head(run[0])[2] = 4 /\ Tail(run[0]) = << >>
      BY <2>1
    <3>3. TreeSplitAt(run[0], 2, 1, 1, 3)
      BY <3>2 DEF TreeSplitAt
    <3> QED BY <3>1, <3>2, <3>3, TreeSplitIs DEF TreeSplitGives
  <2>3. run[2] = << <<3, 1>>, <<0, 1>> >>
    <3>1. run[2] = TreeSplit(run[1])
      BY <1>1, <1>8
    <3>2. Head(run[1])[2] = 2 /\ Tail(run[1]) = << <<3, 1>> >>
      BY <2>2
    <3>3. TreeSplitAt(run[1], 1, 0, 0, 2)
      BY <3>2 DEF TreeSplitAt
    <3> QED BY <3>1, <3>2, <3>3, TreeSplitIs DEF TreeSplitGives
  <2>4. run[3] = << <<0, 1>> >>
    <3>1. run[3] = TreeSplit(run[2])
      BY <1>1, <1>8
    <3>2. Head(run[2])[2] = 1 /\ Tail(run[2]) = << <<0, 1>> >>
      BY <2>3
    <3>3. TreeSplitAt(run[2], 0, 0, 0, 1)
      BY <3>2 DEF TreeSplitAt
    <3> QED BY <3>1, <3>2, <3>3, TreeSplitIs DEF TreeSplitGives
  <2>5. positions[1] = 2 /\ positions[2] = 1 /\ positions[3] = 3 /\ positions[4] = 0
    BY <1>2, <1>8, <2>1, <2>2, <2>3, <2>4
  <2> QED BY <1>2, <1>8, <2>5 DEF TreePermutes
<1>9. TreePermutes(positions, len)
  BY <1>4, <1>5, <1>6, <1>7, <1>8
<1> QED BY <1>9 DEF positions

(* Every place of the array is taken once.                                 *)
TreeAll(positions, len) ==
  /\ \A j \in 1..len : positions[j] + 1 \in 1..len
  /\ \A i, j \in 1..len : positions[i] + 1 = positions[j] + 1 => i = j
  /\ \A i \in 1..len : \E j \in 1..len : i = positions[j] + 1

LEMMA TreePermutesAll ==
  ASSUME NEW positions, NEW len, TreePermutes(positions, len)
  PROVE  TreeAll(positions, len)
<1>1. CASE len = 0
  BY <1>1 DEF TreeAll
<1>2. CASE len = 1
  BY <1>2 DEF TreeAll, TreePermutes
<1>3. CASE len = 2
  BY <1>3 DEF TreeAll, TreePermutes
<1>4. CASE len = 3
  <2>1. positions[1] = 1 /\ positions[2] = 0 /\ positions[3] = 2
    BY <1>4 DEF TreePermutes
  <2>2. \A j \in 1..len : j = 1 \/ j = 2 \/ j = 3
    BY <1>4
  <2> QED BY <1>4, <2>1, <2>2 DEF TreeAll
<1>5. CASE len = 4
  <2>1. positions[1] = 2 /\ positions[2] = 1 /\ positions[3] = 3 /\ positions[4] = 0
    BY <1>5 DEF TreePermutes
  <2>2. \A j \in 1..len : j = 1 \/ j = 2 \/ j = 3 \/ j = 4
    BY <1>5
  <2> QED BY <1>5, <2>1, <2>2 DEF TreeAll
<1> QED BY <1>1, <1>2, <1>3, <1>4, <1>5 DEF TreePermutes

TreePicks(vals, positions, w, i) == {j \in 1..i : vals[positions[j] + 1] = w}

LEMMA TreePicksAll ==
  ASSUME NEW vals \in Seq(TreeVals), NEW positions, TreeAll(positions, Len(vals)), NEW w
  PROVE  Cardinality(TreePicks(vals, positions, w, Len(vals)))
           = Cardinality({i \in DOMAIN vals : vals[i] = w})
<1> DEFINE len == Len(vals)
           A == TreePicks(vals, positions, w, len)
           B == {i \in DOMAIN vals : vals[i] = w}
           f == [j \in A |-> positions[j] + 1]
<1>1. len \in Nat /\ DOMAIN vals = 1..len
  OBVIOUS
<1>2. \A j \in 1..len : positions[j] + 1 \in 1..len
  BY DEF TreeAll
<1>3. \A i, j \in 1..len : positions[i] + 1 = positions[j] + 1 => i = j
  BY DEF TreeAll
<1>4. \A i \in 1..len : \E j \in 1..len : i = positions[j] + 1
  BY DEF TreeAll
<1>5. A = {j \in 1..len : vals[positions[j] + 1] = w}
  BY DEF TreePicks
<1> HIDE DEF len
<1>6. B = {i \in 1..len : vals[i] = w}
  BY <1>1
<1> HIDE DEF A, B
<1>7. f \in [A -> B]
  BY <1>2, <1>5, <1>6
<1>8. \A i, j \in A : f[i] = f[j] => i = j
  BY <1>3, <1>5
<1>9. \A i \in B : \E j \in A : f[j] = i
  BY <1>4, <1>5, <1>6
<1>10. f \in Bijection(A, B)
  <2> HIDE DEF f
  <2> QED BY <1>7, <1>8, <1>9 DEF Bijection, Injection, Surjection, IsInjective
<1>11. ExistsBijection(A, B)
  BY <1>10 DEF ExistsBijection
<1>12. IsFiniteSet(A)
  <2>1. IsFiniteSet(1..len)
    BY <1>1, FS_Interval
  <2>2. A \in SUBSET (1..len)
    BY <1>5
  <2> QED BY <2>1, <2>2, FS_Subset
<1>13. Cardinality(B) = Cardinality(A)
  BY <1>11, <1>12, FS_Bijection
<1> QED BY <1>13 DEF A, B, len

(* Insertions one after the other.                                         *)
LEMMA TreeInsertAllKeeps ==
  ASSUME NEW t, DOMAIN t = TreeFields, NEW vals, NEW positions, Len(positions) \in Nat
  PROVE  LET t2 == TreeInsertAll(t, vals, positions)
         IN /\ DOMAIN t2 = TreeFields /\ t2.holds = t.holds
            /\ t2.excused = t.excused /\ t2.crashed = t.crashed
<1> DEFINE num == Len(positions)
           Same(u) == /\ DOMAIN u = TreeFields /\ u.holds = t.holds
                      /\ u.excused = t.excused /\ u.crashed = t.crashed
<1>1. PICK run : /\ run[0] = t
                 /\ \A i \in 1..num : run[i] = TreeInsertAt(run[i - 1], vals, positions, i)
                 /\ TreeInsertAll(t, vals, positions) = run[num]
  BY TreeInsertRun
<1>2. num \in Nat
  OBVIOUS
<1> HIDE DEF num
<1> DEFINE S == {i \in Nat : i \in 0..num => Same(run[i])}
<1>3. 0 \in S
  BY <1>1
<1>4. ASSUME NEW i \in S \cap Nat PROVE i + 1 \in S
  <2> SUFFICES ASSUME i + 1 \in 0..num PROVE Same(run[i + 1])
    BY <1>2
  <2>1. i \in 0..num /\ i + 1 \in 1..num /\ i + 1 - 1 = i
    BY <1>2
  <2>2. Same(run[i])
    BY <2>1
  <2>3. run[i + 1] = tree_insert(run[i], vals[positions[i + 1] + 1])
    BY <1>1, <2>1 DEF TreeInsertAt
  <2> QED BY <2>2, <2>3, TreeInsertKeeps
<1>5. num \in S
  <2> HIDE DEF S
  <2> QED BY <1>2, <1>3, <1>4, SetInduction
<1>6. Same(run[num])
  BY <1>2, <1>5
<1> QED BY <1>1, <1>6

(* t2 has what t has, and the first i picks.                               *)
TreeMany(t, D, vals, positions, i, t2, E) ==
  /\ TreeIs(t2, E) /\ t2.num_nodes = t.num_nodes + i
  /\ \A w \in TreeVals :
       TreeOf(t2, E, w) = TreeOf(t, D, w) + Cardinality(TreePicks(vals, positions, w, i))

LEMMA TreeManyNext ==
  ASSUME NEW t, NEW D, TreeIs(t, D), NEW vals, NEW positions, NEW i \in Nat,
         NEW t2, NEW E, TreeMany(t, D, vals, positions, i, t2, E), ~TreeFull(t2),
         vals[positions[i + 1] + 1] \in TreeVals
  PROVE  \E F : TreeMany(t, D, vals, positions, i + 1, TreeInsertAt(t2, vals, positions, i + 1), F)
<1> DEFINE v == vals[positions[i + 1] + 1]
           t3 == TreeInsertAt(t2, vals, positions, i + 1)
           Picks(w, k) == TreePicks(vals, positions, w, k)
<1>1. PICK F : TreeGrown(t2, E, v, tree_insert(t2, v), F)
  BY TreeInserts DEF TreeMany
<1>2. t3 = tree_insert(t2, v)
  BY DEF TreeInsertAt
<1>3. t.num_nodes \in Nat /\ t2.num_nodes = t.num_nodes + i
  BY DEF TreeIs, TreeMany
<1> HIDE DEF t3
<1>4. TreeIs(t3, F) /\ t3.num_nodes = t.num_nodes + (i + 1) /\ TreeOneMore(t2, E, v, t3, F)
  BY <1>1, <1>2, <1>3 DEF TreeGrown
<1>5. ASSUME NEW w \in TreeVals
      PROVE  TreeOf(t3, F, w) = TreeOf(t, D, w) + Cardinality(Picks(w, i + 1))
  <2>1. TreeOf(t3, F, w) = TreeOf(t2, E, w) + (IF w = v THEN 1 ELSE 0)
    BY <1>4 DEF TreeOneMore
  <2>2. TreeOf(t2, E, w) = TreeOf(t, D, w) + Cardinality(Picks(w, i))
    BY DEF TreeMany
  <2>3. IsFiniteSet(Picks(w, i)) /\ i + 1 \notin Picks(w, i)
    <3>1. IsFiniteSet(1..i) /\ i + 1 \notin 1..i
      BY FS_Interval
    <3>2. Picks(w, i) \in SUBSET (1..i)
      BY DEF TreePicks
    <3> QED BY <3>1, <3>2, FS_Subset
  <2>4. Cardinality(Picks(w, i)) \in Nat
    BY <2>3, FS_CardinalityType
  <2>5. TreeOf(t, D, w) \in Nat
    <3>1. TreeWith(t, D, w) \in SUBSET TreeNodes
      BY TreeSelf DEF TreeWith, TreeIs, TreeSorted, TreeBelow
    <3> QED BY <3>1, TreeNodesFinite, FS_Subset, FS_CardinalityType DEF TreeOf
  <2>6. CASE w = v
    <3>1. Picks(w, i + 1) = Picks(w, i) \cup {i + 1}
      BY <2>6 DEF TreePicks
    <3>2. Cardinality(Picks(w, i + 1)) = Cardinality(Picks(w, i)) + 1
      BY <2>3, <3>1, FS_AddElement
    <3> HIDE DEF Picks, v
    <3> QED BY <2>1, <2>2, <2>4, <2>5, <2>6, <3>2
  <2>7. CASE w # v
    <3>1. Picks(w, i + 1) = Picks(w, i)
      BY <2>7 DEF TreePicks
    <3> HIDE DEF Picks, v
    <3> QED BY <2>1, <2>2, <2>4, <2>5, <2>7, <3>1
  <2> QED BY <2>6, <2>7
<1>6. TreeMany(t, D, vals, positions, i + 1, t3, F)
  BY <1>4, <1>5 DEF TreeMany
<1> QED BY <1>6 DEF t3

LEMMA TreeInsertAllGrows ==
  ASSUME NEW t, NEW D, TreeIs(t, D), NEW vals, NEW positions,
         NEW num \in Nat, Len(positions) = num, t.num_nodes + num <= TreeMaxNodes,
         \A j \in 1..num : vals[positions[j] + 1] \in TreeVals
  PROVE  \E E : TreeMany(t, D, vals, positions, num, TreeInsertAll(t, vals, positions), E)
<1>1. PICK run : /\ run[0] = t
                 /\ \A i \in 1..num : run[i] = TreeInsertAt(run[i - 1], vals, positions, i)
                 /\ TreeInsertAll(t, vals, positions) = run[num]
  BY TreeInsertRun
<1>2. t.num_nodes \in Nat /\ TreeMaxNodes \in Nat
  BY TreeAssumption DEF TreeIs
<1> DEFINE Up(i) == \E E : TreeMany(t, D, vals, positions, i, run[i], E)
           S == {i \in Nat : i \in 0..num => Up(i)}
<1>3. Up(0)
  <2>1. ASSUME NEW w \in TreeVals
        PROVE  TreeOf(t, D, w) = TreeOf(t, D, w) + Cardinality(TreePicks(vals, positions, w, 0))
    <3>1. TreePicks(vals, positions, w, 0) = {}
      BY DEF TreePicks
    <3>2. TreeOf(t, D, w) \in Nat
      <4>1. TreeWith(t, D, w) \in SUBSET TreeNodes
        BY TreeSelf DEF TreeWith, TreeIs, TreeSorted, TreeBelow
      <4> QED BY <4>1, TreeNodesFinite, FS_Subset, FS_CardinalityType DEF TreeOf
    <3>3. Cardinality(TreePicks(vals, positions, w, 0)) = 0
      BY <3>1, FS_EmptySet
    <3> QED BY <3>2, <3>3
  <2>2. TreeMany(t, D, vals, positions, 0, t, D)
    BY <1>2, <2>1 DEF TreeMany
  <2> QED BY <1>1, <2>2
<1>4. ASSUME NEW i \in S \cap Nat PROVE i + 1 \in S
  <2> SUFFICES ASSUME i + 1 \in 0..num PROVE Up(i + 1)
    OBVIOUS
  <2>1. i \in 0..num /\ i + 1 \in 1..num /\ i + 1 - 1 = i
    OBVIOUS
  <2>2. Up(i)
    BY <2>1
  <2>3. PICK E : TreeMany(t, D, vals, positions, i, run[i], E)
    BY <2>2
  <2>4. ~TreeFull(run[i])
    BY <1>2, <2>1, <2>3 DEF TreeMany, TreeFull
  <2>5. run[i + 1] = TreeInsertAt(run[i], vals, positions, i + 1)
    BY <1>1, <2>1
  <2>6. vals[positions[i + 1] + 1] \in TreeVals
    BY <2>1
  <2>7. \E F : TreeMany(t, D, vals, positions, i + 1, TreeInsertAt(run[i], vals, positions, i + 1), F)
    BY <2>3, <2>4, <2>6, TreeManyNext
  <2> QED BY <2>5, <2>7
<1>5. num \in S
  <2>1. 0 \in S
    BY <1>3
  <2> HIDE DEF S
  <2> QED BY <1>4, <2>1, SetInduction
<1>6. Up(num)
  BY <1>5
<1> QED BY <1>1, <1>6

(* The positions an array is taken in, and that each is taken once but     *)
(* where the calls excuse themselves.                                      *)
TreeOrder(vals, ordered) ==
  IF ordered THEN TreePositions(Len(vals)) ELSE [i \in DOMAIN vals |-> i - 1]

LEMMA TreeOrderLen ==
  ASSUME NEW vals \in Seq(TreeVals), NEW ordered
  PROVE  Len(TreeOrder(vals, ordered)) = Len(vals)
<1>1. Len(vals) \in Nat /\ DOMAIN vals = 1..Len(vals)
  OBVIOUS
<1>2. CASE ordered
  <2> DEFINE len == Len(vals)
  <2>1. PICK run : /\ run[0] = TreeWhole(len)
                   /\ \A i \in 1..len : run[i] = TreeSplit(run[i - 1])
                   /\ TreePositions(len) = [i \in 1..len |-> Head(run[i - 1])[1]]
    BY <1>1, TreePositionsRun
  <2>2. TreeOrder(vals, ordered) = [i \in 1..len |-> Head(run[i - 1])[1]]
    BY <1>2, <2>1 DEF TreeOrder
  <2>3. len \in Nat
    BY <1>1
  <2> HIDE DEF len
  <2>4. Len([i \in 1..len |-> Head(run[i - 1])[1]]) = len
    BY <2>3
  <2> QED BY <2>2, <2>4 DEF len
<1>3. CASE ~ordered
  BY <1>1, <1>3 DEF TreeOrder
<1> QED BY <1>2, <1>3

LEMMA TreeOrderAll ==
  ASSUME NEW vals \in Seq(TreeVals), NEW ordered, ordered => Len(vals) <= 4
  PROVE  TreeAll(TreeOrder(vals, ordered), Len(vals))
<1>1. Len(vals) \in Nat /\ DOMAIN vals = 1..Len(vals)
  OBVIOUS
<1>2. CASE ordered
  <2>1. Len(vals) \in 0..4
    BY <1>1, <1>2
  <2>2. TreeAll(TreePositions(Len(vals)), Len(vals))
    BY <2>1, TreePositionsSmall, TreePermutesAll
  <2> QED BY <1>2, <2>2 DEF TreeOrder
<1>3. CASE ~ordered
  <2>1. \A i \in 1..Len(vals) : TreeOrder(vals, ordered)[i] = i - 1
    BY <1>1, <1>3 DEF TreeOrder
  <2> QED BY <1>1, <2>1 DEF TreeAll
<1> QED BY <1>2, <1>3

LEMMA TreeInsertManySound ==
  ASSUME NEW t, TreeSound(t), NEW vals \in Seq(TreeVals), NEW ordered
  PROVE  TreeSound(tree_insert_many(t, vals, ordered))
<1> DEFINE len == Len(vals)
           positions == TreeOrder(vals, ordered)
           t1 == TreeInsertAll(t, vals, positions)
           odd == t1.excused \/ t.num_nodes + len > TreeMaxNodes \/ (ordered /\ len > 4)
           holds == TreeAdd(t1.holds, TreeCount(vals))
           t2 == tree_insert_many(t, vals, ordered)
<1>1. len \in Nat /\ DOMAIN vals = 1..len /\ Len(positions) = len
      /\ \A i \in 1..len : vals[i] \in TreeVals
  BY TreeOrderLen
<1>2. /\ DOMAIN t = TreeFields /\ t.excused \in BOOLEAN /\ t.crashed \in BOOLEAN
  BY DEF TreeSound
<1>3. /\ DOMAIN t1 = TreeFields /\ t1.holds = t.holds
      /\ t1.excused = t.excused /\ t1.crashed = t.crashed
  BY <1>1, <1>2, TreeInsertAllKeeps
<1>4. t2 = [t1 EXCEPT !.holds = holds, !.excused = odd]
  BY DEF tree_insert_many, TreeOrder
<1> HIDE DEF len, positions, t1, odd, holds, t2
<1>5. /\ DOMAIN t2 = TreeFields /\ t2.holds = holds /\ t2.excused = odd /\ t2.crashed = t1.crashed
      /\ t2.root = t1.root /\ t2.val = t1.val /\ t2.lchild = t1.lchild
      /\ t2.rchild = t1.rchild /\ t2.parent = t1.parent /\ t2.num_nodes = t1.num_nodes
  BY <1>3, <1>4 DEF TreeFields
<1>6. odd \in BOOLEAN
  BY DEF odd
<1>7. ASSUME ~odd, ~t.crashed PROVE \E E : TreeHas(t2, E)
  <2>1. ~t.excused
    BY <1>3, <1>7 DEF odd
  <2>2. ~(t.num_nodes + len > TreeMaxNodes) /\ ~(ordered /\ len > 4)
    BY <1>7 DEF odd
  <2>3. PICK D : TreeHas(t, D)
    BY <1>7, <2>1 DEF TreeSound
  <2>4. /\ TreeIs(t, D) /\ t.holds \in [TreeVals -> Nat]
        /\ \A w \in TreeVals : t.holds[w] = TreeOf(t, D, w)
    BY <2>3 DEF TreeHas
  <2>5. t.num_nodes \in Nat /\ TreeMaxNodes \in Nat
    BY <2>4, TreeAssumption DEF TreeIs
  <2>6. t.num_nodes + len <= TreeMaxNodes /\ (ordered => len <= 4)
    BY <1>1, <2>2, <2>5
  <2>7. TreeAll(positions, len)
    BY <2>6, TreeOrderAll DEF len, positions
  <2>8. \A j \in 1..len : vals[positions[j] + 1] \in TreeVals
    BY <1>1, <2>7 DEF TreeAll
  <2>9. PICK E : TreeMany(t, D, vals, positions, len, t1, E)
    BY <1>1, <2>4, <2>6, <2>8, TreeInsertAllGrows DEF t1
  <2>10. TreeIs(t2, E)
    BY <1>5, <2>9 DEF TreeMany, TreeIs
  <2>11. ASSUME NEW w \in TreeVals
         PROVE  t2.holds[w] = TreeOf(t2, E, w) /\ t2.holds[w] \in Nat
    <3>1. t2.holds[w] = t.holds[w] + Cardinality({i \in DOMAIN vals : vals[i] = w})
      BY <1>3, <1>5 DEF holds, TreeAdd, TreeCount
    <3>2. TreeOf(t1, E, w) = TreeOf(t, D, w) + Cardinality(TreePicks(vals, positions, w, len))
      BY <2>9 DEF TreeMany
    <3>3. Cardinality(TreePicks(vals, positions, w, len))
            = Cardinality({i \in DOMAIN vals : vals[i] = w})
      BY <2>7, TreePicksAll DEF len
    <3>4. TreeOf(t2, E, w) = TreeOf(t1, E, w)
      BY <1>5 DEF TreeOf, TreeWith
    <3>5. t.holds[w] = TreeOf(t, D, w) /\ t.holds[w] \in Nat
      BY <2>4
    <3>6. Cardinality(TreePicks(vals, positions, w, len)) \in Nat
      <4>1. IsFiniteSet(1..len)
        BY <1>1, FS_Interval
      <4>2. TreePicks(vals, positions, w, len) \in SUBSET (1..len)
        BY DEF TreePicks
      <4> QED BY <4>1, <4>2, FS_Subset, FS_CardinalityType
    <3> QED BY <3>1, <3>2, <3>3, <3>4, <3>5, <3>6
  <2>12. t2.holds \in [TreeVals -> Nat]
    <3>1. t2.holds = [w \in TreeVals |-> t2.holds[w]]
      BY <1>5 DEF holds, TreeAdd
    <3> QED BY <2>11, <3>1
  <2>13. TreeHas(t2, E)
    BY <2>10, <2>11, <2>12 DEF TreeHas
  <2> QED BY <2>13
<1>8. TreeSound(t2)
  <2>1. t2.crashed \in BOOLEAN /\ t2.excused \in BOOLEAN
    BY <1>2, <1>3, <1>5, <1>6
  <2>2. ~t2.excused /\ ~t2.crashed => ~odd /\ ~t.crashed
    BY <1>3, <1>5
  <2> QED BY <1>5, <1>7, <2>1, <2>2 DEF TreeSound
<1> QED BY <1>8 DEF t2

TreeInv == tree # NULL => TreeSound(tree)

LEMMA TreeInvInit == TreeInit => TreeInv
BY DEF TreeInit, TreeInv

LEMMA TreeInvNext == TreeInv /\ [TreeNext]_tree => TreeInv'
<1> SUFFICES ASSUME TreeInv, [TreeNext]_tree PROVE TreeInv'
  OBVIOUS
<1>0. TreeBatches \subseteq Seq(TreeVals)
  BY TreeAssumption
<1>1. CASE tree' = tree
  BY <1>1 DEF TreeInv
<1>2. CASE TreeCreate
  BY <1>2, TreeInitSound DEF TreeCreate, TreeInv
<1>3. CASE TreeDestroy
  BY <1>3 DEF TreeDestroy, TreeInv
<1>4. ASSUME TreeInUse PROVE TreeSound(tree)
  BY <1>4 DEF TreeInv, TreeInUse
<1>5. ASSUME NEW v \in TreeVals, TreeInsert(v) PROVE TreeInv'
  <2>1. TreeSound([tree_insert(tree, v) EXCEPT !.holds[v] = @ + 1])
    BY <1>4, <1>5, TreeInsertSound DEF TreeInsert
  <2> QED BY <1>5, <2>1 DEF TreeInsert, TreeInv
<1>6. ASSUME NEW v \in TreeVals, TreeDelete(v) PROVE TreeInv'
  <2>1. TreeSound(tree_delete(tree, v))
    BY <1>4, <1>6, TreeNodeDeleteSound DEF TreeDelete
  <2> QED BY <1>6, <2>1 DEF TreeDelete, TreeInv
<1>7. ASSUME NEW new \in TreeVals, NEW old \in TreeVals, TreeUpdate(new, old) PROVE TreeInv'
  <2>1. TreeSound(TreeUpdated(tree, new, old))
    BY <1>4, <1>7, TreeUpdatedSound DEF TreeUpdate
  <2> QED BY <1>7, <2>1 DEF TreeUpdate, TreeInv
<1>8. ASSUME NEW vals \in TreeBatches, TreeDeleteMany(vals) PROVE TreeInv'
  <2>1. TreeSound(tree_delete_many(tree, vals).t)
    BY <1>0, <1>4, <1>8, TreeDeleteManySound DEF TreeDeleteMany
  <2> QED BY <1>8, <2>1 DEF TreeDeleteMany, TreeInv
<1>9. ASSUME NEW vals \in TreeBatches, NEW ordered \in BOOLEAN, TreeInsertMany(vals, ordered)
      PROVE  TreeInv'
  <2>1. TreeSound(tree_insert_many(tree, vals, ordered))
    BY <1>0, <1>4, <1>9, TreeInsertManySound DEF TreeInsertMany
  <2> QED BY <1>9, <2>1 DEF TreeInsertMany, TreeInv
<1>10. ASSUME NEW vals \in TreeBatches, NEW ordered \in BOOLEAN,
              TreeUpdateMany(vals, vals, ordered)
       PROVE  TreeInv'
  <2> DEFINE less == tree_delete_many(tree, vals)
  <2>1. TreeSound(less.t)
    BY <1>0, <1>4, <1>10, TreeDeleteManySound DEF TreeUpdateMany
  <2>2. TreeSound(tree_insert_many(less.t, vals, ordered))
    BY <1>0, <2>1, TreeInsertManySound
  <2>3. tree' = IF less.ok THEN tree_insert_many(less.t, vals, ordered) ELSE less.t
    BY <1>10 DEF TreeUpdateMany
  <2> HIDE DEF less
  <2>4. TreeSound(tree)'
    BY <2>1, <2>2, <2>3
  <2> QED BY <2>4 DEF TreeInv
<1> QED BY <1>1, <1>2, <1>3, <1>5, <1>6, <1>7, <1>8, <1>9, <1>10 DEF TreeNext

(* The walk of the tree in order: each node once.                          *)
TreeListed(s, A) ==
  /\ s \in Seq(TreeNodes)
  /\ \A i \in 1..Len(s) : s[i] \in A
  /\ \A a \in A : \E i \in 1..Len(s) : s[i] = a
  /\ \A i, j \in 1..Len(s) : s[i] = s[j] => i = j

LEMMA TreeListedJoin ==
  ASSUME NEW s, NEW A, TreeListed(s, A), NEW u, NEW B, TreeListed(u, B), A \cap B = {}
  PROVE  TreeListed(s \o u, A \cup B)
<1> DEFINE a == Len(s)
           b == Len(u)
           w == s \o u
<1>1. s \in Seq(TreeNodes) /\ u \in Seq(TreeNodes) /\ a \in Nat /\ b \in Nat
  BY DEF TreeListed
<1>2. w \in Seq(TreeNodes) /\ Len(w) = a + b
  BY <1>1
<1>3. /\ \A i \in 1..a : w[i] = s[i]
      /\ \A i \in 1..b : w[a + i] = u[i]
  BY <1>1
<1>4. /\ \A i \in 1..a : s[i] \in A
      /\ \A i \in 1..b : u[i] \in B
      /\ \A x \in A : \E i \in 1..a : s[i] = x
      /\ \A x \in B : \E i \in 1..b : u[i] = x
      /\ \A i, j \in 1..a : s[i] = s[j] => i = j
      /\ \A i, j \in 1..b : u[i] = u[j] => i = j
  BY DEF TreeListed
<1> HIDE DEF a, b, w
<1>5. ASSUME NEW k \in 1..(a + b)
      PROVE  k \in 1..a \/ (k - a \in 1..b /\ k = a + (k - a))
  BY <1>1
<1>6. \A k \in 1..(a + b) : w[k] \in A \cup B
  <2> TAKE k \in 1..(a + b)
  <2>1. CASE k \in 1..a
    BY <1>3, <1>4, <2>1
  <2>2. CASE k - a \in 1..b /\ k = a + (k - a)
    <3>1. w[k] = u[k - a]
      BY <1>3, <2>2
    <3> QED BY <1>4, <2>2, <3>1
  <2> QED BY <1>5, <2>1, <2>2
<1>7. \A x \in A \cup B : \E k \in 1..(a + b) : w[k] = x
  <2> TAKE x \in A \cup B
  <2>1. CASE x \in A
    <3>1. PICK i \in 1..a : s[i] = x
      BY <1>4, <2>1
    <3>2. i \in 1..(a + b) /\ w[i] = x
      BY <1>1, <1>3, <3>1
    <3> QED BY <3>2
  <2>2. CASE x \in B
    <3>1. PICK i \in 1..b : u[i] = x
      BY <1>4, <2>2
    <3>2. a + i \in 1..(a + b) /\ w[a + i] = x
      BY <1>1, <1>3, <3>1
    <3> QED BY <3>2
  <2> QED BY <2>1, <2>2
<1>8. ASSUME NEW k \in 1..(a + b), NEW m \in 1..(a + b), w[k] = w[m] PROVE k = m
  <2>1. CASE k \in 1..a /\ m \in 1..a
    BY <1>3, <1>4, <1>8, <2>1
  <2>2. CASE k \in 1..a /\ m - a \in 1..b /\ m = a + (m - a)
    <3>1. w[m] = u[m - a] /\ w[k] = s[k]
      BY <1>3, <2>2
    <3>2. w[m] \in B /\ w[k] \in A
      BY <1>4, <2>2, <3>1
    <3> QED BY <1>8, <3>2
  <2>3. CASE m \in 1..a /\ k - a \in 1..b /\ k = a + (k - a)
    <3>1. w[k] = u[k - a] /\ w[m] = s[m]
      BY <1>3, <2>3
    <3>2. w[k] \in B /\ w[m] \in A
      BY <1>4, <2>3, <3>1
    <3> QED BY <1>8, <3>2
  <2>4. CASE /\ k - a \in 1..b /\ k = a + (k - a)
             /\ m - a \in 1..b /\ m = a + (m - a)
    <3>1. w[k] = u[k - a] /\ w[m] = u[m - a]
      BY <1>3, <2>4
    <3>2. k - a = m - a
      BY <1>4, <1>8, <2>4, <3>1
    <3> QED BY <1>1, <2>4, <3>2
  <2> QED BY <1>5, <2>1, <2>2, <2>3, <2>4
<1>9. TreeListed(w, A \cup B)
  BY <1>2, <1>6, <1>7, <1>8 DEF TreeListed
<1> QED BY <1>9 DEF w

TreeWalks(walk, l, r, order) ==
  /\ order \in {"pre", "in", "post"} /\ walk[NULL] = << >>
  /\ \A n \in TreeNodes : walk[n] = TreeThread(order, walk[l[n]], n, walk[r[n]])

LEMMA TreeThreadListed ==
  ASSUME NEW s, NEW A, TreeListed(s, A), NEW u, NEW B, TreeListed(u, B), A \cap B = {},
         NEW m \in TreeNodes, m \notin A, m \notin B, NEW order \in {"pre", "in", "post"}
  PROVE  TreeListed(TreeThread(order, s, m, u), {m} \cup A \cup B)
<1>1. TreeListed(<<m>>, {m})
  BY DEF TreeListed
<1>2. CASE order = "pre"
  <2>1. TreeListed(<<m>> \o s, {m} \cup A)
    BY <1>1, TreeListedJoin
  <2>2. TreeListed(<<m>> \o s \o u, {m} \cup A \cup B)
    BY <2>1, TreeListedJoin
  <2> QED BY <1>2, <2>2 DEF TreeThread
<1>3. CASE order = "in"
  <2>1. TreeListed(s \o <<m>>, A \cup {m})
    BY <1>1, TreeListedJoin
  <2>2. TreeListed(s \o <<m>> \o u, A \cup {m} \cup B)
    BY <2>1, TreeListedJoin
  <2>3. A \cup {m} \cup B = {m} \cup A \cup B
    OBVIOUS
  <2> QED BY <1>3, <2>2, <2>3 DEF TreeThread
<1>4. CASE order = "post"
  <2>1. TreeListed(s \o u, A \cup B)
    BY TreeListedJoin
  <2>2. TreeListed(s \o u \o <<m>>, A \cup B \cup {m})
    BY <1>1, <2>1, TreeListedJoin
  <2>3. A \cup B \cup {m} = {m} \cup A \cup B
    OBVIOUS
  <2> QED BY <1>4, <2>2, <2>3 DEF TreeThread
<1> QED BY <1>2, <1>3, <1>4

LEMMA TreeWalkIs ==
  ASSUME NEW l, NEW r, NEW D, TreeForest(l, r, D), NEW order,
         NEW walk, TreeWalks(walk, l, r, order), NEW n \in TreeNodes \cup {NULL}
  PROVE  TreeListed(walk[n], TreeBelow(D, n))
<1> DEFINE S == {m \in TreeNodes : TreeListed(walk[m], D[m])}
<1>1. TreeListed(walk[NULL], TreeBelow(D, NULL))
  BY DEF TreeListed, TreeWalks, TreeBelow
<1>2. ASSUME NEW m \in TreeNodes, \A c \in TreeNodes : c = l[m] \/ c = r[m] => c \in S
      PROVE  m \in S
  <2> DEFINE A == TreeBelow(D, l[m])
             B == TreeBelow(D, r[m])
             s == walk[l[m]]
             u == walk[r[m]]
  <2>1. /\ l[m] \in TreeNodes \cup {NULL} /\ r[m] \in TreeNodes \cup {NULL}
        /\ D[m] = {m} \cup A \cup B /\ m \notin A /\ m \notin B /\ A \cap B = {}
    BY TreeChild
  <2>2. TreeListed(s, A) /\ TreeListed(u, B)
    <3>1. TreeListed(s, A)
      <4>1. CASE l[m] = NULL
        BY <1>1, <4>1
      <4>2. CASE l[m] \in TreeNodes
        BY <1>2, <4>2, TreeNullNoNode DEF TreeBelow
      <4> QED BY <2>1, <4>1, <4>2
    <3>2. TreeListed(u, B)
      <4>1. CASE r[m] = NULL
        BY <1>1, <4>1
      <4>2. CASE r[m] \in TreeNodes
        BY <1>2, <4>2, TreeNullNoNode DEF TreeBelow
      <4> QED BY <2>1, <4>1, <4>2
    <3> QED BY <3>1, <3>2
  <2>3. walk[m] = TreeThread(order, s, m, u) /\ order \in {"pre", "in", "post"}
    BY DEF TreeWalks
  <2> HIDE DEF A, B, s, u
  <2>4. TreeListed(TreeThread(order, s, m, u), D[m])
    BY <2>1, <2>2, <2>3, TreeThreadListed
  <2> QED BY <2>3, <2>4
<1>3. TreeNodes \subseteq S
  <2> HIDE DEF S
  <2> QED BY <1>2, TreeInduction
<1>4. CASE n = NULL
  BY <1>1, <1>4
<1>5. CASE n \in TreeNodes
  BY <1>3, <1>5, TreeNullNoNode DEF TreeBelow
<1> QED BY <1>4, <1>5

LEMMA TreeOrderIs ==
  ASSUME NEW t, NEW D, TreeForest(t.lchild, t.rchild, D),
         NEW order \in {"pre", "in", "post"}
  PROVE  \E walk : /\ TreeWalks(walk, t.lchild, t.rchild, order)
                   /\ TreeWalk(t, order) = walk[t.root]
<1> DEFINE l == t.lchild
           r == t.rchild
           N == TreeNodes \cup {NULL}
           Seqs == Seq(TreeNodes)
           join(f, m) == IF m = NULL THEN << >> ELSE TreeThread(order, f[l[m]], m, f[r[m]])
           rank(m) == IF m = NULL THEN 0 ELSE Cardinality(D[m])
           upto(f, k) == \A m \in N : rank(m) <= k => f[m] = join(f, m)
           S == {k \in Nat : \E f \in [N -> Seqs] : upto(f, k)}
           walk == CHOOSE f : f = [m \in N |-> join(f, m)]
<1>1. TreeWalk(t, order) = walk[t.root]
  BY DEF TreeWalk
<1>2. TreeForest(l, r, D)
  OBVIOUS
<1> HIDE DEF l, r
<1>3. \A m \in N : rank(m) \in Nat /\ (m # NULL => rank(m) # 0)
  <2>1. ASSUME NEW m \in TreeNodes PROVE Cardinality(D[m]) \in Nat /\ Cardinality(D[m]) # 0
    <3>1. m \in D[m] /\ IsFiniteSet(D[m])
      BY <1>2, TreeSelf, TreeNodesFinite, FS_Subset
    <3> QED BY <3>1, FS_EmptySet, FS_CardinalityType
  <2> QED BY <2>1
<1>4. \A m \in TreeNodes :
        /\ l[m] \in N /\ rank(l[m]) < rank(m)
        /\ r[m] \in N /\ rank(r[m]) < rank(m)
  <2> TAKE m \in TreeNodes
  <2>1. l[m] \in N /\ r[m] \in N
    BY <1>2, TreeChild
  <2>2. rank(m) = Cardinality(D[m]) /\ rank(m) \in Nat /\ rank(m) # 0
    BY <1>3, TreeNullNoNode
  <2>3. \A c \in TreeNodes : c = l[m] \/ c = r[m] => rank(c) < rank(m)
    BY <1>2, <2>2, TreeRank, TreeNullNoNode
  <2>4. rank(NULL) = 0
    OBVIOUS
  <2> HIDE DEF rank
  <2>5. \A c \in N : c = l[m] \/ c = r[m] => rank(c) < rank(m)
    BY <2>2, <2>3, <2>4
  <2> QED BY <2>1, <2>5
<1>5. \A f \in [N -> Seqs], m \in N : join(f, m) \in Seqs
  <2> TAKE f \in [N -> Seqs], m \in N
  <2>1. CASE m = NULL
    BY <2>1
  <2>2. CASE m # NULL
    <3>1. m \in TreeNodes /\ f[l[m]] \in Seqs /\ f[r[m]] \in Seqs
      BY <1>4, <2>2
    <3>2. <<m>> \in Seqs
      BY <3>1
    <3>3. TreeThread(order, f[l[m]], m, f[r[m]]) \in Seqs
      BY <3>1, <3>2 DEF TreeThread
    <3> QED BY <2>2, <3>3
  <2> QED BY <2>1, <2>2
<1>6. 0 \in S
  <2> DEFINE f == [m \in N |-> << >>]
  <2>1. f \in [N -> Seqs]
    OBVIOUS
  <2>2. upto(f, 0)
    <3> SUFFICES ASSUME NEW m \in N, rank(m) <= 0 PROVE f[m] = join(f, m)
      OBVIOUS
    <3>1. m = NULL
      BY <1>3
    <3> QED BY <3>1
  <2> QED BY <2>1, <2>2
<1>7. ASSUME NEW k \in S \cap Nat PROVE k + 1 \in S
  <2>1. PICK f \in [N -> Seqs] : upto(f, k)
    OBVIOUS
  <2> DEFINE g == [m \in N |-> join(f, m)]
  <2>2. g \in [N -> Seqs]
    <3> HIDE DEF join
    <3> QED BY <1>5
  <2>3. \A m \in N : rank(m) <= k => g[m] = f[m]
    <3> HIDE DEF join, rank
    <3> QED BY <2>1
  <2>4. ASSUME NEW m \in N, rank(m) <= k + 1 PROVE g[m] = join(g, m)
    <3>1. CASE m = NULL
      BY <3>1
    <3>2. CASE m # NULL
      <4>1. /\ l[m] \in N /\ rank(l[m]) <= k
            /\ r[m] \in N /\ rank(r[m]) <= k
        <5>1. m \in TreeNodes /\ rank(m) \in Nat
          BY <1>3, <3>2
        <5> HIDE DEF rank
        <5>2. /\ l[m] \in N /\ rank(l[m]) < rank(m) /\ rank(l[m]) \in Nat
              /\ r[m] \in N /\ rank(r[m]) < rank(m) /\ rank(r[m]) \in Nat
          BY <1>3, <1>4, <5>1
        <5> QED BY <2>4, <5>1, <5>2
      <4>2. g[l[m]] = f[l[m]] /\ g[r[m]] = f[r[m]]
        BY <2>3, <4>1
      <4>3. g[m] = join(f, m)
        OBVIOUS
      <4> HIDE DEF g
      <4>4. join(f, m) = join(g, m)
        BY <4>2
      <4> QED BY <4>3, <4>4
    <3> QED BY <3>1, <3>2
  <2> HIDE DEF g, join, rank
  <2> QED BY <2>2, <2>4
<1>8. \E f : f = [m \in N |-> join(f, m)]
  <2> DEFINE top == Cardinality(TreeNodes)
  <2>1. top \in Nat /\ \A m \in N : rank(m) <= top
    <3>1. Cardinality(TreeNodes) \in Nat
      BY TreeNodesFinite, FS_CardinalityType
    <3>2. ASSUME NEW m \in TreeNodes PROVE Cardinality(D[m]) <= Cardinality(TreeNodes)
      BY <1>2, TreeSelf, TreeNodesFinite, FS_Subset
    <3> QED BY <3>1, <3>2
  <2>2. top \in S
    <3> HIDE DEF S, top
    <3> QED BY <1>6, <1>7, <2>1, SetInduction
  <2>3. PICK f \in [N -> Seqs] : upto(f, top)
    BY <2>2
  <2>4. \A m \in N : f[m] = join(f, m)
    BY <2>1, <2>3
  <2>5. f = [m \in N |-> f[m]]
    OBVIOUS
  <2> HIDE DEF join
  <2>6. f = [m \in N |-> join(f, m)]
    BY <2>4, <2>5
  <2> QED BY <2>6
<1>9. walk = [m \in N |-> join(walk, m)]
  <2> HIDE DEF join
  <2> QED BY <1>8
<1> HIDE DEF walk
<1>10. TreeWalks(walk, l, r, order)
  BY <1>9, TreeNullNoNode DEF TreeWalks
<1> QED BY <1>1, <1>10 DEF l, r

(* tree_ordered sees the nodes below one that D has.                       *)
LEMMA TreeOrderedIs ==
  ASSUME NEW t, NEW D, TreeIs(t, D)
  PROVE  tree_ordered(t)
<1> DEFINE l == t.lchild
           r == t.rchild
           N == TreeNodes \cup {NULL}
           hang(f, n) == IF n = NULL THEN {} ELSE {n} \cup f[l[n]] \cup f[r[n]]
           below == CHOOSE f : f = [n \in N |-> hang(f, n)]
           B == [n \in N |-> TreeBelow(D, n)]
           S == {n \in TreeNodes : below[n] = D[n]}
<1>1. /\ TreeForest(l, r, D) /\ TreeLess(D, l, t.val) /\ TreeMore(D, r, t.val)
      /\ t.root \in TreeNodes \cup {NULL}
  BY DEF TreeIs, TreeSorted
<1>2. tree_ordered(t) <=>
        \A n \in below[t.root] :
          /\ \A m \in below[l[n]] : t.val[m] < t.val[n]
          /\ \A m \in below[r[n]] : t.val[m] >= t.val[n]
  BY DEF tree_ordered
<1> HIDE DEF l, r
<1>3. \A n \in TreeNodes : /\ l[n] \in N /\ r[n] \in N
                           /\ D[n] = {n} \cup TreeBelow(D, l[n]) \cup TreeBelow(D, r[n])
  BY <1>1, TreeChild
<1>4. B = [n \in N |-> hang(B, n)]
  <2>1. ASSUME NEW n \in N PROVE TreeBelow(D, n) = hang(B, n)
    <3>1. CASE n = NULL
      BY <3>1 DEF TreeBelow
    <3>2. CASE n # NULL
      BY <1>3, <3>2 DEF TreeBelow
    <3> QED BY <3>1, <3>2
  <2> QED BY <2>1
<1>5. below = [n \in N |-> hang(below, n)]
  <2> HIDE DEF B, hang
  <2> QED BY <1>4
<1> HIDE DEF below
<1>6. /\ below[NULL] = {}
      /\ \A n \in TreeNodes : below[n] = {n} \cup below[l[n]] \cup below[r[n]]
  BY <1>5, TreeNullNoNode
<1>7. ASSUME NEW n \in TreeNodes, \A c \in TreeNodes : c = l[n] \/ c = r[n] => c \in S
      PROVE  n \in S
  <2>1. \A c \in N : c = l[n] \/ c = r[n] => below[c] = TreeBelow(D, c)
    BY <1>6, <1>7, TreeNullNoNode DEF TreeBelow
  <2> QED BY <1>3, <1>6, <2>1
<1>8. TreeNodes \subseteq S
  <2> HIDE DEF S
  <2> QED BY <1>1, <1>7, TreeInduction
<1>9. \A n \in N : below[n] = TreeBelow(D, n)
  BY <1>6, <1>8, TreeNullNoNode DEF TreeBelow
<1>10. ASSUME NEW n \in below[t.root]
       PROVE  /\ \A m \in below[l[n]] : t.val[m] < t.val[n]
              /\ \A m \in below[r[n]] : t.val[m] >= t.val[n]
  <2>1. n \in TreeBelow(D, t.root)
    BY <1>1, <1>9
  <2>2. n \in TreeNodes
    BY <1>1, <2>1, TreeBelowTransitive
  <2>3. below[l[n]] = TreeBelow(D, l[n]) /\ below[r[n]] = TreeBelow(D, r[n])
    BY <1>3, <1>9, <2>2
  <2> QED BY <1>1, <2>2, <2>3 DEF TreeLess, TreeMore
<1> QED BY <1>2, <1>10

(* A list of the nodes has each once, and each value as often as the tree. *)
LEMMA TreeListedCounts ==
  ASSUME NEW s, NEW A, A \subseteq TreeNodes, TreeListed(s, A), NEW val
  PROVE  /\ Range(s) = A /\ Cardinality(Range(s)) = Len(s)
         /\ TreeCount([i \in DOMAIN s |-> val[s[i]]])
              = [v \in TreeVals |-> Cardinality({n \in A : val[n] = v})]
<1> DEFINE len == Len(s)
           picked == [i \in DOMAIN s |-> val[s[i]]]
<1>1. len \in Nat /\ DOMAIN s = 1..len
  BY DEF TreeListed
<1>2. /\ \A i \in 1..len : s[i] \in A
      /\ \A a \in A : \E i \in 1..len : s[i] = a
      /\ \A i, j \in 1..len : s[i] = s[j] => i = j
  BY DEF TreeListed
<1> HIDE DEF len
<1>3. Range(s) = A
  BY <1>1, <1>2 DEF Range
<1>4. ASSUME NEW I, I \subseteq 1..len, NEW C, C \subseteq A,
             \A i \in 1..len : i \in I <=> s[i] \in C
      PROVE  Cardinality(C) = Cardinality(I)
  <2> DEFINE f == [i \in I |-> s[i]]
  <2>1. f \in [I -> C] /\ (\A i, j \in I : f[i] = f[j] => i = j)
        /\ \A c \in C : \E i \in I : f[i] = c
    BY <1>2, <1>4
  <2> HIDE DEF f
  <2>2. f \in Bijection(I, C)
    BY <2>1 DEF Bijection, Injection, Surjection, IsInjective
  <2>3. ExistsBijection(I, C)
    BY <2>2 DEF ExistsBijection
  <2>4. IsFiniteSet(I)
    <3>1. IsFiniteSet(1..len)
      BY <1>1, FS_Interval
    <3> QED BY <1>4, <3>1, FS_Subset
  <2> QED BY <2>3, <2>4, FS_Bijection
<1>5. Cardinality(A) = len
  <2>1. Cardinality(1..len) = len
    BY <1>1, FS_Interval
  <2>2. Cardinality(A) = Cardinality(1..len)
    BY <1>2, <1>4
  <2> QED BY <2>1, <2>2
<1>6. ASSUME NEW v \in TreeVals
      PROVE  Cardinality({i \in DOMAIN picked : picked[i] = v})
               = Cardinality({n \in A : val[n] = v})
  <2> DEFINE I == {i \in DOMAIN picked : picked[i] = v}
             C == {n \in A : val[n] = v}
  <2>1. I \subseteq 1..len /\ C \subseteq A /\ \A i \in 1..len : i \in I <=> s[i] \in C
    BY <1>1, <1>2
  <2> HIDE DEF I, C
  <2>2. Cardinality(C) = Cardinality(I)
    BY <1>4, <2>1
  <2> QED BY <2>2 DEF I, C
<1>7. TreeCount(picked) = [v \in TreeVals |-> Cardinality({n \in A : val[n] = v})]
  BY <1>6 DEF TreeCount
<1> QED BY <1>3, <1>5, <1>7 DEF len

(* The way of a lookup by range from a node, where `last` leads.           *)
TreeRangeWay(l, r, val, lo, hi, strategy, next) ==
  /\ lo \in Nat /\ hi \in Nat /\ lo <= hi /\ strategy \in {"first", "smallest", "largest"}
  /\ next \in TreeLinks
  /\ \A n \in TreeNodes :
       /\ val[n] < lo => next[n] = r[n]
       /\ ~(val[n] < lo) /\ val[n] > hi => next[n] = l[n]
       /\ ~(val[n] < lo) /\ ~(val[n] > hi) =>
            /\ strategy = "first" => next[n] = NULL
            /\ strategy = "smallest" => next[n] = l[n]
            /\ strategy = "largest" => next[n] = r[n]

TreeInRange(val, lo, hi) == {n \in TreeNodes : lo <= val[n] /\ val[n] <= hi}

(* What it finds of the nodes C that are in the range.                     *)
TreeFound(val, strategy, C, n) ==
  /\ n = NULL => C = {}
  /\ n # NULL => n \in C
  /\ n # NULL /\ strategy = "smallest" => \A m \in C : val[n] <= val[m]
  /\ n # NULL /\ strategy = "largest" => \A m \in C : val[n] >= val[m]

LEMMA TreeRangeLast ==
  ASSUME NEW l, NEW r, NEW D, NEW val, TreeSorted(l, r, D, val),
         NEW lo, NEW hi, NEW strategy, NEW next,
         TreeRangeWay(l, r, val, lo, hi, strategy, next),
         NEW last, TreeLasts(last, next, TreeInRange(val, lo, hi)),
         NEW n \in TreeNodes \cup {NULL}
  PROVE  TreeFound(val, strategy, TreeBelow(D, n) \cap TreeInRange(val, lo, hi), last[n])
<1> DEFINE G == TreeInRange(val, lo, hi)
           In(m) == TreeBelow(D, m) \cap G
           Good(m) == TreeFound(val, strategy, In(m), last[m])
           S == {m \in TreeNodes : Good(m)}
<1>0. /\ lo \in Nat /\ hi \in Nat /\ lo <= hi
      /\ strategy \in {"first", "smallest", "largest"}
  BY DEF TreeRangeWay
<1> USE <1>0
<1>1. TreeForest(l, r, D) /\ val \in [TreeNodes -> Nat]
      /\ TreeLess(D, l, val) /\ TreeMore(D, r, val)
  BY DEF TreeSorted
<1>2. Good(NULL)
  BY DEF TreeLasts, TreeFound, TreeBelow
<1>3. ASSUME NEW m \in TreeNodes, \A c \in TreeNodes : c = l[m] \/ c = r[m] => c \in S
      PROVE  m \in S
  <2> DEFINE a == l[m]
             b == r[m]
  <2>1. /\ a \in TreeNodes \cup {NULL} /\ b \in TreeNodes \cup {NULL}
        /\ D[m] = {m} \cup TreeBelow(D, a) \cup TreeBelow(D, b)
        /\ TreeBelow(D, m) = D[m] /\ D[m] \subseteq TreeNodes /\ m # NULL
    BY <1>1, TreeChild, TreeSelf, TreeNullNoNode DEF TreeBelow
  <2>2. Good(a) /\ Good(b)
    BY <1>2, <1>3, <2>1
  <2>3. /\ \A x \in TreeBelow(D, a) : val[x] < val[m] /\ val[x] \in Nat
        /\ \A x \in TreeBelow(D, b) : val[x] >= val[m] /\ val[x] \in Nat
        /\ val[m] \in Nat
    BY <1>1, <2>1 DEF TreeLess, TreeMore
  <2>4. last[m] = IF last[next[m]] # NULL THEN last[next[m]]
                  ELSE IF m \in G THEN m ELSE NULL
    BY DEF TreeLasts
  <2>5. last[NULL] = NULL
    BY DEF TreeLasts
  <2>6. In(m) = (IF m \in G THEN {m} ELSE {}) \cup In(a) \cup In(b)
    BY <2>1
  <2>7. \A x \in TreeNodes : x \in G <=> lo <= val[x] /\ val[x] <= hi
    BY DEF TreeInRange
  <2>8. \A x \in In(a) : x \in TreeBelow(D, a) /\ x \in G /\ x \in TreeNodes
    BY <2>1
  <2>9. \A x \in In(b) : x \in TreeBelow(D, b) /\ x \in G /\ x \in TreeNodes
    BY <2>1
  <2> HIDE DEF a, b, G, In
  <2>10. CASE val[m] < lo
    <3>1. next[m] = b /\ m \notin G
      BY <2>3, <2>7, <2>10 DEF TreeRangeWay, b
    <3>2. In(a) = {}
      BY <2>3, <2>7, <2>8, <2>10
    <3>3. In(m) = In(b) /\ last[m] = last[b]
      BY <2>4, <2>6, <3>1, <3>2
    <3> QED BY <2>2, <3>3
  <2>11. CASE ~(val[m] < lo) /\ val[m] > hi
    <3>1. next[m] = a /\ m \notin G
      BY <2>3, <2>7, <2>11 DEF TreeRangeWay, a
    <3>2. In(b) = {}
      BY <2>3, <2>7, <2>9, <2>11
    <3>3. In(m) = In(a) /\ last[m] = last[a]
      BY <2>4, <2>6, <3>1, <3>2
    <3> QED BY <2>2, <3>3
  <2>12. CASE ~(val[m] < lo) /\ ~(val[m] > hi)
    <3>1. m \in G
      BY <2>3, <2>7, <2>12
    <3>2. In(m) = {m} \cup In(a) \cup In(b)
      BY <2>6, <3>1
    <3>3. CASE strategy = "first"
      <4>1. next[m] = NULL
        BY <2>12, <3>3 DEF TreeRangeWay
      <4>2. last[m] = m
        BY <2>4, <2>5, <3>1, <4>1
      <4> QED BY <2>1, <3>2, <3>3, <4>2 DEF TreeFound
    <3>4. CASE strategy = "smallest"
      <4>1. next[m] = a
        BY <2>12, <3>4 DEF TreeRangeWay, a
      <4>2. CASE last[a] = NULL
        <5>1. last[m] = m /\ In(a) = {}
          BY <2>2, <2>4, <3>1, <4>1, <4>2 DEF TreeFound
        <5>2. \A x \in In(m) : val[m] <= val[x]
          BY <2>3, <2>9, <3>2, <5>1
        <5> QED BY <2>1, <3>2, <3>4, <5>1, <5>2 DEF TreeFound
      <4>3. CASE last[a] # NULL
        <5>1. last[m] = last[a]
          BY <2>4, <4>1, <4>3
        <5>2. last[a] \in In(a) /\ \A x \in In(a) : val[last[a]] <= val[x]
          BY <2>2, <3>4, <4>3 DEF TreeFound
        <5>3. val[last[a]] < val[m] /\ val[last[a]] \in Nat
          BY <2>3, <2>8, <5>2
        <5>4. \A x \in In(b) : val[last[a]] <= val[x]
          BY <2>3, <2>9, <5>3
        <5>5. \A x \in In(m) : val[last[a]] <= val[x]
          BY <2>3, <3>2, <5>2, <5>3, <5>4
        <5> QED BY <3>2, <3>4, <4>3, <5>1, <5>2, <5>5 DEF TreeFound
      <4> QED BY <4>2, <4>3
    <3>5. CASE strategy = "largest"
      <4>1. next[m] = b
        BY <2>12, <3>5 DEF TreeRangeWay, b
      <4>2. CASE last[b] = NULL
        <5>1. last[m] = m /\ In(b) = {}
          BY <2>2, <2>4, <3>1, <4>1, <4>2 DEF TreeFound
        <5>2. \A x \in In(m) : val[m] >= val[x]
          BY <2>3, <2>8, <3>2, <5>1
        <5> QED BY <2>1, <3>2, <3>5, <5>1, <5>2 DEF TreeFound
      <4>3. CASE last[b] # NULL
        <5>1. last[m] = last[b]
          BY <2>4, <4>1, <4>3
        <5>2. last[b] \in In(b) /\ \A x \in In(b) : val[last[b]] >= val[x]
          BY <2>2, <3>5, <4>3 DEF TreeFound
        <5>3. val[last[b]] >= val[m] /\ val[last[b]] \in Nat
          BY <2>3, <2>9, <5>2
        <5>4. \A x \in In(a) : val[last[b]] >= val[x]
          BY <2>3, <2>8, <5>3
        <5>5. \A x \in In(m) : val[last[b]] >= val[x]
          BY <2>3, <3>2, <5>2, <5>3, <5>4
        <5> QED BY <3>2, <3>5, <4>3, <5>1, <5>2, <5>5 DEF TreeFound
      <4> QED BY <4>2, <4>3
    <3> QED BY <3>3, <3>4, <3>5
  <2> QED BY <2>10, <2>11, <2>12
<1>4. TreeNodes \subseteq S
  <2> HIDE DEF S
  <2> QED BY <1>1, <1>3, TreeInduction
<1>5. CASE n = NULL
  BY <1>2, <1>5
<1>6. CASE n \in TreeNodes
  BY <1>4, <1>6
<1> QED BY <1>5, <1>6

LEMMA TreeLookupRangeIs ==
  ASSUME NEW t, NEW D, TreeIs(t, D), NEW lo \in Nat, NEW hi \in Nat, lo <= hi,
         NEW strategy \in {"first", "smallest", "largest"}
  PROVE  TreeFound(t.val, strategy, TreeBelow(D, t.root) \cap TreeInRange(t.val, lo, hi),
                   tree_lookup_range(t, lo, hi, strategy))
<1> DEFINE l == t.lchild
           r == t.rchild
           val == t.val
           onward(n) == CASE strategy = "first" -> NULL
                          [] strategy = "smallest" -> l[n]
                          [] strategy = "largest" -> r[n]
           next == [n \in TreeNodes |-> IF val[n] < lo THEN r[n]
                                        ELSE IF val[n] > hi THEN l[n] ELSE onward(n)]
           n == tree_lookup_range(t, lo, hi, strategy)
<1>1. /\ TreeSorted(l, r, D, val) /\ TreeForest(l, r, D)
      /\ t.root \in TreeNodes \cup {NULL}
  BY DEF TreeIs, TreeSorted
<1>2. n = TreeLastOn(next, TreeInRange(val, lo, hi), t.root)
  BY DEF tree_lookup_range, TreeInRange
<1> HIDE DEF n, l, r, val
<1>3. \A m \in TreeNodes :
        /\ strategy = "first" => onward(m) = NULL
        /\ strategy = "smallest" => onward(m) = l[m]
        /\ strategy = "largest" => onward(m) = r[m]
        /\ onward(m) \in {NULL, l[m], r[m]}
  <2> TAKE m \in TreeNodes
  <2>1. CASE strategy = "first"
    BY <2>1
  <2>2. CASE strategy = "smallest"
    BY <2>2
  <2>3. CASE strategy = "largest"
    BY <2>3
  <2> QED BY <2>1, <2>2, <2>3
<1> HIDE DEF onward
<1>4. \A m \in TreeNodes : next[m] \in {NULL, l[m], r[m]}
  BY <1>3
<1>5. next \in TreeLinks
  <2>1. next = [m \in TreeNodes |-> next[m]]
    OBVIOUS
  <2>2. \A m \in TreeNodes : next[m] \in TreeNodes \cup {NULL}
    BY <1>1, <1>4, TreeChild
  <2> HIDE DEF next
  <2> QED BY <2>1, <2>2 DEF TreeLinks
<1>6. \A m \in TreeNodes :
        /\ val[m] < lo => next[m] = r[m]
        /\ ~(val[m] < lo) /\ val[m] > hi => next[m] = l[m]
        /\ ~(val[m] < lo) /\ ~(val[m] > hi) => next[m] = onward(m)
  OBVIOUS
<1> HIDE DEF next
<1>7. TreeRangeWay(l, r, val, lo, hi, strategy, next)
  BY <1>3, <1>5, <1>6 DEF TreeRangeWay
<1>8. TreeWay(next, l, r)
  BY <1>4, <1>5 DEF TreeWay
<1>9. PICK last : /\ TreeLasts(last, next, TreeInRange(val, lo, hi))
                  /\ \A m : TreeLastOn(next, TreeInRange(val, lo, hi), m) = last[m]
  BY <1>1, <1>8, TreeLastOnIs
<1>10. TreeFound(val, strategy, TreeBelow(D, t.root) \cap TreeInRange(val, lo, hi), last[t.root])
  <2>1. TreeLasts(last, next, TreeInRange(val, lo, hi))
    BY <1>9
  <2> QED BY <1>1, <1>7, <2>1, TreeRangeLast
<1>11. n = last[t.root]
  BY <1>2, <1>9
<1> QED BY <1>10, <1>11 DEF n, val

LEMMA TreeMinIs ==
  ASSUME NEW T, T \subseteq Nat, NEW x \in T
  PROVE  /\ (\A y \in T : x <= y) => Min(T) = x
         /\ (\A y \in T : x >= y) => Max(T) = x
<1>1. ASSUME \A y \in T : x <= y PROVE Min(T) = x
  <2>1. Min(T) \in T /\ \A y \in T : Min(T) <= y
    BY <1>1 DEF Min
  <2>2. Min(T) <= x /\ x <= Min(T) /\ Min(T) \in Nat /\ x \in Nat
    BY <1>1, <2>1
  <2> QED BY <2>2
<1>2. ASSUME \A y \in T : x >= y PROVE Max(T) = x
  <2>1. Max(T) \in T /\ \A y \in T : Max(T) >= y
    BY <1>2 DEF Max
  <2>2. Max(T) >= x /\ x >= Max(T) /\ Max(T) \in Nat /\ x \in Nat
    BY <1>2, <2>1
  <2> QED BY <2>2
<1> QED BY <1>1, <1>2

LEMMA TreeRangeFindsIs ==
  ASSUME NEW t, NEW D, TreeHas(t, D), NEW lo \in TreeVals, NEW hi \in TreeVals, lo <= hi
  PROVE  TreeRangeFinds(t, lo, hi)
<1> DEFINE there == {v \in TreeVals : lo <= v /\ v <= hi /\ t.holds[v] > 0}
           C == TreeBelow(D, t.root) \cap TreeInRange(t.val, lo, hi)
           look(s) == tree_lookup_range(t, lo, hi, s)
           found(s) == IF look(s) = NULL THEN {} ELSE {t.val[look(s)]}
<1>1. /\ TreeIs(t, D) /\ lo \in Nat /\ hi \in Nat /\ TreeVals \subseteq Nat
      /\ t.val \in [TreeNodes -> TreeVals]
      /\ \A v \in TreeVals : t.holds[v] = TreeOf(t, D, v)
  BY TreeAssumption DEF TreeHas, TreeIs
<1>2. ASSUME NEW v \in TreeVals
      PROVE  t.holds[v] > 0 <=> \E n \in TreeBelow(D, t.root) : t.val[n] = v
  <2>1. TreeWith(t, D, v) \in SUBSET TreeNodes
    BY <1>1, TreeSelf DEF TreeWith, TreeIs, TreeSorted, TreeBelow
  <2>2. IsFiniteSet(TreeWith(t, D, v))
    BY <2>1, TreeNodesFinite, FS_Subset
  <2>3. TreeOf(t, D, v) \in Nat /\ (TreeOf(t, D, v) = 0 <=> TreeWith(t, D, v) = {})
    BY <2>2, FS_EmptySet, FS_CardinalityType DEF TreeOf
  <2>4. t.holds[v] \in Nat /\ (t.holds[v] = 0 <=> TreeWith(t, D, v) = {})
    BY <1>1, <2>3
  <2>5. t.holds[v] > 0 <=> t.holds[v] # 0
    BY <2>4
  <2> QED BY <2>4, <2>5 DEF TreeWith
<1>3. \A v : v \in there <=> \E n \in C : t.val[n] = v
  <2> TAKE v
  <2>1. ASSUME v \in there PROVE \E n \in C : t.val[n] = v
    <3>1. v \in TreeVals /\ lo <= v /\ v <= hi /\ t.holds[v] > 0
      BY <2>1
    <3>2. PICK n \in TreeBelow(D, t.root) : t.val[n] = v
      BY <1>2, <3>1
    <3>3. n \in TreeNodes
      BY <1>1, TreeSelf DEF TreeIs, TreeSorted, TreeBelow
    <3>4. n \in TreeInRange(t.val, lo, hi)
      BY <3>1, <3>2, <3>3 DEF TreeInRange
    <3> QED BY <3>2, <3>4
  <2>2. ASSUME NEW n \in C, t.val[n] = v PROVE v \in there
    <3>1. n \in TreeNodes /\ lo <= v /\ v <= hi /\ n \in TreeBelow(D, t.root)
      BY <2>2 DEF TreeInRange
    <3>2. v \in TreeVals
      BY <1>1, <2>2, <3>1
    <3>3. t.holds[v] > 0
      BY <1>2, <2>2, <3>1, <3>2
    <3> QED BY <3>1, <3>2, <3>3
  <2> QED BY <2>1, <2>2
<1>4. there \subseteq Nat
  BY <1>1
<1>5. \A s \in {"first", "smallest", "largest"} : TreeFound(t.val, s, C, look(s))
  BY <1>1, TreeLookupRangeIs
<1> HIDE DEF C, look, there
<1>6. ASSUME NEW s \in {"first", "smallest", "largest"}
      PROVE  (found(s) = {} <=> there = {}) /\ found(s) \subseteq there
  <2>1. TreeFound(t.val, s, C, look(s))
    BY <1>5
  <2>2. CASE look(s) = NULL
    BY <1>3, <2>1, <2>2 DEF TreeFound
  <2>3. CASE look(s) # NULL
    BY <1>3, <2>1, <2>3 DEF TreeFound
  <2> QED BY <2>2, <2>3
<1>7. found("smallest") = IF there = {} THEN {} ELSE {Min(there)}
  <2> DEFINE n == look("smallest")
  <2>1. TreeFound(t.val, "smallest", C, n)
    BY <1>5
  <2>2. CASE n = NULL
    BY <1>6, <2>2
  <2>3. CASE n # NULL
    <3>1. n \in C /\ \A m \in C : t.val[n] <= t.val[m]
      BY <2>1, <2>3 DEF TreeFound
    <3>2. t.val[n] \in there /\ \A y \in there : t.val[n] <= y
      BY <1>3, <3>1
    <3>3. Min(there) = t.val[n]
      BY <1>4, <3>2, TreeMinIs
    <3> QED BY <2>3, <3>2, <3>3
  <2> QED BY <2>2, <2>3
<1>8. found("largest") = IF there = {} THEN {} ELSE {Max(there)}
  <2> DEFINE n == look("largest")
  <2>1. TreeFound(t.val, "largest", C, n)
    BY <1>5
  <2>2. CASE n = NULL
    BY <1>6, <2>2
  <2>3. CASE n # NULL
    <3>1. n \in C /\ \A m \in C : t.val[n] >= t.val[m]
      BY <2>1, <2>3 DEF TreeFound
    <3>2. t.val[n] \in there /\ \A y \in there : t.val[n] >= y
      BY <1>3, <3>1
    <3>3. Max(there) = t.val[n]
      BY <1>4, <3>2, TreeMinIs
    <3> QED BY <2>3, <3>2, <3>3
  <2> QED BY <2>2, <2>3
<1> HIDE DEF found
<1>9. /\ (found("first") = {}) = (there = {}) /\ found("first") \subseteq there
      /\ found("smallest") = IF there = {} THEN {} ELSE {Min(there)}
      /\ found("largest") = IF there = {} THEN {} ELSE {Max(there)}
  <2>1. (found("first") = {}) = (there = {})
    BY <1>6
  <2> QED BY <1>6, <1>7, <1>8, <2>1
<1> QED BY <1>9 DEF TreeRangeFinds, there, found, look

LEMMA TreeInvHolds == TreeInv => TreeHolds
<1> SUFFICES ASSUME TreeInv, TreeInUse
             PROVE  LET s == TreeInOrder(tree)
                    IN /\ tree_reachable(tree) /\ tree_ordered(tree)
                       /\ Cardinality(Range(s)) = Len(s)
                       /\ tree.holds = TreeCount([i \in DOMAIN s |-> tree.val[s[i]]])
                       /\ \A lo, hi \in TreeVals : TreeRangeFinds(tree, lo, hi)
  BY DEF TreeHolds
<1> DEFINE s == TreeInOrder(tree)
<1>1. PICK D : TreeHas(tree, D)
  BY DEF TreeInv, TreeInUse, TreeSound
<1>2. /\ TreeIs(tree, D) /\ tree.holds \in [TreeVals -> Nat]
      /\ \A v \in TreeVals : tree.holds[v] = TreeOf(tree, D, v)
      /\ TreeForest(tree.lchild, tree.rchild, D) /\ tree.root \in TreeNodes \cup {NULL}
      /\ \A q, c \in TreeNodes :
           c = tree.lchild[q] \/ c = tree.rchild[q] => tree.parent[c] = q \/ tree.parent[c] = c
  BY <1>1 DEF TreeHas, TreeIs, TreeSorted
<1> DEFINE R == TreeBelow(D, tree.root)
<1>3. TreeListed(s, R) /\ R \subseteq TreeNodes
  <2>1. PICK walk : /\ TreeWalks(walk, tree.lchild, tree.rchild, "in")
                    /\ TreeInOrder(tree) = walk[tree.root]
    BY <1>2, TreeOrderIs DEF TreeInOrder
  <2>2. TreeListed(walk[tree.root], TreeBelow(D, tree.root))
    BY <1>2, <2>1, TreeWalkIs
  <2>3. R \subseteq TreeNodes
    BY <1>2, TreeSelf DEF TreeBelow
  <2> QED BY <2>1, <2>2, <2>3
<1> HIDE DEF s, R
<1>4. /\ Range(s) = R /\ Cardinality(Range(s)) = Len(s)
      /\ TreeCount([i \in DOMAIN s |-> tree.val[s[i]]])
           = [v \in TreeVals |-> Cardinality({n \in R : tree.val[n] = v})]
  BY <1>3, TreeListedCounts
<1>5. tree_reachable(tree)
  BY <1>2, <1>3, <1>4 DEF tree_reachable, s
<1>6. tree_ordered(tree)
  BY <1>2, TreeOrderedIs
<1>7. tree.holds = TreeCount([i \in DOMAIN s |-> tree.val[s[i]]])
  <2>1. \A v \in TreeVals : tree.holds[v] = Cardinality({n \in R : tree.val[n] = v})
    BY <1>2 DEF TreeOf, TreeWith, R
  <2>2. tree.holds = [v \in TreeVals |-> tree.holds[v]]
    BY <1>2
  <2> QED BY <1>4, <2>1, <2>2
<1>8. ASSUME NEW lo \in TreeVals, NEW hi \in TreeVals PROVE TreeRangeFinds(tree, lo, hi)
  <2>1. CASE lo <= hi
    BY <1>1, <2>1, TreeRangeFindsIs
  <2>2. CASE ~(lo <= hi)
    BY <2>2 DEF TreeRangeFinds
  <2> QED BY <2>1, <2>2
<1> QED BY <1>4, <1>5, <1>6, <1>7, <1>8 DEF s

(* Through every course of insertions, deletions and updates, of one value *)
(* and of arrays, the tree is ordered, its links agree, every node is in it*)
(* once, it holds what the calls said, and lookups by range find it, until *)
(* one of the cases that TreeHolds names.                                  *)
THEOREM TreeStaysWhole == TreeSpec => []TreeHolds
<1>1. TreeSpec => []TreeInv
  BY TreeInvInit, TreeInvNext, PTL DEF TreeSpec
<1> QED BY <1>1, TreeInvHolds, PTL
-----------------------------------------------------------------------------
(* The iterators, over a tree in which no node is its own parent.  Each of *)
(* the depth-first walks is one list, of which the iterator hands out a    *)
(* run: TreePreWalk, TreeInWalk and TreePostWalk show that the walk goes   *)
(* from each node to the one that the climb, or the way down, finds, and   *)
(* TreePreSteps, TreeInSteps and TreePostSteps that the iterator goes to   *)
(* that node.  TreeExactly: it has handed out the nodes from the j-th on,  *)
(* TreeInLine: some of them, in their order.  Breadth-first, the nodes     *)
(* handed out and those in the queue are one list, TreeFan.                *)
TreeAgrees(t, D) == TreeIs(t, D) /\ \A n \in TreeNodes : t.parent[n] # n

TreeLeftKid(t, q, c) == t.parent[c] = q /\ TreeIsLeft(t, c) /\ ~TreeIsRight(t, c)
TreeRightKid(t, q, c) == t.parent[c] = q /\ TreeIsRight(t, c) /\ ~TreeIsLeft(t, c)

LEMMA TreeAgreesIs ==
  ASSUME NEW t, NEW D, TreeAgrees(t, D)
  PROVE  /\ TreeForest(t.lchild, t.rchild, D)
         /\ t.parent \in TreeLinks /\ t.root \in TreeNodes \cup {NULL}
         /\ t.root # NULL => t.parent[t.root] = NULL
BY DEF TreeAgrees, TreeIs, TreeSorted

(* A child is known to its parent, and on one side.                        *)
LEMMA TreeKids ==
  ASSUME NEW t, NEW D, TreeAgrees(t, D), NEW q \in TreeNodes
  PROVE  /\ t.lchild[q] # NULL => TreeLeftKid(t, q, t.lchild[q])
         /\ t.rchild[q] # NULL => TreeRightKid(t, q, t.rchild[q])
<1> DEFINE a == t.lchild[q]
           b == t.rchild[q]
<1>1. /\ a \in TreeNodes \cup {NULL} /\ b \in TreeNodes \cup {NULL}
      /\ TreeBelow(D, a) \cap TreeBelow(D, b) = {}
  BY TreeAgreesIs, TreeChild
<1>2. \A c \in TreeNodes : c = a \/ c = b => t.parent[c] = q
  BY DEF TreeAgrees, TreeIs
<1>3. TreeForest(t.lchild, t.rchild, D)
  BY TreeAgreesIs
<1>4. \A c \in TreeNodes : c # NULL /\ c \in TreeBelow(D, c)
  BY <1>3, TreeSelf, TreeNullNoNode DEF TreeBelow
<1>5. q # NULL
  BY TreeNullNoNode
<1>6. a # NULL => a # b
  BY <1>1, <1>4
<1> QED BY <1>1, <1>2, <1>5, <1>6 DEF TreeLeftKid, TreeRightKid, TreeIsLeft, TreeIsRight

(* A node below another one, and not the other one, is a child.            *)
LEMMA TreeSomeParent ==
  ASSUME NEW t, NEW D, TreeAgrees(t, D), NEW n \in TreeBelow(D, t.root), n # t.root
  PROVE  /\ n \in TreeNodes /\ t.parent[n] \in TreeBelow(D, t.root)
         /\ n = t.lchild[t.parent[n]] \/ n = t.rchild[t.parent[n]]
<1> DEFINE l == t.lchild
           r == t.rchild
           S == {x \in TreeNodes : n \in D[x] /\ n # x =>
                   \E q \in D[x] : n = l[q] \/ n = r[q]}
<1>1. TreeForest(l, r, D) /\ t.root \in TreeNodes /\ n \in D[t.root] /\ n \in TreeNodes
  BY TreeAgreesIs, TreeBelowTransitive DEF TreeBelow
<1>2. ASSUME NEW x \in TreeNodes, \A c \in TreeNodes : c = l[x] \/ c = r[x] => c \in S
      PROVE  x \in S
  <2> SUFFICES ASSUME n \in D[x], n # x PROVE \E q \in D[x] : n = l[q] \/ n = r[q]
    OBVIOUS
  <2>1. PICK c \in TreeNodes : (c = l[x] \/ c = r[x]) /\ n \in D[c] /\ D[c] \subseteq D[x]
    BY <1>1, TreeSides
  <2>2. CASE n = c
    BY <1>1, <2>1, <2>2, TreeSelf
  <2>3. CASE n # c
    BY <1>2, <2>1, <2>3
  <2> QED BY <2>2, <2>3
<1>3. TreeNodes \subseteq S
  <2> HIDE DEF S
  <2> QED BY <1>1, <1>2, TreeInduction
<1>4. PICK q \in D[t.root] : n = l[q] \/ n = r[q]
  BY <1>1, <1>3
<1>5. q \in TreeNodes /\ n # NULL
  BY <1>1, TreeSelf, TreeNullNoNode
<1>6. t.parent[n] = q
  BY <1>4, <1>5, TreeKids DEF TreeLeftKid, TreeRightKid
<1> QED BY <1>1, <1>4, <1>6, TreeNullNoNode DEF TreeBelow

(* The climb stops at a left child, goes on from a right one, and comes to *)
(* nothing from the root.                                                  *)
LEMMA TreeClimbIs ==
  ASSUME NEW t, NEW D, TreeAgrees(t, D)
  PROVE  /\ \A q \in TreeNodes :
              /\ t.lchild[q] # NULL => TreeClimb(t, t.lchild[q]) = t.lchild[q]
              /\ t.rchild[q] # NULL => TreeClimb(t, t.rchild[q]) = TreeClimb(t, q)
         /\ t.root # NULL => TreeClimb(t, t.root) = NULL
<1> DEFINE l == t.lchild
           r == t.rchild
           up == [m \in TreeNodes |-> IF TreeIsRight(t, m) /\ ~TreeIsLeft(t, m)
                                      THEN t.parent[m] ELSE NULL]
           all == Cardinality(TreeNodes)
           rank == [m \in TreeNodes |-> all - Cardinality(D[m])]
<1>1. /\ TreeForest(l, r, D) /\ t.parent \in TreeLinks /\ t.root \in TreeNodes \cup {NULL}
      /\ t.root # NULL => t.parent[t.root] = NULL
  BY TreeAgreesIs
<1>2. all \in Nat /\ \A m \in TreeNodes : Cardinality(D[m]) \in 0..all
  BY <1>1, TreeNodesFinite, FS_CardinalityType, TreeHangsWithin
<1>3. TreeRanked(up, rank)
  <2>1. up \in TreeLinks
    BY <1>1 DEF TreeLinks
  <2>2. rank \in [TreeNodes -> 0..all]
    BY <1>2
  <2>3. ASSUME NEW m \in TreeNodes, up[m] # NULL PROVE rank[up[m]] < rank[m]
    <3>1. up[m] = t.parent[m] /\ TreeIsRight(t, m)
      BY <2>3
    <3>2. up[m] \in TreeNodes
      BY <2>1, <2>3 DEF TreeLinks
    <3>3. r[up[m]] = m
      BY <3>1 DEF TreeIsRight
    <3>4. Cardinality(D[m]) < Cardinality(D[up[m]])
      BY <1>1, <3>2, <3>3, TreeRank
    <3> HIDE DEF up
    <3>5. rank[up[m]] = all - Cardinality(D[up[m]]) /\ rank[m] = all - Cardinality(D[m])
      BY <3>2
    <3> QED BY <1>2, <3>2, <3>4, <3>5
  <2> HIDE DEF up, rank
  <2> QED BY <2>1, <2>2, <2>3 DEF TreeRanked, all
<1>4. \A n : TreeClimb(t, n) = IF TreeIsLeft(t, TreeLastOn(up, TreeNodes, n))
                               THEN TreeLastOn(up, TreeNodes, n) ELSE NULL
  BY DEF TreeClimb
<1>5. /\ up \in TreeLinks
      /\ \A m \in TreeNodes : up[m] = IF TreeIsRight(t, m) /\ ~TreeIsLeft(t, m)
                                     THEN t.parent[m] ELSE NULL
  BY <1>3 DEF TreeRanked
<1> HIDE DEF up, rank
<1>6. PICK last : /\ TreeLasts(last, up, TreeNodes)
                  /\ \A n : TreeLastOn(up, TreeNodes, n) = last[n]
  BY <1>3, TreeLastOnRanked
<1>7. \A m \in TreeNodes :
        /\ up[m] = NULL => last[m] = m
        /\ up[m] # NULL => last[m] = last[up[m]]
  <2> TAKE m \in TreeNodes
  <2>1. /\ last[NULL] = NULL
        /\ last[m] = IF last[up[m]] # NULL THEN last[up[m]] ELSE m
        /\ up[m] # NULL => last[up[m]] # NULL
    <3>1. /\ last[NULL] = NULL
          /\ \A x \in TreeNodes : last[x] = IF last[up[x]] # NULL THEN last[up[x]] ELSE x
      BY <1>6 DEF TreeLasts
    <3>2. \A x \in TreeNodes : last[x] # NULL
      BY <3>1, TreeNullNoNode
    <3> QED BY <1>5, <3>1, <3>2 DEF TreeLinks
  <2> QED BY <2>1
<1>8. ASSUME NEW q \in TreeNodes
      PROVE  /\ l[q] # NULL => TreeClimb(t, l[q]) = l[q]
             /\ r[q] # NULL => TreeClimb(t, r[q]) = TreeClimb(t, q)
  <2>1. l[q] \in TreeNodes \cup {NULL} /\ r[q] \in TreeNodes \cup {NULL}
    BY <1>1, TreeChild
  <2>2. /\ l[q] # NULL => TreeIsLeft(t, l[q])
        /\ r[q] # NULL => TreeIsRight(t, r[q]) /\ ~TreeIsLeft(t, r[q]) /\ t.parent[r[q]] = q
    BY TreeKids DEF TreeLeftKid, TreeRightKid
  <2>3. l[q] # NULL => TreeClimb(t, l[q]) = l[q]
    BY <1>4, <1>5, <1>6, <1>7, <2>1, <2>2
  <2>4. r[q] # NULL => last[r[q]] = last[q]
    BY <1>5, <1>7, <2>1, <2>2, TreeNullNoNode
  <2> QED BY <1>4, <1>6, <2>3, <2>4
<1>9. ASSUME t.root # NULL PROVE TreeClimb(t, t.root) = NULL
  <2>1. ~TreeIsLeft(t, t.root) /\ ~TreeIsRight(t, t.root)
    BY <1>1, <1>9 DEF TreeIsLeft, TreeIsRight
  <2> QED BY <1>1, <1>4, <1>5, <1>6, <1>7, <1>9, <2>1
<1> QED BY <1>8, <1>9 DEF l, r
-----------------------------------------------------------------------------
(* A list from a to z in which each is followed by what R says.            *)
TreePath(s, a, z, R) ==
  /\ s \in Seq(TreeNodes) /\ Len(s) \in Nat \ {0} /\ s[1] = a /\ s[Len(s)] = z
  /\ \A i \in 1..Len(s) : i # Len(s) => <<s[i], s[i + 1]>> \in R

LEMMA TreePathJoin ==
  ASSUME NEW R, NEW s, NEW a, NEW z, TreePath(s, a, z, R),
         NEW u, NEW b, NEW y, TreePath(u, b, y, R), <<z, b>> \in R
  PROVE  TreePath(s \o u, a, y, R)
<1> DEFINE m == Len(s)
           k == Len(u)
           w == s \o u
<1>1. /\ s \in Seq(TreeNodes) /\ m \in Nat \ {0} /\ s[1] = a /\ s[m] = z
      /\ \A i \in 1..m : i # m => <<s[i], s[i + 1]>> \in R
  BY DEF TreePath
<1>2. /\ u \in Seq(TreeNodes) /\ k \in Nat \ {0} /\ u[1] = b /\ u[k] = y
      /\ \A i \in 1..k : i # k => <<u[i], u[i + 1]>> \in R
  BY DEF TreePath
<1>3. /\ w \in Seq(TreeNodes) /\ Len(w) = m + k
      /\ \A i \in 1..m : w[i] = s[i]
      /\ \A i \in 1..k : w[m + i] = u[i]
  BY <1>1, <1>2
<1> HIDE DEF m, k, w
<1>4. w[1] = a /\ w[m + k] = y
  BY <1>1, <1>2, <1>3
<1>5. ASSUME NEW i \in 1..(m + k), i # m + k PROVE <<w[i], w[i + 1]>> \in R
  <2>1. CASE i \in 1..m /\ i # m
    <3>1. i + 1 \in 1..m
      BY <1>1, <2>1
    <3>2. w[i] = s[i] /\ w[i + 1] = s[i + 1]
      BY <1>3, <2>1, <3>1
    <3> QED BY <1>1, <2>1, <3>2
  <2>2. CASE i = m
    <3>1. m \in 1..m /\ 1 \in 1..k
      BY <1>1, <1>2
    <3>2. w[m] = s[m] /\ w[m + 1] = u[1]
      BY <1>3, <3>1
    <3> QED BY <1>1, <1>2, <2>2, <3>2
  <2>3. CASE i \notin 1..m
    <3>1. PICK j \in 1..k : j # k /\ i = m + j /\ i + 1 = m + (j + 1) /\ j + 1 \in 1..k
      <4>1. i - m \in 1..k /\ i - m # k /\ i = m + (i - m) /\ i + 1 = m + ((i - m) + 1)
            /\ (i - m) + 1 \in 1..k
        BY <1>1, <1>2, <1>5, <2>3
      <4> QED BY <4>1
    <3>2. w[i] = u[j] /\ w[i + 1] = u[j + 1]
      BY <1>3, <3>1
    <3> QED BY <1>2, <3>1, <3>2
  <2> QED BY <2>1, <2>2, <2>3
<1>6. TreePath(w, a, y, R)
  BY <1>1, <1>2, <1>3, <1>4, <1>5 DEF TreePath
<1> QED BY <1>6 DEF w

LEMMA TreeNothingJoined ==
  ASSUME NEW s \in Seq(TreeNodes)
  PROVE  s \o << >> = s /\ << >> \o s = s
OBVIOUS

LEMMA TreePathOne ==
  ASSUME NEW n \in TreeNodes, NEW R
  PROVE  TreePath(<<n>>, n, n, R)
BY DEF TreePath

(* Preorder: from a node to the end of what hangs at it, from where the    *)
(* climb leads as from the node itself, or the call sticks.                *)
TreePreNext(t) ==
  {e \in TreeNodes \X TreeNodes : PreSticks(t, e[1]) \/ pre_next(t, e[1]) = e[2]}
TreePreEnd(t, n, z) ==
  /\ z \in TreeNodes /\ t.lchild[z] = NULL /\ t.rchild[z] = NULL
  /\ PreSticks(t, z) \/ TreeClimb(t, z) = TreeClimb(t, n)
TreePreFrom(t, n, s) == \E z : TreePath(s, n, z, TreePreNext(t)) /\ TreePreEnd(t, n, z)

LEMMA TreePreWalk ==
  ASSUME NEW t, NEW D, TreeAgrees(t, D),
         NEW walk, TreeWalks(walk, t.lchild, t.rchild, "pre"), NEW n \in TreeNodes
  PROVE  TreePreFrom(t, n, walk[n])
<1> DEFINE l == t.lchild
           r == t.rchild
           R == TreePreNext(t)
           S == {x \in TreeNodes : TreePreFrom(t, x, walk[x])}
<1>1. TreeForest(l, r, D)
  BY TreeAgreesIs
<1>2. ASSUME NEW x \in TreeNodes, \A c \in TreeNodes : c = l[x] \/ c = r[x] => c \in S
      PROVE  x \in S
  <2> DEFINE a == l[x]
             b == r[x]
  <2>1. a \in TreeNodes \cup {NULL} /\ b \in TreeNodes \cup {NULL} /\ x # NULL
    BY <1>1, TreeChild, TreeNullNoNode
  <2>2. walk[NULL] = << >> /\ walk[x] = <<x>> \o walk[a] \o walk[b]
    BY DEF TreeWalks, TreeThread
  <2>3. TreePath(<<x>>, x, x, R)
    BY TreePathOne
  <2>4. /\ a # NULL => TreePreFrom(t, a, walk[a]) /\ TreeClimb(t, a) = a /\ t.parent[a] = x
        /\ b # NULL => TreePreFrom(t, b, walk[b]) /\ TreeClimb(t, b) = TreeClimb(t, x)
    BY <1>2, <2>1, TreeClimbIs, TreeKids DEF TreeLeftKid
  <2>5. pre_next(t, x) = IF a # NULL THEN a ELSE IF b # NULL THEN b
                         ELSE IF TreeClimb(t, x) = NULL THEN NULL
                         ELSE r[t.parent[TreeClimb(t, x)]]
    BY DEF pre_next
  <2> HIDE DEF R
  <2>6. CASE a = NULL /\ b = NULL
    <3>1. walk[x] = <<x>>
      <4>1. <<x>> \o << >> = <<x>>
        BY TreeNothingJoined
      <4> QED BY <2>2, <2>6, <4>1
    <3>2. TreePreEnd(t, x, x)
      BY <2>6 DEF TreePreEnd
    <3> QED BY <2>3, <3>1, <3>2 DEF TreePreFrom, R
  <2>7. CASE a = NULL /\ b # NULL
    <3>1. PICK z : TreePath(walk[b], b, z, R) /\ TreePreEnd(t, b, z)
      BY <2>4, <2>7 DEF TreePreFrom, R
    <3>2. walk[b] \in Seq(TreeNodes)
      BY <3>1 DEF TreePath
    <3>3. walk[x] = <<x>> \o walk[b]
      <4>1. <<x>> \o << >> = <<x>>
        BY TreeNothingJoined
      <4> QED BY <2>2, <2>7, <4>1
    <3>4. <<x, b>> \in R
      BY <2>1, <2>5, <2>7 DEF R, TreePreNext
    <3>5. TreePath(walk[x], x, z, R)
      BY <2>3, <3>1, <3>3, <3>4, TreePathJoin
    <3>6. TreePreEnd(t, x, z)
      BY <2>4, <2>7, <3>1 DEF TreePreEnd
    <3> QED BY <3>5, <3>6 DEF TreePreFrom, R
  <2>8. CASE a # NULL
    <3>1. PICK z : TreePath(walk[a], a, z, R) /\ TreePreEnd(t, a, z)
      BY <2>4, <2>8 DEF TreePreFrom, R
    <3>2. <<x, a>> \in R
      BY <2>1, <2>5, <2>8 DEF R, TreePreNext
    <3>3. TreePath(<<x>> \o walk[a], x, z, R)
      BY <2>3, <3>1, <3>2, TreePathJoin
    <3>4. z \in TreeNodes /\ l[z] = NULL /\ r[z] = NULL
          /\ (PreSticks(t, z) \/ TreeClimb(t, z) = a)
      BY <2>4, <2>8, <3>1 DEF TreePreEnd
    <3>5. CASE b = NULL
      <4>1. walk[x] = <<x>> \o walk[a]
        <5>1. <<x>> \o walk[a] \in Seq(TreeNodes)
          BY <3>3 DEF TreePath
        <5>2. (<<x>> \o walk[a]) \o << >> = <<x>> \o walk[a]
          BY <5>1, TreeNothingJoined
        <5> QED BY <2>2, <3>5, <5>2
      <4>2. PreSticks(t, z)
        BY <2>4, <2>8, <3>4, <3>5 DEF PreSticks
      <4>3. TreePreEnd(t, x, z)
        BY <3>4, <4>2 DEF TreePreEnd
      <4> QED BY <3>3, <4>1, <4>3 DEF TreePreFrom, R
    <3>6. CASE b # NULL
      <4>1. PICK y : TreePath(walk[b], b, y, R) /\ TreePreEnd(t, b, y)
        BY <2>4, <3>6 DEF TreePreFrom, R
      <4>2. <<z, b>> \in R
        <5>1. PreSticks(t, z) \/ pre_next(t, z) = b
          BY <2>4, <2>8, <3>4 DEF pre_next
        <5> QED BY <2>1, <3>4, <3>6, <5>1 DEF R, TreePreNext
      <4>3. TreePath(walk[x], x, y, R)
        BY <2>2, <3>3, <4>1, <4>2, TreePathJoin
      <4>4. TreePreEnd(t, x, y)
        BY <2>4, <3>6, <4>1 DEF TreePreEnd
      <4> QED BY <4>3, <4>4 DEF TreePreFrom, R
    <3> QED BY <3>5, <3>6
  <2> QED BY <2>6, <2>7, <2>8
<1>3. TreeNodes \subseteq S
  <2> HIDE DEF S
  <2> QED BY <1>1, <1>2, TreeInduction
<1> QED BY <1>3

(* Where a way down ends: at the first node, or where it does for the next.*)
LEMMA TreeEndOn ==
  ASSUME NEW l, NEW r, NEW D, TreeForest(l, r, D), NEW next, TreeWay(next, l, r),
         NEW n \in TreeNodes
  PROVE  /\ TreeLastOn(next, TreeNodes, n) =
              IF next[n] # NULL THEN TreeLastOn(next, TreeNodes, next[n]) ELSE n
         /\ TreeLastOn(next, TreeNodes, n) \in D[n]
<1>1. PICK last : /\ TreeLasts(last, next, TreeNodes)
                  /\ \A m : TreeLastOn(next, TreeNodes, m) = last[m]
  BY TreeLastOnIs
<1>2. /\ last[NULL] = NULL
      /\ \A m \in TreeNodes : last[m] = IF last[next[m]] # NULL THEN last[next[m]] ELSE m
  BY <1>1 DEF TreeLasts
<1>3. \A m \in TreeNodes : last[m] # NULL
  BY <1>2, TreeNullNoNode
<1>4. next[n] \in TreeNodes \cup {NULL}
  BY DEF TreeWay, TreeLinks
<1>5. last[n] = IF next[n] # NULL THEN last[next[n]] ELSE n
  BY <1>2, <1>3, <1>4
<1>6. TreeLastOn(next, TreeNodes, n) \in TreeBelow(D, n) \cup {NULL}
  BY TreeLastBelow
<1>7. last[n] \in D[n]
  BY <1>1, <1>3, <1>6, TreeNullNoNode DEF TreeBelow
<1> QED BY <1>1, <1>5, <1>7

TreeLeftmost(t, n) == TreeLastOn(t.lchild, TreeNodes, n)

LEMMA TreeLeftmostIs ==
  ASSUME NEW t, NEW D, TreeAgrees(t, D), NEW n \in TreeNodes
  PROVE  /\ TreeLeftmost(t, n) = IF t.lchild[n] # NULL THEN TreeLeftmost(t, t.lchild[n]) ELSE n
         /\ TreeLeftmost(t, n) \in D[n] /\ TreeLeftmost(t, n) \in TreeNodes
<1>1. TreeForest(t.lchild, t.rchild, D)
  BY TreeAgreesIs
<1>2. TreeWay(t.lchild, t.lchild, t.rchild)
  BY <1>1 DEF TreeWay, TreeForest
<1>3. D[n] \subseteq TreeNodes
  BY <1>1, TreeSelf
<1> QED BY <1>1, <1>2, <1>3, TreeEndOn DEF TreeLeftmost

(* In order: to the smallest below on the right, or to the smallest above. *)
in_follow(t, n) ==
  IF t.rchild[n] # NULL THEN in_find_smallest_below(t, n) ELSE in_find_smallest_above(t, n)
TreeInNext(t) == {e \in TreeNodes \X TreeNodes : in_follow(t, e[1]) = e[2]}
TreeInEnd(t, n, z) ==
  z \in TreeNodes /\ t.rchild[z] = NULL /\ TreeClimb(t, z) = TreeClimb(t, n)
TreeInFrom(t, n, s) ==
  \E z : TreePath(s, TreeLeftmost(t, n), z, TreeInNext(t)) /\ TreeInEnd(t, n, z)

LEMMA TreeInWalk ==
  ASSUME NEW t, NEW D, TreeAgrees(t, D),
         NEW walk, TreeWalks(walk, t.lchild, t.rchild, "in"), NEW n \in TreeNodes
  PROVE  TreeInFrom(t, n, walk[n])
<1> DEFINE l == t.lchild
           r == t.rchild
           R == TreeInNext(t)
           S == {x \in TreeNodes : TreeInFrom(t, x, walk[x])}
<1>1. TreeForest(l, r, D)
  BY TreeAgreesIs
<1>2. ASSUME NEW x \in TreeNodes, \A c \in TreeNodes : c = l[x] \/ c = r[x] => c \in S
      PROVE  x \in S
  <2> DEFINE a == l[x]
             b == r[x]
             f == TreeLeftmost(t, x)
  <2>1. a \in TreeNodes \cup {NULL} /\ b \in TreeNodes \cup {NULL} /\ x # NULL
    BY <1>1, TreeChild, TreeNullNoNode
  <2>2. walk[NULL] = << >> /\ walk[x] = walk[a] \o <<x>> \o walk[b]
    BY DEF TreeWalks, TreeThread
  <2>3. TreePath(<<x>>, x, x, R)
    BY TreePathOne
  <2>4. /\ a # NULL => TreeInFrom(t, a, walk[a]) /\ TreeClimb(t, a) = a /\ t.parent[a] = x
        /\ b # NULL => TreeInFrom(t, b, walk[b]) /\ TreeClimb(t, b) = TreeClimb(t, x)
    BY <1>2, <2>1, TreeClimbIs, TreeKids DEF TreeLeftKid
  <2>5. f = IF a # NULL THEN TreeLeftmost(t, a) ELSE x
    BY TreeLeftmostIs
  <2> HIDE DEF R, f
  <2>6. TreePath(walk[a] \o <<x>>, f, x, R)
    <3>1. CASE a = NULL
      <4>1. << >> \o <<x>> = <<x>>
        BY TreeNothingJoined
      <4> QED BY <2>2, <2>3, <2>5, <3>1, <4>1
    <3>2. CASE a # NULL
      <4>1. PICK z : TreePath(walk[a], f, z, R) /\ TreeInEnd(t, a, z)
        BY <2>4, <2>5, <3>2 DEF TreeInFrom, R
      <4>2. in_follow(t, z) = x /\ z \in TreeNodes
        BY <2>4, <3>2, <4>1 DEF TreeInEnd, in_follow, in_find_smallest_above
      <4>3. <<z, x>> \in R
        BY <4>2 DEF R, TreeInNext
      <4> QED BY <2>3, <4>1, <4>3, TreePathJoin
    <3> QED BY <3>1, <3>2
  <2>7. CASE b = NULL
    <3>1. walk[x] = walk[a] \o <<x>>
      <4>1. (walk[a] \o <<x>>) \o << >> = walk[a] \o <<x>>
        BY <2>6, TreeNothingJoined DEF TreePath
      <4> QED BY <2>2, <2>7, <4>1
    <3>2. TreeInEnd(t, x, x)
      BY <2>7 DEF TreeInEnd
    <3> QED BY <2>6, <3>1, <3>2 DEF TreeInFrom, R, f
  <2>8. CASE b # NULL
    <3>1. PICK y : TreePath(walk[b], TreeLeftmost(t, b), y, R) /\ TreeInEnd(t, b, y)
      BY <2>4, <2>8 DEF TreeInFrom, R
    <3>2. <<x, TreeLeftmost(t, b)>> \in R
      <4>1. TreeLeftmost(t, b) \in TreeNodes
        BY <2>1, <2>8, TreeLeftmostIs
      <4>2. in_follow(t, x) = TreeLeftmost(t, b)
        BY <2>8 DEF in_follow, in_find_smallest_below, TreeLeftmost
      <4> QED BY <4>1, <4>2 DEF R, TreeInNext
    <3>3. TreePath(walk[x], f, y, R)
      BY <2>2, <2>6, <3>1, <3>2, TreePathJoin
    <3>4. TreeInEnd(t, x, y)
      BY <2>4, <2>8, <3>1 DEF TreeInEnd
    <3> QED BY <3>3, <3>4 DEF TreeInFrom, R, f
  <2> QED BY <2>7, <2>8
<1>3. TreeNodes \subseteq S
  <2> HIDE DEF S
  <2> QED BY <1>1, <1>2, TreeInduction
<1> QED BY <1>3

(* Postorder: up from a right child, and from a left one to where the way  *)
(* down from its parent's right child ends.                                *)
TreePostDown(t) ==
  [m \in TreeNodes |-> IF t.lchild[m] # NULL THEN t.lchild[m] ELSE t.rchild[m]]
TreePostFirst(t, n) == TreeLastOn(TreePostDown(t), TreeNodes, n)
post_follow(t, n) ==
  CASE TreeIsRight(t, n) -> t.parent[n]
    [] TreeIsLeft(t, n) /\ ~TreeIsRight(t, n) -> post_find_smallest_below(t, t.parent[n])
    [] OTHER -> NULL
TreePostNext(t) == {e \in TreeNodes \X TreeNodes : post_follow(t, e[1]) = e[2]}

LEMMA TreePostFirstIs ==
  ASSUME NEW t, NEW D, TreeAgrees(t, D), NEW n \in TreeNodes
  PROVE  /\ TreePostFirst(t, n) =
              IF t.lchild[n] # NULL THEN TreePostFirst(t, t.lchild[n])
              ELSE IF t.rchild[n] # NULL THEN TreePostFirst(t, t.rchild[n]) ELSE n
         /\ TreePostFirst(t, n) \in TreeNodes
<1> DEFINE next == TreePostDown(t)
<1>1. TreeForest(t.lchild, t.rchild, D)
  BY TreeAgreesIs
<1>2. \A m \in TreeNodes :
        /\ next[m] = IF t.lchild[m] # NULL THEN t.lchild[m] ELSE t.rchild[m]
        /\ next[m] \in TreeNodes \cup {NULL}
  BY <1>1, TreeChild DEF TreePostDown
<1>3. TreeWay(next, t.lchild, t.rchild)
  <2>1. next = [m \in TreeNodes |-> next[m]]
    BY DEF TreePostDown
  <2> HIDE DEF next
  <2>2. next \in TreeLinks
    BY <1>2, <2>1 DEF TreeLinks
  <2> QED BY <1>2, <2>2 DEF TreeWay
<1>4. D[n] \subseteq TreeNodes
  BY <1>1, TreeSelf
<1> HIDE DEF next
<1>5. /\ TreeLastOn(next, TreeNodes, n) =
           IF next[n] # NULL THEN TreeLastOn(next, TreeNodes, next[n]) ELSE n
      /\ TreeLastOn(next, TreeNodes, n) \in D[n]
  BY <1>1, <1>3, TreeEndOn
<1> QED BY <1>2, <1>4, <1>5 DEF TreePostFirst, next

LEMMA TreePostWalk ==
  ASSUME NEW t, NEW D, TreeAgrees(t, D),
         NEW walk, TreeWalks(walk, t.lchild, t.rchild, "post"), NEW n \in TreeNodes
  PROVE  TreePath(walk[n], TreePostFirst(t, n), n, TreePostNext(t))
<1> DEFINE l == t.lchild
           r == t.rchild
           R == TreePostNext(t)
           S == {x \in TreeNodes : TreePath(walk[x], TreePostFirst(t, x), x, R)}
<1>1. TreeForest(l, r, D)
  BY TreeAgreesIs
<1>2. ASSUME NEW x \in TreeNodes, \A c \in TreeNodes : c = l[x] \/ c = r[x] => c \in S
      PROVE  x \in S
  <2> DEFINE a == l[x]
             b == r[x]
             f == TreePostFirst(t, x)
  <2>1. a \in TreeNodes \cup {NULL} /\ b \in TreeNodes \cup {NULL} /\ x # NULL
    BY <1>1, TreeChild, TreeNullNoNode
  <2>2. walk[NULL] = << >> /\ walk[x] = walk[a] \o walk[b] \o <<x>>
    BY DEF TreeWalks, TreeThread
  <2>3. TreePath(<<x>>, x, x, R)
    BY TreePathOne
  <2>4. /\ a # NULL => TreePath(walk[a], TreePostFirst(t, a), a, R)
        /\ b # NULL => TreePath(walk[b], TreePostFirst(t, b), b, R)
    BY <1>2, <2>1
  <2>5. /\ a # NULL => TreeLeftKid(t, x, a)
        /\ b # NULL => TreeRightKid(t, x, b)
    BY TreeKids
  <2>6. post_find_smallest_below(t, x) = IF b = NULL THEN x ELSE TreePostFirst(t, b)
    BY DEF post_find_smallest_below, TreePostFirst, TreePostDown
  <2>7. f = IF a # NULL THEN TreePostFirst(t, a) ELSE IF b # NULL THEN TreePostFirst(t, b) ELSE x
    BY TreePostFirstIs
  <2>8. b # NULL => TreePostFirst(t, b) \in TreeNodes
    BY <2>1, TreePostFirstIs
  <2>9. /\ b # NULL => post_follow(t, b) = x
        /\ a # NULL /\ b = NULL => post_follow(t, a) = x
        /\ a # NULL /\ b # NULL => post_follow(t, a) = TreePostFirst(t, b)
    BY <2>5, <2>6 DEF post_follow, TreeLeftKid, TreeRightKid
  <2>10. /\ b # NULL => <<b, x>> \in R
         /\ a # NULL /\ b = NULL => <<a, x>> \in R
         /\ a # NULL /\ b # NULL => <<a, TreePostFirst(t, b)>> \in R
    BY <2>1, <2>8, <2>9 DEF TreePostNext
  <2> HIDE DEF R, f
  <2>11. CASE a = NULL /\ b = NULL
    <3>1. (<< >> \o << >>) \o <<x>> = <<x>>
      BY TreeNothingJoined
    <3> QED BY <2>2, <2>3, <2>7, <2>11, <3>1 DEF f
  <2>12. CASE a = NULL /\ b # NULL
    <3>1. << >> \o walk[b] = walk[b]
      BY <2>4, <2>12, TreeNothingJoined DEF TreePath
    <3>2. TreePath(walk[b] \o <<x>>, f, x, R)
      BY <2>3, <2>4, <2>7, <2>10, <2>12, TreePathJoin
    <3> QED BY <2>2, <2>12, <3>1, <3>2 DEF f
  <2>13. CASE a # NULL /\ b = NULL
    <3>1. walk[a] \o << >> = walk[a]
      BY <2>4, <2>13, TreeNothingJoined DEF TreePath
    <3>2. TreePath(walk[a] \o <<x>>, f, x, R)
      BY <2>3, <2>4, <2>7, <2>10, <2>13, TreePathJoin
    <3> QED BY <2>2, <2>13, <3>1, <3>2 DEF f
  <2>14. CASE a # NULL /\ b # NULL
    <3>1. TreePath(walk[a] \o walk[b], f, b, R)
      BY <2>4, <2>7, <2>10, <2>14, TreePathJoin
    <3>2. TreePath((walk[a] \o walk[b]) \o <<x>>, f, x, R)
      BY <2>3, <2>10, <2>14, <3>1, TreePathJoin
    <3> QED BY <2>2, <3>2 DEF f
  <2> QED BY <2>11, <2>12, <2>13, <2>14
<1>3. TreeNodes \subseteq S
  <2> HIDE DEF S
  <2> QED BY <1>1, <1>2, TreeInduction
<1> QED BY <1>3

(* The leftmost node has no left child, and is a left one or the first.    *)
LEMMA TreeLeftmostSide ==
  ASSUME NEW t, NEW D, TreeAgrees(t, D), NEW n \in TreeNodes
  PROVE  LET f == TreeLeftmost(t, n)
         IN /\ t.lchild[f] = NULL
            /\ f = n \/ \E q \in TreeNodes : f = t.lchild[q] /\ f # NULL
<1> DEFINE S == {x \in TreeNodes :
                   LET f == TreeLeftmost(t, x)
                   IN /\ t.lchild[f] = NULL
                      /\ f = x \/ \E q \in TreeNodes : f = t.lchild[q] /\ f # NULL}
<1>1. TreeForest(t.lchild, t.rchild, D)
  BY TreeAgreesIs
<1>2. ASSUME NEW x \in TreeNodes, \A c \in TreeNodes : c = t.lchild[x] \/ c = t.rchild[x] => c \in S
      PROVE  x \in S
  <2> DEFINE a == t.lchild[x]
  <2>1. /\ TreeLeftmost(t, x) = IF a # NULL THEN TreeLeftmost(t, a) ELSE x
        /\ a \in TreeNodes \cup {NULL}
    BY <1>1, TreeLeftmostIs, TreeChild
  <2>2. CASE a = NULL
    BY <2>1, <2>2
  <2>3. CASE a # NULL
    <3>1. a \in S /\ TreeLeftmost(t, x) = TreeLeftmost(t, a)
      BY <1>2, <2>1, <2>3
    <3> QED BY <2>3, <3>1
  <2> QED BY <2>2, <2>3
<1>3. TreeNodes \subseteq S
  <2> HIDE DEF S
  <2> QED BY <1>1, <1>2, TreeInduction
<1> QED BY <1>3
-----------------------------------------------------------------------------
(* What comes after the i-th of a list, or nothing.                        *)
TreeAfter(o, i) == IF i < Len(o) THEN o[i + 1] ELSE NULL

(* The first node an iterator hands out.                                   *)
TreeFirst(t, marker) ==
  IF marker \in {"in", "post"} THEN TreeLeftmost(t, t.root) ELSE t.root

LEMMA TreePathAfter ==
  ASSUME NEW o, NEW a, NEW z, NEW R, TreePath(o, a, z, R), NEW i \in 1..Len(o)
  PROVE  /\ o[i] \in TreeNodes
         /\ i # Len(o) => TreeAfter(o, i) = o[i + 1] /\ <<o[i], o[i + 1]>> \in R
         /\ i = Len(o) => TreeAfter(o, i) = NULL /\ o[i] = z
         /\ TreeAfter(o, 0) = a
<1>1. /\ o \in Seq(TreeNodes) /\ Len(o) \in Nat \ {0} /\ o[1] = a /\ o[Len(o)] = z
      /\ i # Len(o) => <<o[i], o[i + 1]>> \in R
  BY DEF TreePath
<1>2. i # Len(o) => i < Len(o)
  BY <1>1
<1>3. 0 < Len(o) /\ 0 + 1 = 1 /\ ~(Len(o) < Len(o))
  BY <1>1
<1>4. o[i] \in TreeNodes
  BY <1>1
<1> QED BY <1>1, <1>2, <1>3, <1>4 DEF TreeAfter

(* The walks of a tree that has a root.                                    *)
LEMMA TreeWalkPath ==
  ASSUME NEW t, NEW D, TreeAgrees(t, D), t.root # NULL
  PROVE  /\ TreePreFrom(t, t.root, TreeWalk(t, "pre"))
         /\ TreeInFrom(t, t.root, TreeWalk(t, "in"))
         /\ TreePath(TreeWalk(t, "post"), TreePostFirst(t, t.root), t.root, TreePostNext(t))
<1>1. TreeForest(t.lchild, t.rchild, D) /\ t.root \in TreeNodes
  BY TreeAgreesIs
<1>2. TreePreFrom(t, t.root, TreeWalk(t, "pre"))
  <2>1. PICK walk : /\ TreeWalks(walk, t.lchild, t.rchild, "pre")
                    /\ TreeWalk(t, "pre") = walk[t.root]
    BY <1>1, TreeOrderIs
  <2> QED BY <1>1, <2>1, TreePreWalk
<1>3. TreeInFrom(t, t.root, TreeWalk(t, "in"))
  <2>1. PICK walk : /\ TreeWalks(walk, t.lchild, t.rchild, "in")
                    /\ TreeWalk(t, "in") = walk[t.root]
    BY <1>1, TreeOrderIs
  <2> QED BY <1>1, <2>1, TreeInWalk
<1>4. TreePath(TreeWalk(t, "post"), TreePostFirst(t, t.root), t.root, TreePostNext(t))
  <2>1. PICK walk : /\ TreeWalks(walk, t.lchild, t.rchild, "post")
                    /\ TreeWalk(t, "post") = walk[t.root]
    BY <1>1, TreeOrderIs
  <2> QED BY <1>1, <2>1, TreePostWalk
<1> QED BY <1>2, <1>3, <1>4

(* Each of the walks has each node of the tree once.                       *)
LEMMA TreeWalkLists ==
  ASSUME NEW t, NEW D, TreeAgrees(t, D), NEW order \in {"pre", "in", "post"}
  PROVE  /\ TreeListed(TreeWalk(t, order), TreeBelow(D, t.root))
         /\ t.root = NULL => TreeWalk(t, order) = << >>
<1>1. TreeForest(t.lchild, t.rchild, D) /\ t.root \in TreeNodes \cup {NULL}
  BY TreeAgreesIs
<1>2. PICK walk : /\ TreeWalks(walk, t.lchild, t.rchild, order)
                  /\ TreeWalk(t, order) = walk[t.root]
  BY <1>1, TreeOrderIs
<1>3. TreeListed(walk[t.root], TreeBelow(D, t.root))
  BY <1>1, <1>2, TreeWalkIs
<1> QED BY <1>2, <1>3 DEF TreeWalks

(* The preorder goes on with what comes next in it.                        *)
LEMMA TreePreSteps ==
  ASSUME NEW t, NEW D, TreeAgrees(t, D), NEW i \in 1..Len(TreeWalk(t, "pre")),
         ~PreSticks(t, TreeWalk(t, "pre")[i])
  PROVE  pre_next(t, TreeWalk(t, "pre")[i]) = TreeAfter(TreeWalk(t, "pre"), i)
<1> DEFINE o == TreeWalk(t, "pre")
<1>0. t.root # NULL
  BY TreeWalkLists
<1>1. PICK z : TreePath(o, t.root, z, TreePreNext(t)) /\ TreePreEnd(t, t.root, z)
  BY <1>0, TreeWalkPath DEF TreePreFrom
<1> HIDE DEF o
<1>2. /\ i # Len(o) => TreeAfter(o, i) = o[i + 1] /\ <<o[i], o[i + 1]>> \in TreePreNext(t)
      /\ i = Len(o) => TreeAfter(o, i) = NULL /\ o[i] = z
  BY <1>1, TreePathAfter DEF o
<1>3. ~PreSticks(t, o[i])
  BY DEF o
<1>4. CASE i # Len(o)
  BY <1>2, <1>3, <1>4 DEF TreePreNext, o
<1>5. CASE i = Len(o)
  <2>1. /\ t.lchild[z] = NULL /\ t.rchild[z] = NULL
        /\ PreSticks(t, z) \/ TreeClimb(t, z) = TreeClimb(t, t.root)
    BY <1>1 DEF TreePreEnd
  <2>2. TreeClimb(t, z) = NULL
    BY <1>0, <1>2, <1>3, <1>5, <2>1, TreeClimbIs
  <2>3. pre_next(t, z) = NULL
    BY <2>1, <2>2 DEF pre_next
  <2> QED BY <1>2, <1>5, <2>3 DEF o
<1> QED BY <1>4, <1>5

(* The postorder does, from the node it begins with.                       *)
LEMMA TreePostSteps ==
  ASSUME NEW t, NEW D, TreeAgrees(t, D), NEW i \in 1..Len(TreeWalk(t, "post")),
         NEW prev, prev = NULL => TreeWalk(t, "post")[i] = TreeLeftmost(t, t.root)
  PROVE  post_next(t, TreeWalk(t, "post")[i], prev) = TreeAfter(TreeWalk(t, "post"), i)
<1> DEFINE o == TreeWalk(t, "post")
           n == o[i]
<1>0. t.root # NULL /\ t.root \in TreeNodes /\ t.parent[t.root] = NULL
  BY TreeWalkLists, TreeAgreesIs
<1>1. TreePath(o, TreePostFirst(t, t.root), t.root, TreePostNext(t))
  BY <1>0, TreeWalkPath
<1>a. TreeListed(o, TreeBelow(D, t.root))
  BY TreeWalkLists
<1>b. prev = NULL => n = TreeLeftmost(t, t.root)
  OBVIOUS
<1> HIDE DEF o
<1>2. /\ n \in TreeNodes
      /\ i # Len(o) => TreeAfter(o, i) = o[i + 1] /\ <<o[i], o[i + 1]>> \in TreePostNext(t)
      /\ i = Len(o) => TreeAfter(o, i) = NULL /\ o[i] = t.root
  BY <1>1, TreePathAfter DEF o
<1>c. n \in TreeBelow(D, t.root)
  BY <1>a DEF TreeListed, o
<1> HIDE DEF n
<1>3. TreeAfter(o, i) = post_follow(t, n)
  <2>1. CASE i # Len(o)
    BY <1>2, <2>1 DEF TreePostNext, n
  <2>2. CASE i = Len(o)
    <3>1. ~TreeIsLeft(t, t.root) /\ ~TreeIsRight(t, t.root)
      BY <1>0 DEF TreeIsLeft, TreeIsRight
    <3> QED BY <1>2, <2>2, <3>1 DEF post_follow, n
  <2> QED BY <2>1, <2>2
<1>4. post_next(t, n, prev) = post_follow(t, n)
  <2>1. CASE prev # NULL
    BY <2>1 DEF post_next, post_follow
  <2>2. CASE prev = NULL
    <3>1. n = TreeLeftmost(t, t.root)
      BY <1>b, <2>2
    <3>2. n = t.root \/ \E q \in TreeNodes : n = t.lchild[q] /\ n # NULL
      BY <1>0, <3>1, TreeLeftmostSide
    <3>3. CASE n = t.root
      <4>1. ~TreeIsLeft(t, n) /\ ~TreeIsRight(t, n) /\ TreeClimb(t, n) = NULL
        BY <1>0, <3>3, TreeClimbIs DEF TreeIsLeft, TreeIsRight
      <4> QED BY <2>2, <4>1 DEF post_next, post_follow
    <3>4. CASE n # t.root
      <4>1. PICK q \in TreeNodes : n = t.lchild[q] /\ n # NULL
        BY <3>2, <3>4
      <4>2. TreeClimb(t, n) = n /\ TreeIsLeft(t, n) /\ ~TreeIsRight(t, n)
        BY <4>1, TreeClimbIs, TreeKids DEF TreeLeftKid
      <4> QED BY <2>2, <4>1, <4>2 DEF post_next, post_follow
    <3> QED BY <3>3, <3>4
  <2> QED BY <2>1, <2>2
<1> QED BY <1>3, <1>4 DEF o, n

(* From nothing the way to the left leads nowhere.                         *)
LEMMA TreeLeftmostNull ==
  ASSUME NEW t, NEW D, TreeAgrees(t, D)
  PROVE  TreeLeftmost(t, NULL) = NULL
<1>1. TreeForest(t.lchild, t.rchild, D)
  BY TreeAgreesIs
<1>2. TreeWay(t.lchild, t.lchild, t.rchild)
  BY <1>1 DEF TreeWay, TreeForest
<1>3. PICK last : /\ TreeLasts(last, t.lchild, TreeNodes)
                  /\ \A m : TreeLastOn(t.lchild, TreeNodes, m) = last[m]
  BY <1>1, <1>2, TreeLastOnIs
<1> QED BY <1>3 DEF TreeLasts, TreeLeftmost

(* In order: it goes on to a later node, or ends.                          *)
TreeComesLater(o, i, n) == n = NULL \/ \E j \in 1..Len(o) : i < j /\ o[j] = n

LEMMA TreeInFollows ==
  ASSUME NEW t, NEW D, TreeAgrees(t, D), NEW i \in 1..Len(TreeWalk(t, "in"))
  PROVE  in_follow(t, TreeWalk(t, "in")[i]) = TreeAfter(TreeWalk(t, "in"), i)
<1> DEFINE o == TreeWalk(t, "in")
           n == o[i]
<1>0. t.root # NULL
  BY TreeWalkLists
<1>1. PICK z : TreePath(o, TreeLeftmost(t, t.root), z, TreeInNext(t)) /\ TreeInEnd(t, t.root, z)
  BY <1>0, TreeWalkPath DEF TreeInFrom
<1> HIDE DEF o
<1>2. /\ i # Len(o) => TreeAfter(o, i) = o[i + 1] /\ <<o[i], o[i + 1]>> \in TreeInNext(t)
      /\ i = Len(o) => TreeAfter(o, i) = NULL /\ o[i] = z
  BY <1>1, TreePathAfter DEF o
<1>3. CASE i # Len(o)
  BY <1>2, <1>3 DEF TreeInNext, o
<1>4. CASE i = Len(o)
  <2>1. t.rchild[z] = NULL /\ TreeClimb(t, z) = NULL
    BY <1>0, <1>1, TreeClimbIs DEF TreeInEnd
  <2> QED BY <1>2, <1>4, <2>1 DEF in_follow, in_find_smallest_above, o
<1> QED BY <1>3, <1>4

LEMMA TreeAfterLater ==
  ASSUME NEW o, NEW i \in 1..Len(o), Len(o) \in Nat
  PROVE  TreeComesLater(o, i, TreeAfter(o, i))
<1>1. CASE i < Len(o)
  <2>1. i + 1 \in 1..Len(o) /\ i < i + 1
    BY <1>1
  <2> QED BY <1>1, <2>1 DEF TreeAfter, TreeComesLater
<1>2. CASE ~(i < Len(o))
  BY <1>2 DEF TreeAfter, TreeComesLater
<1> QED BY <1>1, <1>2

(* in_next goes to a later node of the walk, or to none.                   *)
LEMMA TreeInSteps ==
  ASSUME NEW t, NEW D, TreeAgrees(t, D), NEW i \in 1..Len(TreeWalk(t, "in")),
         NEW prev, prev = NULL => i = 1
  PROVE  TreeComesLater(TreeWalk(t, "in"), i, in_next(t, TreeWalk(t, "in")[i], prev))
<1> DEFINE o == TreeWalk(t, "in")
           n == o[i]
           f == in_next(t, n, prev)
<1>1. in_follow(t, n) = TreeAfter(o, i)
  BY TreeInFollows
<1>2. TreeListed(o, TreeBelow(D, t.root)) /\ t.root \in TreeNodes
  BY TreeWalkLists, TreeAgreesIs
<1>3. Len(o) \in Nat /\ n \in TreeBelow(D, t.root) /\ n \in TreeNodes
  <2>1. TreeForest(t.lchild, t.rchild, D) /\ t.root \in TreeNodes \cup {NULL}
    BY TreeAgreesIs
  <2> HIDE DEF o
  <2>2. Len(o) \in Nat /\ n \in TreeBelow(D, t.root)
    BY <1>2 DEF TreeListed, o
  <2> QED BY <2>1, <2>2, TreeBelowTransitive
<1>a. i \in 1..Len(o)
  OBVIOUS
<1> HIDE DEF o, n
<1>4. TreeComesLater(o, i, in_follow(t, n))
  BY <1>1, <1>3, <1>a, TreeAfterLater
<1>5. CASE prev = NULL
  <2>1. f = t.parent[n] /\ i = 1
    BY <1>5 DEF in_next, n, o
  <2>2. CASE n = t.root
    BY <1>3, <2>1, <2>2, TreeAgreesIs, TreeNullNoNode DEF TreeComesLater, o, n
  <2>3. CASE n # t.root
    <3>1. /\ t.parent[n] \in TreeBelow(D, t.root)
          /\ t.parent[n] # n
      BY <1>3, <2>3, TreeSomeParent DEF TreeAgrees
    <3>2. PICK j \in 1..Len(o) : o[j] = t.parent[n]
      BY <1>2, <3>1 DEF TreeListed
    <3>3. j # 1
      BY <2>1, <3>1, <3>2 DEF n
    <3>4. i < j
      BY <1>3, <2>1, <3>2, <3>3
    <3> QED BY <2>1, <3>2, <3>4 DEF TreeComesLater, o, n
  <2> QED BY <2>2, <2>3
<1>6. CASE prev # NULL
  <2>1. f = in_follow(t, n) \/ f = NULL
    <3>1. f = in_follow(t, n) \/ f = in_find_smallest_below(t, n)
      BY <1>6 DEF in_next, in_follow
    <3>2. CASE t.rchild[n] # NULL
      BY <3>1, <3>2 DEF in_follow
    <3>3. CASE t.rchild[n] = NULL
      <4>1. in_find_smallest_below(t, n) = NULL
        BY <3>3, TreeLeftmostNull DEF in_find_smallest_below, TreeLeftmost
      <4> QED BY <3>1, <4>1
    <3> QED BY <3>2, <3>3
  <2> QED BY <1>4, <2>1 DEF TreeComesLater, o, n
<1> QED BY <1>5, <1>6 DEF o, n

(* Where every node has two children or none, it passes over none.         *)
TreeForked(t) == \A n \in TreeNodes : (t.lchild[n] = NULL) = (t.rchild[n] = NULL)

(* Where every node has two children or none in_next misses no node.       *)
LEMMA TreeInForked ==
  ASSUME NEW t, NEW D, TreeAgrees(t, D), TreeForked(t), NEW i \in 1..Len(TreeWalk(t, "in")),
         NEW prev, prev = IF i = 1 THEN NULL ELSE TreeWalk(t, "in")[i - 1]
  PROVE  in_next(t, TreeWalk(t, "in")[i], prev) = TreeAfter(TreeWalk(t, "in"), i)
<1> DEFINE o == TreeWalk(t, "in")
           n == o[i]
<1>1. in_follow(t, n) = TreeAfter(o, i)
  BY TreeInFollows
<1>2. TreeListed(o, TreeBelow(D, t.root)) /\ t.root \in TreeNodes
  BY TreeWalkLists, TreeAgreesIs
<1>3. Len(o) \in Nat /\ n \in TreeBelow(D, t.root) /\ n \in TreeNodes
      /\ \A j \in 1..Len(o) : o[j] \in TreeNodes
  <2>1. TreeForest(t.lchild, t.rchild, D) /\ t.root \in TreeNodes \cup {NULL}
    BY TreeAgreesIs
  <2> HIDE DEF o
  <2>2. Len(o) \in Nat /\ \A j \in 1..Len(o) : o[j] \in TreeBelow(D, t.root)
    BY <1>2 DEF TreeListed, o
  <2>3. n \in TreeBelow(D, t.root)
    BY <2>2 DEF o
  <2> QED BY <2>1, <2>2, <2>3, TreeBelowTransitive
<1>4. i \in 1..Len(o) /\ prev = IF i = 1 THEN NULL ELSE o[i - 1]
  OBVIOUS
<1>5. o[1] = TreeLeftmost(t, t.root) /\ t.root # NULL
  <2>1. t.root # NULL
    BY <1>2, TreeNullNoNode
  <2>2. PICK z : TreePath(o, TreeLeftmost(t, t.root), z, TreeInNext(t))
    BY <2>1, TreeWalkPath DEF TreeInFrom
  <2> QED BY <2>1, <2>2 DEF TreePath
<1>6. \A j \in 1..Len(o) : in_follow(t, o[j]) = TreeAfter(o, j)
  BY TreeInFollows
<1> HIDE DEF o, n
<1>7. (t.lchild[n] = NULL) = (t.rchild[n] = NULL)
  BY <1>3 DEF TreeForked
<1>8. in_next(t, n, prev) = in_follow(t, n)
  <2>1. CASE i = 1
    <3>1. n = TreeLeftmost(t, t.root) /\ prev = NULL
      BY <1>4, <1>5, <2>1 DEF n
    <3>2. t.lchild[n] = NULL /\ (n = t.root \/ \E q \in TreeNodes : n = t.lchild[q] /\ n # NULL)
      BY <1>2, <3>1, TreeLeftmostSide
    <3>3. t.rchild[n] = NULL
      BY <1>7, <3>2
    <3>4. t.parent[n] = in_find_smallest_above(t, n)
      <4>1. CASE n = t.root
        BY <1>5, <4>1, TreeAgreesIs, TreeClimbIs DEF in_find_smallest_above
      <4>2. CASE n # t.root
        <5>1. PICK q \in TreeNodes : n = t.lchild[q] /\ n # NULL
          BY <3>2, <4>2
        <5> QED BY <5>1, TreeClimbIs DEF in_find_smallest_above
      <4> QED BY <4>1, <4>2
    <3> QED BY <3>1, <3>3, <3>4 DEF in_next, in_follow
  <2>2. CASE i # 1
    <3>1. i - 1 \in 1..Len(o) /\ (i - 1) + 1 = i /\ i - 1 < Len(o)
      BY <1>3, <1>4, <2>2
    <3>2. prev = o[i - 1] /\ prev # NULL /\ prev \in TreeNodes
      BY <1>3, <1>4, <2>2, <3>1, TreeNullNoNode
    <3>3. in_follow(t, prev) = n
      BY <1>6, <3>1, <3>2 DEF TreeAfter, n
    <3>4. CASE t.rchild[n] # NULL
      BY <3>2, <3>4 DEF in_next, in_follow
    <3>5. CASE t.rchild[n] = NULL
      <4>1. TreeIsLeft(t, n) \/ prev = t.lchild[n]
              \/ (prev = t.parent[n] /\ t.rchild[prev] = n)
        <5>1. SUFFICES ASSUME ~TreeIsLeft(t, n)
                       PROVE  prev = t.parent[n] /\ t.rchild[prev] = n
          OBVIOUS
        <5>2. n # t.root
          <6> SUFFICES ASSUME n = t.root PROVE FALSE
            OBVIOUS
          <6>1. TreeLeftmost(t, t.root) = t.root
            BY <1>2, <1>7, <3>5, TreeLeftmostIs
          <6>2. o[1] = o[i] /\ 1 \in 1..Len(o)
            BY <1>3, <1>4, <1>5, <6>1 DEF n
          <6> QED BY <1>2, <1>4, <2>2, <6>2 DEF TreeListed
        <5> DEFINE q == t.parent[n]
        <5>3. /\ q \in TreeBelow(D, t.root) /\ q \in TreeNodes
              /\ n = t.lchild[q] \/ n = t.rchild[q]
          <6>1. /\ q \in TreeBelow(D, t.root)
                /\ n = t.lchild[q] \/ n = t.rchild[q]
            BY <1>3, <5>2, TreeSomeParent
          <6>2. TreeForest(t.lchild, t.rchild, D)
            BY TreeAgreesIs
          <6> QED BY <1>2, <6>1, <6>2, TreeBelowTransitive
        <5>4. n # NULL /\ n = t.rchild[q]
          BY <1>3, <5>1, <5>3, TreeNullNoNode, TreeKids DEF TreeLeftKid
        <5>5. TreeLeftmost(t, n) = n
          BY <1>3, <1>7, <3>5, TreeLeftmostIs
        <5>6. in_follow(t, q) = n
          BY <5>4, <5>5 DEF in_follow, in_find_smallest_below, TreeLeftmost
        <5>7. PICK j \in 1..Len(o) : o[j] = q
          BY <1>2, <5>3 DEF TreeListed
        <5>8. TreeAfter(o, j) = n
          BY <1>6, <5>6, <5>7
        <5>9. j < Len(o) /\ o[j + 1] = n
          BY <5>4, <5>8 DEF TreeAfter
        <5>10. j + 1 \in 1..Len(o)
          BY <1>3, <5>7, <5>9
        <5>11. j + 1 = i
          BY <1>2, <1>4, <5>9, <5>10 DEF TreeListed, n
        <5>12. j = i - 1
          BY <1>4, <5>7, <5>11
        <5> QED BY <3>2, <5>4, <5>7, <5>12
      <4> QED BY <3>2, <3>5, <4>1 DEF in_next, in_follow
    <3> QED BY <3>4, <3>5
  <2> QED BY <2>1, <2>2
<1> QED BY <1>1, <1>8 DEF o, n

(* The first node of the preorder and of the order is the iterator's; of   *)
(* the postorder it is some node.                                          *)
LEMMA TreeFirstIs ==
  ASSUME NEW t, NEW D, TreeAgrees(t, D)
  PROVE  /\ TreeAfter(TreeWalk(t, "pre"), 0) = TreeFirst(t, "pre")
         /\ TreeAfter(TreeWalk(t, "in"), 0) = TreeFirst(t, "in")
         /\ TreeForked(t) => TreeAfter(TreeWalk(t, "post"), 0) = TreeFirst(t, "post")
         /\ \E j \in Nat : /\ j <= Len(TreeWalk(t, "post"))
                           /\ TreeAfter(TreeWalk(t, "post"), j) = TreeFirst(t, "post")
<1>1. CASE t.root = NULL
  <2>1. /\ TreeWalk(t, "pre") = << >> /\ TreeWalk(t, "in") = << >> /\ TreeWalk(t, "post") = << >>
    BY <1>1, TreeWalkLists
  <2>2. TreeAfter(<< >>, 0) = NULL
    BY DEF TreeAfter
  <2>3. \A m \in {"pre", "in", "post"} : TreeFirst(t, m) = NULL
    BY <1>1, TreeLeftmostNull DEF TreeFirst
  <2>4. 0 \in Nat /\ 0 <= Len(<< >>)
    OBVIOUS
  <2> QED BY <2>1, <2>2, <2>3, <2>4
<1>2. CASE t.root # NULL
  <2>0. /\ TreeFirst(t, "pre") = t.root /\ TreeFirst(t, "in") = TreeLeftmost(t, t.root)
        /\ TreeFirst(t, "post") = TreeLeftmost(t, t.root)
    BY DEF TreeFirst
  <2>a. \A o, a, z, R : TreePath(o, a, z, R) => TreeAfter(o, 0) = a
    <3> SUFFICES ASSUME NEW o, NEW a, NEW z, NEW R, TreePath(o, a, z, R)
                 PROVE  TreeAfter(o, 0) = a
      OBVIOUS
    <3>1. 1 \in 1..Len(o)
      BY DEF TreePath
    <3> QED BY <3>1, TreePathAfter
  <2>1. TreeAfter(TreeWalk(t, "pre"), 0) = t.root
    BY <1>2, <2>a, TreeWalkPath DEF TreePreFrom
  <2>2. TreeAfter(TreeWalk(t, "in"), 0) = TreeLeftmost(t, t.root)
    BY <1>2, <2>a, TreeWalkPath DEF TreeInFrom
  <2>3. ASSUME TreeForked(t) PROVE TreeAfter(TreeWalk(t, "post"), 0) = TreeLeftmost(t, t.root)
    <3>1. TreeAfter(TreeWalk(t, "post"), 0) = TreePostFirst(t, t.root)
      BY <1>2, <2>a, TreeWalkPath
    <3>2. TreePostDown(t) = t.lchild
      <4>1. t.lchild \in TreeLinks
        BY TreeAgreesIs DEF TreeForest
      <4>2. \A m \in TreeNodes :
              t.lchild[m] = IF t.lchild[m] # NULL THEN t.lchild[m] ELSE t.rchild[m]
        BY <2>3 DEF TreeForked
      <4> QED BY <4>1, <4>2 DEF TreePostDown, TreeLinks
    <3> QED BY <3>1, <3>2 DEF TreePostFirst, TreeLeftmost
  <2>4. \E j \in Nat : /\ j <= Len(TreeWalk(t, "post"))
                       /\ TreeAfter(TreeWalk(t, "post"), j) = TreeLeftmost(t, t.root)
    <3> DEFINE o == TreeWalk(t, "post")
    <3>1. TreeListed(o, TreeBelow(D, t.root))
      BY TreeWalkLists
    <3>2. t.root \in TreeNodes
      BY <1>2, TreeAgreesIs
    <3>3. TreeLeftmost(t, t.root) \in TreeBelow(D, t.root)
      BY <1>2, <3>2, TreeLeftmostIs DEF TreeBelow
    <3> HIDE DEF o
    <3>4. Len(o) \in Nat /\ \E i \in 1..Len(o) : o[i] = TreeLeftmost(t, t.root)
      BY <3>1, <3>3 DEF TreeListed
    <3>5. PICK i \in 1..Len(o) : o[i] = TreeLeftmost(t, t.root)
      BY <3>4
    <3>6. i - 1 \in Nat /\ i - 1 < Len(o) /\ i - 1 <= Len(o) /\ (i - 1) + 1 = i
      BY <3>4
    <3>7. TreeAfter(o, i - 1) = TreeLeftmost(t, t.root)
      BY <3>5, <3>6 DEF TreeAfter
    <3> QED BY <3>6, <3>7 DEF o
  <2> QED BY <2>0, <2>1, <2>2, <2>3, <2>4
<1> QED BY <1>1, <1>2
-----------------------------------------------------------------------------
(* What an iterator is, and what a call does to it.                        *)
TreeIteratorFields == {"marker", "current", "seen", "ended", "stuck", "next", "queue"}
TreeOrders == {"pre", "in", "post"}

TreeFollow(t, marker, n, prev) ==
  CASE marker = "pre" -> pre_next(t, n)
    [] marker = "in" -> in_next(t, n, prev)
    [] marker = "post" -> post_next(t, n, prev)

(* The iterator has handed out all but what it holds back, or is stuck, or *)
(* has handed out one node more.                                           *)
TreeHandsOut(t, it, it2) ==
  /\ DOMAIN it2 = TreeIteratorFields /\ it2.marker = it.marker
  /\ \/ /\ it.next = NULL /\ it2.next = NULL /\ it2.ended = TRUE
        /\ it2.stuck = it.stuck /\ it2.seen = it.seen
     \/ /\ it2.stuck = TRUE /\ it2.ended = it.ended /\ it2.next = it.next
        /\ it2.seen = it.seen /\ it2.current = it.current
     \/ /\ it.next # NULL /\ (it.marker = "pre" => ~PreSticks(t, it.next))
        /\ it2.current = it.next /\ it2.seen = Append(it.seen, it.next)
        /\ it2.next = TreeFollow(t, it.marker, it.next, it.current)
        /\ it2.ended = it.ended /\ it2.stuck = it.stuck

(* What a call does, for the three depth-first orders.                     *)
LEMMA TreeIteratorMoves ==
  ASSUME NEW t, NEW it, DOMAIN it = TreeIteratorFields, it.marker \in TreeOrders
  PROVE  TreeHandsOut(t, it, tree_iterator_next(t, it))
<1> DEFINE n == it.next
           follow == TreeFollow(t, it.marker, n, it.current)
           it2 == tree_iterator_next(t, it)
<1>1. it.marker # "bfs"
  BY DEF TreeOrders
<1>2. it2 = IF n = NULL THEN TreeEnds(it)
            ELSE IF it.marker = "pre" /\ PreSticks(t, n) THEN [it EXCEPT !.stuck = TRUE]
            ELSE [it EXCEPT !.current = n, !.next = follow, !.seen = Append(@, n)]
  <2>1. CASE n = NULL
    BY <1>1, <2>1 DEF tree_iterator_next
  <2>2. CASE n # NULL /\ it.marker = "pre" /\ PreSticks(t, n)
    BY <1>1, <2>2 DEF tree_iterator_next
  <2>3. CASE n # NULL /\ ~(it.marker = "pre" /\ PreSticks(t, n))
    <3>1. CASE it.marker = "pre"
      BY <1>1, <2>3, <3>1 DEF tree_iterator_next, TreeFollow
    <3>2. CASE it.marker = "in"
      BY <1>1, <2>3, <3>2 DEF tree_iterator_next, TreeFollow
    <3>3. CASE it.marker = "post"
      BY <1>1, <2>3, <3>3 DEF tree_iterator_next, TreeFollow
    <3> QED BY <3>1, <3>2, <3>3 DEF TreeOrders
  <2> QED BY <2>1, <2>2, <2>3
<1> HIDE DEF follow, it2
<1>3. CASE n = NULL
  <2>1. it2 = [it EXCEPT !.current = it.next, !.next = NULL, !.ended = TRUE]
    BY <1>2, <1>3 DEF TreeEnds
  <2> QED BY <1>3, <2>1 DEF TreeHandsOut, TreeIteratorFields, it2
<1>4. CASE n # NULL /\ it.marker = "pre" /\ PreSticks(t, n)
  <2>1. it2 = [it EXCEPT !.stuck = TRUE]
    BY <1>2, <1>4
  <2> QED BY <2>1 DEF TreeHandsOut, TreeIteratorFields, it2
<1>5. CASE n # NULL /\ ~(it.marker = "pre" /\ PreSticks(t, n))
  <2>1. it2 = [it EXCEPT !.current = n, !.next = follow, !.seen = Append(@, n)]
    BY <1>2, <1>5
  <2> QED BY <1>5, <2>1 DEF TreeHandsOut, TreeIteratorFields, it2, follow
<1> QED BY <1>3, <1>4, <1>5

(* Which iterators hand out every node from the one they begin with.       *)
TreeExact(t, marker) == marker \in {"pre", "post"} \/ (marker = "in" /\ TreeForked(t))

TreeGoesOn(t, marker, o, j, i) ==
  LET prev == IF i = j + 1 THEN NULL ELSE o[i - 1]
  IN (marker = "pre" /\ PreSticks(t, o[i])) \/ TreeFollow(t, marker, o[i], prev) = TreeAfter(o, i)

LEMMA TreeFollowsExactly ==
  ASSUME NEW t, NEW D, TreeAgrees(t, D), NEW marker \in TreeOrders, TreeExact(t, marker),
         NEW j \in Nat, TreeAfter(TreeWalk(t, marker), j) = TreeFirst(t, marker),
         NEW i \in 1..Len(TreeWalk(t, marker)), j < i
  PROVE  TreeGoesOn(t, marker, TreeWalk(t, marker), j, i)
<1> DEFINE o == TreeWalk(t, marker)
           prev == IF i = j + 1 THEN NULL ELSE o[i - 1]
<1>1. TreeListed(o, TreeBelow(D, t.root))
  BY TreeWalkLists DEF TreeOrders
<1>2. i \in 1..Len(o) /\ TreeAfter(o, j) = TreeFirst(t, marker)
  OBVIOUS
<1> SUFFICES TreeGoesOn(t, marker, o, j, i)
  OBVIOUS
<1>a. /\ marker = "pre" => o = TreeWalk(t, "pre")
      /\ marker = "in" => o = TreeWalk(t, "in")
      /\ marker = "post" => o = TreeWalk(t, "post")
  OBVIOUS
<1> HIDE DEF o
<1>3. Len(o) \in Nat /\ o \in Seq(TreeNodes)
  BY <1>1 DEF TreeListed
<1>4. j + 1 \in 1..Len(o) /\ TreeFirst(t, marker) = o[j + 1]
  <2>1. j < Len(o)
    BY <1>2, <1>3
  <2> QED BY <1>2, <1>3, <2>1 DEF TreeAfter
<1>5. i # j + 1 => prev # NULL /\ prev \in TreeNodes
  BY <1>2, <1>3, TreeNullNoNode
<1>6. CASE marker = "pre"
  <2>1. PreSticks(t, o[i]) \/ pre_next(t, o[i]) = TreeAfter(o, i)
    BY <1>2, <1>6, <1>a, TreePreSteps
  <2> QED BY <1>6, <2>1 DEF TreeGoesOn, TreeFollow
<1>7. CASE marker = "post"
  <2>1. prev = NULL => o[i] = TreeLeftmost(t, t.root)
    BY <1>4, <1>5, <1>7 DEF TreeFirst
  <2> HIDE DEF prev
  <2>2. post_next(t, o[i], prev) = TreeAfter(o, i)
    BY <1>2, <1>7, <1>a, <2>1, TreePostSteps
  <2>3. TreeFollow(t, marker, o[i], prev) = TreeAfter(o, i)
    BY <1>7, <2>2 DEF TreeFollow
  <2> QED BY <2>3 DEF TreeGoesOn, prev
<1>8. CASE marker = "in"
  <2>1. j = 0
    <3>1. TreeAfter(o, 0) = TreeFirst(t, marker)
      BY <1>8, <1>a, TreeFirstIs
    <3>2. 1 \in 1..Len(o) /\ o[1] = o[j + 1]
      BY <1>2, <1>3, <1>4, <3>1 DEF TreeAfter
    <3>3. 1 = j + 1
      BY <1>1, <1>4, <3>2 DEF TreeListed
    <3> QED BY <3>3
  <2>2. prev = IF i = 1 THEN NULL ELSE o[i - 1]
    BY <2>1
  <2>3. TreeForked(t)
    BY <1>8 DEF TreeExact
  <2> HIDE DEF prev
  <2>4. in_next(t, o[i], prev) = TreeAfter(o, i)
    BY <1>2, <1>8, <1>a, <2>2, <2>3, TreeInForked
  <2>5. TreeFollow(t, marker, o[i], prev) = TreeAfter(o, i)
    BY <1>8, <2>4 DEF TreeFollow
  <2> QED BY <2>5 DEF TreeGoesOn, prev
<1> QED BY <1>6, <1>7, <1>8 DEF TreeOrders

(* Some nodes of o from the one after the j-th on were handed out.         *)
TreeRun(it, o, j) ==
  LET k == Len(it.seen)
  IN /\ it.seen \in Seq(TreeNodes) /\ j + k <= Len(o)
     /\ \A i \in 1..k : it.seen[i] = o[j + i]
     /\ it.next = TreeAfter(o, j + k)
     /\ it.ended \/ it.current = IF k = 0 THEN NULL ELSE o[j + k]
     /\ it.ended => it.next = NULL
TreeExactly(t, it) ==
  \E j \in Nat : /\ TreeAfter(TreeWalk(t, it.marker), j) = TreeFirst(t, it.marker)
                 /\ TreeRun(it, TreeWalk(t, it.marker), j)

(* It goes on handing out the walk from the j-th node on.                  *)
LEMMA TreeExactlyGoesOn ==
  ASSUME NEW t, NEW D, TreeAgrees(t, D), NEW it, DOMAIN it = TreeIteratorFields,
         it.marker \in TreeOrders, TreeExact(t, it.marker), ~it.ended, TreeExactly(t, it),
         NEW it2, TreeHandsOut(t, it, it2)
  PROVE  TreeExactly(t, it2)
<1> DEFINE o == TreeWalk(t, it.marker)
           k == Len(it.seen)
<1>1. PICK j \in Nat : TreeAfter(o, j) = TreeFirst(t, it.marker) /\ TreeRun(it, o, j)
  BY DEF TreeExactly
<1>2. TreeListed(o, TreeBelow(D, t.root))
  BY TreeWalkLists DEF TreeOrders
<1>3. o \in Seq(TreeNodes) /\ Len(o) \in Nat
  BY <1>2 DEF TreeListed
<1>4. /\ it.seen \in Seq(TreeNodes) /\ k \in Nat /\ j + k <= Len(o)
      /\ \A i \in 1..k : it.seen[i] = o[j + i]
      /\ it.next = TreeAfter(o, j + k)
      /\ it.current = IF k = 0 THEN NULL ELSE o[j + k]
  BY <1>1 DEF TreeRun
<1>5. it2.marker = it.marker
  BY DEF TreeHandsOut
<1> SUFFICES TreeRun(it2, o, j)
  BY <1>1, <1>5 DEF TreeExactly
<1>6. \A i \in 1..Len(o) : j < i => TreeGoesOn(t, it.marker, o, j, i)
  BY <1>1, TreeFollowsExactly
<1> HIDE DEF o
<1>7. CASE it.next = NULL /\ it2.next = NULL /\ it2.ended = TRUE /\ it2.seen = it.seen
  BY <1>4, <1>7 DEF TreeRun
<1>8. CASE /\ it2.ended = it.ended /\ it2.next = it.next
           /\ it2.seen = it.seen /\ it2.current = it.current
  BY <1>4, <1>8 DEF TreeRun
<1>9. CASE /\ it.next # NULL /\ (it.marker = "pre" => ~PreSticks(t, it.next))
           /\ it2.current = it.next /\ it2.seen = Append(it.seen, it.next)
           /\ it2.next = TreeFollow(t, it.marker, it.next, it.current)
           /\ it2.ended = it.ended
  <2> DEFINE i == j + k + 1
  <2>1. i \in 1..Len(o) /\ j < i /\ it.next = o[i] /\ j + (k + 1) = i /\ i - 1 = j + k
    <3>1. j + k < Len(o) /\ it.next = o[j + k + 1]
      <4>1. TreeAfter(o, j + k) # NULL
        BY <1>4, <1>9
      <4>2. j + k < Len(o) /\ TreeAfter(o, j + k) = o[j + k + 1]
        BY <4>1 DEF TreeAfter
      <4> QED BY <1>4, <4>2
    <3>2. /\ j \in Nat /\ k \in Nat /\ Len(o) \in Nat
      BY <1>3, <1>4
    <3> QED BY <3>1, <3>2
  <2>2. it.current = IF i = j + 1 THEN NULL ELSE o[i - 1]
    <3>1. CASE k = 0
      <4>1. i = j + 1
        BY <3>1
      <4> QED BY <1>4, <3>1, <4>1
    <3>2. CASE k # 0
      <4>1. i # j + 1
        BY <1>4, <3>2
      <4> QED BY <1>4, <2>1, <3>2, <4>1
    <3> QED BY <3>1, <3>2
  <2>a. TreeGoesOn(t, it.marker, o, j, i)
    BY <1>6, <2>1
  <2> HIDE DEF i
  <2>3. it2.next = TreeAfter(o, i)
    <3> DEFINE prev == IF i = j + 1 THEN NULL ELSE o[i - 1]
    <3>1. \/ it.marker = "pre" /\ PreSticks(t, o[i])
          \/ TreeFollow(t, it.marker, o[i], prev) = TreeAfter(o, i)
      BY <2>a DEF TreeGoesOn
    <3>2. it.current = prev
      BY <2>2
    <3> HIDE DEF prev
    <3> QED BY <1>9, <2>1, <3>1, <3>2
  <2>4. it.next \in TreeNodes
    BY <1>3, <2>1
  <2>5. /\ it2.seen \in Seq(TreeNodes) /\ Len(it2.seen) = k + 1
        /\ \A m \in 1..k : it2.seen[m] = it.seen[m]
        /\ it2.seen[k + 1] = it.next
    BY <1>4, <1>9, <2>4
  <2>6. \A m \in 1..k + 1 : it2.seen[m] = o[j + m]
    <3> TAKE m \in 1..k + 1
    <3>1. m \in 1..k \/ m = k + 1
      BY <1>4
    <3> QED BY <1>4, <2>1, <2>5, <3>1
  <2>7. k + 1 # 0 /\ i <= Len(o)
    BY <1>3, <1>4, <2>1
  <2>8. ~it2.ended
    BY <1>9
  <2> HIDE DEF k
  <2> QED BY <1>9, <2>1, <2>3, <2>5, <2>6, <2>7, <2>8 DEF TreeRun
<1> QED BY <1>7, <1>8, <1>9 DEF TreeHandsOut

(* In order: what was handed out, and what is next, are in their order.    *)
TreeBefore(s, o, i) == \A k \in 1..Len(s) : \E a \in 1..Len(o) : a < i /\ o[a] = s[k]
TreeInLine(it, o) ==
  /\ it.seen \in Seq(TreeNodes) /\ TreeKeepsOrder(it.seen, o)
  /\ it.next = NULL \/ \E i \in 1..Len(o) : o[i] = it.next /\ TreeBefore(it.seen, o, i)
  /\ it.ended \/ it.current # NULL \/ it.next = TreeAfter(o, 0)

(* One more at the end of what keeps the order of o.                       *)
LEMMA TreeKeepsOneMore ==
  ASSUME NEW o, NEW A, TreeListed(o, A), NEW s \in Seq(TreeNodes), TreeKeepsOrder(s, o),
         NEW i \in 1..Len(o), TreeBefore(s, o, i)
  PROVE  TreeKeepsOrder(Append(s, o[i]), o)
<1> DEFINE n == o[i]
           k == Len(s)
           u == Append(s, n)
<1>1. /\ o \in Seq(TreeNodes) /\ Len(o) \in Nat /\ n \in TreeNodes /\ k \in Nat
      /\ DOMAIN o = 1..Len(o) /\ DOMAIN s = 1..k
  BY DEF TreeListed
<1>2. /\ DOMAIN u = 1..k + 1 /\ u[k + 1] = n
      /\ \A m \in 1..k : u[m] = s[m]
  BY <1>1
<1> HIDE DEF n, k, u
<1>3. \A m \in 1..k + 1 : m \in 1..k \/ m = k + 1
  BY <1>1
<1>4. ToSet(u) \subseteq ToSet(o)
  <2>1. \A m \in 1..k : s[m] \in ToSet(o)
    BY <1>1 DEF TreeKeepsOrder, ToSet
  <2>2. n \in ToSet(o)
    BY <1>1 DEF ToSet, n
  <2>3. \A m \in 1..k + 1 : u[m] \in ToSet(o)
    BY <1>2, <1>3, <2>1, <2>2
  <2> QED BY <1>2, <2>3 DEF ToSet
<1>5. ASSUME NEW m \in 1..k + 1, NEW p \in 1..k + 1, m < p
      PROVE  \E a, b \in DOMAIN o : a < b /\ o[a] = u[m] /\ o[b] = u[p]
  <2>1. m \in 1..k
    BY <1>1, <1>5
  <2>2. CASE p \in 1..k
    <3>1. \E a, b \in DOMAIN o : a < b /\ o[a] = s[m] /\ o[b] = s[p]
      <4>1. m \in DOMAIN s /\ p \in DOMAIN s
        BY <1>1, <2>1, <2>2
      <4>2. \A x, y \in DOMAIN s : x < y => \E a, b \in DOMAIN o : a < b /\ o[a] = s[x] /\ o[b] = s[y]
        BY DEF TreeKeepsOrder
      <4> QED BY <1>5, <4>1, <4>2
    <3> QED BY <1>2, <2>1, <2>2, <3>1
  <2>3. CASE p = k + 1
    <3>1. PICK a \in 1..Len(o) : a < i /\ o[a] = s[m]
      BY <2>1 DEF TreeBefore, k
    <3>2. u[p] = o[i] /\ u[m] = s[m] /\ i \in 1..Len(o)
      BY <1>2, <2>1, <2>3 DEF n
    <3> QED BY <1>1, <3>1, <3>2
  <2> QED BY <1>3, <2>2, <2>3
<1>6. \A m, p \in DOMAIN u : m < p =>
        \E a, b \in DOMAIN o : a < b /\ o[a] = u[m] /\ o[b] = u[p]
  BY <1>2, <1>5
<1> QED BY <1>4, <1>6 DEF TreeKeepsOrder, u, n

LEMMA TreeInLineGoesOn ==
  ASSUME NEW t, NEW D, TreeAgrees(t, D), NEW it, DOMAIN it = TreeIteratorFields,
         it.marker = "in", ~it.ended, TreeInLine(it, TreeWalk(t, "in")),
         NEW it2, TreeHandsOut(t, it, it2)
  PROVE  TreeInLine(it2, TreeWalk(t, "in"))
<1> DEFINE o == TreeWalk(t, "in")
           k == Len(it.seen)
<1>1. /\ it.seen \in Seq(TreeNodes) /\ TreeKeepsOrder(it.seen, o)
      /\ it.next = NULL \/ \E i \in 1..Len(o) : o[i] = it.next /\ TreeBefore(it.seen, o, i)
      /\ it.current # NULL \/ it.next = TreeAfter(o, 0)
  BY DEF TreeInLine
<1>2. TreeListed(o, TreeBelow(D, t.root))
  BY TreeWalkLists
<1>3. \A i \in 1..Len(o) : \A prev : (prev = NULL => i = 1) => TreeComesLater(o, i, in_next(t, o[i], prev))
  BY TreeInSteps
<1> SUFFICES TreeInLine(it2, o)
  OBVIOUS
<1> HIDE DEF o
<1>4. o \in Seq(TreeNodes) /\ Len(o) \in Nat
  BY <1>2 DEF TreeListed
<1>5. CASE it.next = NULL /\ it2.next = NULL /\ it2.ended = TRUE /\ it2.seen = it.seen
  BY <1>1, <1>5 DEF TreeInLine
<1>6. CASE /\ it2.ended = it.ended /\ it2.next = it.next
           /\ it2.seen = it.seen /\ it2.current = it.current
  BY <1>1, <1>6 DEF TreeInLine
<1>7. CASE /\ it.next # NULL
           /\ it2.current = it.next /\ it2.seen = Append(it.seen, it.next)
           /\ it2.next = TreeFollow(t, it.marker, it.next, it.current)
  <2>1. PICK i \in 1..Len(o) : o[i] = it.next /\ TreeBefore(it.seen, o, i)
    BY <1>1, <1>7
  <2>2. it2.seen \in Seq(TreeNodes) /\ TreeKeepsOrder(it2.seen, o)
    <3>1. TreeKeepsOrder(Append(it.seen, o[i]), o)
      BY <1>1, <1>2, <2>1, TreeKeepsOneMore
    <3>2. o[i] \in TreeNodes
      BY <1>4
    <3> QED BY <1>1, <1>7, <2>1, <3>1, <3>2
  <2>3. it2.next = in_next(t, o[i], it.current)
    BY <1>7, <2>1 DEF TreeFollow
  <2>4. it.current = NULL => i = 1
    <3> SUFFICES ASSUME it.current = NULL PROVE i = 1
      OBVIOUS
    <3>1. TreeAfter(o, 0) = o[i] /\ TreeAfter(o, 0) # NULL
      BY <1>1, <1>7, <2>1
    <3>2. o[1] = o[i] /\ 1 \in 1..Len(o)
      BY <1>4, <3>1 DEF TreeAfter
    <3> QED BY <1>2, <3>2 DEF TreeListed
  <2>5. TreeComesLater(o, i, it2.next)
    BY <1>3, <2>3, <2>4
  <2>6. ASSUME it2.next # NULL
        PROVE  \E j \in 1..Len(o) : o[j] = it2.next /\ TreeBefore(it2.seen, o, j)
    <3>1. PICK j \in 1..Len(o) : i < j /\ o[j] = it2.next
      BY <2>5, <2>6 DEF TreeComesLater
    <3>2. ASSUME NEW m \in 1..k + 1
          PROVE  \E a \in 1..Len(o) : a < j /\ o[a] = it2.seen[m]
      <4>1. k \in Nat /\ (m \in 1..k \/ m = k + 1)
        BY <1>1
      <4>2. CASE m \in 1..k
        <5>1. it2.seen[m] = it.seen[m]
          BY <1>1, <1>7, <4>2
        <5>2. PICK a \in 1..Len(o) : a < i /\ o[a] = it.seen[m]
          BY <2>1, <4>2 DEF TreeBefore
        <5>3. a < j
          BY <1>4, <3>1, <5>2
        <5> QED BY <5>1, <5>2, <5>3
      <4>3. CASE m = k + 1
        <5>1. it2.seen[m] = o[i]
          BY <1>1, <1>7, <2>1, <4>3
        <5> QED BY <3>1, <5>1
      <4> QED BY <4>1, <4>2, <4>3
    <3>3. Len(it2.seen) = k + 1
      BY <1>1, <1>7
    <3>4. TreeBefore(it2.seen, o, j)
      BY <3>2, <3>3 DEF TreeBefore
    <3> QED BY <3>1, <3>4
  <2>7. it2.current # NULL
    BY <1>7
  <2> QED BY <2>2, <2>6, <2>7 DEF TreeInLine
<1> QED BY <1>5, <1>6, <1>7 DEF TreeHandsOut
-----------------------------------------------------------------------------
(* Breadth-first: z are the nodes handed out, k of them, and those in the  *)
(* queue.  The parent of each but the first was handed out, in their order,*)
(* and the children of what was handed out are there, side by side.        *)
TreeFanLinks(t, z, k) ==
  /\ \A i \in 2..Len(z) : \E a \in 1..k : a < i /\ t.parent[z[i]] = z[a]
  /\ \A i, j \in 2..Len(z), a, b \in 1..k :
       i < j /\ t.parent[z[i]] = z[a] /\ t.parent[z[j]] = z[b] => a <= b
  /\ \A i \in 1..k :
       /\ t.lchild[z[i]] # NULL => \E j \in 1..Len(z) : z[j] = t.lchild[z[i]]
       /\ t.rchild[z[i]] # NULL => \E j \in 1..Len(z) : z[j] = t.rchild[z[i]]
       /\ \A j \in 1..Len(z) : z[j] = t.lchild[z[i]] /\ t.rchild[z[i]] # NULL =>
            j + 1 \in 1..Len(z) /\ z[j + 1] = t.rchild[z[i]]
TreeFan(t, D, z, k) ==
  /\ z \in Seq(TreeNodes) /\ Len(z) \in Nat \ {0} /\ k \in 0..Len(z) /\ z[1] = t.root
  /\ \A i \in 1..Len(z) : z[i] \in TreeBelow(D, t.root)
  /\ \A i, j \in 1..Len(z) : z[i] = z[j] => i = j
  /\ TreeFanLinks(t, z, k)
TreeFanOf(it, z, k) ==
  /\ Len(it.seen) = k /\ it.seen \in Seq(TreeNodes) /\ \A i \in 1..k : it.seen[i] = z[i]
  /\ it.queue \in Seq(TreeNodes) /\ Len(it.queue) = Len(z) - k
  /\ \A i \in 1..(Len(z) - k) : it.queue[i] = z[k + i]
TreeFans(t, D, it) ==
  \/ /\ t.root = NULL /\ it.seen = << >> /\ it.queue \in {<<NULL>>, << >>}
  \/ \E z, k : TreeFan(t, D, z, k) /\ TreeFanOf(it, z, k) /\ (it.ended => k = Len(z))

TreeChildren(t, n, ch) ==
  /\ ch \in Seq(TreeNodes) /\ Len(ch) \in 0..2
  /\ \A i \in 1..Len(ch) : ch[i] # NULL /\ (ch[i] = t.lchild[n] \/ ch[i] = t.rchild[n])
  /\ t.lchild[n] # NULL => 1 \in 1..Len(ch) /\ ch[1] = t.lchild[n]
  /\ t.rchild[n] # NULL => \E i \in 1..Len(ch) : ch[i] = t.rchild[n]
  /\ t.lchild[n] # NULL /\ t.rchild[n] # NULL => 2 \in 1..Len(ch) /\ ch[2] = t.rchild[n]
  /\ \A i, j \in 1..Len(ch) : ch[i] = ch[j] => i = j

(* The children that go into the queue.                                    *)
LEMMA TreeChildrenIs ==
  ASSUME NEW t, NEW D, TreeAgrees(t, D), NEW n \in TreeNodes
  PROVE  TreeChildren(t, n, bfs_children(t, n))
<1> DEFINE a == t.lchild[n]
           b == t.rchild[n]
           ch == bfs_children(t, n)
<1>1. a \in TreeNodes \cup {NULL} /\ b \in TreeNodes \cup {NULL} /\ (a # NULL => a # b)
  <2>1. TreeForest(t.lchild, t.rchild, D)
    BY TreeAgreesIs
  <2> QED BY <2>1, TreeChild, TreeKids DEF TreeLeftKid, TreeRightKid
<1>2. ch = (IF a = NULL THEN << >> ELSE <<a>>) \o (IF b = NULL THEN << >> ELSE <<b>>)
  BY DEF bfs_children
<1> HIDE DEF ch
<1>3. CASE a = NULL /\ b = NULL
  <2>1. ch = << >>
    BY <1>2, <1>3
  <2> QED BY <1>3, <2>1 DEF TreeChildren, ch
<1>4. CASE a # NULL /\ b = NULL
  <2>1. ch = <<a>> /\ a \in TreeNodes
    BY <1>1, <1>2, <1>4
  <2> QED BY <1>4, <2>1 DEF TreeChildren, ch
<1>5. CASE a = NULL /\ b # NULL
  <2>1. ch = <<b>> /\ b \in TreeNodes
    BY <1>1, <1>2, <1>5
  <2> QED BY <1>5, <2>1 DEF TreeChildren, ch
<1>6. CASE a # NULL /\ b # NULL
  <2>1. ch = <<a>> \o <<b>> /\ a \in TreeNodes /\ b \in TreeNodes /\ a # b
    BY <1>1, <1>2, <1>6
  <2>2. /\ ch \in Seq(TreeNodes) /\ Len(ch) = 2 /\ ch[1] = a /\ ch[2] = b
    BY <2>1
  <2>3. (\A i \in 1..2 : i = 1 \/ i = 2) /\ 1 \in 1..2 /\ 2 \in 1..2
    OBVIOUS
  <2> QED BY <1>6, <2>1, <2>2, <2>3 DEF TreeChildren, ch
<1> QED BY <1>3, <1>4, <1>5, <1>6

(* As many nodes as there are, at most, one after the other.               *)
LEMMA TreeDistinctFit ==
  ASSUME NEW z \in Seq(TreeNodes), \A i, j \in 1..Len(z) : z[i] = z[j] => i = j
  PROVE  Len(z) <= TreeMaxNodes /\ Cardinality(ToSet(z)) = Len(z)
<1> DEFINE A == {z[i] : i \in 1..Len(z)}
<1>1. A \in SUBSET TreeNodes
  OBVIOUS
<1>2. TreeListed(z, A)
  BY DEF TreeListed
<1>3. Range(z) = A /\ Cardinality(Range(z)) = Len(z)
  <2> HIDE DEF A
  <2>1. A \subseteq TreeNodes
    BY <1>1
  <2>2. \A val : Range(z) = A /\ Cardinality(Range(z)) = Len(z)
    BY <1>2, <2>1, TreeListedCounts
  <2> QED BY <2>2
<1>4. ToSet(z) = A
  BY DEF ToSet
<1>5. Cardinality(A) <= Cardinality(TreeNodes)
  BY <1>1, TreeNodesFinite, FS_Subset
<1>6. Cardinality(TreeNodes) = TreeMaxNodes
  BY TreeAssumption, FS_Interval DEF TreeNodes
<1> HIDE DEF A
<1> QED BY <1>3, <1>4, <1>5, <1>6

(* The parent of the i-th is the a-th; of the first m it is among the first*)
(* k, and of the others the one after those.                               *)
TreeParentAt(par, w, m, k, i, a) ==
  /\ a < i /\ par[w[i]] = w[a]
  /\ i \in 1..m => a \in 1..k
  /\ i \notin 1..m => a = k + 1

(* The parents, and where the children are, of nodes of a fan.             *)
LEMMA TreeFanGrows ==
  ASSUME NEW t, NEW D, TreeAgrees(t, D), NEW z, NEW k, TreeFan(t, D, z, k), k < Len(z),
         NEW ch, TreeChildren(t, z[k + 1], ch)
  PROVE  TreeFan(t, D, z \o ch, k + 1)
<1> DEFINE m == Len(z)
           p == Len(ch)
           w == z \o ch
           n == z[k + 1]
           R == TreeBelow(D, t.root)
           par == t.parent
<1>1. /\ z \in Seq(TreeNodes) /\ m \in Nat \ {0} /\ k \in 0..m /\ z[1] = t.root
      /\ \A i \in 1..m : z[i] \in R
      /\ \A i, j \in 1..m : z[i] = z[j] => i = j
      /\ k < m
  BY DEF TreeFan
<1>2. /\ \A i \in 2..m : \E a \in 1..k : a < i /\ par[z[i]] = z[a]
      /\ \A i, j \in 2..m, a, b \in 1..k :
           i < j /\ par[z[i]] = z[a] /\ par[z[j]] = z[b] => a <= b
      /\ \A i \in 1..k :
           /\ t.lchild[z[i]] # NULL => \E j \in 1..m : z[j] = t.lchild[z[i]]
           /\ t.rchild[z[i]] # NULL => \E j \in 1..m : z[j] = t.rchild[z[i]]
           /\ \A j \in 1..m : z[j] = t.lchild[z[i]] /\ t.rchild[z[i]] # NULL =>
                j + 1 \in 1..m /\ z[j + 1] = t.rchild[z[i]]
  BY DEF TreeFan, TreeFanLinks
<1>3. /\ ch \in Seq(TreeNodes) /\ p \in 0..2
      /\ \A i \in 1..p : ch[i] # NULL /\ (ch[i] = t.lchild[n] \/ ch[i] = t.rchild[n])
      /\ t.lchild[n] # NULL => 1 \in 1..p /\ ch[1] = t.lchild[n]
      /\ t.rchild[n] # NULL => \E i \in 1..p : ch[i] = t.rchild[n]
      /\ t.lchild[n] # NULL /\ t.rchild[n] # NULL => 2 \in 1..p /\ ch[2] = t.rchild[n]
      /\ \A i, j \in 1..p : ch[i] = ch[j] => i = j
  BY DEF TreeChildren
<1>4. /\ w \in Seq(TreeNodes) /\ Len(w) = m + p
      /\ \A i \in 1..m : w[i] = z[i]
      /\ \A i \in 1..p : w[m + i] = ch[i]
  BY <1>1, <1>3
<1>5. /\ k + 1 \in 1..m /\ n \in R /\ n = z[k + 1] /\ n # NULL /\ n \in TreeNodes
      /\ t.root # NULL => par[t.root] = NULL
  <2>1. k + 1 \in 1..m /\ n = z[k + 1]
    BY <1>1
  <2>2. n \in R /\ n \in TreeNodes
    BY <1>1, <2>1
  <2> QED BY <2>1, <2>2, TreeNullNoNode, TreeAgreesIs
<1>6. \A i \in 1..p : par[ch[i]] = n /\ ch[i] \in R
  <2> TAKE i \in 1..p
  <2>1. ch[i] # NULL /\ (ch[i] = t.lchild[n] \/ ch[i] = t.rchild[n])
    BY <1>3
  <2>2. par[ch[i]] = n
    BY <1>5, <2>1, TreeKids DEF TreeLeftKid, TreeRightKid
  <2>3. TreeForest(t.lchild, t.rchild, D) /\ t.root \in TreeNodes \cup {NULL}
    BY TreeAgreesIs
  <2>4. D[n] \subseteq R
    BY <1>5, <2>3, TreeBelowTransitive
  <2>5. ch[i] \in TreeNodes /\ ch[i] \in D[n]
    <3>1. /\ t.lchild[n] \in TreeNodes \cup {NULL} /\ t.rchild[n] \in TreeNodes \cup {NULL}
          /\ D[n] = {n} \cup TreeBelow(D, t.lchild[n]) \cup TreeBelow(D, t.rchild[n])
      BY <1>5, <2>3, TreeChild
    <3>2. ch[i] \in TreeNodes
      BY <2>1, <3>1
    <3>3. ch[i] \in D[ch[i]]
      BY <2>3, <3>2, TreeSelf
    <3> QED BY <2>1, <3>1, <3>2, <3>3 DEF TreeBelow
  <2> QED BY <2>2, <2>4, <2>5
<1>a. \A i \in 1..m, a \in 1..k : par[z[i]] = z[a] => par[z[i]] # n
  BY <1>1, <1>5
<1> HIDE DEF m, p, w, n, R, par
<1>7. \A i \in 1..m : par[z[i]] # n
  <2> TAKE i \in 1..m
  <2>1. CASE i = 1
    BY <1>1, <1>5, <2>1, TreeNullNoNode
  <2>2. CASE i # 1
    <3>1. i \in 2..m
      BY <1>1, <2>2
    <3>2. PICK a \in 1..k : par[z[i]] = z[a]
      BY <1>2, <3>1
    <3> QED BY <1>a, <3>2
  <2> QED BY <2>1, <2>2
<1>8. \A i \in 1..m + p : i \in 1..m \/ (i - m \in 1..p /\ i = m + (i - m))
  BY <1>1, <1>3
<1>9. /\ \A i \in 1..m : i \in 1..m + p
      /\ \A i \in 1..p : m + i \in 1..m + p
  BY <1>1, <1>3
<1>10. \A i \in 1..m + p : w[i] \in R
  <2> TAKE i \in 1..m + p
  <2>1. CASE i \in 1..m
    BY <1>1, <1>4, <2>1
  <2>2. CASE i - m \in 1..p /\ i = m + (i - m)
    <3>1. w[i] = ch[i - m]
      BY <1>4, <2>2
    <3> QED BY <1>6, <2>2, <3>1
  <2> QED BY <1>8, <2>1, <2>2
<1>11. \A i \in 1..m + p : /\ i \in 1..m => w[i] = z[i] /\ par[w[i]] # n
                           /\ i \notin 1..m => par[w[i]] = n
  <2> TAKE i \in 1..m + p
  <2>1. CASE i \in 1..m
    BY <1>4, <1>7, <2>1
  <2>2. CASE i \notin 1..m
    <3>1. i - m \in 1..p /\ i = m + (i - m)
      BY <1>8, <2>2
    <3>2. w[i] = ch[i - m]
      BY <1>4, <3>1
    <3> QED BY <1>6, <2>2, <3>1, <3>2
  <2> QED BY <2>1, <2>2
<1>12. \A i, j \in 1..m + p : w[i] = w[j] => i = j
  <2> TAKE i, j \in 1..m + p
  <2> SUFFICES ASSUME w[i] = w[j] PROVE i = j
    OBVIOUS
  <2>1. CASE i \in 1..m /\ j \in 1..m
    BY <1>1, <1>4, <2>1
  <2>2. CASE i \notin 1..m /\ j \notin 1..m
    <3>1. /\ i - m \in 1..p /\ i = m + (i - m)
          /\ j - m \in 1..p /\ j = m + (j - m)
      BY <1>8, <2>2
    <3>2. w[i] = ch[i - m] /\ w[j] = ch[j - m]
      BY <1>4, <3>1
    <3>3. ch[i - m] = ch[j - m]
      BY <3>2
    <3>4. \A a, b \in 1..p : ch[a] = ch[b] => a = b
      BY <1>3
    <3>5. i - m = j - m
      BY <3>1, <3>3, <3>4, ZenonT(40)
    <3> QED BY <3>1, <3>5
  <2>3. CASE i \in 1..m /\ j \notin 1..m
    BY <1>11, <2>3
  <2>4. CASE i \notin 1..m /\ j \in 1..m
    BY <1>11, <2>4
  <2> QED BY <2>1, <2>2, <2>3, <2>4
<1>13. w[k + 1] = n /\ \A a \in 1..k : a \in 1..m /\ a \in 1..k + 1 /\ w[a] = z[a]
  <2>1. \A a \in 1..k : a \in 1..m /\ a \in 1..k + 1
    BY <1>1
  <2> QED BY <1>4, <1>5, <2>1
<1>14. \A i \in 1..m + p : i # 1 => \E a \in 1..k + 1 : TreeParentAt(par, w, m, k, i, a)
  <2> SUFFICES ASSUME NEW i \in 1..m + p, i # 1
               PROVE  \E a \in 1..k + 1 : TreeParentAt(par, w, m, k, i, a)
    OBVIOUS
  <2>1. CASE i \in 1..m
    <3>1. i \in 2..m
      BY <1>1, <2>1
    <3>2. PICK a \in 1..k : a < i /\ par[z[i]] = z[a]
      BY <1>2, <3>1
    <3>3. w[i] = z[i] /\ w[a] = z[a] /\ a \in 1..k + 1
      BY <1>4, <1>13, <2>1
    <3>4. TreeParentAt(par, w, m, k, i, a)
      BY <2>1, <3>2, <3>3 DEF TreeParentAt
    <3> QED BY <3>3, <3>4
  <2>2. CASE i \notin 1..m
    <3>1. k + 1 < i /\ k + 1 \in 1..k + 1
      BY <1>1, <1>3, <2>2
    <3>2. par[w[i]] = w[k + 1]
      BY <1>11, <1>13, <2>2
    <3>3. TreeParentAt(par, w, m, k, i, k + 1)
      BY <2>2, <3>1, <3>2 DEF TreeParentAt
    <3> QED BY <3>1, <3>3
  <2> QED BY <2>1, <2>2
<1>b. \A a \in 1..k + 1 : a \in 1..m + p /\ (a \in 1..k \/ a = k + 1)
  BY <1>1, <1>3
<1>15. ASSUME NEW i \in 2..m + p, NEW j \in 2..m + p, NEW a \in 1..k + 1, NEW b \in 1..k + 1,
              i < j, par[w[i]] = w[a], par[w[j]] = w[b]
       PROVE  a <= b
  <2>1. /\ i \in 1..m + p /\ i # 1 /\ j \in 1..m + p /\ j # 1
        /\ a \in 1..m + p /\ b \in 1..m + p
    BY <1>b
  <2>2. /\ i \in 1..m => a \in 1..k
        /\ i \notin 1..m => a = k + 1
    <3>1. PICK x \in 1..k + 1 : TreeParentAt(par, w, m, k, i, x)
      BY <1>14, <2>1
    <3>2. x = a
      BY <1>12, <1>15, <1>b, <2>1, <3>1 DEF TreeParentAt
    <3> QED BY <3>1, <3>2 DEF TreeParentAt
  <2>3. /\ j \in 1..m => b \in 1..k
        /\ j \notin 1..m => b = k + 1
    <3>1. PICK x \in 1..k + 1 : TreeParentAt(par, w, m, k, j, x)
      BY <1>14, <2>1
    <3>2. x = b
      BY <1>12, <1>15, <1>b, <2>1, <3>1 DEF TreeParentAt
    <3> QED BY <3>1, <3>2 DEF TreeParentAt
  <2>4. CASE j \in 1..m
    <3>1. i \in 1..m /\ i \in 2..m /\ j \in 2..m
      BY <1>1, <1>15, <2>1, <2>4
    <3>2. a \in 1..k /\ b \in 1..k /\ par[z[i]] = z[a] /\ par[z[j]] = z[b]
      BY <1>4, <1>13, <1>15, <2>2, <2>3, <2>4, <3>1
    <3> QED BY <1>2, <1>15, <3>1, <3>2
  <2>5. CASE j \notin 1..m
    <3>1. b = k + 1
      BY <2>3, <2>5
    <3> QED BY <1>1, <3>1
  <2> QED BY <2>4, <2>5
<1>16. ASSUME NEW i \in 1..k + 1
       PROVE  /\ t.lchild[w[i]] # NULL => \E j \in 1..m + p : w[j] = t.lchild[w[i]]
              /\ t.rchild[w[i]] # NULL => \E j \in 1..m + p : w[j] = t.rchild[w[i]]
              /\ \A j \in 1..m + p : w[j] = t.lchild[w[i]] /\ t.rchild[w[i]] # NULL =>
                   j + 1 \in 1..m + p /\ w[j + 1] = t.rchild[w[i]]
  <2> DEFINE a == t.lchild[w[i]]
             b == t.rchild[w[i]]
  <2>1. CASE i \in 1..k
    <3>1. w[i] = z[i]
      BY <1>13, <2>1
    <3>2. /\ a # NULL => \E j \in 1..m : z[j] = a
          /\ b # NULL => \E j \in 1..m : z[j] = b
          /\ \A j \in 1..m : z[j] = a /\ b # NULL => j + 1 \in 1..m /\ z[j + 1] = b
      BY <1>2, <2>1, <3>1
    <3>3. \A j \in 1..m : j \in 1..m + p /\ w[j] = z[j]
      BY <1>4, <1>9
    <3> HIDE DEF a, b
    <3>4. (a # NULL => \E j \in 1..m + p : w[j] = a) /\ (b # NULL => \E j \in 1..m + p : w[j] = b)
      BY <3>2, <3>3
    <3>5. ASSUME NEW j \in 1..m + p, w[j] = a, b # NULL
          PROVE  j + 1 \in 1..m + p /\ w[j + 1] = b
      <4>1. a # NULL
        <5>1. w[j] \in TreeNodes
          BY <1>4
        <5> QED BY <3>5, <5>1, TreeNullNoNode
      <4>2. PICK q \in 1..m : z[q] = a
        BY <3>2, <4>1
      <4>3. q = j
        BY <1>12, <3>3, <3>5, <4>2
      <4> QED BY <3>2, <3>3, <3>5, <4>2, <4>3
    <3> QED BY <3>4, <3>5 DEF a, b
  <2>2. CASE i = k + 1
    <3>1. a = t.lchild[n] /\ b = t.rchild[n]
      BY <1>13, <2>2
    <3>2. /\ a # NULL => 1 \in 1..p /\ ch[1] = a
          /\ b # NULL => \E j \in 1..p : ch[j] = b
          /\ a # NULL /\ b # NULL => 2 \in 1..p /\ ch[2] = b
      BY <1>3, <3>1
    <3>3. \A j \in 1..p : m + j \in 1..m + p /\ w[m + j] = ch[j]
      BY <1>4, <1>9
    <3> HIDE DEF a, b
    <3>4. (a # NULL => \E j \in 1..m + p : w[j] = a) /\ (b # NULL => \E j \in 1..m + p : w[j] = b)
      BY <3>2, <3>3
    <3>5. ASSUME NEW j \in 1..m + p, w[j] = a, b # NULL
          PROVE  j + 1 \in 1..m + p /\ w[j + 1] = b
      <4>1. a # NULL
        <5>1. w[j] \in TreeNodes
          BY <1>4
        <5> QED BY <3>5, <5>1, TreeNullNoNode
      <4>2. w[m + 1] = a /\ w[m + 2] = b /\ m + 1 \in 1..m + p /\ m + 2 \in 1..m + p
        BY <3>2, <3>3, <3>5, <4>1
      <4>3. j = m + 1
        BY <1>12, <3>5, <4>2
      <4>4. j + 1 = m + 2
        BY <1>1, <4>3
      <4> QED BY <4>2, <4>4
    <3> QED BY <3>4, <3>5 DEF a, b
  <2> QED BY <1>b, <2>1, <2>2
<1>17. TreeFanLinks(t, w, k + 1)
  <2>1. \A i \in 2..m + p : \E a \in 1..k + 1 : a < i /\ par[w[i]] = w[a]
    <3> TAKE i \in 2..m + p
    <3>1. i \in 1..m + p /\ i # 1
      BY <1>1, <1>3
    <3>2. PICK a \in 1..k + 1 : TreeParentAt(par, w, m, k, i, a)
      BY <1>14, <3>1
    <3> QED BY <3>2 DEF TreeParentAt
  <2> QED BY <1>4, <1>15, <1>16, <2>1 DEF TreeFanLinks, par
<1>18. m + p \in Nat \ {0} /\ k + 1 \in 0..m + p /\ w[1] = t.root
  <2>1. 1 \in 1..m
    BY <1>1
  <2> QED BY <1>1, <1>3, <1>4, <2>1
<1> QED BY <1>4, <1>10, <1>12, <1>17, <1>18 DEF TreeFan, w, R

(* A call hands out the first of the queue, for which its children go in;  *)
(* there is room for them.                                                 *)
LEMMA TreeFansGoOn ==
  ASSUME NEW t, NEW D, TreeAgrees(t, D), NEW it, DOMAIN it = TreeIteratorFields,
         ~it.ended, TreeFans(t, D, it), NEW it2, it2 = bfs_next(t, it)
  PROVE  /\ DOMAIN it2 = TreeIteratorFields /\ it2.marker = it.marker
         /\ it2.stuck = it.stuck /\ TreeFans(t, D, it2)
<1> DEFINE q == it.queue
           n == Head(q)
           ch == bfs_children(t, n)
           queue == Tail(q) \o ch
<1>1. it2 = CASE q = << >> -> [it EXCEPT !.ended = TRUE]
              [] q # << >> /\ n = NULL -> [it EXCEPT !.queue = Tail(@), !.ended = TRUE]
              [] OTHER -> IF Len(queue) > TreeMaxNodes
                          THEN [it EXCEPT !.queue = SubSeq(queue, 1, TreeMaxNodes), !.ended = TRUE]
                          ELSE [it EXCEPT !.queue = queue, !.seen = Append(@, n)]
  BY DEF bfs_next
<1>a. \A v \in TreeIteratorFields : v \in DOMAIN it
  OBVIOUS
<1> HIDE DEF ch, queue
<1>2. CASE q = << >>
  <2>1. it2 = [it EXCEPT !.ended = TRUE]
    BY <1>1, <1>2
  <2>2. /\ DOMAIN it2 = TreeIteratorFields /\ it2.marker = it.marker /\ it2.stuck = it.stuck
        /\ it2.seen = it.seen /\ it2.queue = it.queue
    BY <2>1 DEF TreeIteratorFields
  <2>3. ASSUME NEW z, NEW k, TreeFan(t, D, z, k), TreeFanOf(it, z, k)
        PROVE  TreeFanOf(it2, z, k) /\ k = Len(z)
    <3>1. Len(z) \in Nat /\ k \in 0..Len(z) /\ Len(q) = Len(z) - k
      BY <2>3 DEF TreeFan, TreeFanOf
    <3>2. k = Len(z)
      BY <1>2, <3>1
    <3> QED BY <2>2, <2>3, <3>2 DEF TreeFanOf
  <2> QED BY <2>2, <2>3 DEF TreeFans
<1>3. CASE q # << >> /\ n = NULL
  <2>1. it2 = [it EXCEPT !.queue = Tail(@), !.ended = TRUE]
    BY <1>1, <1>3
  <2>2. /\ DOMAIN it2 = TreeIteratorFields /\ it2.marker = it.marker /\ it2.stuck = it.stuck
        /\ it2.seen = it.seen /\ it2.queue = Tail(it.queue)
    BY <2>1 DEF TreeIteratorFields
  <2>3. ASSUME NEW z, NEW k, TreeFanOf(it, z, k) PROVE FALSE
    <3>1. q \in Seq(TreeNodes)
      BY <2>3 DEF TreeFanOf
    <3>2. n \in TreeNodes
      BY <1>3, <3>1
    <3> QED BY <1>3, <3>2, TreeNullNoNode
  <2>4. t.root = NULL /\ it.seen = << >> /\ it.queue = <<NULL>>
    BY <1>3, <2>3 DEF TreeFans
  <2>5. Tail(<<NULL>>) = << >>
    OBVIOUS
  <2> QED BY <2>2, <2>4, <2>5 DEF TreeFans
<1>4. CASE q # << >> /\ n # NULL
  <2>1. PICK z, k : TreeFan(t, D, z, k) /\ TreeFanOf(it, z, k)
    <3>1. q # <<NULL>>
      BY <1>4
    <3> QED BY <1>4, <3>1 DEF TreeFans
  <2>2. /\ z \in Seq(TreeNodes) /\ Len(z) \in Nat /\ k \in 0..Len(z)
        /\ Len(it.seen) = k /\ it.seen \in Seq(TreeNodes) /\ \A i \in 1..k : it.seen[i] = z[i]
        /\ q \in Seq(TreeNodes) /\ Len(q) = Len(z) - k
        /\ \A i \in 1..(Len(z) - k) : q[i] = z[k + i]
    BY <2>1 DEF TreeFan, TreeFanOf
  <2>3. k < Len(z) /\ n = z[k + 1] /\ n \in TreeNodes
    <3>1. Len(q) # 0 /\ n = q[1] /\ n \in TreeNodes
      BY <1>4, <2>2
    <3>2. k < Len(z) /\ 1 \in 1..(Len(z) - k)
      BY <2>2, <3>1
    <3> QED BY <2>2, <3>1, <3>2
  <2>4. TreeChildren(t, z[k + 1], ch)
    BY <2>3, TreeChildrenIs DEF ch
  <2> DEFINE w == z \o ch
  <2>5. TreeFan(t, D, w, k + 1)
    BY <2>1, <2>3, <2>4, TreeFanGrows
  <2>6. ch \in Seq(TreeNodes)
    BY <2>4 DEF TreeChildren
  <2>7. /\ Len(w) = Len(z) + Len(ch) /\ Len(ch) \in Nat
        /\ \A i \in 1..Len(z) : w[i] = z[i]
        /\ \A i \in 1..Len(ch) : w[Len(z) + i] = ch[i]
    BY <2>2, <2>6
  <2> DEFINE len == Len(z) - (k + 1)
  <2>8. /\ Tail(q) \in Seq(TreeNodes) /\ Len(Tail(q)) = len /\ len \in Nat
        /\ \A i \in 1..len : Tail(q)[i] = q[i + 1]
    BY <1>4, <2>2, <2>3
  <2>9. /\ queue \in Seq(TreeNodes) /\ Len(queue) = len + Len(ch)
        /\ \A i \in 1..len : queue[i] = Tail(q)[i]
        /\ \A i \in 1..Len(ch) : queue[len + i] = ch[i]
    <3> DEFINE rest == Tail(q)
    <3>1. rest \in Seq(TreeNodes) /\ Len(rest) = len /\ len \in Nat
      BY <2>8
    <3>2. queue = rest \o ch
      BY DEF queue
    <3> HIDE DEF rest, len
    <3>3. /\ rest \o ch \in Seq(TreeNodes) /\ Len(rest \o ch) = Len(rest) + Len(ch)
          /\ \A i \in 1..Len(rest) : (rest \o ch)[i] = rest[i]
          /\ \A i \in 1..Len(ch) : (rest \o ch)[Len(rest) + i] = ch[i]
      BY <2>6, <3>1
    <3> QED BY <3>1, <3>2, <3>3 DEF rest
  <2>10. Len(queue) = Len(w) - (k + 1) /\ Len(w) \in Nat
    BY <2>2, <2>7, <2>9
  <2>11. ~(Len(queue) > TreeMaxNodes)
    <3>1. w \in Seq(TreeNodes) /\ \A i, j \in 1..Len(w) : w[i] = w[j] => i = j
      BY <2>5 DEF TreeFan
    <3> HIDE DEF w, len
    <3>2. Len(w) <= TreeMaxNodes
      BY <3>1, TreeDistinctFit
    <3>3. TreeMaxNodes \in Nat
      BY TreeAssumption
    <3> QED BY <2>2, <2>10, <3>2, <3>3
  <2>12. it2 = [it EXCEPT !.queue = queue, !.seen = Append(@, n)]
    BY <1>1, <1>4, <2>11
  <2>13. /\ DOMAIN it2 = TreeIteratorFields /\ it2.marker = it.marker /\ it2.stuck = it.stuck
         /\ it2.seen = Append(it.seen, n) /\ it2.queue = queue /\ ~it2.ended
    BY <2>12 DEF TreeIteratorFields
  <2>14. \A i \in 1..(Len(w) - (k + 1)) : queue[i] = w[(k + 1) + i]
    <3> SUFFICES ASSUME NEW i \in 1..(Len(w) - (k + 1)) PROVE queue[i] = w[(k + 1) + i]
      OBVIOUS
    <3> HIDE DEF w
    <3>1. i \in 1..len \/ (i - len \in 1..Len(ch) /\ i = len + (i - len)
                            /\ (k + 1) + i = Len(z) + (i - len))
      BY <2>2, <2>7, <2>8
    <3>2. CASE i \in 1..len
      <4>1. i + 1 \in 1..(Len(z) - k) /\ k + (i + 1) = (k + 1) + i /\ (k + 1) + i \in 1..Len(z)
        BY <2>2, <2>8, <3>2
      <4> HIDE DEF len
      <4> QED BY <2>2, <2>7, <2>8, <2>9, <3>2, <4>1, SMTT(30)
    <3>3. CASE i - len \in 1..Len(ch) /\ i = len + (i - len) /\ (k + 1) + i = Len(z) + (i - len)
      <4> DEFINE j == i - len
      <4>1. j \in 1..Len(ch) /\ i = len + j /\ (k + 1) + i = Len(z) + j
        BY <3>3
      <4> HIDE DEF j, len
      <4> QED BY <2>7, <2>9, <4>1
    <3> QED BY <3>1, <3>2, <3>3
  <2>15. TreeFanOf(it2, w, k + 1)
    <3>1. /\ it2.seen \in Seq(TreeNodes) /\ Len(it2.seen) = k + 1
          /\ \A i \in 1..k : it2.seen[i] = it.seen[i]
          /\ it2.seen[k + 1] = n
      BY <2>2, <2>3, <2>13
    <3>2. \A i \in 1..k + 1 : (i \in 1..k \/ i = k + 1) /\ i \in 1..Len(z)
      BY <2>2, <2>3
    <3>3. \A i \in 1..k + 1 : it2.seen[i] = w[i]
      BY <2>2, <2>3, <2>7, <3>1, <3>2
    <3> HIDE DEF w
    <3> QED BY <2>9, <2>10, <2>13, <2>14, <3>1, <3>3 DEF TreeFanOf
  <2> HIDE DEF w
  <2> QED BY <2>5, <2>13, <2>15 DEF TreeFans
<1> QED BY <1>2, <1>3, <1>4

(* What was handed out of a fan is a traversal by levels.                  *)
LEMMA TreeFanLevels ==
  ASSUME NEW t, NEW D, NEW z, NEW k, TreeFan(t, D, z, k), NEW s \in Seq(TreeNodes),
         Len(s) = k, \A i \in 1..k : s[i] = z[i]
  PROVE  TreeByLevels(t, s)
<1> DEFINE at(n) == CHOOSE i \in DOMAIN s : s[i] = n
           par == t.parent
<1>1. /\ z \in Seq(TreeNodes) /\ Len(z) \in Nat /\ k \in 0..Len(z)
      /\ \A i, j \in 1..Len(z) : z[i] = z[j] => i = j
      /\ \A i \in 2..Len(z) : \E a \in 1..k : a < i /\ par[z[i]] = z[a]
      /\ \A i, j \in 2..Len(z), a, b \in 1..k :
           i < j /\ par[z[i]] = z[a] /\ par[z[j]] = z[b] => a <= b
      /\ \A i \in 1..k :
           \A j \in 1..Len(z) : z[j] = t.lchild[z[i]] /\ t.rchild[z[i]] # NULL =>
             j + 1 \in 1..Len(z) /\ z[j + 1] = t.rchild[z[i]]
  BY DEF TreeFan, TreeFanLinks
<1>2. DOMAIN s = 1..k /\ (\A i \in 1..k : i \in 1..Len(z) /\ s[i] = z[i])
  <2>1. \A i \in 1..k : i \in 1..Len(z)
    BY <1>1
  <2> QED BY <1>1, <2>1
<1>3. \A i, j \in 1..k : s[i] = s[j] => i = j
  BY <1>1, <1>2
<1>4. \A i \in 1..k : at(s[i]) = i
  <2> TAKE i \in 1..k
  <2>1. at(s[i]) \in DOMAIN s /\ s[at(s[i])] = s[i]
    BY <1>2
  <2> HIDE DEF at
  <2> QED BY <1>2, <1>3, <2>1
<1>5. TreeByLevels(t, s) <=>
        /\ Len(s) = Cardinality(ToSet(s))
        /\ \A i, j \in DOMAIN s :
             /\ i < j /\ i > 1 => at(par[s[i]]) <= at(par[s[j]])
             /\ s[j] = t.lchild[s[i]] /\ t.rchild[s[i]] \in ToSet(s) =>
                  at(t.rchild[s[i]]) = j + 1
  BY DEF TreeByLevels
<1> HIDE DEF at, par
<1>6. Len(s) = Cardinality(ToSet(s))
  BY <1>2, <1>3, TreeDistinctFit
<1>7. ASSUME NEW i \in 1..k, NEW j \in 1..k, i < j, i > 1
      PROVE  at(par[s[i]]) <= at(par[s[j]])
  <2>1. i \in 2..Len(z) /\ j \in 2..Len(z) /\ s[i] = z[i] /\ s[j] = z[j]
    BY <1>1, <1>2, <1>7
  <2>2. PICK a \in 1..k : par[z[i]] = z[a]
    BY <1>1, <2>1
  <2>3. PICK b \in 1..k : par[z[j]] = z[b]
    BY <1>1, <2>1
  <2>4. a <= b
    BY <1>1, <1>7, <2>1, <2>2, <2>3
  <2>5. at(par[s[i]]) = a /\ at(par[s[j]]) = b
    BY <1>2, <1>4, <2>1, <2>2, <2>3
  <2> QED BY <2>4, <2>5
<1>8. ASSUME NEW i \in 1..k, NEW j \in 1..k, s[j] = t.lchild[s[i]], t.rchild[s[i]] \in ToSet(s)
      PROVE  at(t.rchild[s[i]]) = j + 1
  <2>1. PICK q \in 1..k : s[q] = t.rchild[s[i]]
    BY <1>2, <1>8 DEF ToSet
  <2>2. t.rchild[s[i]] # NULL
    BY <2>1, TreeNullNoNode
  <2>3. j + 1 \in 1..Len(z) /\ z[j + 1] = t.rchild[z[i]]
    <3>1. s[i] = z[i] /\ s[j] = z[j] /\ j \in 1..Len(z)
      BY <1>2
    <3>2. z[j] = t.lchild[z[i]] /\ t.rchild[z[i]] # NULL
      BY <1>8, <2>2, <3>1
    <3>3. \A v \in 1..Len(z) : z[v] = t.lchild[z[i]] /\ t.rchild[z[i]] # NULL =>
            v + 1 \in 1..Len(z) /\ z[v + 1] = t.rchild[z[i]]
      BY <1>1
    <3> QED BY <3>1, <3>2, <3>3
  <2>4. q = j + 1
    <3>1. q \in 1..Len(z) /\ s[q] = z[q] /\ s[i] = z[i]
      BY <1>2
    <3>2. z[q] = z[j + 1]
      BY <2>1, <2>3, <3>1
    <3>3. \A u, v \in 1..Len(z) : z[u] = z[v] => u = v
      BY <1>1
    <3> QED BY <2>3, <3>1, <3>2, <3>3, ZenonT(40)
  <2> QED BY <1>4, <2>1, <2>4
<1> QED BY <1>2, <1>5, <1>6, <1>7, <1>8

(* With nothing in the queue every node was handed out.                    *)
LEMMA TreeFanWhole ==
  ASSUME NEW t, NEW D, TreeAgrees(t, D), NEW z, TreeFan(t, D, z, Len(z)), t.root # NULL
  PROVE  TreeBelow(D, t.root) = {z[i] : i \in 1..Len(z)}
<1> DEFINE A == {z[i] : i \in 1..Len(z)}
           l == t.lchild
           r == t.rchild
           S == {x \in TreeNodes : x \in A => D[x] \subseteq A}
<1>1. TreeForest(l, r, D) /\ t.root \in TreeNodes
  BY TreeAgreesIs
<1>2. /\ Len(z) \in Nat \ {0} /\ z[1] = t.root /\ \A i \in 1..Len(z) : z[i] \in TreeBelow(D, t.root)
      /\ \A i \in 1..Len(z) :
           /\ l[z[i]] # NULL => \E j \in 1..Len(z) : z[j] = l[z[i]]
           /\ r[z[i]] # NULL => \E j \in 1..Len(z) : z[j] = r[z[i]]
  BY DEF TreeFan, TreeFanLinks
<1>3. t.root \in A
  BY <1>2
<1>4. \A x \in A : (l[x] # NULL => l[x] \in A) /\ (r[x] # NULL => r[x] \in A)
  BY <1>2
<1> HIDE DEF A
<1>5. ASSUME NEW x \in TreeNodes, \A c \in TreeNodes : c = l[x] \/ c = r[x] => c \in S
      PROVE  x \in S
  <2> SUFFICES ASSUME x \in A PROVE D[x] \subseteq A
    OBVIOUS
  <2>1. /\ l[x] \in TreeNodes \cup {NULL} /\ r[x] \in TreeNodes \cup {NULL}
        /\ D[x] = {x} \cup TreeBelow(D, l[x]) \cup TreeBelow(D, r[x])
    BY <1>1, TreeChild
  <2>2. \A c \in TreeNodes \cup {NULL} : c = l[x] \/ c = r[x] => TreeBelow(D, c) \subseteq A
    BY <1>4, <1>5 DEF TreeBelow
  <2> QED BY <2>1, <2>2
<1>6. TreeNodes \subseteq S
  <2> HIDE DEF S
  <2> QED BY <1>1, <1>5, TreeInduction
<1>7. TreeBelow(D, t.root) \subseteq A
  BY <1>1, <1>3, <1>6 DEF TreeBelow
<1> QED BY <1>2, <1>7 DEF A

-----------------------------------------------------------------------------
(* From the run of an iterator to what TreeIterates says of it.            *)
LEMMA TreeFromFirst ==
  ASSUME NEW o, NEW A, TreeListed(o, A), NEW j \in Nat, j <= Len(o),
         TreeAfter(o, j) = TreeAfter(o, 0)
  PROVE  j = 0
<1>1. /\ o \in Seq(TreeNodes) /\ Len(o) \in Nat
      /\ \A i, k \in 1..Len(o) : o[i] = o[k] => i = k
  BY DEF TreeListed
<1>2. CASE Len(o) = 0
  BY <1>2
<1>3. CASE Len(o) # 0
  <2>1. 1 \in 1..Len(o) /\ 0 < Len(o) /\ 0 + 1 = 1
    BY <1>1, <1>3
  <2>2. o[1] \in TreeNodes /\ TreeAfter(o, 0) = o[1]
    BY <1>1, <2>1 DEF TreeAfter
  <2>3. j < Len(o) /\ o[j + 1] = o[1]
    <3>1. TreeAfter(o, j) # NULL
      BY <2>2, TreeNullNoNode
    <3> QED BY <2>2, <3>1 DEF TreeAfter
  <2>4. j + 1 \in 1..Len(o)
    BY <1>1, <2>3
  <2>5. j + 1 = 1
    BY <1>1, <2>1, <2>3, <2>4
  <2> QED BY <2>5
<1> QED BY <1>2, <1>3

(* A run of the walk keeps its order; one from its first node is a prefix, *)
(* and all of it at the end.                                               *)
LEMMA TreeRunKeeps ==
  ASSUME NEW o, NEW A, TreeListed(o, A), NEW it, NEW j \in Nat, TreeRun(it, o, j)
  PROVE  /\ TreeKeepsOrder(it.seen, o)
         /\ j = 0 => IsPrefix(it.seen, o)
         /\ j = 0 /\ it.ended => ToSet(it.seen) = ToSet(o)
<1> DEFINE s == it.seen
           k == Len(s)
<1>1. /\ o \in Seq(TreeNodes) /\ Len(o) \in Nat /\ \A i \in 1..Len(o) : o[i] \in TreeNodes
  BY DEF TreeListed
<1>2. /\ s \in Seq(TreeNodes) /\ k \in Nat /\ j + k <= Len(o)
      /\ \A i \in 1..k : s[i] = o[j + i]
      /\ it.ended => TreeAfter(o, j + k) = NULL
  BY DEF TreeRun
<1>3. DOMAIN s = 1..k /\ DOMAIN o = 1..Len(o)
  BY <1>1, <1>2
<1> HIDE DEF s, k
<1>4. \A i \in 1..k : j + i \in 1..Len(o)
  BY <1>1, <1>2
<1>5. TreeKeepsOrder(s, o)
  <2>1. ToSet(s) \subseteq ToSet(o)
    BY <1>2, <1>3, <1>4 DEF ToSet
  <2>2. ASSUME NEW a \in DOMAIN s, NEW b \in DOMAIN s, a < b
        PROVE  \E x, y \in DOMAIN o : x < y /\ o[x] = s[a] /\ o[y] = s[b]
    <3>1. a \in 1..k /\ b \in 1..k
      BY <1>3
    <3>2. j + a < j + b
      BY <1>2, <2>2, <3>1
    <3>3. j + a \in DOMAIN o /\ j + b \in DOMAIN o /\ o[j + a] = s[a] /\ o[j + b] = s[b]
      BY <1>2, <1>3, <1>4, <3>1
    <3> QED BY <3>2, <3>3
  <2> QED BY <2>1, <2>2 DEF TreeKeepsOrder
<1>6. ASSUME j = 0 PROVE IsPrefix(s, o) /\ (it.ended => ToSet(s) = ToSet(o))
  <2>1. k <= Len(o) /\ \A i \in 1..k : s[i] = o[i]
    BY <1>1, <1>2, <1>6
  <2>2. SubSeq(s, 1, k) = SubSeq(o, 1, k)
    BY <1>1, <1>2, <2>1
  <2>3. IsPrefix(s, o)
    BY <2>1, <2>2 DEF IsPrefix, k
  <2>4. ASSUME it.ended PROVE ToSet(s) = ToSet(o)
    <3>1. TreeAfter(o, k) = NULL
      BY <1>2, <1>6, <2>4
    <3>2. ~(k < Len(o))
      <4> SUFFICES ASSUME k < Len(o) PROVE FALSE
        OBVIOUS
      <4>1. k + 1 \in 1..Len(o) /\ o[k + 1] = NULL
        BY <1>1, <1>2, <3>1 DEF TreeAfter
      <4> QED BY <1>1, <4>1, TreeNullNoNode
    <3>3. k = Len(o)
      BY <1>1, <1>2, <2>1, <3>2
    <3> QED BY <1>3, <2>1, <3>3 DEF ToSet
  <2> QED BY <2>3, <2>4
<1> QED BY <1>5, <1>6 DEF s

(* A node that is not in the tree has no child.                            *)
LEMMA TreeForkedIs ==
  ASSUME NEW t, NEW D, TreeAgrees(t, D), TreeFullyForked(t)
  PROVE  TreeForked(t)
<1> DEFINE o == TreeWalk(t, "in")
<1>1. TreeListed(o, TreeBelow(D, t.root))
  BY TreeWalkLists
<1>2. \A x \in TreeNodes :
        x \notin TreeBelow(D, t.root) => t.lchild[x] = NULL /\ t.rchild[x] = NULL
  BY DEF TreeAgrees, TreeIs
<1>3. \A n \in ToSet(o) : (t.lchild[n] = NULL) = (t.rchild[n] = NULL)
  BY DEF TreeFullyForked, TreeInOrder
<1> HIDE DEF o
<1>4. \A x \in TreeBelow(D, t.root) : x \in ToSet(o)
  <2>1. DOMAIN o = 1..Len(o) /\ \A x \in TreeBelow(D, t.root) : \E i \in 1..Len(o) : o[i] = x
    BY <1>1 DEF TreeListed
  <2> QED BY <2>1 DEF ToSet
<1> SUFFICES ASSUME NEW x \in TreeNodes PROVE (t.lchild[x] = NULL) = (t.rchild[x] = NULL)
  BY DEF TreeForked
<1>5. CASE x \in TreeBelow(D, t.root)
  BY <1>3, <1>4, <1>5
<1>6. CASE x \notin TreeBelow(D, t.root)
  <2>1. t.lchild[x] = NULL /\ t.rchild[x] = NULL
    BY <1>2, <1>6
  <2> QED BY <2>1
<1> QED BY <1>5, <1>6

(* What is known of an iterator on a tree whose links agree.               *)
TreeIteratorIs(t, D, it) ==
  /\ DOMAIN it = TreeIteratorFields /\ it.marker \in TreeMarkers
  /\ it.marker \in TreeOrders /\ TreeExact(t, it.marker) => TreeExactly(t, it)
  /\ it.marker = "in" => TreeInLine(it, TreeWalk(t, "in"))
  /\ it.marker = "bfs" => TreeFans(t, D, it)

(* Before the first call the root is in the queue.                         *)
LEMMA TreeFanStarts ==
  ASSUME NEW t, NEW D, TreeAgrees(t, D), t.root # NULL
  PROVE  TreeFan(t, D, <<t.root>>, 0)
<1> DEFINE z == <<t.root>>
<1>1. t.root \in TreeNodes /\ t.root \in TreeBelow(D, t.root)
  <2>1. t.root \in TreeNodes /\ TreeForest(t.lchild, t.rchild, D)
    BY TreeAgreesIs
  <2> QED BY <2>1, TreeSelf DEF TreeBelow
<1>2. /\ z \in Seq(TreeNodes) /\ Len(z) = 1 /\ z[1] = t.root
      /\ \A i \in 1..Len(z) : i = 1
  BY <1>1
<1> HIDE DEF z
<1>3. TreeFanLinks(t, z, 0)
  <2>1. (\A i \in 2..Len(z) : FALSE) /\ (\A i \in 1..0 : FALSE)
    BY <1>2
  <2> QED BY <2>1 DEF TreeFanLinks
<1>4. Len(z) \in Nat \ {0} /\ 0 \in 0..Len(z)
  BY <1>2
<1> QED BY <1>1, <1>2, <1>3, <1>4 DEF TreeFan, z

(* A new iterator is as TreeIteratorIs says, and a call keeps it so.       *)
LEMMA TreeIteratorStarts ==
  ASSUME NEW t, NEW D, TreeAgrees(t, D), NEW marker \in TreeMarkers
  PROVE  TreeIteratorIs(t, D, tree_iterator_init(t, marker))
<1> DEFINE it == tree_iterator_init(t, marker)
<1>1. /\ DOMAIN it = TreeIteratorFields /\ it.marker = marker /\ it.current = NULL
      /\ it.seen = << >> /\ it.ended = FALSE /\ it.next = TreeFirst(t, marker)
      /\ it.queue = IF marker = "bfs" THEN <<t.root>> ELSE << >>
  BY DEF tree_iterator_init, TreeIteratorFields, TreeFirst, TreeLeftmost
<1> HIDE DEF it
<1>2. << >> \in Seq(TreeNodes) /\ Len(<< >>) = 0 /\ DOMAIN << >> = 1..0
  OBVIOUS
<1>3. ASSUME marker \in TreeOrders, TreeExact(t, marker) PROVE TreeExactly(t, it)
  <2> DEFINE o == TreeWalk(t, marker)
  <2>1. TreeListed(o, TreeBelow(D, t.root))
    BY <1>3, TreeWalkLists DEF TreeOrders
  <2>2. Len(o) \in Nat
    BY <2>1 DEF TreeListed
  <2>3. \E j \in Nat : j <= Len(o) /\ TreeAfter(o, j) = TreeFirst(t, marker)
    <3>1. 0 \in Nat /\ 0 <= Len(o)
      BY <2>2
    <3>2. CASE marker = "post"
      BY <3>2, TreeFirstIs
    <3>3. CASE marker \in {"pre", "in"}
      <4>1. TreeAfter(o, 0) = TreeFirst(t, marker)
        BY <3>3, TreeFirstIs
      <4> HIDE DEF o
      <4> QED BY <3>1, <4>1
    <3> QED BY <1>3, <3>2, <3>3 DEF TreeOrders
  <2> HIDE DEF o
  <2>4. PICK j \in Nat : j <= Len(o) /\ TreeAfter(o, j) = TreeFirst(t, marker)
    BY <2>3
  <2>5. j + 0 = j
    BY <2>4
  <2>6. TreeRun(it, o, j)
    BY <1>1, <1>2, <2>4, <2>5 DEF TreeRun
  <2> QED BY <1>1, <2>4, <2>6 DEF TreeExactly, o
<1>4. ASSUME marker = "in" PROVE TreeInLine(it, TreeWalk(t, "in"))
  <2> DEFINE o == TreeWalk(t, "in")
  <2>1. TreeListed(o, TreeBelow(D, t.root)) /\ TreeAfter(o, 0) = TreeFirst(t, "in")
    BY TreeWalkLists, TreeFirstIs
  <2> HIDE DEF o
  <2>2. TreeKeepsOrder(<< >>, o)
    BY <1>2 DEF TreeKeepsOrder, ToSet
  <2>3. TreeFirst(t, "in") = NULL \/ \E i \in 1..Len(o) : o[i] = TreeFirst(t, "in")
    <3>1. CASE 0 < Len(o)
      <4>1. 1 \in 1..Len(o) /\ TreeAfter(o, 0) = o[1]
        <5>1. Len(o) \in Nat /\ 0 + 1 = 1
          BY <2>1 DEF TreeListed
        <5> QED BY <3>1, <5>1 DEF TreeAfter
      <4> QED BY <2>1, <4>1
    <3>2. CASE ~(0 < Len(o))
      BY <2>1, <3>2 DEF TreeAfter
    <3> QED BY <3>1, <3>2
  <2>4. \A i \in 1..Len(o) : TreeBefore(<< >>, o, i)
    BY <1>2 DEF TreeBefore
  <2> QED BY <1>1, <1>2, <1>4, <2>1, <2>2, <2>3, <2>4 DEF TreeInLine, o
<1>5. ASSUME marker = "bfs" PROVE TreeFans(t, D, it)
  <2>1. it.queue = <<t.root>>
    BY <1>1, <1>5
  <2>2. CASE t.root = NULL
    BY <1>1, <2>1, <2>2 DEF TreeFans
  <2>3. CASE t.root # NULL
    <3> DEFINE z == <<t.root>>
    <3>1. TreeFan(t, D, z, 0)
      BY <2>3, TreeFanStarts
    <3>2. t.root \in TreeNodes
      BY <2>3, TreeAgreesIs
    <3>3. z \in Seq(TreeNodes) /\ Len(z) = 1
      BY <3>2
    <3> HIDE DEF z
    <3>4. TreeFanOf(it, z, 0)
      <4>1. it.queue = z
        BY <2>1 DEF z
      <4>2. 1 - 0 = 1 /\ \A i \in 1..1 : 0 + i = i
        OBVIOUS
      <4>3. \A i \in 1..0 : it.seen[i] = z[i]
        OBVIOUS
      <4> QED BY <1>1, <1>2, <3>3, <4>1, <4>2, <4>3 DEF TreeFanOf
    <3> QED BY <1>1, <3>1, <3>4 DEF TreeFans
  <2> QED BY <2>2, <2>3
<1> QED BY <1>1, <1>3, <1>4, <1>5 DEF TreeIteratorIs, it

LEMMA TreeIteratorStays ==
  ASSUME NEW t, NEW D, TreeAgrees(t, D), NEW it, TreeIteratorIs(t, D, it), ~it.ended
  PROVE  TreeIteratorIs(t, D, tree_iterator_next(t, it))
<1> DEFINE it2 == tree_iterator_next(t, it)
<1>1. DOMAIN it = TreeIteratorFields /\ it.marker \in TreeMarkers
  BY DEF TreeIteratorIs
<1>2. CASE it.marker = "bfs"
  <2>1. it2 = bfs_next(t, it)
    BY <1>2 DEF tree_iterator_next
  <2>2. TreeFans(t, D, it)
    BY <1>2 DEF TreeIteratorIs
  <2> HIDE DEF it2
  <2>3. DOMAIN it2 = TreeIteratorFields /\ it2.marker = it.marker /\ TreeFans(t, D, it2)
    BY <1>1, <2>1, <2>2, TreeFansGoOn
  <2>4. it2.marker \notin TreeOrders /\ it2.marker # "in" /\ it2.marker \in TreeMarkers
    BY <1>2, <2>3 DEF TreeOrders, TreeMarkers
  <2> QED BY <2>3, <2>4 DEF TreeIteratorIs, it2
<1>3. CASE it.marker # "bfs"
  <2>1. it.marker \in TreeOrders
    BY <1>1, <1>3 DEF TreeMarkers, TreeOrders
  <2>2. TreeHandsOut(t, it, it2)
    BY <1>1, <2>1, TreeIteratorMoves
  <2> HIDE DEF it2
  <2>3. DOMAIN it2 = TreeIteratorFields /\ it2.marker = it.marker
    BY <2>2 DEF TreeHandsOut
  <2>4. ASSUME TreeExact(t, it.marker) PROVE TreeExactly(t, it2)
    <3>1. TreeExactly(t, it)
      BY <2>1, <2>4 DEF TreeIteratorIs
    <3> QED BY <1>1, <2>1, <2>2, <2>4, <3>1, TreeExactlyGoesOn
  <2>5. ASSUME it.marker = "in" PROVE TreeInLine(it2, TreeWalk(t, "in"))
    <3>1. TreeInLine(it, TreeWalk(t, "in"))
      BY <2>5 DEF TreeIteratorIs
    <3> QED BY <1>1, <2>2, <2>5, <3>1, TreeInLineGoesOn
  <2> QED BY <1>1, <1>3, <2>3, <2>4, <2>5 DEF TreeIteratorIs, it2
<1> QED BY <1>2, <1>3

LEMMA TreeListedSet ==
  ASSUME NEW o, NEW A, TreeListed(o, A)
  PROVE  ToSet(o) = A
<1>1. DOMAIN o = 1..Len(o)
  BY DEF TreeListed
<1> QED BY <1>1 DEF TreeListed, ToSet

(* Breadth-first, from the lists to what TreeIterates says.                *)
LEMMA TreeFansOut ==
  ASSUME NEW t, NEW D, TreeAgrees(t, D), NEW it, TreeFans(t, D, it)
  PROVE  /\ TreeByLevels(t, it.seen)
         /\ it.ended => ToSet(it.seen) = ToSet(TreeInOrder(t))
<1> DEFINE o == TreeWalk(t, "in")
           s == it.seen
<1>1. TreeListed(o, TreeBelow(D, t.root)) /\ (t.root = NULL => o = << >>)
  BY TreeWalkLists
<1>2. TreeInOrder(t) = o
  BY DEF TreeInOrder
<1> HIDE DEF o, s
<1>3. DOMAIN << >> = 1..0 /\ \A i \in 1..0 : FALSE
  OBVIOUS
<1>4. CASE t.root = NULL /\ s = << >>
  <2>1. << >> \in Seq(TreeNodes) /\ \A i, j \in 1..Len(<< >>) : << >>[i] = << >>[j] => i = j
    OBVIOUS
  <2>2. Len(<< >>) = Cardinality(ToSet(<< >>))
    BY <2>1, TreeDistinctFit
  <2>3. TreeByLevels(t, << >>)
    BY <1>3, <2>2 DEF TreeByLevels
  <2> QED BY <1>1, <1>2, <1>4, <2>3 DEF s
<1>5. ASSUME NEW z, NEW k, TreeFan(t, D, z, k), TreeFanOf(it, z, k), it.ended => k = Len(z)
      PROVE  TreeByLevels(t, s) /\ (it.ended => ToSet(s) = ToSet(o))
  <2>1. s \in Seq(TreeNodes) /\ Len(s) = k /\ \A i \in 1..k : s[i] = z[i]
    BY <1>5 DEF TreeFanOf, s
  <2>2. TreeByLevels(t, s)
    BY <1>5, <2>1, TreeFanLevels
  <2>3. ASSUME it.ended PROVE ToSet(s) = ToSet(o)
    <3>1. k = Len(z) /\ TreeFan(t, D, z, Len(z))
      BY <1>5, <2>3
    <3>2. t.root # NULL
      <4>1. z \in Seq(TreeNodes) /\ Len(z) \in Nat \ {0} /\ z[1] = t.root
        BY <1>5 DEF TreeFan
      <4>2. z[1] \in TreeNodes
        BY <4>1
      <4> QED BY <4>1, <4>2, TreeNullNoNode
    <3>3. TreeBelow(D, t.root) = {z[i] : i \in 1..Len(z)}
      BY <3>1, <3>2, TreeFanWhole, SMTT(30)
    <3>4. DOMAIN s = 1..Len(z) /\ \A i \in 1..Len(z) : s[i] = z[i]
      BY <2>1, <3>1
    <3>5. ToSet(s) = TreeBelow(D, t.root)
      BY <3>3, <3>4 DEF ToSet
    <3>6. ToSet(o) = TreeBelow(D, t.root)
      BY <1>1, TreeListedSet
    <3> QED BY <3>5, <3>6
  <2> QED BY <2>2, <2>3
<1>6. (t.root = NULL /\ s = << >>)
      \/ \E z, k : TreeFan(t, D, z, k) /\ TreeFanOf(it, z, k) /\ (it.ended => k = Len(z))
  BY DEF TreeFans, s
<1> QED BY <1>2, <1>4, <1>5, <1>6 DEF s

(* And for each of the four orders.                                        *)
LEMMA TreeIterated ==
  ASSUME NEW t, NEW D, TreeAgrees(t, D), NEW it, TreeIteratorIs(t, D, it)
  PROVE  LET o == TreeWalk(t, it.marker)
             whole == it.ended => ToSet(it.seen) = ToSet(o)
         IN /\ it.marker = "bfs" => /\ TreeByLevels(t, it.seen)
                                    /\ it.ended => ToSet(it.seen) = ToSet(TreeInOrder(t))
            /\ it.marker = "pre" => IsPrefix(it.seen, o) /\ whole
            /\ it.marker \in {"in", "post"} =>
                 TreeKeepsOrder(it.seen, o) /\ (TreeFullyForked(t) => whole)
<1> DEFINE m == it.marker
           o == TreeWalk(t, m)
<1>1. m = "bfs" => TreeFans(t, D, it)
  BY DEF TreeIteratorIs
<1>2. ASSUME m \in TreeOrders
      PROVE  /\ TreeListed(o, TreeBelow(D, t.root))
             /\ m # "post" => TreeAfter(o, 0) = TreeFirst(t, m)
             /\ m = "post" /\ TreeForked(t) => TreeAfter(o, 0) = TreeFirst(t, m)
  <2>1. m \in {"pre", "in", "post"}
    BY <1>2 DEF TreeOrders
  <2>2. TreeListed(o, TreeBelow(D, t.root))
    BY <2>1, TreeWalkLists
  <2> HIDE DEF m
  <2> QED BY <2>1, <2>2, TreeFirstIs
<1>3. ASSUME m \in TreeOrders, TreeExact(t, m)
      PROVE  \E j \in Nat : TreeAfter(o, j) = TreeFirst(t, m) /\ TreeRun(it, o, j)
  BY <1>3 DEF TreeIteratorIs, TreeExactly
<1> HIDE DEF o, m
<1>4. ASSUME m \in TreeOrders, TreeExact(t, m)
      PROVE  /\ TreeKeepsOrder(it.seen, o)
             /\ TreeAfter(o, 0) = TreeFirst(t, m) =>
                  IsPrefix(it.seen, o) /\ (it.ended => ToSet(it.seen) = ToSet(o))
  <2>1. PICK j \in Nat : TreeAfter(o, j) = TreeFirst(t, m) /\ TreeRun(it, o, j)
    BY <1>3, <1>4
  <2>2. TreeListed(o, TreeBelow(D, t.root)) /\ j <= Len(o)
    <3>1. Len(o) \in Nat /\ Len(it.seen) \in Nat /\ j + Len(it.seen) <= Len(o)
      BY <1>2, <1>4, <2>1 DEF TreeRun, TreeListed
    <3> QED BY <1>2, <1>4, <3>1
  <2>3. TreeAfter(o, 0) = TreeFirst(t, m) => j = 0
    BY <2>1, <2>2, TreeFromFirst
  <2> QED BY <2>1, <2>2, <2>3, TreeRunKeeps
<1>5. CASE m = "bfs"
  BY <1>1, <1>5, TreeFansOut DEF m, o
<1>6. CASE m = "pre"
  <2>1. m \in TreeOrders /\ TreeExact(t, m)
    BY <1>6 DEF TreeOrders, TreeExact
  <2>2. IsPrefix(it.seen, o) /\ (it.ended => ToSet(it.seen) = ToSet(o))
    BY <1>2, <1>4, <1>6, <2>1
  <2> QED BY <1>6, <2>2 DEF m, o
<1>7. CASE m = "in"
  <2>1. m \in TreeOrders
    BY <1>7 DEF TreeOrders
  <2>2. TreeKeepsOrder(it.seen, o)
    BY <1>7 DEF TreeIteratorIs, TreeInLine, m, o
  <2>3. ASSUME TreeFullyForked(t) PROVE it.ended => ToSet(it.seen) = ToSet(o)
    <3>1. TreeExact(t, m)
      BY <1>7, <2>3, TreeForkedIs DEF TreeExact
    <3> QED BY <1>2, <1>4, <1>7, <2>1, <3>1
  <2> QED BY <1>7, <2>2, <2>3 DEF m, o
<1>8. CASE m = "post"
  <2>1. m \in TreeOrders /\ TreeExact(t, m)
    BY <1>8 DEF TreeOrders, TreeExact
  <2>2. TreeKeepsOrder(it.seen, o)
    BY <1>4, <2>1
  <2>3. ASSUME TreeFullyForked(t) PROVE it.ended => ToSet(it.seen) = ToSet(o)
    BY <1>2, <1>4, <1>8, <2>1, <2>3, TreeForkedIs
  <2> QED BY <1>8, <2>2, <2>3 DEF m, o
<1>9. m \in {"bfs", "pre", "in", "post"}
  BY DEF TreeIteratorIs, TreeMarkers, m
<1> QED BY <1>5, <1>6, <1>7, <1>8, <1>9

-----------------------------------------------------------------------------
(* The inductive invariant of a tree with an iterator.                     *)
TreeIteratorGood ==
  (\A n \in TreeNodes : tree.parent[n] # n) =>
    \E D : TreeAgrees(tree, D) /\ TreeIteratorIs(tree, D, iterator)
TreeIteratorInv == TreeInv /\ (iterator # NULL => TreeInUse /\ TreeIteratorGood)

LEMMA TreeIteratorInvNext ==
  TreeIteratorInv /\ [TreeIteratorSteps]_<<tree, iterator>> => TreeIteratorInv'
<1> SUFFICES ASSUME TreeIteratorInv, [TreeIteratorSteps]_<<tree, iterator>>
             PROVE  TreeIteratorInv'
  OBVIOUS
<1>1. TreeInv /\ (iterator # NULL => TreeInUse /\ TreeIteratorGood)
  BY DEF TreeIteratorInv
<1>2. ASSUME UNCHANGED tree PROVE TreeInv' /\ (TreeInUse => TreeInUse')
  BY <1>1, <1>2 DEF TreeInv, TreeInUse
<1>3. CASE UNCHANGED <<tree, iterator>>
  BY <1>1, <1>2, <1>3 DEF TreeIteratorInv, TreeIteratorGood
<1>4. CASE TreeEdit
  <2>1. TreeInv' /\ iterator' = NULL
    BY <1>1, <1>4, TreeInvNext DEF TreeEdit
  <2> QED BY <2>1 DEF TreeIteratorInv
<1>5. CASE TreeIteratorNext
  <2>1. /\ iterator # NULL /\ ~iterator.ended /\ tree' = tree
        /\ iterator' = tree_iterator_next(tree, iterator)
    BY <1>5 DEF TreeIteratorNext
  <2>2. ASSUME \A n \in TreeNodes : tree.parent[n] # n
        PROVE  \E D : TreeAgrees(tree, D) /\ TreeIteratorIs(tree, D, iterator')
    <3>1. PICK D : TreeAgrees(tree, D) /\ TreeIteratorIs(tree, D, iterator)
      BY <1>1, <2>1, <2>2 DEF TreeIteratorGood
    <3>2. TreeIteratorIs(tree, D, tree_iterator_next(tree, iterator))
      BY <2>1, <3>1, TreeIteratorStays
    <3> QED BY <2>1, <3>1, <3>2
  <2>3. TreeIteratorGood'
    BY <2>1, <2>2 DEF TreeIteratorGood
  <2> QED BY <1>1, <1>2, <2>1, <2>3 DEF TreeIteratorInv
<1>6. CASE TreeIteratorDestroy
  BY <1>1, <1>2, <1>6 DEF TreeIteratorDestroy, TreeIteratorInv
<1>7. ASSUME NEW marker \in TreeMarkers, TreeIteratorCreate(marker) PROVE TreeIteratorInv'
  <2>1. TreeInUse /\ tree' = tree /\ iterator' = tree_iterator_init(tree, marker)
    BY <1>7 DEF TreeIteratorCreate
  <2>2. PICK D : TreeIs(tree, D)
    BY <1>1, <2>1 DEF TreeInv, TreeInUse, TreeSound, TreeHas
  <2>3. ASSUME \A n \in TreeNodes : tree.parent[n] # n
        PROVE  \E E : TreeAgrees(tree, E) /\ TreeIteratorIs(tree, E, iterator')
    <3>1. TreeAgrees(tree, D)
      BY <2>2, <2>3 DEF TreeAgrees
    <3>2. TreeIteratorIs(tree, D, tree_iterator_init(tree, marker))
      BY <3>1, TreeIteratorStarts
    <3> QED BY <2>1, <3>1, <3>2
  <2>4. TreeIteratorGood'
    BY <2>1, <2>3 DEF TreeIteratorGood
  <2> QED BY <1>2, <2>1, <2>4 DEF TreeIteratorInv
<1> QED BY <1>3, <1>4, <1>5, <1>6, <1>7 DEF TreeIteratorSteps

LEMMA TreeIteratorInvIterates == TreeIteratorInv => TreeIterates
<1> SUFFICES ASSUME TreeIteratorInv, iterator # NULL, \A n \in TreeNodes : tree.parent[n] # n
             PROVE  TreeIterates
  BY DEF TreeIterates
<1>1. PICK D : TreeAgrees(tree, D) /\ TreeIteratorIs(tree, D, iterator)
  BY DEF TreeIteratorInv, TreeIteratorGood
<1>2. iterator.marker \in {"bfs", "pre", "in", "post"}
  BY <1>1 DEF TreeIteratorIs, TreeMarkers
<1> QED BY <1>1, <1>2, TreeIterated DEF TreeIterates

(* Over every tree that any course of calls can make, and for each of the  *)
(* four orders, the iterator hands out the nodes that TreeIterates says, in*)
(* the order it says, and does not end before it has handed them out.      *)
THEOREM TreeIteratesThrough == TreeIteratorSpec => []TreeIterates
<1>1. TreeInit /\ TreeIteratorInit => TreeIteratorInv
  BY TreeInvInit DEF TreeIteratorInit, TreeIteratorInv
<1>2. TreeIteratorSpec => []TreeIteratorInv
  BY <1>1, TreeIteratorInvNext, PTL DEF TreeIteratorSpec
<1> QED BY <1>2, TreeIteratorInvIterates, PTL
=============================================================================
