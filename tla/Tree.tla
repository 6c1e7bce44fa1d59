-------------------------------- MODULE Tree --------------------------------
(***************************************************************************)
(* The binary search tree (src/src/tree_T.c).  Nodes come one after the    *)
(* other from an array of max_nodes and are never used again; a deleted    *)
(* node is zeroed where it is.  Equal values go to the right.              *)
(***************************************************************************)
EXTENDS Null, Integers, Sequences, FiniteSets, FiniteSetsExt, Functions

CONSTANTS
  TreeMaxNodes,  (* max_nodes                                              *)
  TreeVals,      (* bound: the values; 0 is also what a zeroed node holds  *)
  TreeBatches    (* bound: the sorted arrays the _many calls are given     *)

ASSUME TreeAssumption ==
  /\ TreeMaxNodes \in Nat \ {0} /\ 0 \in TreeVals /\ TreeVals \subseteq Nat
  /\ TreeBatches \subseteq Seq(TreeVals) /\ NULL \notin 1..TreeMaxNodes

VARIABLE tree  (* the tree, or NULL.  holds: how often each value went in  *)
               (* and did not come out, by the results of the calls.       *)
               (* excused: something TreeHolds names went wrong before.    *)
               (* crashed: a call wrote through a null pointer.            *)

TreeNodes == 1..TreeMaxNodes
TreeInit == tree = NULL

tree_init ==
  [root |-> NULL, num_nodes |-> 0, val |-> [n \in TreeNodes |-> 0],
   lchild |-> [n \in TreeNodes |-> NULL], rchild |-> [n \in TreeNodes |-> NULL],
   parent |-> [n \in TreeNodes |-> NULL],
   holds |-> [v \in TreeVals |-> 0], excused |-> FALSE, crashed |-> FALSE]

TreeCreate == tree = NULL /\ tree' = tree_init

(* The last node in `good` on the way that goes from n by `next`.          *)
TreeLastOn(next, good, n) ==
  LET last[m \in TreeNodes \cup {NULL}] ==
        IF m = NULL THEN NULL
        ELSE LET deeper == last[next[m]]
             IN IF deeper # NULL THEN deeper ELSE IF m \in good THEN m ELSE NULL
  IN last[n]

(* Down from the root as the comparisons say, to the last node before none.*)
tree_parent_for(t, v) ==
  LET next == [n \in TreeNodes |-> IF v < t.val[n] THEN t.lchild[n] ELSE t.rchild[n]]
  IN TreeLastOn(next, TreeNodes, t.root)

(* The first node with the value, where the way ends, or NULL.             *)
tree_lookup(t, v) ==
  LET next == [n \in TreeNodes |-> IF v < t.val[n] THEN t.lchild[n]
                                   ELSE IF v > t.val[n] THEN t.rchild[n] ELSE NULL]
  IN TreeLastOn(next, {n \in TreeNodes : t.val[n] = v}, t.root)

(* The last node that is inside the range on the way the strategy goes on: *)
(* "first" stops at once.                                                  *)
tree_lookup_range(t, lo, hi, strategy) ==
  LET onward(n) == CASE strategy = "first" -> NULL
                     [] strategy = "smallest" -> t.lchild[n]
                     [] strategy = "largest" -> t.rchild[n]
      next == [n \in TreeNodes |-> IF t.val[n] < lo THEN t.rchild[n]
                                   ELSE IF t.val[n] > hi THEN t.lchild[n] ELSE onward(n)]
  IN TreeLastOn(next, {n \in TreeNodes : lo <= t.val[n] /\ t.val[n] <= hi}, t.root)

TreeFull(t) == t.num_nodes = TreeMaxNodes

(* tree_node_insert, with tree_harvest and tree_node_init, below p.        *)
tree_node_insert(t, v, p) ==
  LET new == t.num_nodes + 1
      fresh == [t EXCEPT !.num_nodes = new, !.val[new] = v, !.parent[new] = p]
  IN CASE p = NULL -> [fresh EXCEPT !.root = new]
       [] p # NULL /\ v < t.val[p] -> [fresh EXCEPT !.lchild[p] = new]
       [] OTHER -> [fresh EXCEPT !.rchild[p] = new]

tree_insert(t, v) ==
  IF TreeFull(t) THEN t ELSE tree_node_insert(t, v, tree_parent_for(t, v))

(* The positions tree_insert_many takes from a sorted array, middle first. *)
(* The middle of the lower half is counted from the start of the array and *)
(* not of the half, for halves of the upper half too.                      *)
TreePositions(len) ==
  LET half(pos, n) == IF n = 0 THEN <<>> ELSE << <<pos, n>> >>
      queue[i \in 0..len] ==
        IF i = 0 THEN half(len \div 2, len)
        ELSE LET n == Head(queue[i - 1])[2]
                 lower == n \div 2
                 upper == n - lower - 1
             IN Tail(queue[i - 1]) \o half(lower \div 2, lower)
                                   \o half(lower + 1 + upper \div 2, upper)
  IN [i \in 1..len |-> Head(queue[i - 1])[1]]

TreeInsertAll(t, vals, positions) ==
  LET after[i \in 0..Len(positions)] ==
        IF i = 0 THEN t ELSE tree_insert(after[i - 1], vals[positions[i] + 1])
  IN after[Len(positions)]

TreeCount(vals) == [v \in TreeVals |-> Cardinality({i \in DOMAIN vals : vals[i] = v})]
TreeAdd(holds, more) == [v \in TreeVals |-> holds[v] + more[v]]

TreeLink(t, p, side, n) ==  (* p->side = n; n->parent = p, for an n there is *)
  LET linked == IF side = "lchild" THEN [t EXCEPT !.lchild[p] = n]
                ELSE [t EXCEPT !.rchild[p] = n]
  IN IF n = NULL THEN linked ELSE [linked EXCEPT !.parent[n] = p]

(* The left child goes below the right one, whose left subtree goes below  *)
(* the largest node of the left child.                                     *)
(* Mutant: it goes below the left child itself.                            *)
tree_reorder_rol_near(t, l, r) ==
  TreeLink(TreeLink(t, r, "lchild", l), l, "rchild", t.lchild[r])
tree_reorder_rol(t, l, r) ==
  TreeLink(TreeLink(t, r, "lchild", l),
           TreeLastOn(t.rchild, TreeNodes, l), "rchild", t.lchild[r])

TreeSetRoot(t, n) ==
  IF n = NULL THEN [t EXCEPT !.root = NULL]
  ELSE [t EXCEPT !.root = n, !.parent[n] = NULL]

(* Takes n out of the links.  The right child of a node that is itself a   *)
(* right child and has no left one becomes its own parent; for one that has*)
(* only a left one the null pointer beside it is followed.                 *)
tree_reorder_move(t, n) ==
  LET p == t.parent[n]
      l == t.lchild[n]
      r == t.rchild[n]
      side == IF t.lchild[p] = n THEN "lchild" ELSE "rchild"
      only == IF l = NULL THEN r ELSE l
      rolled == tree_reorder_rol(t, l, r)
  IN CASE p = NULL /\ l # NULL /\ r # NULL -> TreeSetRoot(rolled, r)
       [] p = NULL /\ (l = NULL \/ r = NULL) -> TreeSetRoot(t, only)
       [] p # NULL /\ l # NULL /\ r # NULL ->
            TreeLink(rolled, p, IF t.val[r] < t.val[p] THEN "lchild" ELSE "rchild", r)
       [] p # NULL /\ l = NULL /\ r # NULL /\ side = "rchild" ->
            [t EXCEPT !.rchild[p] = r, !.parent[r] = r]
       [] p # NULL /\ l # NULL /\ r = NULL /\ side = "rchild" ->
            [t EXCEPT !.rchild[p] = NULL, !.crashed = TRUE]
       [] OTHER -> TreeLink(t, p, side, only)

tree_reap(t, n) ==
  [t EXCEPT !.val[n] = 0, !.lchild[n] = NULL, !.rchild[n] = NULL, !.parent[n] = NULL]

(* A node that was zeroed and is still linked has no parent and is not the *)
(* root.                                                                   *)
TreeDeletable(t, n) == n # NULL /\ (t.parent[n] # NULL \/ t.root = n)

tree_node_delete(t, n) ==
  [tree_reap(tree_reorder_move(t, n), n) EXCEPT
     !.holds[t.val[n]] = IF @ = 0 THEN 0 ELSE @ - 1,
     !.excused = @ \/ t.parent[n] = n]

tree_delete(t, v) ==
  LET n == tree_lookup(t, v)
  IN IF TreeDeletable(t, n) THEN tree_node_delete(t, n) ELSE t

(* The calls.  A refused call changes nothing.  Bound: once TreeHolds is   *)
(* excused the tree is only destroyed.  After a crash nothing happens.     *)
TreeInUse == tree # NULL /\ ~tree.excused /\ ~tree.crashed

TreeInsert(v) ==
  /\ TreeInUse /\ ~TreeFull(tree)
  /\ tree' = [tree_insert(tree, v) EXCEPT !.holds[v] = @ + 1]

TreeDelete(v) ==
  /\ TreeInUse /\ TreeDeletable(tree, tree_lookup(tree, v))
  /\ tree' = tree_delete(tree, v)

(* The deletion frees no node, so that the insertion can fail after it.    *)
TreeUpdated(t, new, old) ==
  LET less == tree_delete(t, old)
  IN IF TreeFull(less) \/ less.crashed THEN less
     ELSE [tree_insert(less, new) EXCEPT !.holds[new] = @ + 1]

TreeUpdate(new, old) ==
  /\ TreeInUse /\ TreeDeletable(tree, tree_lookup(tree, old))
  /\ tree' = TreeUpdated(tree, new, old)

(* Without `ordered` the results of the insertions are not looked at, and  *)
(* with it the insertions before the one that fails stay.                  *)
tree_insert_many(t, vals, ordered) ==
  LET positions == IF ordered THEN TreePositions(Len(vals))
                   ELSE [i \in DOMAIN vals |-> i - 1]
      after == TreeInsertAll(t, vals, positions)
  IN [after EXCEPT !.holds = TreeAdd(@, TreeCount(vals)),
                   !.excused = \/ @ \/ t.num_nodes + Len(vals) > TreeMaxNodes
                               \/ ordered /\ Len(vals) > 4]

TreeInsertMany(vals, ordered) ==
  TreeInUse /\ tree' = tree_insert_many(tree, vals, ordered)

(* Stops at the first value that is not there; those before it are gone.   *)
TreeDeleteNext(s, v) ==
  IF s.ok /\ TreeDeletable(s.t, tree_lookup(s.t, v))
  THEN LET less == tree_delete(s.t, v) IN [t |-> less, ok |-> ~less.crashed]
  ELSE [t |-> s.t, ok |-> FALSE]

tree_delete_many(t, vals) ==
  LET after[i \in 0..Len(vals)] ==
        IF i = 0 THEN [t |-> t, ok |-> TRUE] ELSE TreeDeleteNext(after[i - 1], vals[i])
  IN after[Len(vals)]

TreeDeleteMany(vals) ==
  TreeInUse /\ tree' = tree_delete_many(tree, vals).t

TreeUpdateMany(new, old, ordered) ==
  /\ TreeInUse
  /\ LET less == tree_delete_many(tree, old)
     IN tree' = IF less.ok THEN tree_insert_many(less.t, new, ordered) ELSE less.t

TreeDestroy == tree # NULL /\ ~tree.crashed /\ tree' = NULL

TreeNext ==
  \/ TreeCreate \/ TreeDestroy
  \/ \E v \in TreeVals : TreeInsert(v) \/ TreeDelete(v)
  \/ \E new, old \in TreeVals : TreeUpdate(new, old)
  \/ \E vals \in TreeBatches :
       \/ TreeDeleteMany(vals)
       \/ \E ordered \in BOOLEAN :
            TreeInsertMany(vals, ordered) \/ TreeUpdateMany(vals, vals, ordered)

TreeSpec == TreeInit /\ [][TreeNext]_tree
-----------------------------------------------------------------------------
(* All nodes, each before, between or after what hangs to its two sides.   *)
TreeThread(order, left, n, right) ==
  CASE order = "pre" -> <<n>> \o left \o right
    [] order = "in" -> left \o <<n>> \o right
    [] order = "post" -> left \o right \o <<n>>
TreeWalk(t, order) ==
  LET walk[n \in TreeNodes \cup {NULL}] ==
        IF n = NULL THEN <<>>
        ELSE TreeThread(order, walk[t.lchild[n]], n, walk[t.rchild[n]])
  IN walk[t.root]
TreeInOrder(t) == TreeWalk(t, "in")

(* tree_reachable and tree_ordered, but for a node that is its own parent. *)
tree_reachable(t) ==
  \A n \in Range(TreeInOrder(t)), c \in TreeNodes :
    c \in {t.lchild[n], t.rchild[n]} => t.parent[c] \in {n, c}
tree_ordered(t) ==
  LET below[n \in TreeNodes \cup {NULL}] ==
        IF n = NULL THEN {} ELSE {n} \cup below[t.lchild[n]] \cup below[t.rchild[n]]
  IN \A n \in below[t.root] :
       /\ \A m \in below[t.lchild[n]] : t.val[m] < t.val[n]
       /\ \A m \in below[t.rchild[n]] : t.val[m] >= t.val[n]
(* A lookup by range finds a value in the range when there is one, and the *)
(* smallest or the largest one when asked.                                 *)
TreeRangeFinds(t, lo, hi) ==
  LET there == {v \in TreeVals : lo <= v /\ v <= hi /\ t.holds[v] > 0}
      found(s) == LET n == tree_lookup_range(t, lo, hi, s)
                  IN IF n = NULL THEN {} ELSE {t.val[n]}
  IN lo <= hi =>
       /\ (found("first") = {}) = (there = {}) /\ found("first") \subseteq there
       /\ found("smallest") = IF there = {} THEN {} ELSE {Min(there)}
       /\ found("largest") = IF there = {} THEN {} ELSE {Max(there)}

(* Through every course of insertions, deletions and updates the tree is   *)
(* ordered, its links agree, every node is in it once, it holds the values *)
(* the calls said went in and did not come out, and lookups find them:     *)
(* until a node that became its own parent, or a right child with only a   *)
(* left one, is deleted, a batch finds too little room, or a sorted batch  *)
(* of five values or more goes in (tree_lookup_range 360-403,              *)
(* tree_node_delete 496-514, tree_reorder_move 558-559 and 569-571,        *)
(* tree_insert_many 241-267).                                              *)
TreeHolds ==
  TreeInUse =>
    LET s == TreeInOrder(tree)
    IN /\ tree_reachable(tree) /\ tree_ordered(tree)
       /\ Cardinality(Range(s)) = Len(s)
       /\ tree.holds = TreeCount([i \in DOMAIN s |-> tree.val[s[i]]])
       /\ \A lo, hi \in TreeVals : TreeRangeFinds(tree, lo, hi)
=============================================================================
