---------------------------- MODULE TreeIterator ----------------------------
(***************************************************************************)
(* The iterators of the tree (src/src/tree_iterator.c and                  *)
(* tree_iterator_pre.c, _in.c, _post.c, _bfs.c), over the tree of module   *)
(* Tree.  An iterator has the node it hands out next, the one before that, *)
(* and no stack: it finds its way by the parent links, and the iterator    *)
(* does not know when the tree is edited.                                  *)
(***************************************************************************)
EXTENDS Tree, SequencesExt

VARIABLE iterator  (* the iterator, or NULL.  seen: the nodes handed out.  *)
                   (* ended: it said there is nothing left.  stuck: a call *)
                   (* does not return.                                     *)

TreeMarkers == {"pre", "in", "post", "bfs"}
TreeIteratorInit == iterator = NULL

(* The bfs queue has room for max_nodes nodes, the tree's here.            *)
tree_iterator_init(t, marker) ==
  [marker |-> marker, current |-> NULL, seen |-> <<>>, ended |-> FALSE, stuck |-> FALSE,
   next |-> IF marker \in {"in", "post"} THEN TreeLastOn(t.lchild, TreeNodes, t.root)
            ELSE t.root,
   queue |-> IF marker = "bfs" THEN <<t.root>> ELSE <<>>]

TreeIsLeft(t, n) == t.parent[n] # NULL /\ t.lchild[t.parent[n]] = n
TreeIsRight(t, n) == t.parent[n] # NULL /\ t.rchild[t.parent[n]] = n

(* Up from n while it is a right child; NULL at the root, or at a node     *)
(* that its parent does not know.                                          *)
TreeClimb(t, n) ==
  LET up == [m \in TreeNodes |-> IF TreeIsRight(t, m) /\ ~TreeIsLeft(t, m)
                                THEN t.parent[m] ELSE NULL]
      top == TreeLastOn(up, TreeNodes, n)
  IN IF TreeIsLeft(t, top) THEN top ELSE NULL

(* A left child whose parent has no right one is looked at again for ever. *)
pre_next(t, n) ==
  LET top == TreeClimb(t, n)
  IN CASE t.lchild[n] # NULL -> t.lchild[n]
       [] t.lchild[n] = NULL /\ t.rchild[n] # NULL -> t.rchild[n]
       [] OTHER -> IF top = NULL THEN NULL ELSE t.rchild[t.parent[top]]

PreSticks(t, n) ==
  /\ t.lchild[n] = NULL /\ t.rchild[n] = NULL
  /\ TreeClimb(t, n) # NULL /\ t.rchild[t.parent[TreeClimb(t, n)]] = NULL

in_find_smallest_below(t, n) == TreeLastOn(t.lchild, TreeNodes, t.rchild[n])
in_find_smallest_above(t, n) ==
  IF TreeClimb(t, n) = NULL THEN NULL ELSE t.parent[TreeClimb(t, n)]

(* The first node has no left child, and its right one is passed over.     *)
in_next(t, n, prev) ==
  CASE prev = NULL -> t.parent[n]
    [] prev # NULL /\ \/ TreeIsLeft(t, n) \/ prev = t.lchild[n]
                      \/ prev = t.parent[n] /\ t.rchild[prev] = n ->
         IF t.rchild[n] # NULL THEN in_find_smallest_below(t, n)
         ELSE in_find_smallest_above(t, n)
    [] OTHER -> in_find_smallest_below(t, n)

post_find_smallest_below(t, n) ==
  LET down == [m \in TreeNodes |-> IF t.lchild[m] # NULL THEN t.lchild[m] ELSE t.rchild[m]]
  IN IF t.rchild[n] = NULL THEN n ELSE TreeLastOn(down, TreeNodes, t.rchild[n])

(* Mutant: below its parent's right child a node is followed by that child.*)
post_next_shallow(t, n, prev) ==
  CASE TreeIsRight(t, n) -> t.parent[n]
    [] TreeIsLeft(t, n) /\ ~TreeIsRight(t, n) ->
         IF t.rchild[t.parent[n]] = NULL THEN t.parent[n] ELSE t.rchild[t.parent[n]]
    [] OTHER -> NULL
post_next(t, n, prev) ==
  CASE prev = NULL ->
         IF TreeClimb(t, n) = NULL THEN NULL
         ELSE post_find_smallest_below(t, t.parent[TreeClimb(t, n)])
    [] prev # NULL /\ TreeIsRight(t, n) -> t.parent[n]
    [] prev # NULL /\ TreeIsLeft(t, n) /\ ~TreeIsRight(t, n) ->
         post_find_smallest_below(t, t.parent[n])
    [] OTHER -> NULL

bfs_children(t, n) ==
  LET one(m) == IF m = NULL THEN <<>> ELSE <<m>>
  IN one(t.lchild[n]) \o one(t.rchild[n])

TreeEnds(it) == [it EXCEPT !.current = it.next, !.next = NULL, !.ended = TRUE]

(* A child the queue has no room for ends the iteration, and the node that *)
(* was taken out is not handed out.                                        *)
bfs_next(t, it) ==
  LET n == Head(it.queue)
      queue == Tail(it.queue) \o bfs_children(t, n)
  IN CASE it.queue = <<>> -> [it EXCEPT !.ended = TRUE]
       [] it.queue # <<>> /\ n = NULL -> [it EXCEPT !.queue = Tail(@), !.ended = TRUE]
       [] OTHER -> IF Len(queue) > TreeMaxNodes
                   THEN [it EXCEPT !.queue = SubSeq(queue, 1, TreeMaxNodes), !.ended = TRUE]
                   ELSE [it EXCEPT !.queue = queue, !.seen = Append(@, n)]

tree_iterator_next(t, it) ==
  LET n == it.next
      follow == CASE it.marker = "pre" -> pre_next(t, n)
                  [] it.marker = "in" -> in_next(t, n, it.current)
                  [] it.marker = "post" -> post_next(t, n, it.current)
  IN CASE it.marker = "bfs" -> bfs_next(t, it)
       [] it.marker # "bfs" /\ n = NULL -> TreeEnds(it)
       [] it.marker = "pre" /\ n # NULL /\ PreSticks(t, n) -> [it EXCEPT !.stuck = TRUE]
       [] OTHER -> [it EXCEPT !.current = n, !.next = follow, !.seen = Append(@, n)]

(* Bound: an iterator that has ended is only destroyed.                    *)
TreeIteratorCreate(marker) ==
  /\ TreeInUse /\ iterator = NULL
  /\ iterator' = tree_iterator_init(tree, marker) /\ UNCHANGED tree

TreeIteratorNext ==
  /\ iterator # NULL /\ ~iterator.ended /\ ~iterator.stuck
  /\ iterator' = tree_iterator_next(tree, iterator) /\ UNCHANGED tree

TreeIteratorDestroy ==
  /\ iterator # NULL /\ ~iterator.stuck
  /\ iterator' = NULL /\ UNCHANGED tree

(* The tree is not edited under an iterator.                               *)
TreeEdit == iterator = NULL /\ TreeNext /\ UNCHANGED iterator

TreeIteratorSteps ==
  \/ TreeEdit \/ TreeIteratorNext \/ TreeIteratorDestroy
  \/ \E marker \in TreeMarkers : TreeIteratorCreate(marker)

TreeIteratorSpec ==
  TreeInit /\ TreeIteratorInit /\ [][TreeIteratorSteps]_<<tree, iterator>>
-----------------------------------------------------------------------------
(* A traversal by levels: every node once, the nearer ones first, and the  *)
(* children of the earlier one first.                                      *)
TreeByLevels(t, s) ==
  LET at(n) == CHOOSE i \in DOMAIN s : s[i] = n
  IN /\ Len(s) = Cardinality(ToSet(s))
     /\ \A i, j \in DOMAIN s :
          /\ i < j /\ i > 1 => at(t.parent[s[i]]) <= at(t.parent[s[j]])
          /\ s[j] = t.lchild[s[i]] /\ t.rchild[s[i]] \in ToSet(s) => at(t.rchild[s[i]]) = j + 1
TreeFullyForked(t) ==
  \A n \in ToSet(TreeInOrder(t)) : (t.lchild[n] = NULL) = (t.rchild[n] = NULL)

(* s has some of the nodes of order, in their order.                       *)
TreeKeepsOrder(s, order) ==
  /\ ToSet(s) \subseteq ToSet(order)
  /\ \A i, j \in DOMAIN s :
       i < j => \E a, b \in DOMAIN order : a < b /\ order[a] = s[i] /\ order[b] = s[j]

(* Over a tree whose links agree: breadth-first and preorder               *)
(* hand out every node once and in their order, unless the preorder gets   *)
(* stuck; in-order and postorder hand out no node twice and keep the       *)
(* order of the nodes they hand out, and pass over none where every node   *)
(* has two children or none (tree_iterator_next 187-213).                  *)
TreeIterates ==
  iterator # NULL /\ (\A n \in TreeNodes : tree.parent[n] # n) =>
    LET order == TreeWalk(tree, iterator.marker)
        s == iterator.seen
        all(whole) == iterator.ended => ToSet(s) = ToSet(whole)
    IN CASE iterator.marker = "bfs" -> TreeByLevels(tree, s) /\ all(TreeInOrder(tree))
         [] iterator.marker = "pre" -> IsPrefix(s, order) /\ all(order)
         [] OTHER -> TreeKeepsOrder(s, order) /\ (TreeFullyForked(tree) => all(order))
=============================================================================
