-------------------------------- MODULE Vdll --------------------------------
(***************************************************************************)
(* Vdll (src/src/vdll.c): a doubly linked list with a cursor.  Every call  *)
(* first moves the cursor (ptr, pos) to the position it is given; there is *)
(* no pointer to either end.  What the nodes hold is left out: a node is   *)
(* its own contents.                                                       *)
(***************************************************************************)
EXTENDS Null, Integers, Sequences, FiniteSets, FiniteSetsExt

CONSTANTS
  VdllNodes,    (* bound: the nodes there is memory for                    *)
  VdllMaxPos    (* bound: the largest position and number of elements      *)
                (* calls are given                                         *)

ASSUME VdllAssumption ==
  IsFiniteSet(VdllNodes) /\ NULL \notin VdllNodes /\ VdllMaxPos \in Nat

VARIABLE vdll   (* the list, or NULL.  ok: the last call succeeded.        *)
                (* crashed: it followed a null pointer.                    *)

VdllInit == vdll = NULL

vdll_init ==
  [ptr |-> NULL, pos |-> 0, cap |-> 0, prev |-> [n \in {} |-> NULL],
   next |-> [n \in {} |-> NULL], ok |-> TRUE, crashed |-> FALSE]

VdllCreate == vdll = NULL /\ vdll' = vdll_init

VdllFail(d) == [d EXCEPT !.ok = FALSE]
VdllOK(d) == [d EXCEPT !.ok = TRUE]

(* A step of the cursor along link, which is d.next or d.prev, and n of    *)
(* them.                                                                   *)
VdllStep(d, link, by) ==
  IF d.ptr = NULL THEN [d EXCEPT !.crashed = TRUE]
  ELSE [d EXCEPT !.ptr = link[d.ptr], !.pos = d.pos + by]

VdllMove(d, link, by, n) ==
  LET moved[i \in 0..n] ==
        IF i = 0 THEN d ELSE VdllStep(moved[i - 1], link, by)
  IN moved[n]

(* The steps are counted against cap as if the cursor was at the start.    *)
vdll_wind(d, increment) ==
  LET n == Min({increment, Max({d.cap - 1, 0})})
      moved == VdllMove(d, d.next, 1, n)
  IN IF d.ptr = NULL THEN VdllFail(d) ELSE [moved EXCEPT !.ok = (n = increment)]

vdll_rewind(d, decrement) ==
  LET n == Min({decrement, d.pos})
      moved == VdllMove(d, d.prev, -1, n)
  IN IF d.ptr = NULL THEN VdllFail(d) ELSE [moved EXCEPT !.ok = (n = decrement)]

vdll_seek(d, pos) ==
  LET moved == CASE pos > d.pos -> vdll_wind(d, pos - d.pos)
                 [] pos < d.pos -> vdll_rewind(d, d.pos - pos)
                 [] pos = d.pos -> VdllOK(d)
      beyond == pos >= d.cap /\ ~(d.pos = 0 /\ d.cap = 0 /\ pos = 0)
  IN IF ~beyond /\ (moved.ok \/ moved.crashed) THEN moved ELSE VdllFail(d)

(* One new node beside the cursor: after it, or before it when `after`     *)
(* says so, where the cursor moves onto the new node and keeps its number. *)
(* Mutant: the node that follows keeps its prev.                           *)
VdllLinkHalf(d, new, after) ==
  LET p == IF d.ptr = NULL THEN NULL ELSE IF after THEN d.prev[d.ptr] ELSE d.ptr
      n == IF d.ptr = NULL THEN NULL ELSE IF after THEN d.ptr ELSE d.next[d.ptr]
      nodes == {new} \cup DOMAIN d.next
  IN [d EXCEPT
       !.next = [x \in nodes |-> IF x = new THEN n ELSE IF x = p THEN new ELSE d.next[x]],
       !.prev = [x \in nodes |-> IF x = new THEN p ELSE d.prev[x]],
       !.ptr = IF d.ptr = NULL \/ after THEN new ELSE d.ptr,
       !.cap = d.cap + 1]

VdllLink(d, new, after) ==
  LET p == IF d.ptr = NULL THEN NULL ELSE IF after THEN d.prev[d.ptr] ELSE d.ptr
      n == IF d.ptr = NULL THEN NULL ELSE IF after THEN d.ptr ELSE d.next[d.ptr]
      nodes == {new} \cup DOMAIN d.next
  IN [d EXCEPT
       !.next = [x \in nodes |-> IF x = new THEN n ELSE IF x = p THEN new ELSE d.next[x]],
       !.prev = [x \in nodes |-> IF x = new THEN p ELSE IF x = n THEN new ELSE d.prev[x]],
       !.ptr = IF d.ptr = NULL \/ after THEN new ELSE d.ptr,
       !.cap = d.cap + 1]

(* The node at the cursor is taken out; the cursor goes to the one before  *)
(* it, or, at the start, to the one after it.                              *)
VdllUnlink(d) ==
  LET p == d.prev[d.ptr]
      n == d.next[d.ptr]
      rest == DOMAIN d.next \ {d.ptr}
  IN [d EXCEPT
       !.next = [x \in rest |-> IF x = p THEN n ELSE d.next[x]],
       !.prev = [x \in rest |-> IF x = n THEN p ELSE d.prev[x]],
       !.ptr = IF p = NULL THEN n ELSE p,
       !.pos = Max({d.pos - 1, 0}),
       !.cap = Max({d.cap - 1, 0})]

(* num times in a row; a new node is any that is free.                     *)
VdllLinkNew(d, after) ==
  VdllLink(d, CHOOSE new \in VdllNodes \ DOMAIN d.next : TRUE, after)

VdllLinks(d, num, after) ==
  LET longer[i \in 0..num] ==
        IF i = 0 THEN d ELSE VdllLinkNew(longer[i - 1], after)
  IN longer[num]

VdllUnlinks(d, num) ==
  LET shorter[i \in 0..num] == IF i = 0 THEN d ELSE VdllUnlink(shorter[i - 1])
  IN shorter[num]

(* Refused when the cursor cannot wind to the last of the elements and     *)
(* back, or when it ran off the end on the way.                            *)
(* Mutant: the cursor is not moved to pos first.                           *)
vdll_delete_here(d, pos, num) ==
  IF num = 0 \/ d.ptr = NULL \/ pos + num > d.cap THEN VdllFail(d)
  ELSE VdllOK(VdllUnlinks(d, num))

vdll_delete(d, pos, num) ==
  LET at == vdll_seek(d, pos)
      wound == vdll_wind(at, num - 1)
      back == vdll_rewind(wound, num - 1)
  IN CASE num = 0 -> VdllFail(d)
       [] num # 0 /\ (at.crashed \/ ~at.ok) -> at
       [] num # 0 /\ ~at.crashed /\ at.ok /\ (wound.crashed \/ ~wound.ok) -> wound
       [] OTHER -> IF back.ok THEN VdllUnlinks(back, num) ELSE back

(* With memory for fewer nodes the call fails, and deletes from pos + 1 on *)
(* as many as it has added if these are more than one.                     *)
vdll_insert(d, pos, num, after, memory) ==
  LET at == vdll_seek(d, pos)
      added == VdllLinks(at, Min({num, memory}), after)
  IN CASE num = 0 -> VdllFail(d)
       [] num # 0 /\ (at.crashed \/ ~at.ok) -> at
       [] OTHER -> IF num <= memory THEN added
                   ELSE VdllFail(IF memory > 1 THEN vdll_delete(added, pos + 1, memory) ELSE added)

VdllFree(d) == Cardinality(VdllNodes \ DOMAIN d.next)
VdllNumbers == 0..VdllMaxPos

VdllSeek(pos) == vdll' = vdll_seek(vdll, pos)
VdllInsert(pos, num, memory) ==
  /\ Min({num, memory}) <= VdllFree(vdll)
  /\ vdll' = vdll_insert(vdll, pos, num, FALSE, memory)

VdllGrow(num, memory) ==
  /\ Min({num, memory}) <= VdllFree(vdll)
  /\ vdll' = vdll_insert(vdll, Max({vdll.cap - 1, 0}), num, TRUE, memory)

VdllDelete(pos, num) == vdll' = vdll_delete(vdll, pos, num)

(* More than there are makes the position wrap below zero: too large.      *)
VdllShrink(num) ==
  vdll' = IF num <= vdll.cap THEN vdll_delete(vdll, vdll.cap - num, num) ELSE VdllFail(vdll)

(* vdll_get and vdll_set go on through the cursor, vdll_get even if the    *)
(* position is refused.                                                    *)
VdllGet(pos) ==
  LET at == vdll_seek(vdll, pos)
  IN vdll' = [at EXCEPT !.crashed = @ \/ ~at.ok \/ at.ptr = NULL]

VdllSet(pos) ==
  LET at == vdll_seek(vdll, pos)
  IN vdll' = [at EXCEPT !.crashed = @ \/ (at.ok /\ at.ptr = NULL)]

(* Shrinks by all there is; what it cannot reach is leaked.                *)
VdllDestroy == vdll # NULL /\ ~vdll.crashed /\ vdll' = NULL

VdllNext ==
  \/ VdllCreate
  \/ VdllDestroy
  \/ /\ vdll # NULL /\ ~vdll.crashed
     /\ \E pos \in VdllNumbers :
          \/ VdllSeek(pos) \/ VdllGet(pos) \/ VdllSet(pos)
          \/ \E num \in VdllNumbers :
               \/ VdllDelete(pos, num)
               \/ \E memory \in VdllNumbers : VdllInsert(pos, num, memory)
  \/ /\ vdll # NULL /\ ~vdll.crashed
     /\ \E num \in VdllNumbers :
          \/ VdllShrink(num)
          \/ \E memory \in VdllNumbers : VdllGrow(num, memory)

VdllSpec == VdllInit /\ [][VdllNext]_vdll

-----------------------------------------------------------------------------
(* Properties.                                                             *)

VdllHeads(d) == {x \in DOMAIN d.prev : d.prev[x] = NULL}

(* The nodes from the first on.                                            *)
VdllContents(d) ==
  LET node[i \in 1..d.cap] ==
        IF i = 1 THEN CHOOSE x \in VdllHeads(d) : TRUE ELSE d.next[node[i - 1]]
  IN node

(* Through every course of calls, refused ones and failed allocations too, *)
(* the links are the same list in both directions, of cap nodes, with the  *)
(* cursor on the node its number says; or the cursor has run off the end   *)
(* in a vdll_delete of more elements than there are from pos on, and every *)
(* later call is refused (vdll_seek 44-70 to vdll_delete 266-315).         *)
VdllLinked ==
  vdll # NULL /\ ~vdll.crashed =>
    LET s == VdllContents(vdll)
    IN /\ Len(s) = Cardinality(DOMAIN vdll.next) /\ vdll.cap = Len(s)
       /\ \A i \in DOMAIN s :
            /\ vdll.prev[s[i]] = IF i = 1 THEN NULL ELSE s[i - 1]
            /\ vdll.next[s[i]] = IF i = Len(s) THEN NULL ELSE s[i + 1]
       /\ vdll.ptr = IF vdll.pos = Len(s) THEN NULL ELSE s[vdll.pos + 1]

(* A run of elements, put in or taken out at some place: nothing else      *)
(* moves.                                                                  *)
VdllRun(shorter, longer, at) ==
  /\ Len(shorter) <= Len(longer) /\ at \in 0..Len(shorter)
  /\ shorter = SubSeq(longer, 1, at)
                 \o SubSeq(longer, at + Len(longer) - Len(shorter) + 1, Len(longer))

VdllAdded(old, new, at, num) == Len(new) = Len(old) + num /\ VdllRun(old, new, at)
VdllRemoved(old, new, at, num) == Len(old) = Len(new) + num /\ VdllRun(new, old, at)

(* Where a call that succeeds edits the list, whatever was called before:  *)
(* vdll_insert puts num elements right after pos, in an empty list at the  *)
(* start; vdll_grow puts them before the last one; vdll_delete takes out   *)
(* the num that end at pos, or the first num if these are more than there  *)
(* are up to pos; vdll_shrink does that with pos = cap - num.  No other    *)
(* element moves, and a seek, a get, a set and a refused deletion move none*)
(* (vdll_seek 44-70, _vdll_insert 214-264, vdll_delete 266-315, vdll_grow  *)
(* 317-331, vdll_shrink 333-343).  vdll.h says otherwise: an insertion     *)
(* shifts the element at pos to after the new ones (73), a deletion is from*)
(* pos to pos + num - 1 (76), vdll_grow adds after the final element (79)  *)
(* and vdll_shrink removes the last ones (82).                             *)
VdllEdits ==
  [][vdll # NULL /\ vdll' # NULL /\ ~vdll'.crashed =>
       LET old == VdllContents(vdll)
           new == VdllContents(vdll')
       IN \A pos, num, memory \in VdllNumbers :
            /\ VdllSeek(pos) \/ VdllGet(pos) \/ VdllSet(pos) => new = old
            /\ ~vdll'.ok /\ (VdllDelete(pos, num) \/ VdllShrink(num)) => new = old
            /\ vdll'.ok /\ VdllInsert(pos, num, memory) =>
                 VdllAdded(old, new, IF Len(old) = 0 THEN 0 ELSE pos + 1, num)
            /\ vdll'.ok /\ VdllGrow(num, memory) =>
                 VdllAdded(old, new, Max({Len(old) - 1, 0}), num)
            /\ vdll'.ok /\ VdllDelete(pos, num) =>
                 VdllRemoved(old, new, Max({pos + 1 - num, 0}), num)
            /\ vdll'.ok /\ VdllShrink(num) =>
                 VdllRemoved(old, new, Max({Len(old) - num + 1 - num, 0}), num)]_vdll
=============================================================================
