------------------------------- MODULE Varray -------------------------------
(***************************************************************************)
(* Varray (src/src/varray.c): an array that is resized within its memory   *)
(* and reallocated beyond it.  What the elements hold is left out.  An     *)
(* allocation that fails changes nothing, and is a step like any other     *)
(* that is refused.                                                        *)
(***************************************************************************)
EXTENDS Null, Integers, FiniteSetsExt

CONSTANT VarrayMax  (* bound: the largest size and capacity                *)

ASSUME VarrayAssumption == VarrayMax \in Nat

VARIABLE varray
(* The array, or NULL.  memory: how many elements the block at elems has   *)
(* room for, 0 while elems is NULL.  freed: elems dangles.                 *)

VarrayInit == varray = NULL

varray_init == [memory |-> 0, freed |-> FALSE, stored |-> 0, cap |-> 0]

VarrayCreate == varray = NULL /\ varray' = varray_init
VarrayDestroy == varray # NULL /\ varray' = NULL

(* The capacity doubles from cap + 1 on until it is enough: there is one   *)
(* such number below twice what is enough.  The first block is made to     *)
(* measure.                                                                *)
VarrayGrownCaps(a, increase) ==
  IF a.memory = 0 THEN {increase}
  ELSE {c \in a.cap + increase .. 2 * (a.cap + increase) - 1 :
         \E n \in 0..VarrayMax : c = (a.cap + 1) * 2^n}

(* varray_grow adds the increase to the length, which may be less than the *)
(* capacity: the array stays shorter than it was asked to be by as much as *)
(* it was not filled before.  The array it makes, in a set of one.         *)
varray_grow(a, increase) ==
  {[a EXCEPT !.memory = c, !.cap = c, !.stored = @ + increase] :
     c \in VarrayGrownCaps(a, increase)}

(* realloc to no bytes frees the block and returns NULL, which is taken    *)
(* for a failure.                                                          *)
(* Mutant: the length is left alone.                                       *)
varray_shrink_cap(a, decrease) ==
  IF a.cap = decrease THEN [a EXCEPT !.freed = TRUE]
  ELSE [a EXCEPT !.memory = a.cap - decrease, !.cap = @ - decrease]

varray_shrink(a, decrease) ==
  IF a.cap = decrease THEN [a EXCEPT !.freed = TRUE]
  ELSE [a EXCEPT !.memory = a.cap - decrease, !.cap = @ - decrease,
                 !.stored = Min({@, a.cap - decrease})]

varray_realloc(a, new_size) ==
  CASE new_size = a.cap -> {a}
    [] new_size > a.cap -> varray_grow(a, new_size - a.cap)
    [] new_size < a.cap -> {varray_shrink(a, a.cap - new_size)}

varray_resize(a, new_size) ==
  IF new_size > a.cap THEN varray_realloc(a, new_size)
  ELSE {[a EXCEPT !.stored = new_size]}

(* What is done with a freed block is undefined.                           *)
VarrayUsable == varray # NULL /\ ~varray.freed

VarrayResize(new_size) == VarrayUsable /\ varray' \in varray_resize(varray, new_size)

VarrayRealloc(new_size) == VarrayUsable /\ varray' \in varray_realloc(varray, new_size)

VarrayNext ==
  \/ VarrayCreate \/ VarrayDestroy
  \/ \E n \in 0..VarrayMax : VarrayResize(n) \/ VarrayRealloc(n)

VarraySpec == VarrayInit /\ [][VarrayNext]_varray
-----------------------------------------------------------------------------
(* Properties.                                                             *)

(* A position that varray_get and varray_set look at.                      *)
VarrayAccepts(a, pos) == pos < a.stored

(* The positions that varray_get and varray_set accept are in the block,   *)
(* after every course of resizes, whose lengths are not the capacities, and*)
(* reallocations, whose capacities are not what was asked for              *)
(* (varray_get_direct 79-90, varray_grow 132-167, varray_shrink 169-193).  *)
(* After the reallocation to no elements they are not.                     *)
VarrayInBounds ==
  VarrayUsable =>
    /\ \A pos \in 0..varray.stored : VarrayAccepts(varray, pos) => pos < varray.memory
    /\ varray.cap = varray.memory
=============================================================================
