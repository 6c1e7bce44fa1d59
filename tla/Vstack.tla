------------------------------- MODULE Vstack -------------------------------
(***************************************************************************)
(* Vstack (src/src/vstack.c): a stack of cap elements, elems[0] at the     *)
(* bottom.  What is popped stays in elems.                                 *)
(***************************************************************************)
EXTENDS Null, Integers, SequencesExt

CONSTANTS VstackElems, VstackCaps

ASSUME VstackAssumption == VstackCaps \subseteq Nat \ {0}

VARIABLES
  vstack,       (* the stack, or NULL                                      *)
  vstack_pushed (* history: what was pushed and is still to be popped      *)

vstack_vars == <<vstack, vstack_pushed>>

VstackInit == vstack = NULL /\ vstack_pushed = <<>>

vstack_init(cap) ==
  [elems |-> [i \in 0..cap-1 |-> CHOOSE e \in VstackElems : TRUE], stored |-> 0, cap |-> cap]

VstackCreate ==
  /\ vstack = NULL
  /\ \E cap \in VstackCaps : vstack' = vstack_init(cap)
  /\ UNCHANGED vstack_pushed

VstackDestroy == vstack # NULL /\ vstack' = NULL /\ vstack_pushed' = <<>>

(* Mutant: the first free element is one further.                          *)
VstackPushHigh(e) ==
  /\ vstack # NULL /\ vstack.stored + 1 < vstack.cap
  /\ vstack' = [vstack EXCEPT !.elems[vstack.stored + 1] = e, !.stored = @ + 1]
  /\ vstack_pushed' = Append(vstack_pushed, e)

VstackPush(e) ==
  /\ vstack # NULL /\ vstack.stored < vstack.cap
  /\ vstack' = [vstack EXCEPT !.elems[vstack.stored] = e, !.stored = @ + 1]
  /\ vstack_pushed' = Append(vstack_pushed, e)

vstack_top_direct(s) == s.elems[s.stored - 1]

VstackPop ==
  /\ vstack # NULL /\ vstack.stored > 0
  /\ vstack' = [vstack EXCEPT !.stored = @ - 1]
  /\ vstack_pushed' = Front(vstack_pushed)

VstackNext ==
  \/ VstackCreate \/ VstackDestroy \/ VstackPop
  \/ \E e \in VstackElems : VstackPush(e)

VstackSpec == VstackInit /\ [][VstackNext]_vstack_vars

-----------------------------------------------------------------------------
(* What vstack_pop and vstack_top would give is the element pushed last    *)
(* among those still on the stack, over every course of pushes and pops    *)
(* (vstack_push 100-116, vstack_top_direct 154-164).                       *)
VstackLifo ==
  vstack # NULL =>
    /\ vstack.stored = Len(vstack_pushed)
    /\ vstack.stored > 0 => vstack_top_direct(vstack) = Last(vstack_pushed)
=============================================================================
