------------------------------- MODULE Vpool -------------------------------
(***************************************************************************)
(* Vpool (src/src/vpool.c): elements of one size taken from chunks of      *)
(* memory, with a stack of returned elements threaded through the elements *)
(* themselves.  The header always describes the newest chunk: growth swaps *)
(* the headers of the old chunk and of the new one.                        *)
(*                                                                         *)
(* An element is <<chunk, index>>.  vpool is NULL when there is no pool.   *)
(***************************************************************************)
EXTENDS Null, Integers, SequencesExt

CONSTANTS
  VpoolItems,       (* the values num_items takes                          *)
  VpoolMaxElements (* bound: how many elements the chunks have in all       *)

ASSUME VpoolAssumption == VpoolItems \subseteq Nat \ {0} /\ VpoolMaxElements \in Nat

VARIABLE vpool

VpoolKinds == {"STATIC", "GUIDED", "DYNAMIC"}

(* held: what the callers of vpool_alloc have not given back.  early: the  *)
(* pool was extended by hand while its chunk had room.                     *)
vpool_init(num_items, kind) ==
  [capacity |-> <<num_items>>, stored |-> 0, next_free |-> <<>>, kind |-> kind,
   held |-> {}, early |-> FALSE]

VpoolInit == vpool = NULL

VpoolCreate ==
  /\ vpool = NULL
  /\ \E n \in VpoolItems, kind \in VpoolKinds : vpool' = vpool_init(n, kind)

VpoolChunk(p) == Len(p.capacity)
vpool_full(p) == p.stored = p.capacity[VpoolChunk(p)]

(* The element given back last is the first to be used again.              *)
(* Mutant: the stack is not popped.                                        *)
VpoolReusesAgain ==
  /\ vpool # NULL /\ vpool.next_free # <<>>
  /\ vpool' = [vpool EXCEPT !.held = @ \cup {Head(vpool.next_free)}]

VpoolReuses ==
  /\ vpool # NULL /\ vpool.next_free # <<>>
  /\ vpool' = [vpool EXCEPT !.next_free = Tail(@),
                            !.held = @ \cup {Head(vpool.next_free)}]

(* The next element of the chunk that was never used.                      *)
VpoolBump(p) ==
  [p EXCEPT !.stored = @ + 1, !.held = @ \cup {<<VpoolChunk(p), p.stored + 1>>}]

VpoolBumps ==
  /\ vpool # NULL /\ vpool.next_free = <<>> /\ ~vpool_full(vpool)
  /\ vpool' = VpoolBump(vpool)

(* Bound: see VpoolMaxElements.                                            *)
VpoolMayGetChunk(p, n) == FoldSeq(+, n, p.capacity) <= VpoolMaxElements

(* A chunk of n elements becomes the current one.                          *)
VpoolNewChunk(p, n) == [p EXCEPT !.capacity = Append(@, n), !.stored = 0]

(* With memory a full DYNAMIC pool gets a chunk twice as large; without    *)
(* memory, and for the other kinds, vpool_alloc returns NULL.              *)
VpoolGrows ==
  /\ vpool # NULL /\ vpool.next_free = <<>> /\ vpool_full(vpool)
  /\ vpool.kind = "DYNAMIC"
  /\ \E n \in {2 * vpool.capacity[VpoolChunk(vpool)]} :
       VpoolMayGetChunk(vpool, n) /\ vpool' = VpoolBump(VpoolNewChunk(vpool, n))

VpoolDealloc(elem) ==
  /\ vpool' = [vpool EXCEPT !.next_free = <<elem>> \o @, !.held = @ \ {elem}]

(* vpool_guided_extend, with memory for n elements.  The pool is GUIDED    *)
(* from then on.                                                           *)
VpoolExtend(p, n) ==
  [VpoolNewChunk(p, n) EXCEPT !.kind = "GUIDED", !.early = @ \/ ~vpool_full(p)]

VpoolGuidedExtend(n) ==
  /\ vpool # NULL /\ vpool.kind # "STATIC"
  /\ VpoolMayGetChunk(vpool, n)
  /\ vpool' = VpoolExtend(vpool, n)

VpoolDestroy ==
  /\ vpool # NULL
  /\ vpool' = NULL

VpoolNext ==
  \/ VpoolCreate \/ VpoolReuses \/ VpoolBumps \/ VpoolGrows
  \/ vpool # NULL /\ \E elem \in vpool.held : VpoolDealloc(elem)
  \/ \E n \in VpoolItems : VpoolGuidedExtend(n)
  \/ VpoolDestroy

VpoolSpec == VpoolInit /\ [][VpoolNext]_vpool

-----------------------------------------------------------------------------
(* Properties.                                                             *)

(* The elements that were handed out at least once, if every chunk but the *)
(* newest was used up.                                                     *)
VpoolUsed(p) ==
  UNION {{<<c, i>> : i \in 1..(IF c = VpoolChunk(p) THEN p.stored ELSE p.capacity[c])} :
         c \in 1..VpoolChunk(p)}
(* No element has two users, and none is at the same time in use and in    *)
(* the stack or in it twice: growth, extension and reuse never hand out    *)
(* what a caller still holds.  And every element of the older chunks is    *)
(* held or waits in the stack, through all swaps of the headers, unless the*)
(* pool was extended while it had room: then the rest of the old chunk is  *)
(* never used (vpool_alloc 131-178, vpool_dealloc 180-194,                 *)
(* vpool_guided_extend 204-223).                                           *)
VpoolOneUser ==
  vpool # NULL =>
    /\ IsInjective(vpool.next_free)
    /\ ToSet(vpool.next_free) \cap vpool.held = {}
    /\ ToSet(vpool.next_free) \cup vpool.held \subseteq VpoolUsed(vpool)
    /\ vpool.stored <= vpool.capacity[VpoolChunk(vpool)]
    /\ ~vpool.early => VpoolUsed(vpool) = vpool.held \cup ToSet(vpool.next_free)
=============================================================================
