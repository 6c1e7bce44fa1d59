------------------------------- MODULE Vqueue -------------------------------
(***************************************************************************)
(* Vqueue (src/src/vqueue.c): a ring of cap elements for one thread, whose *)
(* calls may be told to overwrite the oldest elements.  The calls for one  *)
(* element wrap front and back, the calls for several leave them beyond    *)
(* cap until somebody wraps them.                                          *)
(*                                                                         *)
(* Slots are numbered from 0, as in elems.                                 *)
(***************************************************************************)
EXTENDS Null, Integers, SequencesExt

CONSTANTS
  VqueueElems,  (* what can be queued                                      *)
  VqueueCaps,   (* the values num_elems takes                              *)
  VqueueBatch,  (* bound: the most elements one call is given or asked for *)
  VqueueWord    (* how many values a size_t has: a multiple of every cap,  *)
                (* which 2^64 is of the powers of two only; the other ones *)
                (* would need 2^64 elements to get there                   *)

ASSUME VqueueAssumption ==
  /\ VqueueCaps \subseteq Nat \ {0} /\ VqueueBatch \in Nat /\ VqueueWord \in Nat \ {0}
  /\ \A cap \in VqueueCaps : VqueueWord % cap = 0

VARIABLES
  vqueue,       (* the queue, or NULL                                      *)
  vqueue_moved  (* what the last call took (src) and gave (dest)           *)

VqueueIdle == [src |-> <<>>, dest |-> <<>>]
VqueueInit == vqueue = NULL /\ vqueue_moved = VqueueIdle

(* memset makes every element the same to begin with.                      *)
vqueue_init(cap) ==
  [elems |-> [i \in 0..cap-1 |-> CHOOSE e \in VqueueElems : TRUE],
   front |-> 0, back |-> 0, cap |-> cap, len |-> 0]

VqueueCreate ==
  /\ vqueue = NULL
  /\ \E cap \in VqueueCaps : vqueue' = vqueue_init(cap)
  /\ UNCHANGED vqueue_moved

VqueueDestroy ==
  /\ vqueue # NULL
  /\ vqueue' = NULL /\ vqueue_moved' = VqueueIdle

vqueue_wrap(q, i) == i % q.cap

(* The elements, with src copied in from slot `from` on, round the end.    *)
VqueueCopy(q, from, src) ==
  [i \in 0..q.cap-1 |->
    LET k == (i - from + q.cap) % q.cap
    IN IF k < Len(src) THEN src[k + 1] ELSE q.elems[i]]

(* vqueue_enqueue.                                                         *)
(* Mutant: the front stays where it is.                                    *)
VqueueEnqueueOver(e, overwrite) ==
  /\ vqueue # NULL
  /\ vqueue.len < vqueue.cap \/ overwrite
  /\ vqueue' = [vqueue EXCEPT
       !.elems = VqueueCopy(vqueue, vqueue_wrap(vqueue, vqueue.back), <<e>>),
       !.back = vqueue_wrap(vqueue, @ + 1),
       !.len = IF @ = vqueue.cap THEN @ ELSE @ + 1]
  /\ vqueue_moved' = [src |-> <<e>>, dest |-> <<>>]

VqueueEnqueue(e, overwrite) ==
  /\ vqueue # NULL
  /\ vqueue.len < vqueue.cap \/ overwrite
  /\ vqueue' = [vqueue EXCEPT
       !.elems = VqueueCopy(vqueue, vqueue_wrap(vqueue, vqueue.back), <<e>>),
       !.back = vqueue_wrap(vqueue, @ + 1),
       !.front = IF vqueue.len = vqueue.cap THEN vqueue_wrap(vqueue, @ + 1) ELSE @,
       !.len = IF @ = vqueue.cap THEN @ ELSE @ + 1]
  /\ vqueue_moved' = [src |-> <<e>>, dest |-> <<>>]

VqueueFront(q, n) == [k \in 1..n |-> q.elems[vqueue_wrap(q, q.front + k - 1)]]

VqueueDequeue ==
  /\ vqueue # NULL /\ vqueue.len > 0
  /\ vqueue' = [vqueue EXCEPT !.front = vqueue_wrap(vqueue, @ + 1), !.len = @ - 1]
  /\ vqueue_moved' = [src |-> <<>>, dest |-> VqueueFront(vqueue, 1)]

(* vqueue_enqueue_some takes a prefix of src, at most as long as the room, *)
(* or as the whole queue when it may overwrite.                            *)
VqueueEnqueueSome(src, overwrite) ==
  /\ vqueue # NULL
  /\ LET room == vqueue.cap - vqueue.len
         can == room + IF overwrite THEN vqueue.len ELSE 0
         n == Min({can, Len(src)})
     IN /\ can # 0
        /\ vqueue' = [vqueue EXCEPT
             !.elems = VqueueCopy(vqueue, vqueue_wrap(vqueue, vqueue.back), SubSeq(src, 1, n)),
             !.back = (@ + n) % VqueueWord,
             !.front = (@ + IF n > room THEN n - room ELSE 0) % VqueueWord,
             !.len = @ + Min({n, room})]
        /\ vqueue_moved' = [src |-> SubSeq(src, 1, n), dest |-> <<>>]

VqueueDequeueSome(k) ==
  /\ vqueue # NULL /\ vqueue.len > 0
  /\ LET n == Min({vqueue.len, k})
     IN /\ vqueue' = [vqueue EXCEPT !.front = (@ + n) % VqueueWord, !.len = @ - n]
        /\ vqueue_moved' = [src |-> <<>>, dest |-> VqueueFront(vqueue, n)]

VqueueNext ==
  \/ VqueueCreate \/ VqueueDestroy \/ VqueueDequeue
  \/ \E overwrite \in BOOLEAN :
       \/ \E e \in VqueueElems : VqueueEnqueue(e, overwrite)
       \/ \E n \in 1..VqueueBatch : \E src \in [1..n -> VqueueElems] :
            VqueueEnqueueSome(src, overwrite)
  \/ \E k \in 1..VqueueBatch : VqueueDequeueSome(k)

vqueue_vars == <<vqueue, vqueue_moved>>
VqueueSpec == VqueueInit /\ [][VqueueNext]_vqueue_vars

-----------------------------------------------------------------------------
(* Properties.                                                             *)

(* What is queued, oldest first.                                           *)
VqueueContents == VqueueFront(vqueue, vqueue.len)

VqueueNewest(n, s) == SubSeq(s, Len(s) - Min({n, Len(s)}) + 1, Len(s))

vqueue_back_direct(q) == q.elems[vqueue_wrap(q, q.cap + q.back - 1)]

(* A call appends what it took and lets go of no more than has to make     *)
(* room, or takes away the oldest elements and gives just these, whichever *)
(* calls, wrapping and not wrapping, came before; and the back is the      *)
(* newest element (vqueue_enqueue 124-153 to vqueue_dequeue_some 254, back *)
(* 287-320).                                                               *)
VqueuePromise ==
  [][vqueue # NULL /\ vqueue' # NULL =>
       /\ vqueue_moved'.dest \o VqueueContents'
            = IF vqueue_moved'.src = <<>> THEN VqueueContents
              ELSE VqueueNewest(vqueue.cap, VqueueContents \o vqueue_moved'.src)
       /\ vqueue'.len > 0 => vqueue_back_direct(vqueue') = Last(VqueueContents')]_vqueue_vars
=============================================================================
