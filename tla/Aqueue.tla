------------------------------- MODULE Aqueue -------------------------------
(***************************************************************************)
(* Aqueue (src/src/aqueue.c): the lock-free ring buffer that every worker  *)
(* of the thread pools uses in both directions.  One thread produces, one  *)
(* thread consumes, and the only word they share besides the slots is the  *)
(* atomic len.  A call is modelled as the steps the other thread can see:  *)
(* the load of len (acquire), the copy of the elements with the update of  *)
(* the caller's private index, and the fetch_add or fetch_sub of len       *)
(* (release).                                                              *)
(***************************************************************************)
EXTENDS Naturals, Sequences

CONSTANTS
  Elem,       (* the elements                                              *)
  Zero,       (* what a slot holds before its first element (memset 0)     *)
  Cap,        (* queue->cap                                                *)
  MaxBatch,   (* the longest run a _some call is asked to move             *)
  IndexBound  (* front and back grow without being wrapped in the _some    *)
              (* calls; no _some call starts that would take them past     *)
              (* this bound (in the code: the largest size_t)              *)

ASSUME AqueueAssumption ==
  /\ Cap \in Nat \ {0}
  /\ MaxBatch \in Nat \ {0}
  /\ IndexBound \in Nat
  /\ Zero \notin Elem

VARIABLES
  elems,      (* the slots                                                 *)
  len,        (* the shared, atomic element count                          *)
  back,       (* the producer's index                                      *)
  ppc,        (* where the producer is in its call                         *)
  pop,        (* which call: aqueue_enqueue or aqueue_enqueue_some         *)
  psrc,       (* the elements it will copy (how_many_should_be_enqueued)   *)
  pres,       (* the result it will return                                 *)
  pret,       (* what the producer's last call returned                    *)
  front,      (* the consumer's index                                      *)
  cpc,        (* where the consumer is in its call                         *)
  cop,        (* which call: dequeue, dequeue_some or front                *)
  cn,         (* how many it will copy (how_many_should_be_dequeued)       *)
  cres,       (* the result it will return                                 *)
  cdst,       (* the elements it has copied out                            *)
  cret        (* what the consumer's last call returned                    *)

producer == <<back, ppc, pop, psrc, pres, pret>>
consumer == <<front, cpc, cop, cn, cres, cdst, cret>>
vars == <<elems, len, producer, consumer>>

Slots == 0..Cap-1
Batch == UNION {[1..n -> Elem] : n \in 1..MaxBatch}
Least(a, b) == IF a <= b THEN a ELSE b

aqueue_wrap(i) == i % Cap

(* The slot of the k-th element of a run that starts at slot s: a run goes *)
(* up to the end of elems (..._before_wrapping elements) and continues at  *)
(* slot 0.                                                                 *)
Slot(s, k) == IF k <= Cap - s THEN s + (k - 1) ELSE (k - (Cap - s)) - 1

(* The slots once the two memcpy calls have put src at slot s.             *)
CopyIn(s, src) ==
  [i \in Slots |->
     LET k == IF s <= i THEN (i - s) + 1 ELSE (Cap - s) + i + 1
     IN  IF k <= Len(src) THEN src[k] ELSE elems[i]]

(* What the two memcpy calls read when n elements leave from slot s.       *)
CopyOut(s, n) == [k \in 1..n |-> elems[Slot(s, k)]]

(* Mutant: a _some call advances its index by one element.                 *)
AdvanceByOne(op, i, n) == aqueue_wrap(i + 1)

(* The single calls wrap the index they advance, the _some calls do not.   *)
Advance(op, i, n) == IF op = "one" THEN aqueue_wrap(i + 1) ELSE i + n

Init ==
  /\ elems = [i \in Slots |-> Zero]
  /\ len = 0
  /\ back = 0 /\ front = 0
  /\ ppc = "idle" /\ pop = "one" /\ psrc = <<>> /\ pres = "ok"
  /\ cpc = "idle" /\ cop = "one" /\ cn = 0 /\ cres = "ok" /\ cdst = <<>>
  /\ pret = [res |-> "none", n |-> 0]
  /\ cret = [res |-> "none", out |-> <<>>]

-----------------------------------------------------------------------------
(* The producer.                                                           *)

(* Mutant: one slot is never used.                                         *)
EnqueueFullEarly ==
  /\ ppc = "idle"
  /\ len + 1 >= Cap
  /\ pret' = [res |-> "EXFULL", n |-> 0]
  /\ UNCHANGED <<elems, len, back, ppc, pop, psrc, pres, consumer>>

(* Both enqueue calls load len and give up when there is no room.          *)
EnqueueFull ==
  /\ ppc = "idle"
  /\ len = Cap
  /\ pret' = [res |-> "EXFULL", n |-> 0]
  /\ UNCHANGED <<elems, len, back, ppc, pop, psrc, pres, consumer>>

EnqueueLoad(x) ==
  /\ ppc = "idle"
  /\ len # Cap
  /\ ppc' = "copy" /\ pop' = "one" /\ psrc' = <<x>> /\ pres' = "ok"
  /\ UNCHANGED <<elems, len, back, pret, consumer>>

EnqueueSomeLoad(src) ==
  /\ ppc = "idle"
  /\ len # Cap
  /\ back + MaxBatch <= IndexBound
  /\ ppc' = "copy" /\ pop' = "some"
  /\ psrc' = SubSeq(src, 1, Least(Cap - len, Len(src)))
  /\ pres' = IF Cap - len >= Len(src) THEN "ok" ELSE "EXFULL"
  /\ UNCHANGED <<elems, len, back, pret, consumer>>

EnqueueCopy ==
  /\ ppc = "copy"
  /\ elems' = CopyIn(aqueue_wrap(back), psrc)
  /\ back' = Advance(pop, back, Len(psrc))
  /\ ppc' = "publish"
  /\ UNCHANGED <<len, pop, psrc, pres, pret, consumer>>

EnqueuePublish ==
  /\ ppc = "publish"
  /\ len' = len + Len(psrc)
  /\ pret' = [res |-> pres, n |-> Len(psrc)]
  /\ ppc' = "idle" /\ pop' = "one" /\ psrc' = <<>> /\ pres' = "ok"
  /\ UNCHANGED <<elems, back, consumer>>

-----------------------------------------------------------------------------
(* The consumer.                                                           *)

(* aqueue_dequeue reports any failure of aqueue_front as ENODATA, and so   *)
(* does aqueue_dequeue_some; aqueue_front itself says ENOTRECOVERABLE.     *)
DequeueEmpty(res) ==
  /\ cpc = "idle"
  /\ len = 0
  /\ cret' = [res |-> res, out |-> <<>>]
  /\ UNCHANGED <<elems, len, front, cpc, cop, cn, cres, cdst, producer>>

(* aqueue_dequeue and aqueue_front, past the load of len.                  *)
DequeueLoad(op) ==
  /\ cpc = "idle"
  /\ len # 0
  /\ cpc' = "copy" /\ cop' = op /\ cn' = 1 /\ cres' = "ok"
  /\ UNCHANGED <<elems, len, front, cdst, cret, producer>>

DequeueSomeLoad(k) ==
  /\ cpc = "idle"
  /\ len # 0
  /\ front + MaxBatch <= IndexBound
  /\ cpc' = "copy" /\ cop' = "some"
  /\ cn' = Least(len, k)
  /\ cres' = IF len >= k THEN "ok" ELSE "ENODATA"
  /\ UNCHANGED <<elems, len, front, cdst, cret, producer>>

(* aqueue_front returns a copy of the oldest element and moves nothing.    *)
FrontCopy ==
  /\ cpc = "copy"
  /\ cop = "front"
  /\ cret' = [res |-> "ok", out |-> CopyOut(aqueue_wrap(front), 1)]
  /\ cpc' = "idle" /\ cop' = "one" /\ cn' = 0
  /\ UNCHANGED <<elems, len, front, cres, cdst, producer>>

DequeueCopy ==
  /\ cpc = "copy"
  /\ cop # "front"
  /\ cdst' = CopyOut(aqueue_wrap(front), cn)
  /\ front' = Advance(cop, front, cn)
  /\ cpc' = "release"
  /\ UNCHANGED <<elems, len, cop, cn, cres, cret, producer>>

DequeueRelease ==
  /\ cpc = "release"
  /\ len' = len - cn
  /\ cret' = [res |-> cres, out |-> cdst]
  /\ cpc' = "idle" /\ cop' = "one" /\ cn' = 0 /\ cres' = "ok" /\ cdst' = <<>>
  /\ UNCHANGED <<elems, front, producer>>

-----------------------------------------------------------------------------
Produce ==
  \/ EnqueueFull
  \/ \E x \in Elem : EnqueueLoad(x)
  \/ \E src \in Batch : EnqueueSomeLoad(src)
  \/ EnqueueCopy
  \/ EnqueuePublish

Consume ==
  \/ \E res \in {"ENODATA", "ENOTRECOVERABLE"} : DequeueEmpty(res)
  \/ \E op \in {"one", "front"} : DequeueLoad(op)
  \/ \E k \in 1..MaxBatch : DequeueSomeLoad(k)
  \/ FrontCopy
  \/ DequeueCopy
  \/ DequeueRelease

Next == Produce \/ Consume

Spec == Init /\ [][Next]_vars

-----------------------------------------------------------------------------
(* Properties.                                                             *)

(* The element count never exceeds the capacity (so "cap - len" in the     *)
(* _some call never wraps around) and every local keeps its type.          *)
TypeOK ==
  /\ elems \in [Slots -> Elem \cup {Zero}]
  /\ len \in 0..Cap
  /\ back \in Nat
  /\ ppc \in {"idle", "copy", "publish"}
  /\ pop \in {"one", "some"}
  /\ psrc \in Seq(Elem)
  /\ pres \in {"ok", "EXFULL"}
  /\ front \in Nat
  /\ cpc \in {"idle", "copy", "release"}
  /\ cop \in {"one", "some", "front"}
  /\ cn \in 0..Cap
  /\ cres \in {"ok", "ENODATA"}
  /\ cdst \in Seq(Elem \cup {Zero})

(* Elements copied in but not yet counted in len, and elements copied out  *)
(* but still counted in it.                                                *)
Unpublished == IF ppc = "publish" THEN Len(psrc) ELSE 0
Unreleased == IF cpc = "release" THEN cn ELSE 0

(* The slot of the oldest element that len still counts.                   *)
Oldest == Slot(aqueue_wrap(front), (Cap - Unreleased) + 1)

(* The queue the two threads share: the len slots from Oldest on.          *)
Queued == CopyOut(Oldest, len)

QueuedSlots == {Slot(Oldest, k) : k \in 1..len}

(* No slot that holds a queued element is written while it is queued, so   *)
(* the consumer never copies a slot the producer is copying into: when the *)
(* producer has passed its check and is about to copy, its target slots    *)
(* are all outside the queued ones, whatever the consumer has done since   *)
(* (aqueue_enqueue 132-142, aqueue_enqueue_some 170-194).                  *)
NoOverwrite ==
  ppc = "copy" =>
    \A k \in 1..Len(psrc) : Slot(aqueue_wrap(back), k) \notin QueuedSlots

(* The two private indices and the shared count agree at every step of     *)
(* both calls: back is where the queued and the unpublished elements end.  *)
IndicesAgree ==
  aqueue_wrap(back) = Slot(Oldest, (len + Unpublished) + 1)

(* What the producer checked stays true until it publishes; a partial      *)
(* result means that it was asked for more than it moves.                  *)
RoomKept ==
  ppc # "idle" =>
    /\ len + Len(psrc) <= Cap
    /\ Len(psrc) >= 1
    /\ pop = "one" => Len(psrc) = 1
    /\ Len(psrc) <= IF pres = "ok" THEN MaxBatch ELSE MaxBatch - 1

(* What the consumer checked stays true until it releases.                 *)
DataKept ==
  /\ cpc # "idle" =>
       /\ cn <= len
       /\ cn >= 1
       /\ cop = "one" => cn = 1
       /\ cn <= IF cres = "ok" THEN MaxBatch ELSE MaxBatch - 1
  /\ cop = "front" => cpc = "copy" /\ cn = 1 /\ cres = "ok"

(* Every queued slot holds an element that was enqueued, and so do the     *)
(* unpublished ones: the run the producer copied in.                       *)
SlotsFilled ==
  /\ \A k \in 1..len : elems[Slot(Oldest, k)] \in Elem
  /\ ppc = "publish" =>
       \A k \in 1..Len(psrc) : elems[Slot(Oldest, len + k)] = psrc[k]

(* What the consumer copied out is still the front of the queue when it    *)
(* releases the slots.                                                     *)
CopyIsFront ==
  cpc = "release" =>
    /\ Len(cdst) = cn
    /\ \A k \in 1..cn : cdst[k] = elems[Slot(Oldest, k)]

(* The ring is consistent at every step of any interleaving of one         *)
(* producer and one consumer.                                              *)
RingInv ==
  /\ IndicesAgree
  /\ RoomKept
  /\ DataKept
  /\ SlotsFilled
  /\ CopyIsFront

(* The inductive invariant.  len stays within 0..Cap only because a check  *)
(* made by one side cannot be undone by the other, so that the types and   *)
(* the consistency of the ring depend on each other.                       *)
IInv == TypeOK /\ RingInv

(* Aqueue implements Fifo: an enqueue takes effect when len grows, a       *)
(* dequeue when it shrinks, a peek when it copies, and a refusal when len  *)
(* is loaded.  A batch published in one fetch_add appears all at once.     *)
F == INSTANCE Fifo WITH queue <- Queued
ImplementsFifo == F!Spec
=============================================================================
