-------------------------- MODULE MpscqueueProofs ---------------------------
(***************************************************************************)
(* Proofs about Mpscqueue, for every capacity, every set of elements and   *)
(* any number of producers.                                                *)
(***************************************************************************)
EXTENDS Mpscqueue, Integers, SequenceTheorems, TLAPS

-----------------------------------------------------------------------------
(* Lemmas about slots.                                                     *)

(* An index less than two laps wraps to itself or to one lap before.       *)
LEMMA WrapIs ==
  ASSUME NEW x \in 0..2*Cap-1
  PROVE  mpscqueue_wrap(x) = IF x < Cap THEN x ELSE x - Cap
<1> USE MpscqueueAssumption
<1>1. CASE x < Cap
  BY <1>1 DEF mpscqueue_wrap
<1>2. CASE x >= Cap
  <2> DEFINE q == x \div Cap
             r == x % Cap
  <2>1. x = q * Cap + r /\ q \in Int /\ r \in 0..Cap-1
    OBVIOUS
  <2> HIDE DEF q, r
  <2>2. ASSUME q <= 0 PROVE FALSE
    <3>1. q * Cap <= 0
      BY <2>1, <2>2
    <3> QED BY <1>2, <2>1, <3>1
  <2>3. ASSUME q >= 2 PROVE FALSE
    <3>1. q * Cap >= 2 * Cap
      BY <2>1, <2>3
    <3> QED BY <2>1, <3>1
  <2>4. q = 1
    BY <2>1, <2>2, <2>3
  <2> QED BY <1>2, <2>1, <2>4 DEF r, mpscqueue_wrap
<1> QED BY <1>1, <1>2

(* The slots of one lap are distinct slots.                                *)
LEMMA LapDistinct ==
  ASSUME NEW s \in Slots, NEW j \in 0..Cap-1, NEW k \in 0..Cap-1
  PROVE  /\ mpscqueue_wrap(s + j) \in Slots
         /\ j # k => mpscqueue_wrap(s + j) # mpscqueue_wrap(s + k)
<1>1. s + j \in 0..2*Cap-1 /\ s + k \in 0..2*Cap-1
  BY MpscqueueAssumption DEF Slots
<1> QED BY <1>1, WrapIs, MpscqueueAssumption DEF Slots

(* A full lap comes back to where it started.                              *)
LEMMA LapCloses ==
  ASSUME NEW s \in Slots
  PROVE  /\ mpscqueue_wrap(s + Cap) = s
         /\ mpscqueue_wrap(s) = s
BY WrapIs, MpscqueueAssumption DEF Slots

(* One slot further than a slot that is n from s.                          *)
LEMMA WrapNext ==
  ASSUME NEW s \in Slots, NEW n \in 0..Cap-1
  PROVE  /\ mpscqueue_wrap(mpscqueue_wrap(s + n) + 1) = mpscqueue_wrap(s + n + 1)
         /\ mpscqueue_wrap(mpscqueue_wrap(s + 1) + n) = mpscqueue_wrap(s + n + 1)
<1> USE MpscqueueAssumption DEF Slots
<1>1. /\ s + n \in 0..2*Cap-1 /\ s + n + 1 \in 0..2*Cap-1 /\ s + 1 \in 0..2*Cap-1
  OBVIOUS
<1>2. /\ mpscqueue_wrap(s + n) \in 0..Cap-1
      /\ mpscqueue_wrap(s + n) + 1 \in 0..2*Cap-1
      /\ mpscqueue_wrap(s + 1) + n \in 0..2*Cap-1
  BY <1>1, WrapIs
<1>3. mpscqueue_wrap(mpscqueue_wrap(s + n) + 1) = mpscqueue_wrap(s + n + 1)
  BY <1>1, <1>2, WrapIs
<1>4. mpscqueue_wrap(mpscqueue_wrap(s + 1) + n) = mpscqueue_wrap(s + n + 1)
  BY <1>1, <1>2, WrapIs
<1> QED BY <1>3, <1>4

(* The slot before the next one is the slot.                               *)
LEMMA WrapBack ==
  ASSUME NEW s \in Slots
  PROVE  /\ mpscqueue_wrap(mpscqueue_wrap(s + 1) + Cap - 1) = s
         /\ mpscqueue_wrap(mpscqueue_wrap(s + Cap - 1) + 1) = s
         /\ mpscqueue_wrap(s + Cap - 1) \in Slots
<1> USE MpscqueueAssumption DEF Slots
<1>1. s + 1 \in 0..2*Cap-1 /\ s + Cap - 1 \in 0..2*Cap-1
  OBVIOUS
<1>2. /\ mpscqueue_wrap(s + 1) + Cap - 1 \in 0..2*Cap-1
      /\ mpscqueue_wrap(s + Cap - 1) + 1 \in 0..2*Cap-1
  BY <1>1, WrapIs
<1> QED BY <1>1, <1>2, WrapIs

-----------------------------------------------------------------------------
(* ProducersInv is inductive.                                              *)
LEMMA OldestIsSlot ==
  ASSUME TypeOK
  PROVE  Oldest \in Slots
BY WrapBack DEF TypeOK, Oldest

LEMMA InitInv == Init => ProducersInv
<1> SUFFICES ASSUME Init PROVE ProducersInv
  OBVIOUS
<1> USE MpscqueueAssumption DEF Init
<1>1. TypeOK
  BY DEF TypeOK, Slots
<1>2. 0 \in Slots /\ Oldest = 0 /\ Unpublished = 0
  BY DEF Oldest, Unpublished, Slots
<1>3. IndicesAgree
  BY <1>2, LapCloses DEF IndicesAgree
<1>4. HolderAgrees /\ RoomKept /\ DataKept /\ CopyIsFront
  BY DEF HolderAgrees, RoomKept, DataKept, CopyIsFront
<1>5. SlotsFilled
  BY DEF SlotsFilled
<1> QED BY <1>1, <1>3, <1>4, <1>5 DEF ProducersInv

(* Steps of a producer that leave the ring, the consumer and everybody's   *)
(* copy alone: the lock, the load, the refusal and the unlock.             *)
LEMMA QuietKeepsInv ==
  ASSUME ProducersInv, TypeOK', HolderAgrees', NEW p \in Producer,
         UNCHANGED <<elems, len, back, consumer>>,
         ppc' = [ppc EXCEPT ![p] = ppc'[p]], ppc[p] # "publish",
         src' = [src EXCEPT ![p] = src'[p]], ppc'[p] # "publish",
         ppc'[p] = "copy" => len < Cap
  PROVE  ProducersInv'
<1>0. /\ ppc \in [Producer -> {"idle", "lock", "load", "copy", "publish", "unlock"}]
      /\ src \in [Producer -> Elem]
  BY DEF ProducersInv, TypeOK
<1>1. Oldest' = Oldest
  BY DEF Oldest, consumer, mpscqueue_wrap
<1>2. Unpublished' = Unpublished
  BY <1>0 DEF Unpublished
<1>3. IndicesAgree'
  BY <1>1, <1>2 DEF ProducersInv, IndicesAgree, mpscqueue_wrap
<1>4. RoomKept'
  BY <1>0 DEF ProducersInv, RoomKept
<1>5. DataKept' /\ CopyIsFront'
  BY <1>1 DEF ProducersInv, DataKept, CopyIsFront, consumer
<1>6. SlotsFilled'
  BY <1>0, <1>1 DEF ProducersInv, SlotsFilled, mpscqueue_wrap
<1> QED BY <1>3, <1>4, <1>5, <1>6 DEF ProducersInv

LEMMA EnqueueKeepsInv ==
  ASSUME ProducersInv, NEW p \in Producer, NEW x \in Elem, Enqueue(p, x)
  PROVE  ProducersInv'
<1>1. TypeOK'
  BY DEF Enqueue, Goes, ProducersInv, TypeOK, consumer
<1>2. HolderAgrees'
  BY DEF Enqueue, Goes, ProducersInv, HolderAgrees, TypeOK
<1>3. /\ ppc' = [ppc EXCEPT ![p] = ppc'[p]] /\ ppc[p] = "idle" /\ ppc'[p] = "lock"
      /\ src' = [src EXCEPT ![p] = src'[p]]
  BY DEF Enqueue, Goes, ProducersInv, TypeOK
<1> QED BY <1>1, <1>2, <1>3, QuietKeepsInv DEF Enqueue

LEMMA QuietStepKeepsInv ==
  ASSUME ProducersInv, NEW p \in Producer,
         \/ EnqueueLocks(p) \/ EnqueueFull(p) \/ EnqueueHasRoom(p) \/ EnqueueUnlocks(p)
  PROVE  ProducersInv'
<1> USE DEF EnqueueLocks, EnqueueFull, EnqueueHasRoom, EnqueueUnlocks, Goes
<1>1. TypeOK'
  BY DEF ProducersInv, TypeOK, consumer
<1>2. HolderAgrees'
  BY MpscqueueAssumption DEF ProducersInv, HolderAgrees, TypeOK
<1>3. /\ ppc' = [ppc EXCEPT ![p] = ppc'[p]] /\ ppc[p] # "publish" /\ ppc'[p] # "publish"
      /\ src' = [src EXCEPT ![p] = src'[p]] /\ UNCHANGED <<elems, len, back, consumer>>
  BY DEF ProducersInv, TypeOK
<1>4. ppc'[p] = "copy" => len < Cap
  BY MpscqueueAssumption DEF ProducersInv, TypeOK
<1> QED BY <1>1, <1>2, <1>3, <1>4, QuietKeepsInv

(* One producer at a time is between the load and the unlock.              *)
LEMMA OneInside ==
  ASSUME ProducersInv, NEW p \in Producer, NEW q \in Producer,
         ppc[p] \in {"copy", "publish"}, q # p
  PROVE  ppc[q] \notin {"load", "copy", "publish", "unlock"}
BY DEF ProducersInv, HolderAgrees

(* The copy fills the first free slot, next to the queued ones.            *)
LEMMA CopiesKeepsInv ==
  ASSUME ProducersInv, NEW p \in Producer, EnqueueCopies(p)
  PROVE  ProducersInv'
<1> USE MpscqueueAssumption
<1>0. /\ len \in 0..Cap-1 /\ back \in Slots /\ Oldest \in Slots
      /\ elems \in [Slots -> Elem \cup {Zero}]
      /\ ppc \in [Producer -> {"idle", "lock", "load", "copy", "publish", "unlock"}]
      /\ src \in [Producer -> Elem]
      /\ ppc[p] = "copy" /\ ppc' = [ppc EXCEPT ![p] = "publish"]
  BY OldestIsSlot DEF ProducersInv, TypeOK, RoomKept, EnqueueCopies, Goes
<1>1. \A q \in Producer : q # p => ppc[q] \notin {"load", "copy", "publish", "unlock"}
  BY <1>0, OneInside
<1>2. Unpublished = 0 /\ Unpublished' = 1
  BY <1>0, <1>1 DEF Unpublished
<1>3. back = mpscqueue_wrap(Oldest + len) /\ mpscqueue_wrap(back) = back
  <2>1. back = mpscqueue_wrap((Oldest + len) + 0)
    BY <1>2 DEF ProducersInv, IndicesAgree
  <2>2. (Oldest + len) + 0 = Oldest + len
    BY <1>0 DEF Slots
  <2> QED BY <2>1, <2>2, <1>0, LapCloses
<1>4. Oldest' = Oldest /\ len' = len /\ elems' = [elems EXCEPT ![back] = src[p]]
  BY <1>3 DEF Oldest, EnqueueCopies, consumer, mpscqueue_wrap
<1>5. back' = mpscqueue_wrap(Oldest + len + 1)
  BY <1>0, <1>3, WrapNext DEF EnqueueCopies
<1>6. back' \in Slots
  <2>1. back + 1 \in 0..2*Cap-1
    BY <1>0 DEF Slots
  <2> QED BY <2>1, WrapIs, <1>0 DEF EnqueueCopies, Slots
<1>7. TypeOK'
  BY <1>0, <1>4, <1>6 DEF EnqueueCopies, ProducersInv, TypeOK, consumer
<1>8. HolderAgrees'
  BY <1>0 DEF EnqueueCopies, ProducersInv, HolderAgrees
<1>9. IndicesAgree'
  BY <1>0, <1>2, <1>4, <1>5 DEF IndicesAgree, mpscqueue_wrap, Slots
<1>10. RoomKept' /\ DataKept'
  BY <1>0, <1>1 DEF EnqueueCopies, ProducersInv, RoomKept, DataKept, consumer
<1>11. \A k \in 0..len-1 : /\ mpscqueue_wrap(Oldest + k) \in Slots
                           /\ mpscqueue_wrap(Oldest + k) # back
                           /\ elems'[mpscqueue_wrap(Oldest + k)] = elems[mpscqueue_wrap(Oldest + k)]
  <2> SUFFICES ASSUME NEW k \in 0..len-1
               PROVE  /\ mpscqueue_wrap(Oldest + k) \in Slots
                      /\ mpscqueue_wrap(Oldest + k) # back
    BY <1>0, <1>4
  <2>1. k \in 0..Cap-1 /\ len \in 0..Cap-1 /\ k # len
    BY <1>0
  <2> QED BY <2>1, <1>0, <1>3, LapDistinct
<1>12. elems'[mpscqueue_wrap(Oldest + len)] = src[p]
  BY <1>0, <1>3, <1>4
<1>13. SlotsFilled'
  <2>1. \A k \in 0..len-1 : elems'[mpscqueue_wrap(Oldest + k)] \in Elem
    BY <1>11 DEF ProducersInv, SlotsFilled
  <2>2. \A q \in Producer : ppc'[q] = "publish" => q = p /\ src'[q] = src[p]
    BY <1>0, <1>1 DEF EnqueueCopies
  <2> QED BY <2>1, <2>2, <1>4, <1>12 DEF SlotsFilled, mpscqueue_wrap
<1>14. CopyIsFront'
  <2> SUFFICES ASSUME cpc = "release" PROVE dest = elems'[Oldest]
    BY <1>4 DEF CopyIsFront, EnqueueCopies, consumer
  <2>1. len > 0 /\ dest = elems[Oldest]
    BY DEF ProducersInv, DataKept, CopyIsFront
  <2>2. 0 \in 0..len-1 /\ Oldest + 0 = Oldest
    BY <1>0, <2>1 DEF Slots
  <2>3. elems'[mpscqueue_wrap(Oldest)] = elems[mpscqueue_wrap(Oldest)]
    BY <2>2, <1>11
  <2> QED BY <2>1, <2>3, <1>0, LapCloses
<1> QED BY <1>7, <1>8, <1>9, <1>10, <1>13, <1>14 DEF ProducersInv

(* The unpublished slot becomes the last queued one.                       *)
LEMMA PublishesKeepsInv ==
  ASSUME ProducersInv, NEW p \in Producer, EnqueuePublishes(p)
  PROVE  ProducersInv'
<1> USE MpscqueueAssumption
<1>0. /\ len \in 0..Cap-1 /\ Oldest \in Slots
      /\ ppc \in [Producer -> {"idle", "lock", "load", "copy", "publish", "unlock"}]
      /\ src \in [Producer -> Elem]
      /\ ppc[p] = "publish" /\ ppc' = [ppc EXCEPT ![p] = "unlock"]
      /\ len' = len + 1
  BY OldestIsSlot DEF ProducersInv, TypeOK, RoomKept, EnqueuePublishes, Goes
<1>1. \A q \in Producer : q # p => ppc[q] \notin {"load", "copy", "publish", "unlock"}
  BY <1>0, OneInside
<1>2. Unpublished = 1 /\ Unpublished' = 0
  BY <1>0, <1>1 DEF Unpublished
<1>4. Oldest' = Oldest
  BY DEF Oldest, EnqueuePublishes, consumer, mpscqueue_wrap
<1>7. TypeOK'
  BY <1>0 DEF EnqueuePublishes, ProducersInv, TypeOK, consumer
<1>8. HolderAgrees'
  BY <1>0 DEF EnqueuePublishes, ProducersInv, HolderAgrees
<1>9. IndicesAgree'
  <2>1. back' = mpscqueue_wrap((Oldest + len) + 1)
    BY <1>2 DEF ProducersInv, IndicesAgree, EnqueuePublishes
  <2>2. (Oldest + len) + 1 = (Oldest + (len + 1)) + 0
    BY <1>0 DEF Slots
  <2> QED BY <2>1, <2>2, <1>0, <1>2, <1>4 DEF IndicesAgree, mpscqueue_wrap
<1>10. RoomKept' /\ DataKept'
  BY <1>0, <1>1 DEF EnqueuePublishes, ProducersInv, RoomKept, DataKept, consumer
<1>13. SlotsFilled'
  <2>1. \A k \in 0..len : elems[mpscqueue_wrap(Oldest + k)] \in Elem
    BY <1>0 DEF ProducersInv, SlotsFilled
  <2>2. \A q \in Producer : ppc'[q] # "publish"
    BY <1>0, <1>1
  <2>3. (len + 1) - 1 = len
    BY <1>0
  <2> QED BY <2>1, <2>2, <2>3, <1>0, <1>4 DEF SlotsFilled, mpscqueue_wrap, EnqueuePublishes
<1>14. CopyIsFront'
  BY <1>4 DEF ProducersInv, CopyIsFront, EnqueuePublishes, consumer
<1> QED BY <1>7, <1>8, <1>9, <1>10, <1>13, <1>14 DEF ProducersInv

-----------------------------------------------------------------------------
(* The consumer's steps.                                                   *)
LEMMA LoadKeepsInv ==
  ASSUME ProducersInv,
         \/ \E code \in {"1", "2"} : DequeueEmpty(code)
         \/ \E op \in {"dequeue", "front"} : DequeueLoad(op)
         \/ FrontCopy
  PROVE  ProducersInv'
<1> USE MpscqueueAssumption DEF DequeueEmpty, DequeueLoad, FrontCopy, producers
<1>1. Oldest' = Oldest /\ Unpublished' = Unpublished
  BY DEF Oldest, Unpublished, mpscqueue_wrap
<1>2. /\ len \in 0..Cap /\ elems \in [Slots -> Elem \cup {Zero}] /\ front \in Slots
  BY DEF ProducersInv, TypeOK
<1>3. TypeOK'
  <2>1. cret' \in [code : {"none", "0", "1", "2"}, out : Seq(Elem \cup {Zero})]
    <3>1. mpscqueue_wrap(front) \in Slots
      BY <1>2, LapCloses
    <3>2. elems[mpscqueue_wrap(front)] \in Elem \cup {Zero}
      BY <1>2, <3>1
    <3>3. <<elems[mpscqueue_wrap(front)]>> \in Seq(Elem \cup {Zero})
      BY <3>2
    <3>4. cret \in [code : {"none", "0", "1", "2"}, out : Seq(Elem \cup {Zero})]
      BY DEF ProducersInv, TypeOK
    <3>5. CASE \E code \in {"1", "2"} : DequeueEmpty(code)
      <4>1. PICK code \in {"1", "2"} : cret' = [code |-> code, out |-> <<>>]
        BY <3>5
      <4>2. <<>> \in Seq(Elem \cup {Zero})
        OBVIOUS
      <4> QED BY <4>1, <4>2
    <3>6. CASE FrontCopy
      BY <3>3, <3>6
    <3>7. CASE \E op \in {"dequeue", "front"} : DequeueLoad(op)
      BY <3>4, <3>7
    <3> QED BY <3>5, <3>6, <3>7
  <2>2. cpc' \in {"idle", "copy", "release"} /\ cop' \in {"dequeue", "front"}
    BY DEF ProducersInv, TypeOK
  <2>3. UNCHANGED <<elems, len, front, dest, producers>>
    OBVIOUS
  <2> QED BY <2>1, <2>2, <2>3 DEF ProducersInv, TypeOK
<1>4. HolderAgrees' /\ RoomKept'
  BY DEF ProducersInv, HolderAgrees, RoomKept
<1>5. IndicesAgree'
  BY <1>1 DEF ProducersInv, IndicesAgree, mpscqueue_wrap
<1>6. DataKept' /\ CopyIsFront'
  BY <1>1, <1>2 DEF ProducersInv, DataKept, CopyIsFront
<1>7. SlotsFilled'
  BY <1>1 DEF ProducersInv, SlotsFilled, mpscqueue_wrap
<1> QED BY <1>3, <1>4, <1>5, <1>6, <1>7 DEF ProducersInv

(* front moves on, and the oldest counted slot is now the one before it.   *)
LEMMA DequeueCopyFrame ==
  ASSUME ProducersInv, DequeueCopy
  PROVE  /\ front \in Slots /\ len \in 1..Cap /\ elems \in [Slots -> Elem \cup {Zero}]
         /\ cpc = "copy" /\ cpc' = "release" /\ Oldest = front
         /\ mpscqueue_wrap(front) = front
         /\ front' = mpscqueue_wrap(front + 1) /\ front' \in Slots
         /\ Oldest' = Oldest
<1> USE MpscqueueAssumption
<1>0. /\ front \in Slots /\ len \in 1..Cap /\ elems \in [Slots -> Elem \cup {Zero}]
      /\ cpc = "copy" /\ cpc' = "release" /\ Oldest = front /\ mpscqueue_wrap(front) = front
  BY LapCloses DEF ProducersInv, TypeOK, DataKept, DequeueCopy, Oldest
<1>1. front' = mpscqueue_wrap(front + 1) /\ front' \in Slots
  <2>1. front + 1 \in 0..2*Cap-1
    BY <1>0 DEF Slots
  <2> QED BY <2>1, WrapIs, <1>0 DEF DequeueCopy, Slots
<1>2. Oldest' = Oldest
  <2>1. Oldest' = mpscqueue_wrap(front' + Cap - 1)
    BY <1>0 DEF Oldest, mpscqueue_wrap
  <2> QED BY <2>1, <1>0, <1>1, WrapBack
<1> QED BY <1>0, <1>1, <1>2

LEMMA DequeueCopyKeepsInv ==
  ASSUME ProducersInv, DequeueCopy
  PROVE  ProducersInv'
<1> USE MpscqueueAssumption
<1>0. /\ front \in Slots /\ len \in 1..Cap /\ elems \in [Slots -> Elem \cup {Zero}]
      /\ cpc = "copy" /\ cpc' = "release" /\ Oldest = front
      /\ mpscqueue_wrap(front) = front /\ front' \in Slots
  BY DequeueCopyFrame
<1>2. Oldest' = Oldest /\ Unpublished' = Unpublished
  BY DequeueCopyFrame DEF Unpublished, DequeueCopy, producers
<1>3. TypeOK'
  BY <1>0 DEF DequeueCopy, ProducersInv, TypeOK, producers
<1>4. HolderAgrees' /\ RoomKept'
  BY DEF DequeueCopy, ProducersInv, HolderAgrees, RoomKept, producers
<1>5. IndicesAgree'
  BY <1>2 DEF DequeueCopy, ProducersInv, IndicesAgree, mpscqueue_wrap, producers
<1>6. DataKept'
  BY <1>0 DEF DequeueCopy, ProducersInv, DataKept, producers
<1>7. SlotsFilled'
  BY <1>2 DEF DequeueCopy, ProducersInv, SlotsFilled, mpscqueue_wrap, producers
<1>8. CopyIsFront'
  BY <1>0, <1>2 DEF DequeueCopy, CopyIsFront, producers
<1> QED BY <1>3, <1>4, <1>5, <1>6, <1>7, <1>8 DEF ProducersInv

(* The copied slot leaves the queue, from its front.                       *)
LEMMA ReleaseFrame ==
  ASSUME ProducersInv, DequeueRelease
  PROVE  /\ front \in Slots /\ len \in 1..Cap /\ Oldest \in Slots /\ cpc = "release"
         /\ cpc' = "idle" /\ len' = len - 1 /\ elems' = elems /\ Oldest' = front
         /\ dest \in Elem \cup {Zero} /\ cop # "front"
         /\ \A n \in 0..Cap-1 : mpscqueue_wrap(front + n) = mpscqueue_wrap(Oldest + n + 1)
<1>0. /\ front \in Slots /\ len \in 1..Cap /\ Oldest \in Slots /\ cpc = "release"
      /\ cpc' = "idle" /\ len' = len - 1 /\ elems' = elems /\ Oldest' = front
      /\ dest \in Elem \cup {Zero} /\ cop # "front"
  BY OldestIsSlot, MpscqueueAssumption
     DEF ProducersInv, TypeOK, DataKept, DequeueRelease, Oldest
<1>1. front = mpscqueue_wrap(Oldest + 1)
  BY <1>0, WrapBack DEF Oldest
<1> QED BY <1>0, <1>1, WrapNext

LEMMA ReleaseKeepsInv ==
  ASSUME ProducersInv, DequeueRelease
  PROVE  ProducersInv'
<1> USE MpscqueueAssumption
<1>0. /\ front \in Slots /\ len \in 1..Cap /\ Oldest \in Slots /\ cpc = "release"
      /\ cpc' = "idle" /\ len' = len - 1 /\ elems' = elems /\ Oldest' = front
      /\ dest \in Elem \cup {Zero} /\ cop # "front"
  BY ReleaseFrame
<1>2. \A n \in 0..Cap-1 : mpscqueue_wrap(front + n) = mpscqueue_wrap(Oldest + n + 1)
  BY ReleaseFrame
<1>3. TypeOK'
  BY <1>0 DEF DequeueRelease, ProducersInv, TypeOK, producers
<1>4. HolderAgrees' /\ RoomKept' /\ DataKept' /\ CopyIsFront'
  BY <1>0 DEF DequeueRelease, ProducersInv, HolderAgrees, RoomKept, DataKept, CopyIsFront,
              producers
<1>5. Unpublished' = Unpublished /\ Unpublished \in 0..1
  BY DEF Unpublished, DequeueRelease, producers
<1>6. (len - 1) + Unpublished \in 0..Cap-1
  <2>1. Unpublished = 1 => len < Cap
    BY DEF Unpublished, ProducersInv, RoomKept
  <2> QED BY <2>1, <1>0, <1>5
<1>7. IndicesAgree'
  <2>1. mpscqueue_wrap(front + ((len - 1) + Unpublished))
          = mpscqueue_wrap(Oldest + ((len - 1) + Unpublished) + 1)
    BY <1>2, <1>6
  <2>2. /\ Oldest + ((len - 1) + Unpublished) + 1 = (Oldest + len) + Unpublished
        /\ front + ((len - 1) + Unpublished) = (front + (len - 1)) + Unpublished
    BY <1>0, <1>5 DEF Slots
  <2>3. back' = mpscqueue_wrap((front + (len - 1)) + Unpublished)
    BY <2>1, <2>2 DEF ProducersInv, IndicesAgree, DequeueRelease, producers
  <2> QED BY <2>3, <1>0, <1>5 DEF IndicesAgree, mpscqueue_wrap
<1>8. SlotsFilled'
  <2>1. \A k \in 0..len-1-1 : elems[mpscqueue_wrap(front + k)] \in Elem
    <3> SUFFICES ASSUME NEW k \in 0..len-1-1
                 PROVE  elems[mpscqueue_wrap(front + k)] \in Elem
      OBVIOUS
    <3>1. k \in 0..Cap-1 /\ k + 1 \in 0..len-1 /\ Oldest + k + 1 = Oldest + (k + 1)
      BY <1>0 DEF Slots
    <3>2. mpscqueue_wrap(front + k) = mpscqueue_wrap(Oldest + (k + 1))
      BY <1>2, <3>1
    <3> QED BY <3>1, <3>2 DEF ProducersInv, SlotsFilled
  <2>2. \A p \in Producer :
          ppc[p] = "publish" => elems[mpscqueue_wrap(front + (len - 1))] = src[p]
    <3> SUFFICES ASSUME NEW p \in Producer, ppc[p] = "publish"
                 PROVE  elems[mpscqueue_wrap(front + (len - 1))] = src[p]
      OBVIOUS
    <3>1. len - 1 \in 0..Cap-1 /\ Oldest + (len - 1) + 1 = Oldest + len
      BY <1>0 DEF Slots
    <3>2. mpscqueue_wrap(front + (len - 1)) = mpscqueue_wrap(Oldest + len)
      BY <1>2, <3>1
    <3> QED BY <3>2 DEF ProducersInv, SlotsFilled
  <2> QED BY <2>1, <2>2, <1>0 DEF SlotsFilled, mpscqueue_wrap, DequeueRelease, producers
<1> QED BY <1>3, <1>4, <1>7, <1>8 DEF ProducersInv

-----------------------------------------------------------------------------
(* For any number of producers and every capacity: the mutex serialises    *)
(* the producers' half, the room and the data a call found are still there *)
(* when it uses them, and the indices, the count and the slots agree at    *)
(* every step of the calls (mpscqueue_enqueue 83-115, mpscqueue_dequeue    *)
(* 117-142).                                                               *)
THEOREM ProducersCorrect == Spec => []ProducersInv
<1>1. ProducersInv /\ [Next]_vars => ProducersInv'
  <2> SUFFICES ASSUME ProducersInv, [Next]_vars PROVE ProducersInv'
    OBVIOUS
  <2>1. ASSUME NEW p \in Producer, EnqueueStep(p) PROVE ProducersInv'
    BY <2>1, QuietStepKeepsInv, CopiesKeepsInv, PublishesKeepsInv DEF EnqueueStep
  <2>2. ASSUME NEW p \in Producer, NEW x \in Elem, Enqueue(p, x) PROVE ProducersInv'
    BY <2>2, EnqueueKeepsInv
  <2>3. CASE DequeueStep \/ \/ \E code \in {"1", "2"} : DequeueEmpty(code)
                            \/ \E op \in {"dequeue", "front"} : DequeueLoad(op)
    BY <2>3, LoadKeepsInv, DequeueCopyKeepsInv, ReleaseKeepsInv DEF DequeueStep
  <2>4. CASE UNCHANGED vars
    <3>1. Oldest' = Oldest /\ Unpublished' = Unpublished
      BY <2>4 DEF vars, producers, consumer, Oldest, Unpublished, mpscqueue_wrap
    <3> QED BY <2>4, <3>1
       DEF vars, producers, consumer, ProducersInv, TypeOK, HolderAgrees, IndicesAgree,
           RoomKept, DataKept, SlotsFilled, CopyIsFront, mpscqueue_wrap
  <2> QED BY <2>1, <2>2, <2>3, <2>4 DEF Next
<1> QED BY InitInv, <1>1, PTL DEF Spec

(* No producer copies over an element that len counts, whoever took room   *)
(* between its load of len and its copy (mpscqueue_enqueue 94-104).        *)
LEMMA InvMeansNoOverwrite == ProducersInv => NoOverwrite
<1> SUFFICES ASSUME ProducersInv, NEW p \in Producer, ppc[p] = "copy", NEW k \in 1..len
             PROVE  mpscqueue_wrap(Oldest + k - 1) # back
  BY DEF NoOverwrite
<1>1. Oldest \in Slots /\ len \in 0..Cap-1
  BY OldestIsSlot, MpscqueueAssumption DEF ProducersInv, TypeOK, RoomKept
<1>2. Unpublished = 0
  BY OneInside DEF Unpublished
<1>3. back = mpscqueue_wrap(Oldest + len)
  <2>1. (Oldest + len) + 0 = Oldest + len
    BY <1>1 DEF Slots
  <2> QED BY <1>2, <2>1 DEF ProducersInv, IndicesAgree
<1>4. /\ k - 1 \in 0..Cap-1 /\ len \in 0..Cap-1 /\ k - 1 # len
      /\ Oldest + k - 1 = Oldest + (k - 1)
  BY <1>1, MpscqueueAssumption DEF Slots
<1> QED BY <1>1, <1>3, <1>4, LapDistinct

THEOREM NothingOverwritten == Spec => []NoOverwrite
BY InvMeansNoOverwrite, ProducersCorrect, PTL

-----------------------------------------------------------------------------
(* Mpscqueue implements Fifo.                                              *)

LEMMA QueuedIsSeq ==
  ASSUME ProducersInv
  PROVE  /\ len \in 0..Cap
         /\ Queued \in Seq(Elem) /\ Len(Queued) = len
         /\ \A k \in 1..len : Queued[k] = elems[mpscqueue_wrap(Oldest + k - 1)]
<1>1. len \in 0..Cap /\ len \in Nat /\ Oldest \in Slots
  BY OldestIsSlot, MpscqueueAssumption DEF ProducersInv, TypeOK
<1>2. \A k \in 1..len : elems[mpscqueue_wrap(Oldest + k - 1)] \in Elem
  <2> SUFFICES ASSUME NEW k \in 1..len
               PROVE  elems[mpscqueue_wrap(Oldest + k - 1)] \in Elem
    OBVIOUS
  <2>1. k - 1 \in 0..len-1 /\ Oldest + k - 1 = Oldest + (k - 1)
    BY <1>1 DEF Slots
  <2> QED BY <2>1 DEF ProducersInv, SlotsFilled
<1>3. Queued \in Seq(Elem)
  BY <1>1, <1>2, IsASeq DEF Queued
<1> QED BY <1>1, <1>3, LenProperties DEF Queued

(* The oldest element of a sequence, and the others, as Fifo writes them.  *)
LEMMA FirstAndRest ==
  ASSUME NEW S, NEW s \in Seq(S), Len(s) >= 1
  PROVE  /\ SubSeq(s, 1, 1) = <<s[1]>>
         /\ SubSeq(s, 2, Len(s)) \in Seq(S)
         /\ Len(SubSeq(s, 2, Len(s))) = Len(s) - 1
         /\ \A k \in 1..Len(s) - 1 : SubSeq(s, 2, Len(s))[k] = s[k + 1]
<1>0. Len(s) \in Nat /\ \A k \in 1..Len(s) : s[k] \in S
  BY LenProperties, ElementOfSeq
<1> DEFINE n == Len(s)
           first == SubSeq(s, 1, 1)
           rest == SubSeq(s, 2, n)
<1>1. first \in Seq(S) /\ Len(first) = 1 /\ first[1] = s[1]
  <2>1. \A i \in 1..1 : s[i] \in S
    BY <1>0
  <2>2. /\ first \in Seq(S) /\ Len(first) = IF 1 <= 1 THEN 1 - 1 + 1 ELSE 0
        /\ \A i \in 1..1 - 1 + 1 : first[i] = s[1 + i - 1]
    BY <2>1, SubSeqProperties
  <2> HIDE DEF first
  <2> QED BY <2>2
<1>2. first = <<s[1]>>
  <2>1. <<s[1]>> \in Seq(S) /\ Len(<<s[1]>>) = 1 /\ <<s[1]>>[1] = s[1]
    BY <1>0
  <2> HIDE DEF first
  <2> QED BY <1>1, <2>1, SeqEqual
<1>3. /\ rest \in Seq(S) /\ Len(rest) = IF 2 <= n THEN n - 2 + 1 ELSE 0
      /\ \A i \in 1..n - 2 + 1 : rest[i] = s[2 + i - 1]
  <2>1. 2 \in Int /\ n \in Int /\ \A i \in 2..n : s[i] \in S
    BY <1>0
  <2> HIDE DEF n
  <2> QED BY <2>1, SubSeqProperties
<1>4. rest \in Seq(S) /\ Len(rest) = n - 1 /\ \A k \in 1..n - 1 : rest[k] = s[k + 1]
  <2>0. n \in Nat /\ n >= 1
    BY <1>0
  <2> HIDE DEF rest, n
  <2>1. Len(rest) = n - 1
    <3>1. CASE n = 1
      BY <1>3, <3>1
    <3>2. CASE n >= 2
      BY <1>3, <2>0, <3>2
    <3> QED BY <2>0, <3>1, <3>2
  <2>2. \A k \in 1..n - 1 : k \in 1..n - 2 + 1 /\ 2 + k - 1 = k + 1
    BY <2>0
  <2> QED BY <1>3, <2>1, <2>2
<1> QED BY <1>2, <1>4

(* A step that keeps len and the queued elements keeps the queue.          *)
LEMMA QueuedUnchanged ==
  ASSUME len' = len, Oldest' = Oldest,
         \A k \in 1..len : elems'[mpscqueue_wrap(Oldest + k - 1)]
                             = elems[mpscqueue_wrap(Oldest + k - 1)]
  PROVE  Queued' = Queued
BY DEF Queued, mpscqueue_wrap

LEMMA InitRefines == Init => F!Init
<1> SUFFICES ASSUME Init PROVE F!Init
  OBVIOUS
<1>1. ProducersInv
  BY InitInv
<1>2. Queued = <<>>
  BY <1>1, QueuedIsSeq, EmptySeq DEF Init
<1> QED BY <1>2 DEF F!Init, Init, Meaning

(* Publishing is the append of the producer's element.                     *)
LEMMA PublishRefines ==
  ASSUME ProducersInv, NEW p \in Producer, EnqueuePublishes(p)
  PROVE  F!Enqueue(<<src[p]>>, 1)
<1>1. ProducersInv'
  BY PublishesKeepsInv
<1>2. /\ len \in 0..Cap-1 /\ Oldest \in Slots /\ src[p] \in Elem
      /\ len' = len + 1 /\ elems' = elems /\ Oldest' = Oldest
      /\ elems[mpscqueue_wrap(Oldest + len)] = src[p]
  BY OldestIsSlot, MpscqueueAssumption
     DEF ProducersInv, TypeOK, RoomKept, SlotsFilled, EnqueuePublishes, Goes, Oldest, consumer,
         mpscqueue_wrap
<1>3. /\ Queued \in Seq(Elem) /\ Len(Queued) = len
      /\ \A k \in 1..len : Queued[k] = elems[mpscqueue_wrap(Oldest + k - 1)]
  BY QueuedIsSeq
<1>4. /\ Queued' \in Seq(Elem) /\ Len(Queued') = len + 1
      /\ \A k \in 1..len + 1 : Queued'[k] = elems[mpscqueue_wrap(Oldest + k - 1)]
  <2>1. Queued' = [k \in 1..len + 1 |-> elems[mpscqueue_wrap(Oldest + k - 1)]]
    BY <1>2 DEF Queued, mpscqueue_wrap
  <2>2. \A k \in 1..len + 1 : elems[mpscqueue_wrap(Oldest + k - 1)] \in Elem
    <3> SUFFICES ASSUME NEW k \in 1..len + 1
                 PROVE  elems[mpscqueue_wrap(Oldest + k - 1)] \in Elem
      OBVIOUS
    <3>1. CASE k \in 1..len
      BY <3>1, <1>3, ElementOfSeq
    <3>2. CASE k = len + 1
      <4>1. Oldest + k - 1 = Oldest + len
        BY <3>2, <1>2 DEF Slots
      <4> QED BY <4>1, <1>2
    <3> QED BY <3>1, <3>2, <1>2
  <2>3. len + 1 \in Nat
    BY <1>2, MpscqueueAssumption
  <2>4. Queued' \in Seq(Elem)
    BY <2>1, <2>2, <2>3, IsASeq
  <2> QED BY <2>1, <2>3, <2>4, LenProperties
<1>5. Queued' = Append(Queued, src[p])
  <2>1. /\ Append(Queued, src[p]) \in Seq(Elem) /\ Len(Append(Queued, src[p])) = len + 1
        /\ \A k \in 1..len : Append(Queued, src[p])[k] = Queued[k]
        /\ Append(Queued, src[p])[len + 1] = src[p]
    BY <1>2, <1>3, AppendProperties
  <2>2. \A k \in 1..len + 1 : Queued'[k] = Append(Queued, src[p])[k]
    <3>1. Oldest + (len + 1) - 1 = Oldest + len
      BY <1>2 DEF Slots
    <3>2. \A k \in 1..len + 1 : k \in 1..len \/ k = len + 1
      BY <1>2
    <3> QED BY <1>2, <1>3, <1>4, <2>1, <3>1, <3>2
  <2> QED BY <1>4, <2>1, <2>2, SeqEqual
<1>6. Queued' = Queued \o SubSeq(<<src[p]>>, 1, 1)
  <2>1. SubSeq(<<src[p]>>, 1, 1) = <<src[p]>>
    <3>1. <<src[p]>> \in Seq(Elem) /\ Len(<<src[p]>>) >= 1 /\ <<src[p]>>[1] = src[p]
      BY <1>2
    <3> QED BY <3>1, FirstAndRest
  <2>2. Append(Queued, src[p]) = Queued \o <<src[p]>>
    BY <1>2, <1>3, AppendIsConcat
  <2> QED BY <1>5, <2>1, <2>2
<1>7. 1 <= Len(<<src[p]>>) /\ Len(Queued) + 1 <= Cap /\ 1 = Len(<<src[p]>>)
  <2>1. len + 1 <= Cap
    BY <1>2, MpscqueueAssumption
  <2>2. Len(<<src[p]>>) = 1
    OBVIOUS
  <2> QED BY <1>3, <2>1, <2>2
<1> QED BY <1>6, <1>7 DEF F!Enqueue, EnqueuePublishes, consumer, Meaning

(* Releasing is the departure of the oldest element.                       *)
LEMMA ReleaseRefines ==
  ASSUME ProducersInv, DequeueRelease
  PROVE  F!Dequeue(1, 1)
<1>1. /\ front \in Slots /\ len \in 1..Cap /\ Oldest \in Slots /\ cpc = "release"
      /\ len' = len - 1 /\ elems' = elems /\ Oldest' = front /\ dest = elems[Oldest]
      /\ mpscqueue_wrap(Oldest) = Oldest
      /\ \A n \in 0..Cap-1 : mpscqueue_wrap(front + n) = mpscqueue_wrap(Oldest + n + 1)
  BY ReleaseFrame, LapCloses DEF ProducersInv, CopyIsFront
<1>2. /\ Queued \in Seq(Elem) /\ Len(Queued) = len /\ Queued # <<>>
      /\ \A k \in 1..len : Queued[k] = elems[mpscqueue_wrap(Oldest + k - 1)]
  BY <1>1, QueuedIsSeq
<1>3. Queued[1] = dest
  <2>1. Oldest + 1 - 1 = Oldest /\ 1 \in 1..len
    BY <1>1 DEF Slots
  <2> QED BY <1>1, <1>2, <2>1
<1>4. Queued' = [k \in 1..len - 1 |-> Queued[k + 1]]
  <2>1. Queued' = [k \in 1..len - 1 |-> elems[mpscqueue_wrap(front + k - 1)]]
    BY <1>1 DEF Queued, mpscqueue_wrap
  <2>2. ASSUME NEW k \in 1..len - 1
        PROVE  elems[mpscqueue_wrap(front + k - 1)] = Queued[k + 1]
    <3>1. /\ k - 1 \in 0..Cap-1 /\ k + 1 \in 1..len /\ front + k - 1 = front + (k - 1)
          /\ Oldest + (k - 1) + 1 = Oldest + (k + 1) - 1
      BY <1>1, MpscqueueAssumption DEF Slots
    <3>2. mpscqueue_wrap(front + (k - 1)) = mpscqueue_wrap(Oldest + (k - 1) + 1)
      BY <1>1, <3>1
    <3> QED BY <1>2, <3>1, <3>2
  <2> QED BY <2>1, <2>2
<1>5. Queued' = SubSeq(Queued, 1 + 1, Len(Queued))
  <2> DEFINE rest == SubSeq(Queued, 2, Len(Queued))
  <2>1. /\ rest \in Seq(Elem) /\ Len(rest) = len - 1
        /\ \A k \in 1..len - 1 : rest[k] = Queued[k + 1]
    BY <1>1, <1>2, FirstAndRest
  <2>2. len - 1 \in Nat /\ \A k \in 1..len - 1 : Queued[k + 1] \in Elem
    <3>1. \A k \in 1..len - 1 : k + 1 \in 1..len
      BY <1>1
    <3> QED BY <1>1, <1>2, <3>1, ElementOfSeq
  <2>3. Queued' \in Seq(Elem)
    BY <1>4, <2>2, IsASeq
  <2>4. Len(Queued') = len - 1
    BY <1>4, <2>2, <2>3, LenProperties
  <2> HIDE DEF rest
  <2>5. Queued' = rest
    BY <1>4, <2>1, <2>3, <2>4, SeqEqual
  <2> QED BY <2>5 DEF rest
<1>6. SubSeq(Queued, 1, 1) = <<dest>>
  BY <1>1, <1>2, <1>3, FirstAndRest
<1>8. 1 <= Len(Queued)
  BY <1>1, <1>2
<1>7. /\ [res |-> Meaning(cret.code), out |-> cret.out]'
           = [res |-> "ok", out |-> SubSeq(Queued, 1, 1)]
  BY <1>6 DEF DequeueRelease, producers, Meaning
<1>9. UNCHANGED [res |-> Meaning(pret), n |-> IF pret = "0" THEN 1 ELSE 0]
  BY DEF DequeueRelease, producers, Meaning
<1>10. 1 <= 1 /\ (IF 1 = 1 THEN "ok" ELSE "ENODATA") = "ok"
  OBVIOUS
<1> QED BY <1>5, <1>7, <1>8, <1>9, <1>10 DEF F!Dequeue

(* mpscqueue_front returns the oldest queued element.                      *)
LEMMA FrontRefines ==
  ASSUME ProducersInv, FrontCopy
  PROVE  F!Peek
<1>1. /\ len \in 1..Cap /\ front \in Slots /\ Oldest = front /\ Oldest' = Oldest
      /\ mpscqueue_wrap(front) = front
  BY LapCloses, MpscqueueAssumption
     DEF ProducersInv, TypeOK, DataKept, FrontCopy, Oldest, mpscqueue_wrap
<1>2. /\ Queued \in Seq(Elem) /\ Len(Queued) = len /\ Queued # <<>>
      /\ Queued[1] = elems[mpscqueue_wrap(Oldest + 1 - 1)]
  BY <1>1, QueuedIsSeq
<1>3. Oldest + 1 - 1 = front
  BY <1>1 DEF Slots
<1>4. Queued' = Queued
  BY <1>1, QueuedUnchanged DEF FrontCopy
<1> QED BY <1>1, <1>2, <1>3, <1>4 DEF F!Peek, FrontCopy, producers, Meaning

(* Each step of a thread is a step of the queue it implements, or leaves   *)
(* that queue and both last results alone.                                 *)
LEMMA NextRefines == ProducersInv /\ [Next]_vars => [F!Next]_F!vars
<1> SUFFICES ASSUME ProducersInv, [Next]_vars PROVE F!Next \/ UNCHANGED F!vars
  OBVIOUS
<1>0. Queued \in Seq(Elem) /\ Len(Queued) = len /\ len \in 0..Cap
  BY QueuedIsSeq
<1>1. ASSUME NEW p \in Producer,
             \/ \E x \in Elem : Enqueue(p, x)
             \/ EnqueueLocks(p) \/ EnqueueHasRoom(p) \/ EnqueueUnlocks(p)
      PROVE  UNCHANGED F!vars
  <2>1. Oldest' = Oldest /\ len' = len /\ elems' = elems /\ pret' = pret /\ cret' = cret
    BY <1>1 DEF Enqueue, EnqueueLocks, EnqueueHasRoom, EnqueueUnlocks, Oldest, consumer,
                mpscqueue_wrap
  <2>2. Queued' = Queued
    BY <2>1, QueuedUnchanged
  <2> QED BY <2>1, <2>2 DEF F!vars, Meaning
<1>2. ASSUME NEW p \in Producer, EnqueueFull(p) PROVE F!EnqueueFull
  <2>1. Oldest' = Oldest /\ len' = len /\ elems' = elems
    BY <1>2 DEF EnqueueFull, Oldest, consumer, mpscqueue_wrap
  <2>2. Queued' = Queued
    BY <2>1, QueuedUnchanged
  <2> QED BY <1>0, <1>2, <2>2 DEF F!EnqueueFull, EnqueueFull, consumer, Meaning
<1>3. ASSUME NEW p \in Producer, EnqueueCopies(p) PROVE UNCHANGED F!vars
  <2>1. /\ Oldest' = Oldest /\ len' = len /\ pret' = pret /\ cret' = cret
        /\ elems' = [elems EXCEPT ![mpscqueue_wrap(back)] = src[p]] /\ ppc[p] = "copy"
    BY <1>3 DEF EnqueueCopies, Goes, Oldest, consumer, mpscqueue_wrap
  <2>2. back \in Slots /\ elems \in [Slots -> Elem \cup {Zero}]
    BY DEF ProducersInv, TypeOK
  <2>3. \A k \in 1..len : mpscqueue_wrap(Oldest + k - 1) # mpscqueue_wrap(back)
    BY <2>1, <2>2, InvMeansNoOverwrite, LapCloses DEF NoOverwrite
  <2>4. Queued' = Queued
    BY <2>1, <2>2, <2>3, QueuedUnchanged
  <2> QED BY <2>1, <2>4 DEF F!vars, Meaning
<1>4. ASSUME NEW p \in Producer, EnqueuePublishes(p) PROVE F!Next
  <2>1. <<src[p]>> \in F!Batch
    <3>1. src[p] \in Elem
      BY DEF ProducersInv, TypeOK
    <3>2. <<src[p]>> \in [1..1 -> Elem]
      BY <3>1
    <3> QED BY <3>2 DEF F!Batch
  <2> QED BY <1>4, <2>1, PublishRefines DEF F!Next
<1>5. ASSUME NEW code \in {"1", "2"}, DequeueEmpty(code) PROVE F!ConsumeNothing
  <2>1. Oldest' = Oldest /\ len' = len /\ elems' = elems /\ Queued = <<>>
    BY <1>0, <1>5, EmptySeq DEF DequeueEmpty, Oldest, mpscqueue_wrap
  <2>2. Queued' = Queued
    BY <2>1, QueuedUnchanged
  <2> QED BY <1>5, <2>1, <2>2 DEF F!ConsumeNothing, DequeueEmpty, producers, Meaning
<1>6. CASE (\E op \in {"dequeue", "front"} : DequeueLoad(op)) \/ DequeueCopy
  <2>1. Oldest' = Oldest /\ len' = len /\ elems' = elems /\ pret' = pret /\ cret' = cret
    BY <1>6, DequeueCopyFrame DEF DequeueLoad, DequeueCopy, Oldest, producers, mpscqueue_wrap
  <2>2. Queued' = Queued
    BY <2>1, QueuedUnchanged
  <2> QED BY <2>1, <2>2 DEF F!vars, Meaning
<1>7. CASE FrontCopy
  BY <1>7, FrontRefines DEF F!Next
<1>8. CASE DequeueRelease
  <2>1. 1 \in 1..1
    OBVIOUS
  <2> QED BY <1>8, <2>1, ReleaseRefines DEF F!Next
<1>9. CASE UNCHANGED vars
  <2>1. Oldest' = Oldest /\ len' = len /\ elems' = elems /\ pret' = pret /\ cret' = cret
    BY <1>9 DEF vars, producers, consumer, Oldest, mpscqueue_wrap
  <2>2. Queued' = Queued
    BY <2>1, QueuedUnchanged
  <2> QED BY <2>1, <2>2 DEF F!vars, Meaning
<1> QED BY <1>1, <1>2, <1>3, <1>4, <1>5, <1>6, <1>7, <1>8, <1>9
        DEF Next, EnqueueStep, DequeueStep, F!Next

(* However many producers there are and however they interleave with each  *)
(* other and the consumer, elements come out once, unaltered and in the    *)
(* order in which len counted them, and only a full or an empty queue      *)
(* refuses a call (mpscqueue.h; mpscqueue.c 83-168).                       *)
THEOREM MpscImplementsFifo == Spec => ImplementsFifo
<1>1. Spec => []ProducersInv
  BY ProducersCorrect
<1> QED BY <1>1, InitRefines, NextRefines, PTL DEF Spec, ImplementsFifo, F!Spec
=============================================================================
