---------------------------- MODULE AqueueProofs ----------------------------
(***************************************************************************)
(* Proofs about Aqueue, for every capacity, batch bound, index bound and   *)
(* set of elements.                                                        *)
(***************************************************************************)
EXTENDS Aqueue, Integers, SequenceTheorems, TLAPS

-----------------------------------------------------------------------------
(* Lemmas about slots.                                                     *)

(* Wrapping gives a slot.                                                  *)
LEMMA WrapIsSlot ==
  ASSUME NEW i \in Nat
  PROVE  aqueue_wrap(i) \in Slots
BY AqueueAssumption DEF aqueue_wrap, Slots

(* Two remainders of numbers that differ by a multiple are equal.          *)
LEMMA RemainderUnique ==
  ASSUME NEW c \in Nat \ {0}, NEW q \in Int, NEW r \in 0..c-1,
         NEW p \in Int, NEW s \in 0..c-1, q * c + r = p * c + s
  PROVE  r = s
<1>1. CASE q = p
  BY <1>1
<1>2. CASE q >= p + 1
  <2>1. (q - p) * c >= c
    BY <1>2
  <2> QED BY <2>1
<1>3. CASE p >= q + 1
  <2>1. (p - q) * c >= c
    BY <1>3
  <2> QED BY <2>1
<1> QED BY <1>1, <1>2, <1>3

(* Advancing an index that was left unwrapped lands on the slot where the  *)
(* run that starts at its slot has its next element.                       *)
LEMMA WrapAdvance ==
  ASSUME NEW i \in Nat, NEW n \in 0..Cap
  PROVE  aqueue_wrap(i + n) = Slot(aqueue_wrap(i), n + 1)
<1> DEFINE q == i \div Cap
           p == (i + n) \div Cap
           s == i % Cap
           r == (i + n) % Cap
<1>1. i = q * Cap + s /\ q \in Int /\ s \in 0..Cap-1
  BY AqueueAssumption
<1>2. i + n = p * Cap + r /\ p \in Int /\ r \in 0..Cap-1
  BY AqueueAssumption
<1> HIDE DEF q, p, r, s
<1>3. CASE s + n < Cap
  <2>1. q * Cap + (s + n) = p * Cap + r
    BY <1>1, <1>2, AqueueAssumption
  <2>2. r = s + n
    BY <2>1, <1>1, <1>2, <1>3, RemainderUnique, AqueueAssumption
  <2> QED BY <2>2, <1>1, <1>2, <1>3, AqueueAssumption DEF Slot, aqueue_wrap, r, s
<1>4. CASE s + n >= Cap
  <2>1. (q + 1) * Cap + (s + n - Cap) = p * Cap + r
    BY <1>1, <1>2, AqueueAssumption
  <2>2. r = s + n - Cap
    BY <2>1, <1>1, <1>2, <1>4, RemainderUnique, AqueueAssumption
  <2> QED BY <2>2, <1>1, <1>2, <1>4, AqueueAssumption DEF Slot, aqueue_wrap, r, s
<1> QED BY <1>1, <1>2, <1>3, <1>4, AqueueAssumption

(* A run never leaves the slots, and the slots of one lap are distinct.    *)
LEMMA SlotInRange ==
  ASSUME NEW s \in Slots, NEW k \in 1..Cap+1
  PROVE  Slot(s, k) \in Slots
BY AqueueAssumption DEF Slot, Slots

LEMMA SlotInjective ==
  ASSUME NEW s \in Slots, NEW j \in 1..Cap, NEW k \in 1..Cap, j # k
  PROVE  Slot(s, j) # Slot(s, k)
BY AqueueAssumption DEF Slot, Slots

(* A run that starts inside a run continues it.                            *)
LEMMA SlotOfSlot ==
  ASSUME NEW s \in Slots, NEW k \in 1..Cap+1, NEW j \in 1..Cap+1,
         k + j <= Cap + 2
  PROVE  Slot(Slot(s, k), j) = Slot(s, k + j - 1)
BY AqueueAssumption DEF Slot, Slots

(* Going back u slots from i and forward again u slots ends at i: what     *)
(* makes Oldest the slot before which the unreleased elements end.         *)
LEMMA SlotBackForth ==
  ASSUME NEW i \in Slots, NEW u \in 0..Cap
  PROVE  /\ Slot(i, (Cap - u) + 1) \in Slots
         /\ Slot(Slot(i, (Cap - u) + 1), u + 1) = i
BY AqueueAssumption DEF Slot, Slots

(* The two memcpy calls put src[k] into the k-th slot of the run and leave *)
(* the rest of the lap alone.                                              *)
LEMMA CopyInAt ==
  ASSUME NEW s \in Slots, NEW src \in Seq(Elem), Len(src) <= Cap,
         NEW k \in 1..Cap
  PROVE  CopyIn(s, src)[Slot(s, k)] =
           IF k <= Len(src) THEN src[k] ELSE elems[Slot(s, k)]
<1>1. Slot(s, k) \in Slots
  BY SlotInRange, AqueueAssumption
<1>2. k = IF s <= Slot(s, k) THEN (Slot(s, k) - s) + 1
                             ELSE (Cap - s) + Slot(s, k) + 1
  BY AqueueAssumption DEF Slot, Slots
<1> QED BY <1>1, <1>2 DEF CopyIn

(* A batch is a non-empty sequence, and a prefix of one is a sequence of   *)
(* its length.                                                             *)
LEMMA BatchIsSeq ==
  ASSUME NEW src \in Batch
  PROVE  /\ src \in Seq(Elem)
         /\ Len(src) \in 1..MaxBatch
<1>1. PICK n \in 1..MaxBatch : src \in [1..n -> Elem]
  BY DEF Batch
<1>2. n \in Nat
  BY <1>1, AqueueAssumption
<1>3. src \in Seq(Elem)
  BY <1>1, <1>2
<1>4. Len(src) = n
  BY <1>1, <1>2, <1>3, LenProperties
<1> QED BY <1>1, <1>3, <1>4

LEMMA PrefixIsSeq ==
  ASSUME NEW S, NEW src \in Seq(S), NEW m \in 0..Len(src)
  PROVE  /\ SubSeq(src, 1, m) \in Seq(S)
         /\ Len(SubSeq(src, 1, m)) = m
         /\ \A k \in 1..m : SubSeq(src, 1, m)[k] = src[k]
BY SubSeqProperties

-----------------------------------------------------------------------------
(* IInv is inductive.                                                      *)
LEMMA InitIInv == Init => IInv
BY AqueueAssumption
   DEF Init, IInv, TypeOK, RingInv, IndicesAgree, RoomKept, DataKept,
       SlotsFilled, CopyIsFront, Oldest, Unreleased, Unpublished, Slot,
       Slots, aqueue_wrap

(* Steps that only the producer's checks take: len, the indices, the slots *)
(* and the consumer are as before.                                         *)
LEMMA LoadPreservesIInv ==
  ASSUME IInv, UNCHANGED <<elems, len, back, consumer>>, ppc = "idle",
         ppc' \in {"idle", "copy"}, pop' \in {"one", "some"},
         psrc' \in Seq(Elem), pres' \in {"ok", "EXFULL"},
         ppc' = "copy" => /\ Len(psrc') \in 1..Cap-len
                          /\ pop' = "one" => Len(psrc') = 1
                          /\ Len(psrc') <= IF pres' = "ok" THEN MaxBatch
                                                          ELSE MaxBatch - 1
  PROVE  IInv'
<1>1. Oldest' = Oldest /\ aqueue_wrap(back)' = aqueue_wrap(back)
  BY DEF Oldest, Unreleased, consumer, aqueue_wrap
<1>2. Unpublished = 0 /\ Unpublished' = 0
  BY DEF Unpublished
<1>3. TypeOK'
  BY DEF IInv, TypeOK, consumer
<1>4. IndicesAgree' /\ SlotsFilled' /\ CopyIsFront'
  BY <1>1, <1>2 DEF IInv, RingInv, IndicesAgree, SlotsFilled, CopyIsFront,
                    consumer
<1>5. RoomKept'
  BY AqueueAssumption DEF IInv, TypeOK, RoomKept
<1>6. DataKept'
  BY DEF IInv, RingInv, DataKept, consumer
<1> QED BY <1>3, <1>4, <1>5, <1>6 DEF IInv, RingInv

(* The wrapped index after either kind of call.                            *)
LEMMA AdvanceIsSlot ==
  ASSUME NEW op \in {"one", "some", "front"}, NEW i \in Nat,
         NEW n \in 0..Cap, op = "one" => n = 1
  PROVE  /\ Advance(op, i, n) \in Nat
         /\ aqueue_wrap(Advance(op, i, n)) = Slot(aqueue_wrap(i), n + 1)
<1>1. aqueue_wrap(i + n) = Slot(aqueue_wrap(i), n + 1)
  BY WrapAdvance
<1>2. CASE op # "one"
  BY <1>1, <1>2, AqueueAssumption DEF Advance
<1>3. CASE op = "one"
  <2>1. aqueue_wrap(i + 1) \in Slots
    BY WrapIsSlot
  <2>2. aqueue_wrap(aqueue_wrap(i + 1)) = aqueue_wrap(i + 1)
    BY <2>1, AqueueAssumption DEF aqueue_wrap, Slots
  <2> QED BY <1>1, <1>3, <2>1, <2>2 DEF Advance, Slots
<1> QED BY <1>2, <1>3

(* Where the producer copies to, and that every queued slot keeps its      *)
(* element.                                                                *)
LEMMA EnqueueCopyFrame ==
  ASSUME IInv, EnqueueCopy
  PROVE  /\ len \in 0..Cap /\ psrc \in Seq(Elem) /\ Len(psrc) \in 1..Cap
         /\ len + Len(psrc) \in 0..Cap
         /\ aqueue_wrap(back) \in Slots /\ Oldest \in Slots
         /\ aqueue_wrap(back) = Slot(Oldest, len + 1)
         /\ elems' = CopyIn(aqueue_wrap(back), psrc)
         /\ Oldest' = Oldest
         /\ \A k \in 1..len : elems'[Slot(Oldest, k)] = elems[Slot(Oldest, k)]
<1> DEFINE B == aqueue_wrap(back)
<1> USE AqueueAssumption
<1>1. /\ B \in Slots /\ len \in 0..Cap /\ psrc \in Seq(Elem)
      /\ Len(psrc) \in 1..Cap /\ len + Len(psrc) \in 0..Cap
  BY WrapIsSlot DEF IInv, TypeOK, EnqueueCopy, RingInv, RoomKept
<1>2. Oldest \in Slots
  BY WrapIsSlot, SlotBackForth
     DEF Oldest, Unreleased, IInv, TypeOK
<1>3. B = Slot(Oldest, len + 1)
  BY DEF IInv, TypeOK, RingInv, IndicesAgree, Unpublished, EnqueueCopy
<1>4. Oldest' = Oldest
  BY DEF Oldest, Unreleased, EnqueueCopy, consumer, aqueue_wrap
<1>5. elems' = CopyIn(B, psrc)
  BY DEF EnqueueCopy
<1>6. ASSUME NEW k \in 1..len
      PROVE  elems'[Slot(Oldest, k)] = elems[Slot(Oldest, k)]
  <2>1. Slot(Oldest, k) = Slot(B, (Cap - len) + k)
    BY <1>1, <1>2, <1>3 DEF Slot, Slots
  <2>2. (Cap - len) + k \in 1..Cap /\ (Cap - len) + k > Len(psrc)
    BY <1>1
  <2> QED BY <1>1, <1>5, <2>1, <2>2, CopyInAt
<1> QED BY <1>1, <1>2, <1>3, <1>4, <1>5, <1>6

(* Copying in keeps every queued slot and fills the unpublished ones.      *)
LEMMA EnqueueCopyPreservesIInv == IInv /\ EnqueueCopy => IInv'
<1> SUFFICES ASSUME IInv, EnqueueCopy PROVE IInv'
  OBVIOUS
<1> DEFINE B == aqueue_wrap(back)
<1> USE AqueueAssumption
<1>1. /\ B \in Slots /\ len \in 0..Cap /\ psrc \in Seq(Elem)
      /\ Len(psrc) \in 1..Cap /\ len + Len(psrc) \in 0..Cap
  BY EnqueueCopyFrame
<1>2. Oldest \in Slots
  BY EnqueueCopyFrame
<1>3. B = Slot(Oldest, len + 1)
  BY EnqueueCopyFrame
<1>4. Oldest' = Oldest
  BY EnqueueCopyFrame
<1>5. elems' = CopyIn(B, psrc)
  BY EnqueueCopyFrame
<1>6. /\ back' \in Nat
      /\ aqueue_wrap(back)' = Slot(B, Len(psrc) + 1)
  <2>1. /\ back \in Nat /\ pop \in {"one", "some", "front"}
        /\ pop = "one" => Len(psrc) = 1
    BY DEF EnqueueCopy, IInv, TypeOK, RingInv, RoomKept
  <2>2. back' = Advance(pop, back, Len(psrc))
    BY DEF EnqueueCopy
  <2>3. aqueue_wrap(back)' = aqueue_wrap(Advance(pop, back, Len(psrc)))
    BY <2>2 DEF aqueue_wrap
  <2>4. Len(psrc) \in 0..Cap
    BY <1>1
  <2>5. /\ Advance(pop, back, Len(psrc)) \in Nat
        /\ aqueue_wrap(Advance(pop, back, Len(psrc))) =
             Slot(B, Len(psrc) + 1)
    BY <2>1, <2>4, AdvanceIsSlot
  <2> QED BY <2>2, <2>3, <2>5
<1>7. \A k \in 1..len : elems'[Slot(Oldest, k)] = elems[Slot(Oldest, k)]
  BY EnqueueCopyFrame
<1>8. \A k \in 1..Len(psrc) : elems'[Slot(Oldest, len + k)] = psrc[k]
  <2> SUFFICES ASSUME NEW k \in 1..Len(psrc)
               PROVE  elems'[Slot(Oldest, len + k)] = psrc[k]
    OBVIOUS
  <2>1. Slot(Oldest, len + k) = Slot(B, k)
    BY <1>1, <1>2, <1>3 DEF Slot, Slots
  <2> QED BY <1>1, <1>5, <2>1, CopyInAt
<1>9. TypeOK'
  <2>1. elems' \in [Slots -> Elem \cup {Zero}]
    BY <1>1, <1>5 DEF CopyIn, IInv, TypeOK, Slots
  <2> QED BY <1>6, <2>1 DEF IInv, TypeOK, EnqueueCopy, consumer
<1>10. IndicesAgree'
  <2>1. Slot(B, Len(psrc) + 1) = Slot(Oldest, (len + Len(psrc)) + 1)
    BY <1>1, <1>2, <1>3 DEF Slot, Slots
  <2> QED BY <1>1, <1>4, <1>6, <2>1
     DEF IndicesAgree, Unpublished, EnqueueCopy
<1>11. RoomKept' /\ DataKept'
  BY DEF RoomKept, DataKept, EnqueueCopy, consumer, IInv, RingInv
<1>12. SlotsFilled'
  BY <1>4, <1>7, <1>8 DEF SlotsFilled, EnqueueCopy, IInv, RingInv
<1>13. CopyIsFront'
  BY <1>1, <1>4, <1>7
     DEF CopyIsFront, EnqueueCopy, consumer, IInv, RingInv, DataKept, TypeOK
<1> QED BY <1>9, <1>10, <1>11, <1>12, <1>13 DEF IInv, RingInv

(* Publishing turns the unpublished slots into queued ones.                *)
LEMMA EnqueuePublishPreservesIInv == IInv /\ EnqueuePublish => IInv'
<1> SUFFICES ASSUME IInv, EnqueuePublish PROVE IInv'
  OBVIOUS
<1> USE AqueueAssumption
<1>1. /\ len \in 0..Cap /\ psrc \in Seq(Elem) /\ Len(psrc) \in 1..Cap
      /\ len + Len(psrc) \in 0..Cap
  BY DEF IInv, TypeOK, EnqueuePublish, RingInv, RoomKept
<1>2. Oldest' = Oldest /\ aqueue_wrap(back)' = aqueue_wrap(back)
  BY DEF Oldest, Unreleased, EnqueuePublish, consumer, aqueue_wrap
<1>3. TypeOK'
  BY <1>1 DEF IInv, TypeOK, EnqueuePublish, consumer
<1>4. IndicesAgree'
  BY <1>1, <1>2
     DEF IInv, RingInv, IndicesAgree, Unpublished, EnqueuePublish
<1>5. RoomKept'
  BY DEF RoomKept, EnqueuePublish
<1>6. DataKept'
  BY <1>1 DEF DataKept, EnqueuePublish, consumer, IInv, TypeOK, RingInv
<1>7. SlotsFilled'
  <2>1. \A k \in 1..len' : elems'[Slot(Oldest', k)] \in Elem
    <3> SUFFICES ASSUME NEW k \in 1..len + Len(psrc)
                 PROVE  elems[Slot(Oldest, k)] \in Elem
      BY <1>2 DEF EnqueuePublish
    <3>1. CASE k <= len
      BY <1>1, <3>1 DEF IInv, RingInv, SlotsFilled
    <3>2. CASE k > len
      <4>1. /\ k - len \in 1..Len(psrc)
            /\ len + (k - len) = k
        BY <1>1, <3>2
      <4>2. elems[Slot(Oldest, len + (k - len))] = psrc[k - len]
        BY <4>1 DEF IInv, RingInv, SlotsFilled, EnqueuePublish
      <4> QED BY <1>1, <4>1, <4>2, ElementOfSeq
    <3> QED BY <1>1, <3>1, <3>2
  <2> QED BY <2>1 DEF SlotsFilled, EnqueuePublish
<1>8. CopyIsFront'
  BY <1>2 DEF CopyIsFront, EnqueuePublish, consumer, IInv, RingInv
<1> QED BY <1>3, <1>4, <1>5, <1>6, <1>7, <1>8 DEF IInv, RingInv

(* Copying out advances front past the copied elements; Oldest goes back   *)
(* over them, as len still counts them.                                    *)
LEMMA DequeueCopyFrame ==
  ASSUME IInv, DequeueCopy
  PROVE  /\ aqueue_wrap(front) \in Slots /\ cn \in 1..Cap /\ front' \in Nat
         /\ Oldest = aqueue_wrap(front)
         /\ Oldest' = Oldest
<1> DEFINE S == aqueue_wrap(front)
<1> USE AqueueAssumption
<1>1. /\ S \in Slots /\ front \in Nat /\ len \in 0..Cap /\ cn \in 1..Cap
      /\ cn <= len /\ cop \in {"one", "some", "front"}
      /\ cop = "one" => cn = 1
  BY WrapIsSlot DEF IInv, TypeOK, DequeueCopy, RingInv, DataKept
<1>2. Oldest = S
  BY <1>1 DEF Oldest, Unreleased, DequeueCopy, Slot, Slots
<1>3. /\ front' \in Nat
      /\ aqueue_wrap(front)' = Slot(S, cn + 1)
  <2>1. front' = Advance(cop, front, cn)
    BY DEF DequeueCopy
  <2>2. aqueue_wrap(front)' = aqueue_wrap(Advance(cop, front, cn))
    BY <2>1 DEF aqueue_wrap
  <2>3. cn \in 0..Cap
    BY <1>1
  <2>4. /\ Advance(cop, front, cn) \in Nat
        /\ aqueue_wrap(Advance(cop, front, cn)) = Slot(S, cn + 1)
    BY <1>1, <2>3, AdvanceIsSlot
  <2> QED BY <2>1, <2>2, <2>4
<1>4. Oldest' = S
  <2>1. Oldest' = Slot(aqueue_wrap(front)', (Cap - cn) + 1)
    BY DEF Oldest, Unreleased, DequeueCopy, aqueue_wrap, Slot
  <2>2. Slot(Slot(S, cn + 1), (Cap - cn) + 1) = S
    BY <1>1 DEF Slot, Slots
  <2> QED BY <1>3, <2>1, <2>2
<1> QED BY <1>1, <1>2, <1>3, <1>4

LEMMA DequeueCopyPreservesIInv == IInv /\ DequeueCopy => IInv'
<1> SUFFICES ASSUME IInv, DequeueCopy PROVE IInv'
  OBVIOUS
<1> DEFINE S == aqueue_wrap(front)
<1> USE AqueueAssumption
<1>1. S \in Slots /\ cn \in 1..Cap
  BY DequeueCopyFrame
<1>2. Oldest = S
  BY DequeueCopyFrame
<1>3. front' \in Nat
  BY DequeueCopyFrame
<1>4. Oldest' = S
  BY DequeueCopyFrame
<1>5. cdst' = [k \in 1..cn |-> elems[Slot(S, k)]]
  BY DEF DequeueCopy, CopyOut
<1>6. cdst' \in Seq(Elem \cup {Zero}) /\ Len(cdst') = cn
  <2>1. \A k \in 1..cn : elems[Slot(S, k)] \in Elem \cup {Zero}
    BY <1>1, SlotInRange DEF IInv, TypeOK
  <2>2. cdst' \in Seq(Elem \cup {Zero})
    BY <1>1, <1>5, <2>1, IsASeq
  <2> QED BY <1>1, <1>5, <2>2, LenProperties
<1>7. TypeOK'
  BY <1>3, <1>6 DEF IInv, TypeOK, DequeueCopy, producer
<1>8. IndicesAgree' /\ SlotsFilled'
  BY <1>2, <1>4 DEF IInv, RingInv, IndicesAgree, SlotsFilled, Unpublished,
                    DequeueCopy, producer, aqueue_wrap
<1>9. RoomKept'
  BY DEF RoomKept, DequeueCopy, producer, IInv, RingInv
<1>10. DataKept'
  BY DEF DataKept, DequeueCopy, IInv, RingInv
<1>11. CopyIsFront'
  BY <1>4, <1>5, <1>6 DEF CopyIsFront, DequeueCopy
<1> QED BY <1>7, <1>8, <1>9, <1>10, <1>11 DEF IInv, RingInv

(* Releasing drops the copied elements from the queue: Oldest moves past   *)
(* them to the slot front already names.                                   *)
LEMMA DequeueReleaseFrame ==
  ASSUME IInv, DequeueRelease
  PROVE  /\ len \in 0..Cap /\ cn \in 1..Cap /\ cn <= len
         /\ Oldest \in Slots
         /\ Unpublished' = Unpublished /\ Unpublished \in 0..Cap-len
         /\ \A k \in 1..(Cap - cn) + 1 :
              Slot(Oldest', k) = Slot(Oldest, cn + k)
<1> USE AqueueAssumption
<1>1. /\ aqueue_wrap(front) \in Slots /\ len \in 0..Cap /\ cn \in 1..Cap
      /\ cn <= len
  BY WrapIsSlot DEF IInv, TypeOK, DequeueRelease, RingInv, DataKept
<1>2. /\ Oldest \in Slots
      /\ Slot(Oldest, cn + 1) = aqueue_wrap(front)
  BY <1>1, SlotBackForth DEF Oldest, Unreleased, DequeueRelease
<1>3. Oldest' = aqueue_wrap(front)
  <2>1. Oldest' = Slot(aqueue_wrap(front), (Cap - 0) + 1)
    BY DEF Oldest, Unreleased, DequeueRelease, aqueue_wrap, Slot
  <2> QED BY <1>1, <2>1 DEF Slot, Slots
<1>4. Unpublished' = Unpublished /\ Unpublished \in 0..Cap-len
  BY <1>1 DEF Unpublished, DequeueRelease, producer, IInv, TypeOK, RingInv,
              RoomKept
<1>5. \A k \in 1..(Cap - cn) + 1 : Slot(Oldest', k) = Slot(Oldest, cn + k)
  <2> SUFFICES ASSUME NEW k \in 1..(Cap - cn) + 1
               PROVE  Slot(Oldest', k) = Slot(Oldest, cn + k)
    OBVIOUS
  <2>1. /\ cn + 1 \in 1..Cap+1 /\ k \in 1..Cap+1
        /\ (cn + 1) + k <= Cap + 2 /\ (cn + 1) + k - 1 = cn + k
    BY <1>1
  <2> QED BY <1>2, <1>3, <2>1, SlotOfSlot
<1> QED BY <1>1, <1>2, <1>4, <1>5

LEMMA DequeueReleasePreservesIInv == IInv /\ DequeueRelease => IInv'
<1> SUFFICES ASSUME IInv, DequeueRelease PROVE IInv'
  OBVIOUS
<1> USE AqueueAssumption
<1>1. len \in 0..Cap /\ cn \in 1..Cap /\ cn <= len
  BY DequeueReleaseFrame
<1>4. Unpublished' = Unpublished /\ Unpublished \in 0..Cap-len
  BY DequeueReleaseFrame
<1>5. \A k \in 1..(Cap - cn) + 1 : Slot(Oldest', k) = Slot(Oldest, cn + k)
  BY DequeueReleaseFrame
<1>6. TypeOK'
  <2>1. <<>> \in Seq(Elem \cup {Zero})
    OBVIOUS
  <2> QED BY <1>1, <2>1 DEF IInv, TypeOK, DequeueRelease, producer
<1>7. IndicesAgree'
  <2>1. aqueue_wrap(back)' = Slot(Oldest, (len + Unpublished) + 1)
    BY DEF IInv, RingInv, IndicesAgree, DequeueRelease, producer, aqueue_wrap
  <2>2. /\ len' = len - cn
        /\ (len' + Unpublished) + 1 \in 1..(Cap - cn) + 1
        /\ cn + ((len' + Unpublished) + 1) = (len + Unpublished) + 1
    BY <1>1, <1>4 DEF DequeueRelease
  <2> QED BY <1>4, <1>5, <2>1, <2>2 DEF IndicesAgree
<1>8. RoomKept'
  BY <1>1 DEF RoomKept, DequeueRelease, producer, IInv, TypeOK, RingInv
<1>9. DataKept'
  BY DEF DataKept, DequeueRelease, IInv, RingInv
<1>10. SlotsFilled'
  <2>1. \A k \in 1..len' : elems'[Slot(Oldest', k)] \in Elem
    <3> SUFFICES ASSUME NEW k \in 1..len - cn
                 PROVE  elems[Slot(Oldest', k)] \in Elem
      BY DEF DequeueRelease
    <3>1. cn + k \in 1..len /\ k \in 1..(Cap - cn) + 1
      BY <1>1
    <3> QED BY <1>5, <3>1 DEF IInv, RingInv, SlotsFilled
  <2>2. ASSUME ppc = "publish", NEW k \in 1..Len(psrc)
        PROVE  elems[Slot(Oldest', len' + k)] = psrc[k]
    <3>1. Len(psrc) \in 1..Cap-len
      BY <2>2, <1>1 DEF IInv, TypeOK, RingInv, RoomKept
    <3>2. /\ len' + k \in 1..(Cap - cn) + 1
          /\ cn + (len' + k) = len + k
      BY <1>1, <3>1 DEF DequeueRelease
    <3> QED BY <1>5, <2>2, <3>2 DEF IInv, RingInv, SlotsFilled
  <2> QED BY <2>1, <2>2 DEF SlotsFilled, DequeueRelease, producer
<1>11. CopyIsFront'
  BY DEF CopyIsFront, DequeueRelease
<1> QED BY <1>6, <1>7, <1>8, <1>9, <1>10, <1>11 DEF IInv, RingInv

(* The consumer's checks, and a peek, move nothing.                        *)
LEMMA ConsumerLoadPreservesIInv ==
  ASSUME IInv, UNCHANGED <<elems, len, front, cdst, producer>>,
         cpc # "release", cpc' \in {"idle", "copy"},
         cop' \in {"one", "some", "front"}, cn' \in 0..Cap,
         cres' \in {"ok", "ENODATA"},
         cpc' = "copy" => /\ cn' \in 1..len
                          /\ cop' = "one" => cn' = 1
                          /\ cn' <= IF cres' = "ok" THEN MaxBatch
                                                   ELSE MaxBatch - 1,
         cop' = "front" => cpc' = "copy" /\ cn' = 1 /\ cres' = "ok"
  PROVE  IInv'
<1> USE AqueueAssumption
<1>1. Oldest' = Oldest /\ aqueue_wrap(back)' = aqueue_wrap(back)
  BY DEF Oldest, Unreleased, producer, aqueue_wrap
<1>2. Unpublished' = Unpublished
  BY DEF Unpublished, producer
<1>3. TypeOK'
  BY DEF IInv, TypeOK, producer
<1>4. IndicesAgree' /\ SlotsFilled' /\ CopyIsFront'
  BY <1>1, <1>2 DEF IInv, RingInv, IndicesAgree, SlotsFilled, CopyIsFront,
                    producer
<1>5. RoomKept'
  BY DEF IInv, RingInv, RoomKept, producer
<1>6. DataKept'
  BY DEF IInv, TypeOK, DataKept
<1> QED BY <1>3, <1>4, <1>5, <1>6 DEF IInv, RingInv

(* Every step of either thread preserves the inductive invariant.          *)
LEMMA NextIInv == IInv /\ [Next]_vars => IInv'
<1> SUFFICES ASSUME IInv, [Next]_vars PROVE IInv'
  OBVIOUS
<1> USE AqueueAssumption
<1>1. CASE EnqueueFull
  BY <1>1, LoadPreservesIInv
     DEF EnqueueFull, consumer, IInv, TypeOK
<1>2. ASSUME NEW x \in Elem, EnqueueLoad(x) PROVE IInv'
  <2>1. /\ psrc' \in Seq(Elem) /\ Len(psrc') = 1
        /\ len \in 0..Cap /\ len # Cap
    BY <1>2 DEF EnqueueLoad, IInv, TypeOK
  <2> QED BY <1>2, <2>1, LoadPreservesIInv DEF EnqueueLoad, consumer
<1>3. ASSUME NEW src \in Batch, EnqueueSomeLoad(src) PROVE IInv'
  <2> DEFINE m == Least(Cap - len, Len(src))
  <2>1. /\ len \in 0..Cap /\ len # Cap
        /\ src \in Seq(Elem) /\ Len(src) \in 1..MaxBatch
    BY <1>3, BatchIsSeq DEF EnqueueSomeLoad, IInv, TypeOK
  <2>2. m \in 0..Len(src) /\ m \in 1..Cap-len
    BY <2>1 DEF Least
  <2>3. psrc' \in Seq(Elem) /\ Len(psrc') = m
    BY <1>3, <2>1, <2>2, PrefixIsSeq DEF EnqueueSomeLoad
  <2>4. /\ pres' \in {"ok", "EXFULL"}
        /\ m <= IF pres' = "ok" THEN MaxBatch ELSE MaxBatch - 1
    BY <1>3, <2>1, <2>2 DEF EnqueueSomeLoad, Least
  <2>5. /\ ppc = "idle" /\ ppc' = "copy" /\ pop' = "some"
        /\ UNCHANGED <<elems, len, back, consumer>>
    BY <1>3 DEF EnqueueSomeLoad
  <2> HIDE DEF m
  <2> QED BY <2>2, <2>3, <2>4, <2>5, LoadPreservesIInv
<1>4. CASE EnqueueCopy
  BY <1>4, EnqueueCopyPreservesIInv
<1>5. CASE EnqueuePublish
  BY <1>5, EnqueuePublishPreservesIInv
<1>6. ASSUME NEW res, DequeueEmpty(res) PROVE IInv'
  BY <1>6, ConsumerLoadPreservesIInv
     DEF DequeueEmpty, IInv, TypeOK, RingInv, DataKept
<1>7. ASSUME NEW op \in {"one", "front"}, DequeueLoad(op) PROVE IInv'
  BY <1>7, ConsumerLoadPreservesIInv DEF DequeueLoad, IInv, TypeOK
<1>8. ASSUME NEW k \in 1..MaxBatch, DequeueSomeLoad(k) PROVE IInv'
  BY <1>8, ConsumerLoadPreservesIInv
     DEF DequeueSomeLoad, Least, IInv, TypeOK
<1>9. CASE FrontCopy
  BY <1>9, ConsumerLoadPreservesIInv DEF FrontCopy, IInv, TypeOK
<1>10. CASE DequeueCopy
  BY <1>10, DequeueCopyPreservesIInv
<1>11. CASE DequeueRelease
  BY <1>11, DequeueReleasePreservesIInv
<1>12. CASE UNCHANGED vars
  <2>1. Oldest' = Oldest /\ aqueue_wrap(back)' = aqueue_wrap(back)
        /\ Unpublished' = Unpublished
    BY <1>12 DEF Oldest, Unreleased, Unpublished, producer, consumer, vars,
                 aqueue_wrap
  <2> QED BY <1>12, <2>1
          DEF IInv, TypeOK, RingInv, IndicesAgree, RoomKept, DataKept,
              SlotsFilled, CopyIsFront, vars, producer, consumer
<1> QED BY <1>1, <1>2, <1>3, <1>4, <1>5, <1>6, <1>7, <1>8, <1>9, <1>10,
           <1>11, <1>12 DEF Next, Produce, Consume

(* The ring invariant, and with it the type invariant, holds of every      *)
(* behaviour: aqueue.c, all of the enqueue and dequeue calls.              *)
THEOREM RingCorrect == Spec => []RingInv
<1>1. Spec => []IInv
  BY InitIInv, NextIInv, PTL DEF Spec
<1>2. IInv => RingInv
  BY DEF IInv
<1> QED BY <1>1, <1>2, PTL

(* The invariant itself.                                                   *)
THEOREM InvariantHolds == Spec => []IInv
BY InitIInv, NextIInv, PTL DEF Spec

(* len stays within 0..cap, and every local keeps its type.                *)
THEOREM TypeCorrect == Spec => []TypeOK
<1>1. Spec => []IInv
  BY InitIInv, NextIInv, PTL DEF Spec
<1>2. IInv => TypeOK
  BY DEF IInv
<1> QED BY <1>1, <1>2, PTL

(* The producer never writes a slot that holds a queued element, whatever  *)
(* the consumer did since the producer's check.                            *)
THEOREM NeverOverwrites == Spec => []NoOverwrite
<1>1. Spec => []IInv
  BY InitIInv, NextIInv, PTL DEF Spec
<1>2. IInv => NoOverwrite
  <2> SUFFICES ASSUME IInv, ppc = "copy", NEW k \in 1..Len(psrc),
                      NEW j \in 1..len
               PROVE  Slot(aqueue_wrap(back), k) # Slot(Oldest, j)
    BY DEF NoOverwrite, QueuedSlots
  <2> USE AqueueAssumption
  <2>1. /\ len \in 0..Cap /\ Len(psrc) \in Nat /\ len + Len(psrc) <= Cap
    BY DEF IInv, TypeOK, RingInv, RoomKept
  <2>2. Oldest \in Slots
    BY WrapIsSlot, SlotBackForth DEF Oldest, Unreleased, IInv, TypeOK
  <2>3. aqueue_wrap(back) = Slot(Oldest, len + 1)
    BY DEF IInv, TypeOK, RingInv, IndicesAgree, Unpublished
  <2>4. Slot(aqueue_wrap(back), k) = Slot(Oldest, len + k)
    BY <2>1, <2>2, <2>3 DEF Slot, Slots
  <2>5. /\ len + k \in 1..Cap /\ j \in 1..Cap /\ j # len + k
    BY <2>1
  <2> QED BY <2>2, <2>4, <2>5, SlotInjective
<1> QED BY <1>1, <1>2, PTL

-----------------------------------------------------------------------------
(* Aqueue implements Fifo.                                                 *)

LEMMA QueuedIsSeq ==
  ASSUME IInv
  PROVE  /\ Queued \in Seq(Elem)
         /\ Len(Queued) = len
         /\ \A k \in 1..len : Queued[k] = elems[Slot(Oldest, k)]
<1>1. len \in Nat
  BY AqueueAssumption DEF IInv, TypeOK
<1>2. \A k \in 1..len : elems[Slot(Oldest, k)] \in Elem
  BY DEF IInv, RingInv, SlotsFilled
<1>3. Queued = [k \in 1..len |-> elems[Slot(Oldest, k)]]
  BY DEF Queued, CopyOut
<1>4. Queued \in Seq(Elem)
  BY <1>1, <1>2, <1>3, IsASeq
<1> QED BY <1>1, <1>3, <1>4, LenProperties

(* A step that keeps len and the queued slots' elements keeps the queue.   *)
LEMMA QueuedUnchanged ==
  ASSUME len' = len, Oldest' = Oldest,
         \A k \in 1..len : elems'[Slot(Oldest, k)] = elems[Slot(Oldest, k)]
  PROVE  Queued' = Queued
BY DEF Queued, CopyOut, Slot

(* A producer's load and the stuttering step move nothing.                 *)
LEMMA OldestUnchanged ==
  ASSUME UNCHANGED <<elems, len, front>>, Unreleased' = Unreleased
  PROVE  Queued' = Queued
<1>1. Oldest' = Oldest
  BY DEF Oldest, aqueue_wrap, Slot
<1> QED BY <1>1, QueuedUnchanged

LEMMA InitRefines == Init => F!Init
<1> SUFFICES ASSUME Init PROVE F!Init
  OBVIOUS
<1>1. IInv
  BY InitIInv
<1>2. Queued = <<>>
  BY <1>1, QueuedIsSeq DEF Init
<1> QED BY <1>2 DEF F!Init, Init

(* Publishing is Fifo's Enqueue of what was asked for: psrc itself, or,    *)
(* when the result says the call was cut short, a batch psrc is a proper   *)
(* prefix of.                                                              *)
LEMMA PublishRefines ==
  ASSUME IInv, EnqueuePublish
  PROVE  \E src \in Batch, n \in 1..MaxBatch : F!Enqueue(src, n)
<1> USE AqueueAssumption
<1> DEFINE n == Len(psrc)
<1>1. IInv'
  BY EnqueuePublishPreservesIInv
<1>2. /\ len \in 0..Cap /\ psrc \in Seq(Elem) /\ n \in 1..MaxBatch
      /\ len + n <= Cap /\ pres \in {"ok", "EXFULL"}
      /\ pres # "ok" => n < MaxBatch
  BY DEF EnqueuePublish, IInv, TypeOK, RingInv, RoomKept
<1>3. PICK src \in Batch : /\ src \in Seq(Elem)
                           /\ n <= Len(src) /\ (n = Len(src) <=> pres = "ok")
                           /\ \A k \in 1..n : src[k] = psrc[k]
  <2>1. CASE pres = "ok"
    <3>1. psrc \in [1..n -> Elem]
      BY <1>2, LenProperties
    <3>2. psrc \in Batch
      BY <1>2, <3>1 DEF Batch
    <3>3. n <= Len(psrc) /\ n = Len(psrc)
      BY <1>2
    <3> QED BY <1>2, <2>1, <3>2, <3>3
  <2>2. CASE pres # "ok"
    <3> DEFINE more == [k \in 1..n+1 |-> IF k <= n THEN psrc[k] ELSE psrc[1]]
    <3>1. psrc[1] \in Elem /\ \A k \in 1..n : psrc[k] \in Elem
      BY <1>2, ElementOfSeq
    <3>2. more \in [1..n+1 -> Elem]
      BY <1>2, <3>1
    <3>3. more \in Batch
      <4>1. n + 1 \in 1..MaxBatch
        BY <1>2, <2>2
      <4> HIDE DEF more, n
      <4> QED BY <3>2, <4>1 DEF Batch
    <3>4. more \in Seq(Elem) /\ Len(more) = n + 1
      <4>1. n + 1 \in Nat
        BY <1>2
      <4>2. \A k \in 1..n+1 : more[k] \in Elem
        BY <3>2
      <4>3. more \in Seq(Elem)
        BY <1>2, <3>1, <4>1, IsASeq
      <4> QED BY <4>1, <4>3, LenProperties
    <3>5. \A k \in 1..n : more[k] = psrc[k]
      BY <1>2
    <3> HIDE DEF more
    <3>6. n <= Len(more) /\ n # Len(more)
      BY <1>2, <3>4
    <3> QED BY <2>2, <3>3, <3>4, <3>5, <3>6
  <2> QED BY <2>1, <2>2
<1>4. /\ Queued \in Seq(Elem) /\ Len(Queued) = len
      /\ \A k \in 1..len : Queued[k] = elems[Slot(Oldest, k)]
  BY QueuedIsSeq
<1>5. /\ Queued' \in Seq(Elem) /\ Len(Queued') = len + n
      /\ \A k \in 1..len + n : Queued'[k] = elems[Slot(Oldest, k)]
  <2>1. Oldest' = Oldest /\ elems' = elems /\ len' = len + n
    BY DEF EnqueuePublish, Oldest, Unreleased, consumer, aqueue_wrap, Slot
  <2>2. Queued' = [k \in 1..len + n |-> elems[Slot(Oldest, k)]]
    BY <2>1 DEF Queued, CopyOut, Slot
  <2>3. \A k \in 1..len + n : elems[Slot(Oldest, k)] \in Elem
    BY <1>1, <2>1 DEF IInv, RingInv, SlotsFilled, Slot
  <2>4. len + n \in Nat
    BY <1>2
  <2>5. Queued' \in Seq(Elem)
    BY <2>2, <2>3, <2>4, IsASeq
  <2> QED BY <2>2, <2>4, <2>5, LenProperties
<1>6. /\ SubSeq(src, 1, n) \in Seq(Elem) /\ Len(SubSeq(src, 1, n)) = n
      /\ \A k \in 1..n : SubSeq(src, 1, n)[k] = psrc[k]
  <2>1. n \in 0..Len(src)
    <3>1. n \in Nat /\ Len(src) \in Nat /\ n <= Len(src)
      BY <1>2, <1>3, LenProperties
    <3> HIDE DEF n
    <3> QED BY <3>1
  <2> HIDE DEF n
  <2>2. /\ SubSeq(src, 1, n) \in Seq(Elem) /\ Len(SubSeq(src, 1, n)) = n
        /\ \A k \in 1..n : SubSeq(src, 1, n)[k] = src[k]
    BY <1>3, <2>1, PrefixIsSeq
  <2> QED BY <1>3, <2>2
<1>7. \A k \in 1..n : elems[Slot(Oldest, len + k)] = psrc[k]
  BY DEF EnqueuePublish, IInv, RingInv, SlotsFilled
<1>8. Queued' = Queued \o SubSeq(src, 1, n)
  <2> DEFINE app == SubSeq(src, 1, n)
  <2> HIDE DEF app, n
  <2>1. /\ Queued \o app \in Seq(Elem)
        /\ Len(Queued \o app) = len + n
        /\ \A k \in 1..len + n : (Queued \o app)[k] =
             IF k <= len THEN Queued[k] ELSE app[k - len]
    <3>1. Queued \in Seq(Elem) /\ Len(Queued) = len
      BY <1>4
    <3>2. app \in Seq(Elem) /\ Len(app) = n
      BY <1>6 DEF app
    <3> QED BY <3>1, <3>2, ConcatProperties
  <2>2. ASSUME NEW k \in 1..len + n
        PROVE  Queued'[k] = (Queued \o app)[k]
    <3>1. n \in Nat /\ len \in Nat
      BY <1>2
    <3>2. k \in 1..len + n /\ k \in Nat
      BY <3>1
    <3>3. CASE k <= len
      <4>1. k \in 1..len
        BY <3>1, <3>3, <3>2
      <4>2. Queued[k] = elems[Slot(Oldest, k)]
        BY <1>4, <4>1
      <4>3. Queued'[k] = elems[Slot(Oldest, k)]
        BY <1>5
      <4>4. (Queued \o app)[k] = Queued[k]
        BY <2>1, <3>3
      <4> QED BY <4>2, <4>3, <4>4
    <3>4. CASE k > len
      <4>1. k - len \in 1..n /\ len + (k - len) = k
        BY <3>1, <3>4, <3>2
      <4>2. app[k - len] = elems[Slot(Oldest, k)]
        BY <1>6, <1>7, <4>1 DEF app
      <4>3. Queued'[k] = elems[Slot(Oldest, k)]
        BY <1>5
      <4>4. (Queued \o app)[k] = app[k - len]
        BY <2>1, <3>1, <3>4, <3>2
      <4> QED BY <4>2, <4>3, <4>4
    <3>5. k <= len \/ k > len
      BY <3>1, <3>2
    <3> QED BY <3>3, <3>4, <3>5
  <2>3. Queued' = Queued \o app
    BY <1>5, <2>1, <2>2, SeqEqual
  <2> QED BY <2>3 DEF app
<1>9. F!Enqueue(src, n)
  <2>1. pret' = [res |-> IF n = Len(src) THEN "ok" ELSE "EXFULL", n |-> n]
    BY <1>2, <1>3 DEF EnqueuePublish
  <2>2. UNCHANGED cret
    BY DEF EnqueuePublish, consumer
  <2>3. n <= Len(src) /\ Len(Queued) + n <= Cap
    BY <1>2, <1>3, <1>4
  <2> QED BY <1>8, <2>1, <2>2, <2>3 DEF F!Enqueue
<1> QED BY <1>2, <1>9

(* Releasing is Fifo's Dequeue: the copied elements are the front of the   *)
(* queue, and the rest of it moves up.                                     *)
LEMMA ReleaseRefines ==
  ASSUME IInv, DequeueRelease
  PROVE  \E k \in 1..MaxBatch, n \in 1..MaxBatch : F!Dequeue(k, n)
<1> USE AqueueAssumption
<1>1. /\ len \in 0..Cap /\ cn \in 1..Cap /\ cn <= len /\ cn \in 1..MaxBatch
      /\ cres \in {"ok", "ENODATA"}
      /\ cres # "ok" => cn < MaxBatch
      /\ cdst \in Seq(Elem \cup {Zero}) /\ Len(cdst) = cn
      /\ \A k \in 1..cn : cdst[k] = elems[Slot(Oldest, k)]
  BY DEF DequeueRelease, IInv, TypeOK, RingInv, DataKept, CopyIsFront
<1>2. /\ Queued \in Seq(Elem) /\ Len(Queued) = len
      /\ \A k \in 1..len : Queued[k] = elems[Slot(Oldest, k)]
  BY QueuedIsSeq
<1>3. /\ SubSeq(Queued, cn + 1, len) \in Seq(Elem)
      /\ Len(SubSeq(Queued, cn + 1, len)) = len - cn
      /\ \A k \in 1..len - cn :
           SubSeq(Queued, cn + 1, len)[k] = Queued[cn + k]
  <2> DEFINE rest == SubSeq(Queued, cn + 1, len)
  <2>1. cn + 1 \in Int /\ len \in Int /\ cn \in Int
    BY <1>1
  <2>2. \A i \in (cn + 1)..len : Queued[i] \in Elem
    BY <1>1, <1>2, ElementOfSeq
  <2>3. /\ rest \in Seq(Elem)
        /\ Len(rest) = IF cn + 1 <= len THEN len - (cn + 1) + 1 ELSE 0
        /\ \A i \in 1..len - (cn + 1) + 1 : rest[i] = Queued[(cn + 1) + i - 1]
    BY <2>1, <2>2, SubSeqProperties
  <2> HIDE DEF rest
  <2>4. len - (cn + 1) + 1 = len - cn
    BY <1>1
  <2>5. Len(rest) = len - cn
    BY <1>1, <2>3
  <2>6. \A k \in 1..len - cn : rest[k] = Queued[cn + k]
    <3> SUFFICES ASSUME NEW k \in 1..len - cn PROVE rest[k] = Queued[cn + k]
      OBVIOUS
    <3>1. (cn + 1) + k - 1 = cn + k
      BY <2>1
    <3> QED BY <2>3, <2>4, <3>1
  <2> QED BY <2>3, <2>5, <2>6 DEF rest
<1>4. Queued' = [k \in 1..len - cn |-> Queued[cn + k]]
  <2>1. len' = len - cn /\ elems' = elems
    BY DEF DequeueRelease
  <2>2. ASSUME NEW k \in 1..len - cn
        PROVE  elems[Slot(Oldest', k)] = Queued[cn + k]
    <3>1. k \in 1..(Cap - cn) + 1 /\ cn + k \in 1..len
      BY <1>1
    <3>2. Slot(Oldest', k) = Slot(Oldest, cn + k)
      BY <3>1, DequeueReleaseFrame
    <3> QED BY <1>2, <3>1, <3>2
  <2>3. Queued' = [k \in 1..len - cn |-> elems[Slot(Oldest', k)]]
    BY <2>1 DEF Queued, CopyOut, Slot
  <2> QED BY <2>2, <2>3
<1>5. Queued' = SubSeq(Queued, cn + 1, len)
  <2>1. len - cn \in Nat
    BY <1>1
  <2>2. \A k \in 1..len - cn : Queued[cn + k] \in Elem
    <3> SUFFICES ASSUME NEW k \in 1..len - cn
                 PROVE  Queued[cn + k] \in Elem
      OBVIOUS
    <3>1. cn + k \in 1..len
      BY <1>1
    <3> QED BY <1>2, <3>1, ElementOfSeq
  <2>3. Queued' \in Seq(Elem)
    BY <1>4, <2>1, <2>2, IsASeq
  <2>4. Len(Queued') = len - cn
    BY <1>4, <2>1, <2>3, LenProperties
  <2> QED BY <1>3, <1>4, <2>3, <2>4, SeqEqual
<1>6. cdst = SubSeq(Queued, 1, cn)
  <2>1. cn \in 0..Len(Queued)
    BY <1>1, <1>2
  <2>2. /\ SubSeq(Queued, 1, cn) \in Seq(Elem)
        /\ Len(SubSeq(Queued, 1, cn)) = cn
        /\ \A k \in 1..cn : SubSeq(Queued, 1, cn)[k] = Queued[k]
    BY <1>2, <2>1, PrefixIsSeq
  <2>3. SubSeq(Queued, 1, cn) \in Seq(Elem \cup {Zero})
    BY <2>2, SeqMonotonic, Elem \subseteq Elem \cup {Zero}
  <2>4. \A k \in 1..cn : cdst[k] = SubSeq(Queued, 1, cn)[k]
    BY <1>1, <1>2, <2>2
  <2> QED BY <1>1, <2>2, <2>3, <2>4, SeqEqual
<1>7. PICK k \in 1..MaxBatch : /\ cn <= k
                               /\ cres = "ok" => cn = k
                               /\ cres # "ok" => cn # k
  <2>1. CASE cres = "ok"
    <3>1. cn \in 1..MaxBatch /\ cn <= cn
      BY <1>1
    <3> QED BY <2>1, <3>1
  <2>2. CASE cres # "ok"
    <3>1. cn + 1 \in 1..MaxBatch /\ cn <= cn + 1 /\ cn # cn + 1
      BY <1>1, <2>2
    <3> QED BY <2>2, <3>1
  <2> QED BY <2>1, <2>2
<1>8. F!Dequeue(k, cn)
  <2>1. cret' = [res |-> IF cn = k THEN "ok" ELSE "ENODATA",
                 out |-> SubSeq(Queued, 1, cn)]
    <3>1. cres = IF cn = k THEN "ok" ELSE "ENODATA"
      <4>1. CASE cres = "ok"
        BY <1>7, <4>1
      <4>2. CASE cres # "ok"
        BY <1>1, <1>7, <4>2
      <4> QED BY <4>1, <4>2
    <3> QED BY <1>6, <3>1 DEF DequeueRelease
  <2>2. UNCHANGED pret
    BY DEF DequeueRelease, producer
  <2>3. cn <= k /\ cn <= Len(Queued)
    BY <1>1, <1>2, <1>7
  <2> QED BY <1>2, <1>5, <2>1, <2>2, <2>3 DEF F!Dequeue
<1> QED BY <1>1, <1>8

(* aqueue_front returns the oldest queued element.                         *)
LEMMA FrontRefines ==
  ASSUME IInv, FrontCopy
  PROVE  F!Peek
<1> USE AqueueAssumption
<1>1. len \in 1..Cap
  BY DEF FrontCopy, IInv, TypeOK, RingInv, DataKept
<1>2. Oldest = aqueue_wrap(front)
  <2>1. aqueue_wrap(front) \in Slots
    BY WrapIsSlot DEF IInv, TypeOK
  <2> QED BY <2>1 DEF Oldest, Unreleased, FrontCopy, Slot, Slots
<1>3. /\ Queued \in Seq(Elem) /\ Len(Queued) = len
      /\ Queued[1] = elems[Slot(Oldest, 1)]
  BY <1>1, QueuedIsSeq
<1>4. CopyOut(aqueue_wrap(front), 1) = <<Queued[1]>>
  BY <1>2, <1>3 DEF CopyOut
<1>5. Queued # <<>>
  BY <1>1, <1>3
<1>6. Queued' = Queued
  BY OldestUnchanged DEF FrontCopy, Unreleased
<1> QED BY <1>4, <1>5, <1>6 DEF F!Peek, FrontCopy, producer

(* Each step of the ring is a step of the queue it implements, or leaves   *)
(* that queue and both last results alone.                                 *)
LEMMA NextRefines == IInv /\ [Next]_vars => [F!Next]_F!vars
<1> SUFFICES ASSUME IInv, [Next]_vars PROVE F!Next \/ UNCHANGED F!vars
  OBVIOUS
<1> USE AqueueAssumption
<1>1. /\ Queued \in Seq(Elem) /\ Len(Queued) = len /\ len \in 0..Cap
  BY QueuedIsSeq DEF IInv, TypeOK
<1>2. CASE EnqueueFull
  <2>1. Queued' = Queued
    BY <1>2, OldestUnchanged DEF EnqueueFull, consumer, Unreleased
  <2> QED BY <1>1, <1>2, <2>1
          DEF EnqueueFull, F!EnqueueFull, F!Next, consumer
<1>3. ASSUME \/ \E x \in Elem : EnqueueLoad(x)
             \/ \E src \in Batch : EnqueueSomeLoad(src)
      PROVE  UNCHANGED F!vars
  <2>1. Queued' = Queued
    BY <1>3, OldestUnchanged
       DEF EnqueueLoad, EnqueueSomeLoad, consumer, Unreleased
  <2> QED BY <1>3, <2>1 DEF EnqueueLoad, EnqueueSomeLoad, F!vars, consumer
<1>4. CASE EnqueueCopy
  <2>1. Queued' = Queued
    BY <1>4, EnqueueCopyFrame, QueuedUnchanged DEF EnqueueCopy
  <2> QED BY <1>4, <2>1 DEF EnqueueCopy, F!vars, consumer
<1>5. CASE EnqueuePublish
  BY <1>5, PublishRefines DEF F!Next, F!Batch, Batch
<1>6. ASSUME NEW res \in {"ENODATA", "ENOTRECOVERABLE"}, DequeueEmpty(res)
      PROVE  F!ConsumeNothing
  <2>1. Queued' = Queued
    BY <1>6, OldestUnchanged DEF DequeueEmpty, Unreleased
  <2>2. Queued = <<>>
    BY <1>1, <1>6, EmptySeq DEF DequeueEmpty
  <2> QED BY <1>6, <2>1, <2>2 DEF DequeueEmpty, F!ConsumeNothing, producer
<1>7. ASSUME \/ \E op \in {"one", "front"} : DequeueLoad(op)
             \/ \E k \in 1..MaxBatch : DequeueSomeLoad(k)
      PROVE  UNCHANGED F!vars
  <2>1. Queued' = Queued
    BY <1>7, OldestUnchanged DEF DequeueLoad, DequeueSomeLoad, Unreleased
  <2> QED BY <1>7, <2>1 DEF DequeueLoad, DequeueSomeLoad, F!vars, producer
<1>8. CASE FrontCopy
  BY <1>8, FrontRefines DEF F!Next
<1>9. CASE DequeueCopy
  <2>1. Queued' = Queued
    BY <1>9, DequeueCopyFrame, QueuedUnchanged DEF DequeueCopy
  <2> QED BY <1>9, <2>1 DEF DequeueCopy, F!vars, producer
<1>10. CASE DequeueRelease
  BY <1>10, ReleaseRefines DEF F!Next
<1>11. CASE UNCHANGED vars
  <2>1. Queued' = Queued
    BY <1>11, OldestUnchanged DEF vars, consumer, Unreleased
  <2> QED BY <1>11, <2>1 DEF vars, F!vars, producer, consumer
<1>12. F!Next \/ UNCHANGED F!vars
  BY <1>2, <1>3, <1>4, <1>5, <1>6, <1>7, <1>8, <1>9, <1>10, <1>11
     DEF Next, Produce, Consume, F!Next
<1> QED BY <1>12

(* The lock-free ring implements the bounded queue of Fifo.tla: order,     *)
(* conservation and honest refusals, for every interleaving of the two     *)
(* threads' steps.                                                         *)
THEOREM RingImplementsFifo == Spec => ImplementsFifo
<1>1. Spec => []IInv
  BY InitIInv, NextIInv, PTL DEF Spec
<1>2. QED
  BY <1>1, InitRefines, NextRefines, PTL DEF Spec, ImplementsFifo, F!Spec
=============================================================================
