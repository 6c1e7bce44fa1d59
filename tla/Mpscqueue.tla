----------------------------- MODULE Mpscqueue ------------------------------
(***************************************************************************)
(* Mpscqueue (src/src/mpscqueue.c): the ring of Aqueue for many producers, *)
(* who take a mutex around an enqueue, and one consumer.  The steps are    *)
(* those the other threads can see: taking the mutex, the load of len, the *)
(* copy with the update of the private index, the change of len, and       *)
(* giving the mutex back.                                                  *)
(***************************************************************************)
EXTENDS Naturals, Sequences

CONSTANTS
  Producer,
  None,       (* nobody: who holds a free mutex                            *)
  Elem,
  Zero,       (* what a slot holds before its first element (calloc)       *)
  Cap         (* queue->cap                                                *)

ASSUME MpscqueueAssumption ==
  /\ Cap \in Nat \ {0}
  /\ None \notin Producer
  /\ Zero \notin Elem

VARIABLES
  elems,      (* the slots                                                 *)
  len,        (* the shared, atomic element count                          *)
  back,       (* the producers' index, guarded by the mutex                *)
  holder,     (* who holds producer_mutex                                  *)
  ppc,        (* where each producer is in its call                        *)
  src,        (* the element each producer is enqueueing                   *)
  pret,       (* the code the last enqueue to take effect returns          *)
  front,      (* the consumer's index                                      *)
  cpc,        (* where the consumer is in its call                         *)
  cop,        (* which call: dequeue or front                              *)
  dest,       (* the element it has copied out                             *)
  cret        (* the code and the element its last call returned           *)

producers == <<back, holder, ppc, src, pret>>
consumer == <<front, cpc, cop, dest, cret>>
vars == <<elems, len, producers, consumer>>

Slots == 0..Cap-1

mpscqueue_wrap(pos) == pos % Cap

Init ==
  /\ elems = [i \in Slots |-> Zero]
  /\ len = 0
  /\ back = 0 /\ front = 0
  /\ holder = None
  /\ ppc = [p \in Producer |-> "idle"]
  /\ src \in [Producer -> Elem]
  /\ pret = "none"
  /\ cpc = "idle" /\ cop = "dequeue" /\ dest = Zero
  /\ cret = [code |-> "none", out |-> <<>>]

-----------------------------------------------------------------------------
(* mpscqueue_enqueue.                                                      *)

Goes(p, from, to) == ppc[p] = from /\ ppc' = [ppc EXCEPT ![p] = to]

Enqueue(p, x) ==
  /\ Goes(p, "idle", "lock")
  /\ src' = [src EXCEPT ![p] = x]
  /\ UNCHANGED <<elems, len, back, holder, pret, consumer>>

(* Mutant: an enqueue that does not wait for the mutex.                    *)
EnqueueLocksAnyway(p) ==
  /\ Goes(p, "lock", "load")
  /\ holder' = p
  /\ UNCHANGED <<elems, len, back, src, pret, consumer>>

(* The mutex is a normal one: its holder, too, waits for it.               *)
EnqueueLocks(p) ==
  /\ Goes(p, "lock", "load")
  /\ holder = None
  /\ holder' = p
  /\ UNCHANGED <<elems, len, back, src, pret, consumer>>

(* Mutant: one slot is never used.                                         *)
EnqueueFullEarly(p) ==
  /\ Goes(p, "load", "idle")
  /\ len + 1 >= Cap
  /\ pret' = "3"
  /\ UNCHANGED <<elems, len, back, holder, src, consumer>>

(* The queue is full: the call returns 3, and with the mutex.              *)
EnqueueFull(p) ==
  /\ Goes(p, "load", "idle")
  /\ len = Cap
  /\ pret' = "3"
  /\ UNCHANGED <<elems, len, back, holder, src, consumer>>

EnqueueHasRoom(p) ==
  /\ Goes(p, "load", "copy")
  /\ len # Cap
  /\ UNCHANGED <<elems, len, back, holder, src, pret, consumer>>

EnqueueCopies(p) ==
  /\ Goes(p, "copy", "publish")
  /\ elems' = [elems EXCEPT ![mpscqueue_wrap(back)] = src[p]]
  /\ back' = mpscqueue_wrap(back + 1)
  /\ UNCHANGED <<len, holder, src, pret, consumer>>

EnqueuePublishes(p) ==
  /\ Goes(p, "publish", "unlock")
  /\ len' = len + 1
  /\ pret' = "0"
  /\ UNCHANGED <<elems, back, holder, src, consumer>>

EnqueueUnlocks(p) ==
  /\ Goes(p, "unlock", "idle")
  /\ holder' = None
  /\ UNCHANGED <<elems, len, back, src, pret, consumer>>

-----------------------------------------------------------------------------
(* mpscqueue_dequeue and mpscqueue_front: the codes of an empty queue are  *)
(* 1 and 2.                                                                *)

DequeueEmpty(code) ==
  /\ cpc = "idle"
  /\ len = 0
  /\ cret' = [code |-> code, out |-> <<>>]
  /\ UNCHANGED <<elems, len, front, cpc, cop, dest, producers>>

DequeueLoad(op) ==
  /\ cpc = "idle"
  /\ len # 0
  /\ cpc' = "copy" /\ cop' = op
  /\ UNCHANGED <<elems, len, front, dest, cret, producers>>

FrontCopy ==
  /\ cpc = "copy"
  /\ cop = "front"
  /\ cret' = [code |-> "0", out |-> <<elems[mpscqueue_wrap(front)]>>]
  /\ cpc' = "idle" /\ cop' = "dequeue"
  /\ UNCHANGED <<elems, len, front, dest, producers>>

DequeueCopy ==
  /\ cpc = "copy"
  /\ cop = "dequeue"
  /\ dest' = elems[mpscqueue_wrap(front)]
  /\ front' = mpscqueue_wrap(front + 1)
  /\ cpc' = "release"
  /\ UNCHANGED <<elems, len, cop, cret, producers>>

DequeueRelease ==
  /\ cpc = "release"
  /\ len' = len - 1
  /\ cret' = [code |-> "0", out |-> <<dest>>]
  /\ cpc' = "idle" /\ dest' = Zero
  /\ UNCHANGED <<elems, front, cop, producers>>

-----------------------------------------------------------------------------
EnqueueStep(p) ==
  \/ EnqueueLocks(p)
  \/ EnqueueFull(p)
  \/ EnqueueHasRoom(p)
  \/ EnqueueCopies(p)
  \/ EnqueuePublishes(p)
  \/ EnqueueUnlocks(p)

DequeueStep == FrontCopy \/ DequeueCopy \/ DequeueRelease

Next ==
  \/ \E p \in Producer : EnqueueStep(p) \/ \E x \in Elem : Enqueue(p, x)
  \/ DequeueStep
  \/ \E code \in {"1", "2"} : DequeueEmpty(code)
  \/ \E op \in {"dequeue", "front"} : DequeueLoad(op)

Spec == Init /\ [][Next]_vars

(* Every thread sees the call it has started through.                      *)
FairSpec ==
  /\ Spec
  /\ \A p \in Producer : WF_vars(EnqueueStep(p))
  /\ WF_vars(DequeueStep)

-----------------------------------------------------------------------------
(* Properties.                                                             *)

TypeOK ==
  /\ elems \in [Slots -> Elem \cup {Zero}]
  /\ len \in 0..Cap
  /\ back \in Slots
  /\ holder \in Producer \cup {None}
  /\ ppc \in [Producer -> {"idle", "lock", "load", "copy", "publish", "unlock"}]
  /\ src \in [Producer -> Elem]
  /\ pret \in {"none", "0", "3"}
  /\ front \in Slots
  /\ cpc \in {"idle", "copy", "release"}
  /\ cop \in {"dequeue", "front"}
  /\ dest \in Elem \cup {Zero}
  /\ cret \in [code : {"none", "0", "1", "2"}, out : Seq(Elem \cup {Zero})]

(* The slot of the oldest element that len counts: the one before front    *)
(* while its dequeue has not released it.                                  *)
Oldest == IF cpc = "release" THEN mpscqueue_wrap(front + Cap - 1) ELSE front

Queued == [k \in 1..len |-> elems[mpscqueue_wrap(Oldest + k - 1)]]

(* No producer is about to copy into a slot that holds a queued element:   *)
(* neither the consumer nor another producer has taken the room it found   *)
(* (mpscqueue_enqueue 94-104).                                              *)
NoOverwrite ==
  \A p \in Producer : ppc[p] = "copy" =>
    \A k \in 1..len : mpscqueue_wrap(Oldest + k - 1) # back

(* Who is past the lock has the mutex.                                     *)
HolderAgrees ==
  \A p \in Producer : ppc[p] \in {"load", "copy", "publish", "unlock"} => holder = p

(* The indices and the count agree at every step of the calls: back is     *)
(* where the queued elements and the unpublished one end.                  *)
Unpublished == IF \E p \in Producer : ppc[p] = "publish" THEN 1 ELSE 0
IndicesAgree == back = mpscqueue_wrap((Oldest + len) + Unpublished)

(* What a producer and the consumer found stays true until they change len.*)
RoomKept == \A p \in Producer : ppc[p] \in {"copy", "publish"} => len < Cap
DataKept == /\ cpc # "idle" => len > 0
            /\ cop = "front" => cpc = "copy"

(* Every queued slot holds what was enqueued, and what the consumer copied *)
(* out is still the front of the queue when it releases the slot.          *)
SlotsFilled ==
  /\ \A k \in 0..len-1 : elems[mpscqueue_wrap(Oldest + k)] \in Elem
  /\ \A p \in Producer :
       ppc[p] = "publish" => elems[mpscqueue_wrap(Oldest + len)] = src[p]
CopyIsFront == cpc = "release" => dest = elems[Oldest]

(* The inductive invariant of any number of producers and the consumer.    *)
ProducersInv ==
  /\ TypeOK
  /\ HolderAgrees
  /\ IndicesAgree
  /\ RoomKept
  /\ DataKept
  /\ SlotsFilled
  /\ CopyIsFront

(* What the two sides' codes say, in the words of Fifo.                    *)
Meaning(code) ==
  CASE code = "none" -> "none"
    [] code = "0" -> "ok"
    [] code = "1" -> "ENODATA"
    [] code = "2" -> "ENOTRECOVERABLE"
    [] code = "3" -> "EXFULL"

(* Mpscqueue implements Fifo: however the producers interleave, elements   *)
(* come out once, unaltered and in the order in which len counted them,    *)
(* and a call is refused only by a full or an empty queue.                 *)
F == INSTANCE Fifo WITH
       MaxBatch <- 1,
       queue <- Queued,
       pret <- [res |-> Meaning(pret), n |-> IF pret = "0" THEN 1 ELSE 0],
       cret <- [res |-> Meaning(cret.code), out |-> cret.out]
ImplementsFifo == F!Spec

(* An enqueue comes back: the structure is "thread safe to use when        *)
(* multiple producer threads enqueue" (mpscqueue.h).                       *)
EnqueueReturns == \A p \in Producer : ppc[p] # "idle" ~> ppc[p] = "idle"
=============================================================================
