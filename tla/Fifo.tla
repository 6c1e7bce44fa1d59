-------------------------------- MODULE Fifo --------------------------------
(***************************************************************************)
(* What a bounded queue with one producer and one consumer promises: every *)
(* call takes effect at one instant between its start and its return, the  *)
(* elements leave in the order they came in, none is lost, duplicated or   *)
(* altered, a call is refused only when the queue is full (or empty), and  *)
(* a bulk call moves a non-empty prefix of what it was asked to move.      *)
(*                                                                         *)
(* This is the promise of aqueue.h; Aqueue.tla is shown to implement it.   *)
(***************************************************************************)
EXTENDS Naturals, Sequences

CONSTANTS
  Elem,      (* the elements a queue can hold                              *)
  Cap,       (* how many it can hold                                       *)
  MaxBatch   (* the longest run one bulk call is asked to move             *)

VARIABLES
  queue,     (* the elements queued, oldest first                          *)
  pret,      (* what the producer's last call returned, and how many moved *)
  cret       (* what the consumer's last call returned, and what it got    *)

vars == <<queue, pret, cret>>

(* The runs of elements a producer may hand to a bulk call.                *)
Batch == UNION {[1..n -> Elem] : n \in 1..MaxBatch}

Init ==
  /\ queue = <<>>
  /\ pret = [res |-> "none", n |-> 0]
  /\ cret = [res |-> "none", out |-> <<>>]

(* Some n of the elements of src are appended, as one step.                *)
Enqueue(src, n) ==
  /\ n <= Len(src)
  /\ Len(queue) + n <= Cap
  /\ queue' = queue \o SubSeq(src, 1, n)
  /\ pret' = [res |-> IF n = Len(src) THEN "ok" ELSE "EXFULL", n |-> n]
  /\ UNCHANGED cret

EnqueueFull ==
  /\ Len(queue) = Cap
  /\ pret' = [res |-> "EXFULL", n |-> 0]
  /\ UNCHANGED <<queue, cret>>

(* The n oldest elements leave, as one step, for a consumer that asked for *)
(* k of them.                                                              *)
Dequeue(k, n) ==
  /\ n <= k
  /\ n <= Len(queue)
  /\ queue' = SubSeq(queue, n + 1, Len(queue))
  /\ cret' = [res |-> IF n = k THEN "ok" ELSE "ENODATA",
              out |-> SubSeq(queue, 1, n)]
  /\ UNCHANGED pret

(* The consumer looks at the oldest element and leaves it queued.          *)
Peek ==
  /\ queue # <<>>
  /\ cret' = [res |-> "ok", out |-> <<queue[1]>>]
  /\ UNCHANGED <<queue, pret>>

ConsumeNothing ==
  /\ queue = <<>>
  /\ cret' \in [res : {"ENODATA", "ENOTRECOVERABLE"}, out : {<<>>}]
  /\ UNCHANGED <<queue, pret>>

Next ==
  \/ \E src \in Batch, n \in 1..MaxBatch : Enqueue(src, n)
  \/ EnqueueFull
  \/ \E k \in 1..MaxBatch, n \in 1..MaxBatch : Dequeue(k, n)
  \/ Peek
  \/ ConsumeNothing

Spec == Init /\ [][Next]_vars
=============================================================================
