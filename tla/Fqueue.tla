------------------------------- MODULE Fqueue -------------------------------
(***************************************************************************)
(* Fqueue (src/src/fqueue.c): bytes buffered before a file, between a read *)
(* and a write cursor that only fold_down and the rewinds move back.  Two  *)
(* of them here, one that is filled from a file and one that is emptied to *)
(* a file, with fqueue_exchange, or a caller's hand, in between.  The bytes*)
(* of the input are 1, 2, 3, ...                                           *)
(***************************************************************************)
EXTENDS Null, Integers, SequencesExt

CONSTANTS
  FqueueCap,     (* num_bytes of either queue                              *)
  FqueueInput    (* how many bytes the input has                           *)

ASSUME FqueueAssumption == FqueueCap \in Nat \ {0} /\ FqueueInput \in Nat

VARIABLES
  fqueue,      (* the two queues and the caller's hand, or NULL            *)
  fqueue_io,   (* how much of the input was read, and what was written     *)
  fqueue_odd   (* history: a call lost or repeated bytes, or was told to   *)
               (* go back                                                  *)

fqueue_vars == <<fqueue, fqueue_io, fqueue_odd>>

FqueueInit ==
  fqueue = NULL /\ fqueue_io = [read |-> 0, written |-> <<>>] /\ fqueue_odd = FALSE

fqueue_init == [bytes |-> [i \in 0..FqueueCap-1 |-> 0], write |-> 0, read |-> 0]

FqueueCreate ==
  /\ fqueue = NULL
  /\ fqueue' = [in |-> fqueue_init, out |-> fqueue_init, hand |-> <<>>]
  /\ UNCHANGED <<fqueue_io, fqueue_odd>>

FqueueDestroy ==
  /\ fqueue # NULL
  /\ fqueue' = NULL /\ fqueue_odd' = FALSE
  /\ fqueue_io' = [read |-> 0, written |-> <<>>]

fqueue_used(q) == q.write - q.read
fqueue_unused(q) == FqueueCap - q.write

FqueueSlice(q, from, n) == [i \in 1..n |-> q.bytes[from + i - 1]]
FqueueStore(q, data) ==
  [i \in 0..FqueueCap-1 |->
    IF i \in q.write .. q.write + Len(data) - 1 THEN data[i - q.write + 1] ELSE q.bytes[i]]
FqueueUsed(q) == FqueueSlice(q, q.read, fqueue_used(q))

FqueuePut(q, data) == [q EXCEPT !.bytes = FqueueStore(q, data), !.write = @ + Len(data)]
FqueueGet(q, size) == [q EXCEPT !.read = @ + size]

FqueueDequeue(size) ==
  /\ fqueue.hand = <<>>
  /\ size <= fqueue_used(fqueue.in)
  /\ fqueue' = [fqueue EXCEPT !.in = FqueueGet(@, size),
                              !.hand = FqueueSlice(fqueue.in, fqueue.in.read, size)]
  /\ UNCHANGED <<fqueue_io, fqueue_odd>>

FqueueEnqueue ==
  /\ fqueue.hand # <<>>
  /\ Len(fqueue.hand) <= fqueue_unused(fqueue.out)
  /\ fqueue' = [fqueue EXCEPT !.out = FqueuePut(@, fqueue.hand), !.hand = <<>>]
  /\ UNCHANGED <<fqueue_io, fqueue_odd>>

FqueueExchange(size) ==
  /\ fqueue.hand = <<>>
  /\ size <= fqueue_used(fqueue.in) /\ size <= fqueue_unused(fqueue.out)
  /\ fqueue' = [fqueue EXCEPT
       !.in = FqueueGet(@, size),
       !.out = FqueuePut(@, FqueueSlice(fqueue.in, fqueue.in.read, size))]
  /\ UNCHANGED <<fqueue_io, fqueue_odd>>

(* Mutant: what is left is moved down by one byte too many.                *)
FqueueFoldDownFar(side) ==
  LET q == fqueue[side]
      diff == fqueue_used(q)
  IN /\ diff <= 1 + FqueueCap \div 2
     /\ fqueue' = [fqueue EXCEPT ![side] =
          [bytes |-> [i \in 0..FqueueCap-1 |->
                       IF i < diff THEN q.bytes[(q.read + i + 1) % FqueueCap] ELSE q.bytes[i]],
           write |-> diff, read |-> 0]]
     /\ UNCHANGED <<fqueue_io, fqueue_odd>>

FqueueFoldDown(side) ==
  LET q == fqueue[side]
      diff == fqueue_used(q)
  IN /\ diff <= 1 + FqueueCap \div 2
     /\ fqueue' = [fqueue EXCEPT ![side] =
          [bytes |-> [i \in 0..FqueueCap-1 |->
                       IF i < diff THEN q.bytes[q.read + i] ELSE q.bytes[i]],
           write |-> diff, read |-> 0]]
     /\ UNCHANGED <<fqueue_io, fqueue_odd>>

(* Of a short read the bytes are in the buffer but the cursor does not     *)
(* move: they are lost to the queue and gone from the file.                *)
FqueueFenqueue(size) ==
  /\ size <= fqueue_unused(fqueue.in)
  /\ LET got == Min({size, FqueueInput - fqueue_io.read})
         data == [i \in 1..got |-> fqueue_io.read + i]
     IN /\ fqueue_io' = [fqueue_io EXCEPT !.read = @ + got]
        /\ fqueue' = [fqueue EXCEPT
             !.in = IF got = size THEN FqueuePut(@, data)
                    ELSE [@ EXCEPT !.bytes = FqueueStore(fqueue.in, data)]]
        /\ fqueue_odd' = (fqueue_odd \/ got \in 1..size - 1)

(* Writes from the start of the buffer, not from the read cursor, and takes*)
(* back the write cursor by all there is, not by what was written.  A short*)
(* write moves no cursor.  Bound: a write is short only while nothing odd  *)
(* has happened yet.                                                       *)
FqueueFdequeue(size, wrote) ==
  /\ size <= fqueue_used(fqueue.out)
  /\ wrote = size \/ ~fqueue_odd
  /\ fqueue_io' = [fqueue_io EXCEPT !.written = @ \o FqueueSlice(fqueue.out, 0, wrote)]
  /\ fqueue' = IF wrote < size THEN fqueue
               ELSE [fqueue EXCEPT !.out.write = @ - fqueue_used(fqueue.out)]
  /\ fqueue_odd' = (fqueue_odd \/ wrote \in 1..size - 1
                      \/ fqueue.out.read # 0 \/ size # fqueue_used(fqueue.out))

FqueueRewindRead(side, back) ==
  /\ fqueue[side].read >= back
  /\ fqueue' = [fqueue EXCEPT ![side].read = @ - back]
  /\ fqueue_odd' = TRUE
  /\ UNCHANGED fqueue_io

FqueueRewindWrite(side, back) ==
  /\ fqueue[side].write >= back
  /\ fqueue' = [fqueue EXCEPT ![side].write = @ - back,
                              ![side].read = Min({@, fqueue[side].write - back})]
  /\ fqueue_odd' = TRUE
  /\ UNCHANGED fqueue_io

FqueueNext ==
  \/ FqueueCreate
  \/ FqueueDestroy
  \/ /\ fqueue # NULL
     /\ ~fqueue_odd  (* bound: nothing more is looked at after that        *)
     /\ \/ FqueueEnqueue
        \/ \E side \in {"in", "out"} : FqueueFoldDown(side)
        \/ \E n \in 1..FqueueCap :
             \/ FqueueDequeue(n) \/ FqueueExchange(n) \/ FqueueFenqueue(n)
             \/ \E wrote \in 0..n : FqueueFdequeue(n, wrote)
             \/ \E side \in {"in", "out"} : FqueueRewindRead(side, n) \/ FqueueRewindWrite(side, n)

FqueueSpec == FqueueInit /\ [][FqueueNext]_fqueue_vars

-----------------------------------------------------------------------------
(* What was written, what the queues and the hand hold and what the file   *)
(* still has are together the input in its order, through every use of the *)
(* buffers, and what can be read again by fqueue_rewind_read_cursor is     *)
(* what was read just before: until a read or a write comes back short, or *)
(* fqueue_fdequeue is called for a part of the bytes or with some of them  *)
(* read (fqueue_prev 82-88, fqueue_dequeue 114-128 to fqueue_fdequeue      *)
(* 216-241).                                                               *)
FqueueConserves ==
  fqueue # NULL /\ ~fqueue_odd =>
    /\ fqueue_io.written \o FqueueUsed(fqueue.out) \o fqueue.hand \o FqueueUsed(fqueue.in)
         = [i \in 1..fqueue_io.read |-> i]
    /\ \A i \in 1..fqueue.in.write - 1 : fqueue.in.bytes[i] = fqueue.in.bytes[i - 1] + 1
=============================================================================
