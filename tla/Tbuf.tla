-------------------------------- MODULE Tbuf --------------------------------
(***************************************************************************)
(* Tbuf (src/src/tbuf.c): two buffers of cap bytes that trade names.  The  *)
(* owner writes from tbuf_A or tbuf_B on and adds to the length itself.    *)
(***************************************************************************)
EXTENDS Null, Integers

CONSTANT TbufCap

ASSUME TbufAssumption == TbufCap \in Nat \ {0}

VARIABLES
  tbuf,        (* the buffer, or NULL.  A and B: which of its two pieces of*)
               (* memory the names stand for                               *)
  tbuf_wrote   (* history: bytes written to each piece                     *)

tbuf_vars == <<tbuf, tbuf_wrote>>

tbuf_init == [A |-> 1, A_len |-> 0, B |-> 2, B_len |-> 0]

TbufInit == tbuf = NULL /\ tbuf_wrote = <<0, 0>>

TbufCreate == tbuf = NULL /\ tbuf' = tbuf_init /\ UNCHANGED tbuf_wrote
TbufDestroy == tbuf # NULL /\ tbuf' = NULL /\ tbuf_wrote' = <<0, 0>>

(* Mutant: the lengths stay.                                               *)
TbufSwapPointers ==
  /\ tbuf # NULL
  /\ tbuf' = [tbuf EXCEPT !.A = tbuf.B, !.B = tbuf.A]
  /\ UNCHANGED tbuf_wrote

TbufSwap ==
  /\ tbuf # NULL
  /\ tbuf' = [A |-> tbuf.B, A_len |-> tbuf.B_len, B |-> tbuf.A, B_len |-> tbuf.A_len]
  /\ UNCHANGED tbuf_wrote

tbuf_A_unused(t) == TbufCap - t.A_len
tbuf_B_unused(t) == TbufCap - t.B_len

TbufWrites ==
  /\ tbuf # NULL
  /\ \/ /\ tbuf_A_unused(tbuf) > 0
        /\ tbuf' = [tbuf EXCEPT !.A_len = @ + 1]
        /\ tbuf_wrote' = [tbuf_wrote EXCEPT ![tbuf.A] = @ + 1]
     \/ /\ tbuf_B_unused(tbuf) > 0
        /\ tbuf' = [tbuf EXCEPT !.B_len = @ + 1]
        /\ tbuf_wrote' = [tbuf_wrote EXCEPT ![tbuf.B] = @ + 1]

TbufNext == TbufCreate \/ TbufDestroy \/ TbufSwap \/ TbufWrites

TbufSpec == TbufInit /\ [][TbufNext]_tbuf_vars

-----------------------------------------------------------------------------
(* Through all swaps a length stays with the memory it counts: a writer    *)
(* that goes on where tbuf_A or tbuf_B says overwrites nothing, and never  *)
(* leaves its piece (tbuf_swap 133-150, tbuf_A 152-178).                   *)
TbufGoesOn ==
  tbuf # NULL =>
    /\ tbuf.A # tbuf.B
    /\ tbuf.A_len = tbuf_wrote[tbuf.A] /\ tbuf.B_len = tbuf_wrote[tbuf.B]
    /\ tbuf_wrote[1] <= TbufCap /\ tbuf_wrote[2] <= TbufCap
=============================================================================
