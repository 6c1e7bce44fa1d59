------------------------------- MODULE Greent -------------------------------
(***************************************************************************)
(* Greent (src/src/greent.c): green threads and the asynchronous           *)
(* operations they ask for.  A green thread stores its request, yields to  *)
(* its software thread, and is resumed there; the request goes to io_uring *)
(* with the address of the green thread and three tag bits packed into one *)
(* word, which comes back with the completion.                             *)
(*                                                                         *)
(* A green thread is a number here, its address a multiple of 8.  What     *)
(* greent_root, greent_yield and greent_resume do with registers and       *)
(* stacks is assembly and is the change of control between the steps of    *)
(* Gtpoolrr.  READ, WRITE, OPEN and CLOSE differ in their arguments only,  *)
(* and so do READT and WRITET.                                             *)
(***************************************************************************)
EXTENDS Integers, Sequences

Address(g) == 8 * g
Bit(b, at) == IF b THEN at ELSE 0
IsSet(word, at) == (word \div at) % 2 = 1

(* The address is a multiple of 8: the bitwise or is a sum.                *)
(* Mutant: the tag of the timeout is forgotten.                            *)
greent_pack_untagged(g, with_timeout, something, something_else) ==
  Address(g) + Bit(something, 2) + Bit(something_else, 1)

greent_pack(g, with_timeout, something, something_else) ==
  Address(g) + Bit(with_timeout, 4) + Bit(something, 2) + Bit(something_else, 1)

greent_unpack(word) ==
  [green_thread |-> (word - (word % 8)) \div 8,
   with_timeout |-> IsSet(word, 4),
   something |-> IsSet(word, 2),
   something_else |-> IsSet(word, 1)]

Simple == {"READ", "WRITE", "OPEN", "CLOSE"}
Timed == {"READT", "WRITET"}
Operations == {"NOP"} \cup Simple \cup Timed

(* The requests greent_do_submit hands to the ring: none for NOP, two      *)
(* linked ones, the operation and its timeout, for a timed operation.      *)
greent_do_submit(g, op) ==
  CASE op = "NOP" -> <<>>
    [] op \in Simple -> <<greent_pack(g, FALSE, FALSE, FALSE)>>
    [] op \in Timed -> <<greent_pack(g, FALSE, FALSE, FALSE),
                         greent_pack(g, TRUE, FALSE, FALSE)>>
=============================================================================
