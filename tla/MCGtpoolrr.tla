----------------------------- MODULE MCGtpoolrr -----------------------------
(* A pool of one thread with two green threads, and a pool of two threads  *)
(* of which one did not start, whose jobs yield, read, and read with a     *)
(* timeout.                                                                *)
EXTENDS Gtpoolrr

MCPools == {<<1, 2, {}>>, <<2, 1, {1}>>}
MCOps == {"NOP", "READ", "READT"}
MCExpiring == {2}
=============================================================================
