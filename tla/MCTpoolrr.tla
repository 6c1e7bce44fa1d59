----------------------------- MODULE MCTpoolrr ------------------------------
(* Pools of two threads; the second of the jobs has an expiration time.    *)
EXTENDS Tpoolrr

MCExpiring == {2}
=============================================================================
