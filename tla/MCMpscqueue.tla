---------------------------- MODULE MCMpscqueue -----------------------------
(* Two producers, two elements, two slots.                                 *)
EXTENDS Mpscqueue

CONSTANTS p1, p2, a, b

MCProducer == {p1, p2}
MCElem == {a, b}
=============================================================================
