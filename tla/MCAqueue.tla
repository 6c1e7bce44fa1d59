------------------------------ MODULE MCAqueue ------------------------------
(* A ring of three slots and calls that move one or two of two elements.   *)
EXTENDS Aqueue

CONSTANTS a, b, zero

MCElem == {a, b}
=============================================================================
