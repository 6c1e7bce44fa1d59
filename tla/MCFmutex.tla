------------------------------ MODULE MCFmutex ------------------------------
(* Three interchangeable threads.                                          *)
EXTENDS Fmutex, TLC

CONSTANTS t1, t2, t3

MCThread == {t1, t2, t3}
MCSymmetry == Permutations(MCThread)
=============================================================================
