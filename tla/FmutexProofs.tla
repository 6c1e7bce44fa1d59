---------------------------- MODULE FmutexProofs ----------------------------
(***************************************************************************)
(* Proofs about Fmutex, for every set of threads.  What is proved is what  *)
(* the code does keep: a second owner, which it lets in, is not excluded.  *)
(***************************************************************************)
EXTENDS Fmutex, TLAPS

(* Each conjunct is preserved by every step of a thread.                   *)
LEMMA StepKeepsTypes ==
  ASSUME TypeOK, NEW t \in Thread,
         Lock(t) \/ Step(t) \/ Unlock(t) \/ SpuriousWakeup(t) \/ Interrupted(t)
  PROVE  TypeOK'
<1> USE DEF TypeOK, Goes
<1>1. CASE Lock(t) BY <1>1 DEF Lock
<1>2. CASE LockSwaps(t) BY <1>2 DEF LockSwaps
<1>3. CASE LockFails(t) BY <1>3 DEF LockFails
<1>4. CASE FutexSleeps(t) BY <1>4 DEF FutexSleeps
<1>5. CASE FutexRefuses(t) BY <1>5 DEF FutexRefuses
<1>6. CASE FutexWakes(t) BY <1>6 DEF FutexWakes, Asleep
<1>7. CASE UnlockSwaps(t) BY <1>7 DEF UnlockSwaps
<1>8. CASE UnlockFails(t) BY <1>8 DEF UnlockFails
<1>9. CASE SpuriousWakeup(t) BY <1>9 DEF SpuriousWakeup
<1>10. CASE Interrupted(t) BY <1>10 DEF Interrupted
<1> QED
  BY <1>1, <1>2, <1>3, <1>4, <1>5, <1>6, <1>7, <1>8, <1>9, <1>10 DEF Step, Unlock

(* Only the swap of an owner resets the word, and only an owner leaves.    *)
LEMMA StepKeepsOwner ==
  ASSUME TypeOK, LockedHasOwner, NEW t \in Thread,
         Lock(t) \/ Step(t) \/ Unlock(t) \/ SpuriousWakeup(t) \/ Interrupted(t)
  PROVE  LockedHasOwner'
<1> USE DEF TypeOK, LockedHasOwner, Goes
<1>1. CASE Lock(t) BY <1>1 DEF Lock
<1>2. CASE LockSwaps(t) BY <1>2 DEF LockSwaps
<1>3. CASE LockFails(t) BY <1>3 DEF LockFails
<1>4. CASE FutexSleeps(t) BY <1>4 DEF FutexSleeps
<1>5. CASE FutexRefuses(t) BY <1>5 DEF FutexRefuses
<1>6. CASE FutexWakes(t) BY <1>6 DEF FutexWakes, Asleep
<1>7. CASE UnlockSwaps(t) BY <1>7 DEF UnlockSwaps
<1>8. CASE UnlockFails(t) BY <1>8 DEF UnlockFails
<1>9. CASE SpuriousWakeup(t) BY <1>9 DEF SpuriousWakeup
<1>10. CASE Interrupted(t) BY <1>10 DEF Interrupted
<1> QED
  BY <1>1, <1>2, <1>3, <1>4, <1>5, <1>6, <1>7, <1>8, <1>9, <1>10 DEF Step, Unlock

(* A thread that is awake beside sleepers stays so, or locks the word, or  *)
(* wakes one of them.                                                      *)
LEMMA StepKeepsWakeup ==
  ASSUME TypeOK, NoLostWakeup, NEW t \in Thread,
         Lock(t) \/ Step(t) \/ Unlock(t) \/ SpuriousWakeup(t) \/ Interrupted(t)
  PROVE  NoLostWakeup'
<1> USE DEF TypeOK, NoLostWakeup, Asleep, Goes
<1>1. CASE Lock(t) BY <1>1 DEF Lock
<1>2. CASE LockSwaps(t) BY <1>2 DEF LockSwaps
<1>3. CASE LockFails(t) BY <1>3 DEF LockFails
<1>4. CASE FutexSleeps(t) BY <1>4 DEF FutexSleeps
<1>5. CASE FutexRefuses(t) BY <1>5 DEF FutexRefuses
<1>6. CASE FutexWakes(t)
  <2>1. CASE Asleep = {} /\ pc' = [pc EXCEPT ![t] = "out"]
    BY <1>6, <2>1 DEF FutexWakes
  <2>2. CASE \E u \in Asleep : pc' = [pc EXCEPT ![t] = "out", ![u] = "cas"]
    BY <1>6, <2>2 DEF FutexWakes
  <2> QED BY <1>6, <2>1, <2>2 DEF FutexWakes
<1>7. CASE UnlockSwaps(t) BY <1>7 DEF UnlockSwaps
<1>8. CASE UnlockFails(t) BY <1>8 DEF UnlockFails
<1>9. CASE SpuriousWakeup(t) BY <1>9 DEF SpuriousWakeup
<1>10. CASE Interrupted(t) BY <1>10 DEF Interrupted
<1> QED
  BY <1>1, <1>2, <1>3, <1>4, <1>5, <1>6, <1>7, <1>8, <1>9, <1>10 DEF Step, Unlock

-----------------------------------------------------------------------------
(* For any number of threads, whatever signals and spurious wakeups come:  *)
(* the word is 0 or 1, somebody who will unlock it owns a locked mutex, and*)
(* nobody sleeps on a free one beside threads that are all out             *)
(* (fmutex_lock 123-136, fmutex_unlock 153-156).                           *)
THEOREM MutexCorrect == Spec => []MutexInv
<1>1. Init => MutexInv
  BY DEF Init, MutexInv, TypeOK, LockedHasOwner, NoLostWakeup, Asleep
<1>2. MutexInv /\ [Next]_vars => MutexInv'
  <2> SUFFICES ASSUME MutexInv, [Next]_vars PROVE MutexInv'
    OBVIOUS
  <2>1. CASE Next
    BY <2>1, StepKeepsTypes, StepKeepsOwner, StepKeepsWakeup DEF MutexInv, Next
  <2>2. CASE UNCHANGED vars
    BY <2>2 DEF MutexInv, TypeOK, LockedHasOwner, NoLostWakeup, Asleep, vars
  <2> QED BY <2>1, <2>2
<1> QED BY <1>1, <1>2, PTL DEF Spec

(* The part of it a caller counts on: no interleaving of the swaps, stolen *)
(* locks included, leaves the mutex locked by nobody.                      *)
THEOREM LockedByOwner == Spec => []LockedHasOwner
<1>1. MutexInv => LockedHasOwner
  BY DEF MutexInv
<1> QED BY <1>1, MutexCorrect, PTL

(* And the part the futex protocol is there for: FUTEX_WAIT's second look  *)
(* at the word and the FUTEX_WAKE after the reset leave no gap.            *)
THEOREM WakeupsArrive == Spec => []NoLostWakeup
<1>1. MutexInv => NoLostWakeup
  BY DEF MutexInv
<1> QED BY <1>1, MutexCorrect, PTL
=============================================================================
