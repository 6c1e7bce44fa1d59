------------------------------- MODULE Fmutex -------------------------------
(***************************************************************************)
(* Fmutex (src/src/fmutex.c): a mutex made of one atomic word and the      *)
(* Linux futex calls on it.  Each atomic instruction and each system call  *)
(* is a step.  A thread owns the mutex from the return of fmutex_lock to   *)
(* its call of fmutex_unlock, and only an owner unlocks.                   *)
(***************************************************************************)
EXTENDS Naturals

CONSTANTS
  Thread,
  Signals     (* whether a signal may interrupt FUTEX_WAIT: handlers that  *)
              (* do not restart system calls are installed                 *)

ASSUME FmutexAssumption == Signals \in BOOLEAN

VARIABLES
  locked,     (* the futex word: 1 when locked                             *)
  pc,         (* where each thread is: "out", "cas" (about to              *)
              (* compare-and-swap), "wait" (about to call FUTEX_WAIT),     *)
              (* "asleep" in the kernel, "own", "wake" (about to call      *)
              (* FUTEX_WAKE)                                               *)
  expected    (* the local of fmutex_lock that the swap compares with and  *)
              (* overwrites when it fails                                  *)

vars == <<locked, pc, expected>>

Init ==
  /\ locked = 0
  /\ pc = [t \in Thread |-> "out"]
  /\ expected = [t \in Thread |-> 0]

Goes(t, from, to) == pc[t] = from /\ pc' = [pc EXCEPT ![t] = to]

-----------------------------------------------------------------------------
(* fmutex_lock.                                                            *)

Lock(t) ==
  /\ Goes(t, "out", "cas")
  /\ expected' = [expected EXCEPT ![t] = 0]
  /\ UNCHANGED locked

LockSwaps(t) ==
  /\ Goes(t, "cas", "own")
  /\ locked = expected[t]
  /\ locked' = 1
  /\ UNCHANGED expected

LockFails(t) ==
  /\ Goes(t, "cas", "wait")
  /\ locked # expected[t]
  /\ expected' = [expected EXCEPT ![t] = locked]
  /\ UNCHANGED locked

(* FUTEX_WAIT looks at the word and goes to sleep in one step; EAGAIN when *)
(* the word is not 1 any more.                                             *)
FutexSleeps(t) ==
  /\ Goes(t, "wait", "asleep")
  /\ locked = 1
  /\ UNCHANGED <<locked, expected>>

FutexRefuses(t) ==
  /\ Goes(t, "wait", "cas")
  /\ locked # 1
  /\ UNCHANGED <<locked, expected>>

(* FUTEX_WAIT may return 0 without a wake.                                 *)
SpuriousWakeup(t) ==
  /\ Goes(t, "asleep", "cas")
  /\ UNCHANGED <<locked, expected>>

(* It may also be interrupted by a signal: fmutex_lock returns EINTR.      *)
Interrupted(t) ==
  /\ Signals
  /\ Goes(t, "asleep", "out")
  /\ UNCHANGED <<locked, expected>>

-----------------------------------------------------------------------------
(* fmutex_unlock.                                                          *)

(* Mutant: an unlock that does not wake anybody.                           *)
UnlockOnly(t) ==
  /\ Goes(t, "own", "out")
  /\ locked = 1
  /\ locked' = 0
  /\ UNCHANGED expected

UnlockSwaps(t) ==
  /\ Goes(t, "own", "wake")
  /\ locked = 1
  /\ locked' = 0
  /\ UNCHANGED expected

(* The word was 0 already: the call returns 0 as well.                     *)
UnlockFails(t) ==
  /\ Goes(t, "own", "out")
  /\ locked # 1
  /\ UNCHANGED <<locked, expected>>

Asleep == {t \in Thread : pc[t] = "asleep"}

(* Mutant: FUTEX_WAKE of nobody.                                           *)
FutexWakesNone(t) ==
  /\ Goes(t, "wake", "out")
  /\ UNCHANGED <<locked, expected>>

(* FUTEX_WAKE of one sleeper, if there is one.                             *)
FutexWakes(t) ==
  /\ pc[t] = "wake"
  /\ \/ /\ Asleep = {}
        /\ pc' = [pc EXCEPT ![t] = "out"]
     \/ \E u \in Asleep : pc' = [pc EXCEPT ![t] = "out", ![u] = "cas"]
  /\ UNCHANGED <<locked, expected>>

-----------------------------------------------------------------------------
(* What a thread does inside fmutex_lock and fmutex_unlock once called.    *)
Step(t) ==
  \/ LockSwaps(t)
  \/ LockFails(t)
  \/ FutexSleeps(t)
  \/ FutexRefuses(t)
  \/ FutexWakes(t)

Unlock(t) == UnlockSwaps(t) \/ UnlockFails(t)

Next ==
  \E t \in Thread :
    Lock(t) \/ Step(t) \/ Unlock(t) \/ SpuriousWakeup(t) \/ Interrupted(t)

Spec == Init /\ [][Next]_vars

(* Threads run, and an owner gives the mutex back; nobody has to lock it.  *)
FairSpec == Spec /\ \A t \in Thread : WF_vars(Step(t)) /\ WF_vars(Unlock(t))

-----------------------------------------------------------------------------
(* Properties.                                                             *)

TypeOK ==
  /\ locked \in {0, 1}
  /\ pc \in [Thread -> {"out", "cas", "wait", "asleep", "own", "wake"}]
  /\ expected \in [Thread -> {0, 1}]

(* A locked word has an owner that will reset it: no interleaving of the   *)
(* swaps, stolen locks included, leaves the mutex locked by nobody.        *)
LockedHasOwner == locked = 1 => \E t \in Thread : pc[t] = "own"

(* Nobody sleeps on a free mutex without somebody awake who will take it   *)
(* or wake the sleeper: FUTEX_WAIT's second look at the word and the       *)
(* FUTEX_WAKE after the reset leave no gap (fmutex_lock 130, fmutex_unlock *)
(* 153-156).                                                               *)
NoLostWakeup ==
  Asleep # {} /\ locked = 0 =>
    \E t \in Thread : pc[t] \in {"wake", "cas", "wait"}

(* All this is inductive as it stands.                                     *)
MutexInv == TypeOK /\ LockedHasOwner /\ NoLostWakeup

(* While threads want the mutex, somebody gets it.                         *)
Contended == \E t \in Thread : pc[t] \in {"cas", "wait", "asleep"}
SomeoneGetsIt == Contended ~> (\E t \in Thread : pc[t] = "own") \/ ~Contended

(* One owner at a time: fmutex_lock "forces calling thread to wait if      *)
(* currently locked" (fmutex.h).                                           *)
MutualExclusion == \A t, u \in Thread : pc[t] = "own" /\ pc[u] = "own" => t = u
=============================================================================
