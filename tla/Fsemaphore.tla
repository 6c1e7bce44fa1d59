----------------------------- MODULE Fsemaphore -----------------------------
(***************************************************************************)
(* Fsemaphore (src/src/fsemaphore.c): a counting semaphore made of an      *)
(* atomic counter, an Fmutex taken around every operation, and futex calls *)
(* on the counter for the threads that wait for it to become positive.     *)
(* The mutex is the module Fmutex as it is, with its variables; a thread   *)
(* is in the mutex code when spc is "locking" or when pc is not "out".     *)
(***************************************************************************)
EXTENDS Naturals, FiniteSets

CONSTANTS
  Thread,
  Signals,    (* see Fmutex                                                *)
  Max,        (* sem->max                                                  *)
  Val,        (* the initial count                                         *)
  Width       (* how many values counter has (2^64)                        *)

(* The futex word is the low half of counter; Max is taken to fit in it.   *)
ASSUME FsemaphoreAssumption ==
  /\ Width \in Nat
  /\ Max \in 1..Width-1
  /\ Val \in 0..Width-1

VARIABLES
  locked, pc, expected,     (* the mutex                                   *)
  counter,                  (* sem->counter                                *)
  op,                       (* the operation each thread is in             *)
  spc,                      (* where it is in that operation               *)
  excluded,                 (* history: the mutex never had two owners     *)
  interrupted               (* history: a waiter left fmutex_lock with     *)
                            (* EINTR                                       *)

mutex == <<locked, pc, expected, excluded, interrupted>>
vars == <<mutex, counter, op, spc>>

M == INSTANCE Fmutex

Operations == {"wait", "post", "reset", "exhaust"}

Init ==
  /\ M!Init
  /\ counter = Val
  /\ op = [t \in Thread |-> "none"]
  /\ spc = [t \in Thread |-> "idle"]
  /\ excluded = TRUE
  /\ interrupted = FALSE

Goes(t, from, to) == spc[t] = from /\ spc' = [spc EXCEPT ![t] = to]

-----------------------------------------------------------------------------
(* Taking and giving back the mutex.                                       *)

Call(t, o) ==
  /\ Goes(t, "idle", "locking")
  /\ op' = [op EXCEPT ![t] = o]
  /\ M!Lock(t)
  /\ UNCHANGED <<counter, excluded, interrupted>>

MutexStep(t) ==
  /\ M!Step(t) \/ M!SpuriousWakeup(t)
  /\ excluded' = (excluded /\ M!MutualExclusion')
  /\ UNCHANGED <<counter, op, spc, interrupted>>

(* fmutex_lock failed: every operation gives up.                           *)
LockInterrupted(t) ==
  /\ M!Interrupted(t)
  /\ Goes(t, "locking", "idle")
  /\ op' = [op EXCEPT ![t] = "none"]
  /\ interrupted' = (interrupted \/ op[t] = "wait")
  /\ UNCHANGED <<counter, excluded>>

(* "leave" is the way out, "giveup" the unlock before FUTEX_WAIT.          *)
Unlock(t) ==
  /\ M!Unlock(t)
  /\ Goes(t, "leave", "left") \/ Goes(t, "giveup", "gaveup")
  /\ UNCHANGED <<counter, op, excluded, interrupted>>

Return(t) ==
  /\ Goes(t, "left", "idle")
  /\ pc[t] = "out"
  /\ op' = [op EXCEPT ![t] = "none"]
  /\ UNCHANGED <<mutex, counter>>

(* A step of operation o that holds the mutex and leaves it alone.         *)
Inside(t, o, from, to) ==
  /\ op[t] = o
  /\ pc[t] = "own"
  /\ Goes(t, from, to)
  /\ UNCHANGED <<mutex, op>>

-----------------------------------------------------------------------------
(* fsemaphore_wait.                                                        *)

WaitFindsSome(t) ==
  /\ counter > 0
  /\ Inside(t, "wait", "locking", "sub")
  /\ UNCHANGED counter

WaitFindsNone(t) ==
  /\ counter = 0
  /\ Inside(t, "wait", "locking", "giveup")
  /\ UNCHANGED counter

WaitTakes(t) ==
  /\ Inside(t, "wait", "sub", "leave")
  /\ counter' = (counter + Width - 1) % Width

(* Mutant: the wait does not look at the counter again.                    *)
WaitSleepsAnyway(t) ==
  /\ Goes(t, "gaveup", "asleep")
  /\ pc[t] = "out"
  /\ UNCHANGED <<mutex, counter, op>>

(* FUTEX_WAIT while the counter is 0.                                      *)
WaitSleeps(t) ==
  /\ Goes(t, "gaveup", "asleep")
  /\ pc[t] = "out"
  /\ counter = 0
  /\ UNCHANGED <<mutex, counter, op>>

WaitRefused(t) ==
  /\ Goes(t, "gaveup", "again")
  /\ pc[t] = "out"
  /\ counter # 0
  /\ UNCHANGED <<mutex, counter, op>>

WaitSpuriouslyWakes(t) ==
  /\ Goes(t, "asleep", "again")
  /\ UNCHANGED <<mutex, counter, op>>

WaitInterrupted(t) ==
  /\ Signals
  /\ Goes(t, "asleep", "idle")
  /\ op' = [op EXCEPT ![t] = "none"]
  /\ UNCHANGED <<mutex, counter>>

WaitLocksAgain(t) ==
  /\ Goes(t, "again", "locking")
  /\ M!Lock(t)
  /\ UNCHANGED <<counter, op, excluded, interrupted>>

-----------------------------------------------------------------------------
(* fsemaphore_post, fsemaphore_reset, fsemaphore_exhaust.                  *)

PostFindsMax(t) ==
  /\ counter = Max
  /\ Inside(t, "post", "locking", "leave")
  /\ UNCHANGED counter

PostFindsRoom(t) ==
  /\ counter # Max
  /\ Inside(t, "post", "locking", "add")
  /\ UNCHANGED counter

PostAdds(t) ==
  /\ Inside(t, "post", "add", "wake")
  /\ counter' = (counter + 1) % Width

ResetStores(t) ==
  /\ Inside(t, "reset", "locking", "wake")
  /\ counter' = Max

ExhaustStores(t) ==
  /\ Inside(t, "exhaust", "locking", "leave")
  /\ counter' = 0

Asleep == {t \in Thread : spc[t] = "asleep"}

(* How many sleepers FUTEX_WAKE is told to wake.                           *)
Woken(o) == IF o = "reset" THEN Max ELSE 1

(* FUTEX_WAKE wakes as many as it is told to, or all.                      *)
Wakes(t) ==
  /\ op[t] \in {"post", "reset"}
  /\ spc[t] = "wake"
  /\ \E W \in SUBSET Asleep :
       /\ \/ Cardinality(W) = Woken(op[t])
          \/ W = Asleep /\ Cardinality(W) < Woken(op[t])
       /\ spc' = [u \in Thread |-> IF u = t THEN "leave"
                                   ELSE IF u \in W THEN "again" ELSE spc[u]]
  /\ UNCHANGED <<mutex, counter, op>>

-----------------------------------------------------------------------------
Step(t) ==
  \/ \E o \in Operations : Call(t, o)
  \/ MutexStep(t)
  \/ LockInterrupted(t)
  \/ Unlock(t)
  \/ Return(t)
  \/ WaitFindsSome(t)
  \/ WaitFindsNone(t)
  \/ WaitTakes(t)
  \/ WaitSleeps(t)
  \/ WaitRefused(t)
  \/ WaitSpuriouslyWakes(t)
  \/ WaitInterrupted(t)
  \/ WaitLocksAgain(t)
  \/ PostFindsMax(t)
  \/ PostFindsRoom(t)
  \/ PostAdds(t)
  \/ ResetStores(t)
  \/ ExhaustStores(t)
  \/ Wakes(t)

Next == \E t \in Thread : Step(t)

Spec == Init /\ [][Next]_vars

-----------------------------------------------------------------------------
(* Properties.                                                             *)

TypeOK ==
  /\ M!TypeOK
  /\ counter \in 0..Width-1
  /\ op \in [Thread -> Operations \cup {"none"}]
  /\ spc \in [Thread -> {"idle", "locking", "sub", "add", "wake", "leave",
                         "left", "giveup", "gaveup", "asleep", "again"}]

(* The threads that are on their way to look at the counter, or hold a     *)
(* unit they are about to take.                                            *)
Looking == {t \in Thread : op[t] = "wait" /\ spc[t] \notin {"asleep", "leave", "left"}}

(* Nobody sleeps on a positive counter unless somebody is about to wake a  *)
(* sleeper or there are as many waiters awake as there are units.          *)
SleepersHaveNone ==
  Asleep # {} /\ counter > 0 =>
    \/ \E t \in Thread : spc[t] = "wake"
    \/ Cardinality(Looking) >= counter

(* As long as the mutex excludes and no waiter was interrupted in it, a    *)
(* post or a reset between a waiter's look at the counter and its          *)
(* FUTEX_WAIT is not missed, and a reset wakes enough (fsemaphore_wait     *)
(* 163-186, fsemaphore_post 214-217, fsemaphore_reset 253-255).            *)
NoLostPost == excluded /\ ~interrupted => SleepersHaveNone

(* As long as the mutex excludes, the counter that starts within its       *)
(* bounds stays there: no decrement passes 0, no post passes max, whatever *)
(* resets and exhausts come between the test and the update.               *)
CounterInBounds == excluded => counter \in 0..Max

(* The semaphore keeps its types, wakes whom it has to and counts right.   *)
SemaphoreInv == TypeOK /\ NoLostPost /\ CounterInBounds
=============================================================================
