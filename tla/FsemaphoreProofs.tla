-------------------------- MODULE FsemaphoreProofs --------------------------
(***************************************************************************)
(* Proofs about Fsemaphore, for every finite set of threads, maximum and   *)
(* width of the counter.  SemaphoreInv is not inductive: that a unit is    *)
(* there when a wait takes it, and that a post or a reset wakes enough     *)
(* sleepers, rest on who holds the mutex (HoldersOwn), on what is true of  *)
(* the counter between a test and an update (CounterAgrees) and on a count *)
(* of the waiters that are awake, less the one a post is about to wake     *)
(* (WakersSuffice).                                                        *)
(***************************************************************************)
EXTENDS Fsemaphore, FiniteSetTheorems, TLAPS

Types ==
  /\ TypeOK
  /\ excluded \in BOOLEAN
  /\ interrupted \in BOOLEAN

(* Which operations come to which place.                                   *)
Kinds ==
  \A t \in Thread :
    /\ spc[t] = "idle" => op[t] = "none"
    /\ spc[t] = "add" => op[t] = "post"
    /\ spc[t] = "wake" => op[t] \in {"post", "reset"}
    /\ spc[t] \in {"sub", "giveup", "gaveup", "asleep", "again"} => op[t] = "wait"

(* The places between a return of fmutex_lock and a call of fmutex_unlock. *)
Holding == {"sub", "add", "wake", "leave", "giveup"}
HoldersOwn == \A t \in Thread : spc[t] \in Holding => pc[t] = "own"

(* What a test has found is still so at the update.                        *)
CounterAgrees ==
  excluded =>
    /\ M!MutualExclusion
    /\ counter \in 0..Max
    /\ \A t \in Thread :
         /\ spc[t] = "sub" => counter > 0
         /\ spc[t] = "add" => counter < Max

Waking(o) == \E t \in Thread : spc[t] = "wake" /\ op[t] = o

(* There are waiters awake for all units but the one a post announces.     *)
WakersSuffice ==
  excluded /\ ~interrupted /\ Asleep # {} /\ ~Waking("reset") =>
    counter <= Cardinality(Looking) + (IF Waking("post") THEN 1 ELSE 0)

IInv == Types /\ Kinds /\ HoldersOwn /\ CounterAgrees /\ WakersSuffice

-----------------------------------------------------------------------------
(* A remainder is below its divisor, and below it a number is its own.     *)
LEMMA ModInRange ==
  ASSUME NEW a \in Nat, NEW w \in Nat, w > 0
  PROVE  a % w \in 0..w-1
OBVIOUS

LEMMA ModSmall ==
  ASSUME NEW a \in Nat, NEW w \in Nat, w > 0
  PROVE  /\ a < w => a % w = a
         /\ a >= 1 /\ a <= w => (a + w - 1) % w = a - 1
OBVIOUS

(* The steps of the mutex keep its types, and leave its owners alone.      *)
LEMMA MutexStepKeepsTypes ==
  ASSUME M!TypeOK, NEW t \in Thread, M!Step(t) \/ M!SpuriousWakeup(t)
  PROVE  M!TypeOK'
<1> USE DEF M!TypeOK, M!Goes
<1>1. CASE M!LockSwaps(t) BY <1>1 DEF M!LockSwaps
<1>2. CASE M!LockFails(t) BY <1>2 DEF M!LockFails
<1>3. CASE M!FutexSleeps(t) BY <1>3 DEF M!FutexSleeps
<1>4. CASE M!FutexRefuses(t) BY <1>4 DEF M!FutexRefuses
<1>5. CASE M!FutexWakes(t) BY <1>5 DEF M!FutexWakes, M!Asleep
<1>6. CASE M!SpuriousWakeup(t) BY <1>6 DEF M!SpuriousWakeup
<1> QED BY <1>1, <1>2, <1>3, <1>4, <1>5, <1>6 DEF M!Step

LEMMA MutexStepKeepsOwners ==
  ASSUME M!TypeOK, NEW t \in Thread, M!Step(t) \/ M!SpuriousWakeup(t)
  PROVE  \A u \in Thread : pc[u] = "own" => pc'[u] = "own"
<1> USE DEF M!TypeOK, M!Goes
<1>1. CASE M!LockSwaps(t) BY <1>1 DEF M!LockSwaps
<1>2. CASE M!LockFails(t) BY <1>2 DEF M!LockFails
<1>3. CASE M!FutexSleeps(t) BY <1>3 DEF M!FutexSleeps
<1>4. CASE M!FutexRefuses(t) BY <1>4 DEF M!FutexRefuses
<1>5. CASE M!FutexWakes(t) BY <1>5 DEF M!FutexWakes, M!Asleep
<1>6. CASE M!SpuriousWakeup(t) BY <1>6 DEF M!SpuriousWakeup
<1> QED BY <1>1, <1>2, <1>3, <1>4, <1>5, <1>6 DEF M!Step

-----------------------------------------------------------------------------
(* Every step of a thread keeps the types.                                *)
LEMMA StepKeepsTypes ==
  ASSUME FsemaphoreAssumption, Types, NEW t \in Thread, Step(t)
  PROVE  Types'
<1> USE DEF Types, TypeOK, M!TypeOK, Operations, Goes
<1>1. CASE \E o \in Operations : Call(t, o)
  BY <1>1 DEF Call, M!Lock, M!Goes
<1>2. CASE MutexStep(t)
  <2>1. M!TypeOK'
    BY <1>2, MutexStepKeepsTypes DEF MutexStep
  <2> QED BY <1>2, <2>1 DEF MutexStep
<1>3. CASE LockInterrupted(t)
  <2>1. interrupted' \in BOOLEAN
    BY <1>3 DEF LockInterrupted
  <2> QED BY <1>3, <2>1 DEF LockInterrupted, M!Interrupted, M!Goes
<1>4. CASE Unlock(t)
  BY <1>4 DEF Unlock, M!Unlock, M!UnlockSwaps, M!UnlockFails, M!Goes
<1>5. CASE Return(t)
  BY <1>5 DEF Return, mutex
<1>6. CASE WaitFindsSome(t)
  BY <1>6 DEF WaitFindsSome, Inside, mutex
<1>7. CASE WaitFindsNone(t)
  BY <1>7 DEF WaitFindsNone, Inside, mutex
<1>8. CASE WaitTakes(t)
  BY <1>8, ModInRange DEF WaitTakes, Inside, mutex, FsemaphoreAssumption
<1>9. CASE WaitSleeps(t)
  BY <1>9 DEF WaitSleeps, mutex
<1>10. CASE WaitRefused(t)
  BY <1>10 DEF WaitRefused, mutex
<1>11. CASE WaitSpuriouslyWakes(t)
  BY <1>11 DEF WaitSpuriouslyWakes, mutex
<1>12. CASE WaitInterrupted(t)
  BY <1>12 DEF WaitInterrupted, mutex
<1>13. CASE WaitLocksAgain(t)
  BY <1>13 DEF WaitLocksAgain, M!Lock, M!Goes
<1>14. CASE PostFindsMax(t)
  BY <1>14 DEF PostFindsMax, Inside, mutex
<1>15. CASE PostFindsRoom(t)
  BY <1>15 DEF PostFindsRoom, Inside, mutex
<1>16. CASE PostAdds(t)
  BY <1>16, ModInRange DEF PostAdds, Inside, mutex, FsemaphoreAssumption
<1>17. CASE ResetStores(t)
  BY <1>17 DEF ResetStores, Inside, mutex, FsemaphoreAssumption
<1>18. CASE ExhaustStores(t)
  BY <1>18 DEF ExhaustStores, Inside, mutex, FsemaphoreAssumption
<1>19. CASE Wakes(t)
  <2>1. PICK W \in SUBSET Asleep :
           spc' = [u \in Thread |-> IF u = t THEN "leave"
                                   ELSE IF u \in W THEN "again" ELSE spc[u]]
    BY <1>19 DEF Wakes
  <2> QED BY <1>19, <2>1 DEF Wakes, mutex
<1> QED
  BY <1>1, <1>2, <1>3, <1>4, <1>5, <1>6, <1>7, <1>8, <1>9, <1>10,
     <1>11, <1>12, <1>13, <1>14, <1>15, <1>16, <1>17, <1>18, <1>19 DEF Step

(* Each place of spc belongs to its operations.                            *)
LEMMA StepKeepsKinds ==
  ASSUME Types, Kinds, NEW t \in Thread, Step(t)
  PROVE  Kinds'
<1> USE DEF Types, TypeOK, Kinds, Goes
<1>1. CASE \E o \in Operations : Call(t, o)
  BY <1>1 DEF Call, M!Lock, M!Goes
<1>2. CASE MutexStep(t)
  BY <1>2 DEF MutexStep
<1>3. CASE LockInterrupted(t)
  BY <1>3 DEF LockInterrupted, M!Interrupted, M!Goes
<1>4. CASE Unlock(t)
  BY <1>4 DEF Unlock, M!Unlock, M!UnlockSwaps, M!UnlockFails, M!Goes
<1>5. CASE Return(t)
  BY <1>5 DEF Return, mutex
<1>6. CASE WaitFindsSome(t)
  BY <1>6 DEF WaitFindsSome, Inside, mutex
<1>7. CASE WaitFindsNone(t)
  BY <1>7 DEF WaitFindsNone, Inside, mutex
<1>8. CASE WaitTakes(t)
  BY <1>8 DEF WaitTakes, Inside, mutex
<1>9. CASE WaitSleeps(t)
  BY <1>9 DEF WaitSleeps, mutex
<1>10. CASE WaitRefused(t)
  BY <1>10 DEF WaitRefused, mutex
<1>11. CASE WaitSpuriouslyWakes(t)
  BY <1>11 DEF WaitSpuriouslyWakes, mutex
<1>12. CASE WaitInterrupted(t)
  BY <1>12 DEF WaitInterrupted, mutex
<1>13. CASE WaitLocksAgain(t)
  BY <1>13 DEF WaitLocksAgain, M!Lock, M!Goes
<1>14. CASE PostFindsMax(t)
  BY <1>14 DEF PostFindsMax, Inside, mutex
<1>15. CASE PostFindsRoom(t)
  BY <1>15 DEF PostFindsRoom, Inside, mutex
<1>16. CASE PostAdds(t)
  BY <1>16 DEF PostAdds, Inside, mutex
<1>17. CASE ResetStores(t)
  BY <1>17 DEF ResetStores, Inside, mutex
<1>18. CASE ExhaustStores(t)
  BY <1>18 DEF ExhaustStores, Inside, mutex
<1>19. CASE Wakes(t)
  <2>1. PICK W \in SUBSET Asleep :
           spc' = [u \in Thread |-> IF u = t THEN "leave"
                                   ELSE IF u \in W THEN "again" ELSE spc[u]]
    BY <1>19 DEF Wakes
  <2> QED BY <1>19, <2>1 DEF Wakes, mutex, Asleep
<1> QED
  BY <1>1, <1>2, <1>3, <1>4, <1>5, <1>6, <1>7, <1>8, <1>9, <1>10,
     <1>11, <1>12, <1>13, <1>14, <1>15, <1>16, <1>17, <1>18, <1>19 DEF Step

(* Only an Unlock takes the mutex from its owner, and it moves spc along.  *)
LEMMA StepKeepsHolders ==
  ASSUME Types, HoldersOwn, NEW t \in Thread, Step(t)
  PROVE  HoldersOwn'
<1> USE DEF Types, TypeOK, M!TypeOK, HoldersOwn, Holding, Goes
<1>1. CASE \E o \in Operations : Call(t, o)
  BY <1>1 DEF Call, M!Lock, M!Goes
<1>2. CASE MutexStep(t)
  <2>1. \A u \in Thread : pc[u] = "own" => pc'[u] = "own"
    BY <1>2, MutexStepKeepsOwners DEF MutexStep
  <2> QED BY <1>2, <2>1 DEF MutexStep
<1>3. CASE LockInterrupted(t)
  BY <1>3 DEF LockInterrupted, M!Interrupted, M!Goes
<1>4. CASE Unlock(t)
  BY <1>4 DEF Unlock, M!Unlock, M!UnlockSwaps, M!UnlockFails, M!Goes
<1>5. CASE Return(t)
  BY <1>5 DEF Return, mutex
<1>6. CASE WaitFindsSome(t)
  BY <1>6 DEF WaitFindsSome, Inside, mutex
<1>7. CASE WaitFindsNone(t)
  BY <1>7 DEF WaitFindsNone, Inside, mutex
<1>8. CASE WaitTakes(t)
  BY <1>8 DEF WaitTakes, Inside, mutex
<1>9. CASE WaitSleeps(t)
  BY <1>9 DEF WaitSleeps, mutex
<1>10. CASE WaitRefused(t)
  BY <1>10 DEF WaitRefused, mutex
<1>11. CASE WaitSpuriouslyWakes(t)
  BY <1>11 DEF WaitSpuriouslyWakes, mutex
<1>12. CASE WaitInterrupted(t)
  BY <1>12 DEF WaitInterrupted, mutex
<1>13. CASE WaitLocksAgain(t)
  BY <1>13 DEF WaitLocksAgain, M!Lock, M!Goes
<1>14. CASE PostFindsMax(t)
  BY <1>14 DEF PostFindsMax, Inside, mutex
<1>15. CASE PostFindsRoom(t)
  BY <1>15 DEF PostFindsRoom, Inside, mutex
<1>16. CASE PostAdds(t)
  BY <1>16 DEF PostAdds, Inside, mutex
<1>17. CASE ResetStores(t)
  BY <1>17 DEF ResetStores, Inside, mutex
<1>18. CASE ExhaustStores(t)
  BY <1>18 DEF ExhaustStores, Inside, mutex
<1>19. CASE Wakes(t)
  <2>1. PICK W \in SUBSET Asleep :
           spc' = [u \in Thread |-> IF u = t THEN "leave"
                                   ELSE IF u \in W THEN "again" ELSE spc[u]]
    BY <1>19 DEF Wakes
  <2> QED BY <1>19, <2>1 DEF Wakes, mutex, Asleep
<1> QED
  BY <1>1, <1>2, <1>3, <1>4, <1>5, <1>6, <1>7, <1>8, <1>9, <1>10,
     <1>11, <1>12, <1>13, <1>14, <1>15, <1>16, <1>17, <1>18, <1>19 DEF Step

(* Only one thread is between a test and an update of the counter, so the  *)
(* update finds what the test found.                                       *)
LEMMA StepKeepsCounter ==
  ASSUME FsemaphoreAssumption, Types, Kinds, HoldersOwn, CounterAgrees, NEW t \in Thread, Step(t)
  PROVE  CounterAgrees'
<1> USE DEF Types, TypeOK, M!TypeOK, CounterAgrees, M!MutualExclusion, Goes
<1>1. CASE \E o \in Operations : Call(t, o)
  BY <1>1 DEF Call, M!Lock, M!Goes
<1>2. CASE MutexStep(t)
  BY <1>2 DEF MutexStep
<1>3. CASE LockInterrupted(t)
  BY <1>3 DEF LockInterrupted, M!Interrupted, M!Goes
<1>4. CASE Unlock(t)
  BY <1>4 DEF Unlock, M!Unlock, M!UnlockSwaps, M!UnlockFails, M!Goes
<1>5. CASE Return(t)
  BY <1>5 DEF Return, mutex
<1>6. CASE WaitFindsSome(t)
  BY <1>6 DEF WaitFindsSome, Inside, mutex
<1>7. CASE WaitFindsNone(t)
  BY <1>7 DEF WaitFindsNone, Inside, mutex
<1>8. CASE WaitTakes(t)
  <2>1. counter' \in Nat /\ (excluded => counter' = counter - 1)
    BY <1>8, ModSmall, ModInRange DEF WaitTakes, Inside, FsemaphoreAssumption
  <2> QED
    BY <1>8, <2>1 DEF WaitTakes, Inside, mutex, HoldersOwn, Holding, FsemaphoreAssumption
<1>9. CASE WaitSleeps(t)
  BY <1>9 DEF WaitSleeps, mutex
<1>10. CASE WaitRefused(t)
  BY <1>10 DEF WaitRefused, mutex
<1>11. CASE WaitSpuriouslyWakes(t)
  BY <1>11 DEF WaitSpuriouslyWakes, mutex
<1>12. CASE WaitInterrupted(t)
  BY <1>12 DEF WaitInterrupted, mutex
<1>13. CASE WaitLocksAgain(t)
  BY <1>13 DEF WaitLocksAgain, M!Lock, M!Goes
<1>14. CASE PostFindsMax(t)
  BY <1>14 DEF PostFindsMax, Inside, mutex
<1>15. CASE PostFindsRoom(t)
  BY <1>15 DEF PostFindsRoom, Inside, mutex, FsemaphoreAssumption
<1>16. CASE PostAdds(t)
  <2>1. counter' \in Nat /\ (excluded => counter' = counter + 1)
    BY <1>16, ModSmall, ModInRange DEF PostAdds, Inside, FsemaphoreAssumption
  <2> QED
    BY <1>16, <2>1 DEF PostAdds, Inside, mutex, HoldersOwn, Holding, FsemaphoreAssumption
<1>17. CASE ResetStores(t)
  BY <1>17 DEF ResetStores, Inside, mutex, HoldersOwn, Holding, FsemaphoreAssumption
<1>18. CASE ExhaustStores(t)
  BY <1>18 DEF ExhaustStores, Inside, mutex, HoldersOwn, Holding, FsemaphoreAssumption
<1>19. CASE Wakes(t)
  <2>1. PICK W \in SUBSET Asleep :
           spc' = [u \in Thread |-> IF u = t THEN "leave"
                                   ELSE IF u \in W THEN "again" ELSE spc[u]]
    BY <1>19 DEF Wakes
  <2> QED BY <1>19, <2>1 DEF Wakes, mutex, Asleep
<1> QED
  BY <1>1, <1>2, <1>3, <1>4, <1>5, <1>6, <1>7, <1>8, <1>9, <1>10,
     <1>11, <1>12, <1>13, <1>14, <1>15, <1>16, <1>17, <1>18, <1>19 DEF Step

-----------------------------------------------------------------------------
(* The threads are finitely many, and so are those that look.              *)
LEMMA LookingFinite ==
  ASSUME IsFiniteSet(Thread)
  PROVE  /\ IsFiniteSet(Looking) /\ Cardinality(Looking) \in Nat
         /\ IsFiniteSet(Looking') /\ Cardinality(Looking') \in Nat
         /\ IsFiniteSet(Asleep) /\ Cardinality(Asleep) \in Nat
<1>1. Looking \in SUBSET Thread /\ Looking' \in SUBSET Thread /\ Asleep \in SUBSET Thread
  BY DEF Looking, Asleep
<1> QED BY <1>1, FS_Subset, FS_CardinalityType

(* A step that leaves the counter, the wakers and the histories alone, adds*)
(* no sleeper and takes nobody off the lookers, keeps WakersSuffice.       *)
LEMMA MoreLook ==
  ASSUME IsFiniteSet(Thread), Types, WakersSuffice, Looking \subseteq Looking', counter' = counter,
         Asleep' \subseteq Asleep, excluded' => excluded, interrupted => interrupted',
         Waking("post") => Waking("post")', Waking("reset") => Waking("reset")'
  PROVE  WakersSuffice'
<1>1. Cardinality(Looking) <= Cardinality(Looking')
  BY LookingFinite, FS_Subset
<1>2. counter \in Nat
  BY DEF Types, TypeOK
<1> QED BY <1>1, <1>2, LookingFinite DEF WakersSuffice

(* A post wakes one sleeper, a reset Max of them; each becomes a looker.   *)
LEMMA WakeKeepsWakers ==
  ASSUME IsFiniteSet(Thread), FsemaphoreAssumption, Types, Kinds, HoldersOwn,
         CounterAgrees, WakersSuffice, NEW t \in Thread, Wakes(t)
  PROVE  WakersSuffice'
<1> USE DEF Types, TypeOK, M!TypeOK
<1> SUFFICES ASSUME excluded, ~interrupted, Asleep' # {}
             PROVE  counter' <= Cardinality(Looking')
  <2>1. excluded' = excluded /\ interrupted' = interrupted /\ counter' \in Nat
    BY DEF Wakes, mutex
  <2> QED BY <2>1, LookingFinite DEF WakersSuffice
<1>1. PICK W \in SUBSET Asleep :
        /\ \/ Cardinality(W) = Woken(op[t])
           \/ W = Asleep /\ Cardinality(W) < Woken(op[t])
        /\ spc' = [u \in Thread |-> IF u = t THEN "leave"
                                   ELSE IF u \in W THEN "again" ELSE spc[u]]
  BY DEF Wakes
<1>2. op' = op /\ counter' = counter /\ counter \in 0..Max /\ spc[t] = "wake"
      /\ op[t] \in {"post", "reset"}
  BY DEF Wakes, CounterAgrees
<1>3. Asleep # {} /\ W # Asleep
  BY <1>1, <1>2 DEF Asleep
<1>4. Cardinality(W) = Woken(op[t])
  BY <1>1, <1>3
<1>5. Looking' = Looking \cup W /\ Looking \cap W = {}
  BY <1>1, <1>2 DEF Looking, Asleep, Kinds
<1>6. IsFiniteSet(W) /\ Cardinality(W) \in Nat
  BY LookingFinite, FS_Subset, FS_CardinalityType
<1>7. Cardinality(Looking') = Cardinality(Looking) + Cardinality(W)
  <2>1. Cardinality(Looking \cup W) = Cardinality(Looking) + Cardinality(W) - Cardinality({})
    BY <1>5, <1>6, LookingFinite, FS_Union
  <2> QED BY <2>1, <1>5, <1>6, LookingFinite, FS_EmptySet
<1>8. CASE op[t] = "reset"
  BY <1>2, <1>4, <1>6, <1>7, <1>8, LookingFinite DEF Woken, FsemaphoreAssumption
<1>9. CASE op[t] = "post"
  <2>1. \A u \in Thread : spc[u] = "wake" => u = t
    BY <1>2 DEF HoldersOwn, Holding, CounterAgrees, M!MutualExclusion
  <2>2. counter <= Cardinality(Looking) + 1
    BY <1>2, <1>3, <1>9, <2>1, LookingFinite DEF WakersSuffice, Waking
  <2> QED BY <1>2, <1>4, <1>7, <1>9, <2>2, LookingFinite DEF Woken
<1> QED BY <1>2, <1>8, <1>9

(* No step of a thread leaves sleepers beside units nobody is awake for.   *)
LEMMA StepKeepsWakers ==
  ASSUME IsFiniteSet(Thread), FsemaphoreAssumption, IInv, NEW t \in Thread, Step(t)
  PROVE  WakersSuffice'
<1> USE DEF IInv, Types, TypeOK, M!TypeOK, Goes
<1>1. CASE \E o \in Operations : Call(t, o)
  <2>1. Looking \subseteq Looking' /\ Asleep' \subseteq Asleep
    BY <1>1 DEF Call, M!Lock, M!Goes, Looking, Asleep, Kinds
  <2>2. \A o : Waking(o) => Waking(o)'
    BY <1>1 DEF Call, M!Lock, M!Goes, Waking, Kinds
  <2>3. counter' = counter /\ (excluded' => excluded) /\ (interrupted => interrupted')
    BY <1>1 DEF Call, M!Lock, M!Goes
  <2> QED BY <2>1, <2>2, <2>3, MoreLook
<1>2. CASE MutexStep(t)
  <2>1. Looking' = Looking /\ Asleep' = Asleep /\ \A o : Waking(o)' = Waking(o)
    BY <1>2 DEF MutexStep, Looking, Asleep, Waking
  <2> QED BY <1>2, <2>1, MoreLook DEF MutexStep
<1>3. CASE LockInterrupted(t)
  <2>1. CASE op[t] = "wait"
    BY <1>3, <2>1 DEF LockInterrupted, WakersSuffice
  <2>2. CASE op[t] # "wait"
    <3>1. Looking \subseteq Looking' /\ Asleep' \subseteq Asleep
      BY <1>3, <2>2 DEF LockInterrupted, Looking, Asleep
    <3>2. \A o : Waking(o) => Waking(o)'
      BY <1>3 DEF LockInterrupted, Waking
    <3>3. counter' = counter /\ (excluded' => excluded) /\ (interrupted => interrupted')
      BY <1>3 DEF LockInterrupted
    <3> QED BY <3>1, <3>2, <3>3, MoreLook
  <2> QED BY <2>1, <2>2
<1>4. CASE Unlock(t)
  <2>1. Looking \subseteq Looking' /\ Asleep' \subseteq Asleep
    BY <1>4 DEF Unlock, M!Unlock, M!UnlockSwaps, M!UnlockFails, M!Goes, Looking, Asleep
  <2>2. \A o : Waking(o) => Waking(o)'
    BY <1>4 DEF Unlock, M!Unlock, M!UnlockSwaps, M!UnlockFails, M!Goes, Waking
  <2>3. counter' = counter /\ (excluded' => excluded) /\ (interrupted => interrupted')
    BY <1>4 DEF Unlock, M!Unlock, M!UnlockSwaps, M!UnlockFails, M!Goes
  <2> QED BY <2>1, <2>2, <2>3, MoreLook
<1>5. CASE Return(t)
  <2>1. Looking \subseteq Looking' /\ Asleep' \subseteq Asleep
    BY <1>5 DEF Return, mutex, Looking, Asleep
  <2>2. \A o : Waking(o) => Waking(o)'
    BY <1>5 DEF Return, mutex, Waking
  <2>3. counter' = counter /\ (excluded' => excluded) /\ (interrupted => interrupted')
    BY <1>5 DEF Return, mutex
  <2> QED BY <2>1, <2>2, <2>3, MoreLook
<1>6. CASE WaitFindsSome(t)
  <2>1. Looking \subseteq Looking' /\ Asleep' \subseteq Asleep
    BY <1>6 DEF WaitFindsSome, Inside, mutex, Looking, Asleep
  <2>2. \A o : Waking(o) => Waking(o)'
    BY <1>6 DEF WaitFindsSome, Inside, mutex, Waking
  <2>3. counter' = counter /\ (excluded' => excluded) /\ (interrupted => interrupted')
    BY <1>6 DEF WaitFindsSome, Inside, mutex
  <2> QED BY <2>1, <2>2, <2>3, MoreLook
<1>7. CASE WaitFindsNone(t)
  <2>1. Looking \subseteq Looking' /\ Asleep' \subseteq Asleep
    BY <1>7 DEF WaitFindsNone, Inside, mutex, Looking, Asleep
  <2>2. \A o : Waking(o) => Waking(o)'
    BY <1>7 DEF WaitFindsNone, Inside, mutex, Waking
  <2>3. counter' = counter /\ (excluded' => excluded) /\ (interrupted => interrupted')
    BY <1>7 DEF WaitFindsNone, Inside, mutex
  <2> QED BY <2>1, <2>2, <2>3, MoreLook
<1>8. CASE WaitTakes(t)
  <2> SUFFICES ASSUME excluded, ~interrupted, Asleep # {}
               PROVE  counter' <= Cardinality(Looking')
    <3>1. excluded' = excluded /\ interrupted' = interrupted /\ Asleep' = Asleep
      BY <1>8 DEF WaitTakes, Inside, mutex, Asleep
    <3>2. counter' \in Nat
      BY <1>8, ModInRange DEF WaitTakes, Inside, FsemaphoreAssumption
    <3> QED BY <3>1, <3>2, LookingFinite DEF WakersSuffice
  <2>1. \A u \in Thread : spc[u] # "wake"
    BY <1>8 DEF WaitTakes, Inside, HoldersOwn, Holding, CounterAgrees, M!MutualExclusion
  <2>2. counter <= Cardinality(Looking)
    BY <2>1, LookingFinite DEF WakersSuffice, Waking
  <2>3. counter' = counter - 1
    BY <1>8, ModSmall DEF WaitTakes, Inside, FsemaphoreAssumption, CounterAgrees
  <2>4. Looking' = Looking \ {t} /\ t \in Looking
    BY <1>8 DEF WaitTakes, Inside, Looking
  <2>5. Cardinality(Looking') = Cardinality(Looking) - 1
    BY <2>4, LookingFinite, FS_RemoveElement
  <2> QED BY <2>2, <2>3, <2>5, LookingFinite
<1>9. CASE WaitSleeps(t)
  <2>1. counter' = 0
    BY <1>9 DEF WaitSleeps
  <2> QED BY <2>1, LookingFinite DEF WakersSuffice
<1>10. CASE WaitRefused(t)
  <2>1. Looking \subseteq Looking' /\ Asleep' \subseteq Asleep
    BY <1>10 DEF WaitRefused, mutex, Looking, Asleep
  <2>2. \A o : Waking(o) => Waking(o)'
    BY <1>10 DEF WaitRefused, mutex, Waking
  <2>3. counter' = counter /\ (excluded' => excluded) /\ (interrupted => interrupted')
    BY <1>10 DEF WaitRefused, mutex
  <2> QED BY <2>1, <2>2, <2>3, MoreLook
<1>11. CASE WaitSpuriouslyWakes(t)
  <2>1. Looking \subseteq Looking' /\ Asleep' \subseteq Asleep
    BY <1>11 DEF WaitSpuriouslyWakes, mutex, Looking, Asleep, Kinds
  <2>2. \A o : Waking(o) => Waking(o)'
    BY <1>11 DEF WaitSpuriouslyWakes, mutex, Waking, Kinds
  <2>3. counter' = counter /\ (excluded' => excluded) /\ (interrupted => interrupted')
    BY <1>11 DEF WaitSpuriouslyWakes, mutex
  <2> QED BY <2>1, <2>2, <2>3, MoreLook
<1>12. CASE WaitInterrupted(t)
  <2>1. Looking \subseteq Looking' /\ Asleep' \subseteq Asleep
    BY <1>12 DEF WaitInterrupted, mutex, Looking, Asleep, Kinds
  <2>2. \A o : Waking(o) => Waking(o)'
    BY <1>12 DEF WaitInterrupted, mutex, Waking, Kinds
  <2>3. counter' = counter /\ (excluded' => excluded) /\ (interrupted => interrupted')
    BY <1>12 DEF WaitInterrupted, mutex
  <2> QED BY <2>1, <2>2, <2>3, MoreLook
<1>13. CASE WaitLocksAgain(t)
  <2>1. Looking \subseteq Looking' /\ Asleep' \subseteq Asleep
    BY <1>13 DEF WaitLocksAgain, M!Lock, M!Goes, Looking, Asleep, Kinds
  <2>2. \A o : Waking(o) => Waking(o)'
    BY <1>13 DEF WaitLocksAgain, M!Lock, M!Goes, Waking, Kinds
  <2>3. counter' = counter /\ (excluded' => excluded) /\ (interrupted => interrupted')
    BY <1>13 DEF WaitLocksAgain, M!Lock, M!Goes
  <2> QED BY <2>1, <2>2, <2>3, MoreLook
<1>14. CASE PostFindsMax(t)
  <2>1. Looking \subseteq Looking' /\ Asleep' \subseteq Asleep
    BY <1>14 DEF PostFindsMax, Inside, mutex, Looking, Asleep, Kinds
  <2>2. \A o : Waking(o) => Waking(o)'
    BY <1>14 DEF PostFindsMax, Inside, mutex, Waking, Kinds
  <2>3. counter' = counter /\ (excluded' => excluded) /\ (interrupted => interrupted')
    BY <1>14 DEF PostFindsMax, Inside, mutex
  <2> QED BY <2>1, <2>2, <2>3, MoreLook
<1>15. CASE PostFindsRoom(t)
  <2>1. Looking \subseteq Looking' /\ Asleep' \subseteq Asleep
    BY <1>15 DEF PostFindsRoom, Inside, mutex, Looking, Asleep, Kinds
  <2>2. \A o : Waking(o) => Waking(o)'
    BY <1>15 DEF PostFindsRoom, Inside, mutex, Waking, Kinds
  <2>3. counter' = counter /\ (excluded' => excluded) /\ (interrupted => interrupted')
    BY <1>15 DEF PostFindsRoom, Inside, mutex
  <2> QED BY <2>1, <2>2, <2>3, MoreLook
<1>16. CASE PostAdds(t)
  <2> SUFFICES ASSUME excluded, ~interrupted, Asleep # {}
               PROVE  counter' <= Cardinality(Looking') + 1 /\ Waking("post")'
    <3>1. excluded' = excluded /\ interrupted' = interrupted /\ Asleep' = Asleep
      BY <1>16 DEF PostAdds, Inside, mutex, Asleep
    <3> QED BY <3>1 DEF WakersSuffice
  <2>1. \A u \in Thread : spc[u] # "wake"
    BY <1>16 DEF PostAdds, Inside, HoldersOwn, Holding, CounterAgrees, M!MutualExclusion
  <2>2. counter <= Cardinality(Looking)
    BY <2>1, LookingFinite DEF WakersSuffice, Waking
  <2>3. counter' = counter + 1
    BY <1>16, ModSmall DEF PostAdds, Inside, FsemaphoreAssumption, CounterAgrees
  <2>4. Looking' = Looking
    BY <1>16 DEF PostAdds, Inside, Looking
  <2>5. Waking("post")'
    BY <1>16 DEF PostAdds, Inside, Waking
  <2> QED BY <2>2, <2>3, <2>4, <2>5, LookingFinite
<1>17. CASE ResetStores(t)
  <2>1. Waking("reset")'
    BY <1>17 DEF ResetStores, Inside, Waking
  <2> QED BY <2>1 DEF WakersSuffice
<1>18. CASE ExhaustStores(t)
  <2>1. counter' = 0
    BY <1>18 DEF ExhaustStores
  <2> QED BY <2>1, LookingFinite DEF WakersSuffice
<1>19. CASE Wakes(t)
  BY <1>19, WakeKeepsWakers
<1> QED
  BY <1>1, <1>2, <1>3, <1>4, <1>5, <1>6, <1>7, <1>8, <1>9, <1>10,
     <1>11, <1>12, <1>13, <1>14, <1>15, <1>16, <1>17, <1>18, <1>19 DEF Step

-----------------------------------------------------------------------------
(* The invariant is inductive.                                             *)
LEMMA InitHolds ==
  ASSUME FsemaphoreAssumption, Val <= Max, Init
  PROVE  IInv
<1>1. Types
  BY DEF Init, Types, TypeOK, M!Init, M!TypeOK, FsemaphoreAssumption
<1>2. Kinds /\ HoldersOwn
  BY DEF Init, Kinds, HoldersOwn, Holding
<1>3. CounterAgrees
  BY DEF Init, M!Init, CounterAgrees, M!MutualExclusion, FsemaphoreAssumption
<1>4. WakersSuffice
  BY DEF Init, WakersSuffice, Asleep
<1> QED BY <1>1, <1>2, <1>3, <1>4 DEF IInv

LEMMA StepKeeps ==
  ASSUME IsFiniteSet(Thread), FsemaphoreAssumption, IInv, [Next]_vars
  PROVE  IInv'
<1>1. CASE Next
  <2>1. PICK t \in Thread : Step(t)
    BY <1>1 DEF Next
  <2>2. Types' /\ Kinds' /\ HoldersOwn' /\ CounterAgrees'
    BY <2>1, StepKeepsTypes, StepKeepsKinds, StepKeepsHolders, StepKeepsCounter DEF IInv
  <2> QED BY <2>1, <2>2, StepKeepsWakers DEF IInv
<1>2. CASE UNCHANGED vars
  <2> USE <1>2 DEF vars, mutex, IInv
  <2>1. Types' BY DEF Types, TypeOK, M!TypeOK
  <2>2. Kinds' /\ HoldersOwn' BY DEF Kinds, HoldersOwn
  <2>3. CounterAgrees' BY DEF CounterAgrees, M!MutualExclusion
  <2>4. WakersSuffice' BY DEF WakersSuffice, Asleep, Looking, Waking
  <2> QED BY <2>1, <2>2, <2>3, <2>4
<1> QED BY <1>1, <1>2

LEMMA InvImplies ==
  ASSUME IsFiniteSet(Thread), IInv
  PROVE  SemaphoreInv
<1>1. TypeOK /\ CounterInBounds
  BY DEF IInv, Types, CounterAgrees, CounterInBounds
<1>2. NoLostPost
  <2> SUFFICES ASSUME excluded, ~interrupted, Asleep # {}, counter > 0,
                      \A t \in Thread : spc[t] # "wake"
               PROVE  Cardinality(Looking) >= counter
    BY DEF NoLostPost, SleepersHaveNone
  <2>1. ~Waking("reset") /\ ~Waking("post")
    BY DEF Waking
  <2>2. counter \in Nat
    BY <1>1 DEF TypeOK
  <2> QED BY <2>1, <2>2, LookingFinite DEF IInv, WakersSuffice
<1> QED BY <1>1, <1>2 DEF SemaphoreInv

(* For finitely many threads and a count that starts within its bounds:    *)
(* while the mutex excludes, no decrement passes 0 and no post passes max, *)
(* and unless a waiter was interrupted in the mutex, a post or reset that  *)
(* comes between a waiter's look at the counter and its FUTEX_WAIT is not  *)
(* missed (fsemaphore_wait 163-186, fsemaphore_post 214-217,               *)
(* fsemaphore_reset 253-255).                                              *)
THEOREM SemaphoreCorrect ==
  ASSUME IsFiniteSet(Thread), Val <= Max
  PROVE  Spec => []SemaphoreInv
<1>1. Init => IInv
  BY FsemaphoreAssumption, InitHolds
<1>2. IInv /\ [Next]_vars => IInv'
  BY FsemaphoreAssumption, StepKeeps
<1>3. IInv => SemaphoreInv
  BY InvImplies
<1> QED BY <1>1, <1>2, <1>3, PTL DEF Spec
=============================================================================
