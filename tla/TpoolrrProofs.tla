--------------------------- MODULE TpoolrrProofs ----------------------------
(***************************************************************************)
(* Proofs about Tpoolrr, for every number of threads, capacity and bound:  *)
(* the invariant PoolInv is inductive, and the safety properties it is     *)
(* made of hold of every run.  There is one lemma per action; under it,    *)
(* one step per part of the invariant that the action can disturb, and one *)
(* for the parts it cannot.  Then the jobs: none is lost, run twice or     *)
(* reported twice, results are honest, and the jobs of a thread stay in    *)
(* order; PoolInv says what each action finds.                             *)
(***************************************************************************)
EXTENDS Tpoolrr, SequenceTheorems, FiniteSetTheorems, TLAPS

-----------------------------------------------------------------------------
(* Lemmas about operators.                                                 *)

(* A round of a scan looks at a thread of the pool.                        *)
LEMMA NextInTurnIsThread ==
  ASSUME NEW k \in Nat, rr \in Nat
  PROVE  NextInTurn(k) \in Threads
BY TpoolrrAssumption DEF NextInTurn, Threads

(* What the control calls tell a thread.                                   *)
LEMMA DesireOf ==
  /\ \A op \in {"pause", "resume"} : Desire[op] \in {"PAUSED", "ACTIVE"}
  /\ \A op \in Ending : Desire[op] \in {"STOPPED", "JOINED"}
BY DEF Desire, Ending

-----------------------------------------------------------------------------
(* The steps of a worker.                                                  *)

(* A worker takes its mutex.                                               *)
LEMMA WorkerLockKeeps ==
  ASSUME PoolInv, NEW i \in Threads, WorkerLock(i)
  PROVE  PoolInv'
<1> USE TpoolrrAssumption
    DEF PoolInv, TypeOK, WorkerLock, WorkerGoes, shared, worker, main,
        history
<1>1. ThreadTypes' BY DEF ThreadTypes
<1>2. WorkerFits'
  BY DEF WorkerFits, InHand, HoldsOff, Holding, ThreadTypes, HistoryTypes
<1>3. MutexHeld' BY DEF MutexHeld, NextInTurn, ThreadTypes
<1>4. NeverEmptyHanded' BY DEF NeverEmptyHanded, ThreadTypes, QueueTypes
<1>5. InactiveIsIdle' BY DEF InactiveIsIdle, InHand, Finished, ThreadTypes
<1>6. SleepIsJustified'
  BY DEF SleepIsJustified, NextInTurn, ThreadTypes, MutexHeld, WorkerFits
<1>7. EndedSoFar'
  BY DEF EndedSoFar, Controlling, Ending, ThreadTypes, MainTypes
<1>8. JoinFits'
  BY DEF JoinFits, ThreadTypes, QueueTypes, MainTypes, LocalsFit,
         Controlling, Threads
<1>9. StoppedIsQuiet' BY DEF StoppedIsQuiet, ThreadTypes
<1>10. /\ QueueTypes'
      /\ MainTypes'
      /\ HistoryTypes'
      /\ LocalsFit'
      /\ AtMostOneLateStart'
  BY DEF QueueTypes, MainTypes, Desire, HistoryTypes, LocalsFit, Adding,
         Controlling, Ending, AtMostOneLateStart
<1> QED
  BY <1>1, <1>2, <1>3, <1>4, <1>5, <1>6, <1>7, <1>8, <1>9, <1>10

(* What a worker decides under its mutex.  Only from here does it start to *)
(* take a job, commit to the wait or leave.                                *)
LEMMA DecideKeeps ==
  ASSUME PoolInv, NEW i \in Threads,
         \/ WorkerTakesJob(i) \/ WorkerHasNothing(i)
         \/ WorkerPauses(i) \/ WorkerExits(i)
  PROVE  PoolInv'
<1> USE TpoolrrAssumption
    DEF PoolInv, TypeOK, WorkerTakesJob, WorkerHasNothing, WorkerPauses,
        WorkerExits, Decide, WorkerGoes, shared, worker, main, history
<1>m. mpc \in {"ctlsignal", "ctljoin"} => mi \in Threads
  BY DEF MainTypes, LocalsFit, Controlling, Threads
<1>1. ThreadTypes'
  <2>1. CASE WorkerTakesJob(i) BY <2>1 DEF ThreadTypes
  <2>2. CASE WorkerHasNothing(i) BY <2>2 DEF ThreadTypes
  <2>3. CASE WorkerPauses(i) BY <2>3 DEF ThreadTypes
  <2>4. CASE WorkerExits(i) BY <2>4 DEF ThreadTypes
  <2> QED BY <2>1, <2>2, <2>3, <2>4
<1>2. WorkerFits'
  BY DEF WorkerFits, InHand, HoldsOff, Holding, ThreadTypes, HistoryTypes
<1>3. MutexHeld' BY DEF MutexHeld, NextInTurn, ThreadTypes
<1>4. NeverEmptyHanded' BY DEF NeverEmptyHanded, ThreadTypes, QueueTypes
<1>5. InactiveIsIdle' BY DEF InactiveIsIdle, InHand, Finished, ThreadTypes
<1>6. SleepIsJustified'
  BY DEF SleepIsJustified, NextInTurn, ThreadTypes, MutexHeld, WorkerFits
<1>7. EndedSoFar'
  BY DEF EndedSoFar, Controlling, Ending, ThreadTypes, MainTypes
<1>8. JoinFits' BY <1>m DEF JoinFits, ThreadTypes
<1>9. StoppedIsQuiet' BY DEF StoppedIsQuiet, ThreadTypes
<1>10. /\ QueueTypes'
      /\ HistoryTypes'
      /\ AtMostOneLateStart'
  BY DEF QueueTypes, HistoryTypes, AtMostOneLateStart
<1>11. /\ MainTypes'
      /\ LocalsFit'
  BY DEF MainTypes, Desire, LocalsFit, Adding, Controlling, Ending
<1> QED
  BY <1>1, <1>2, <1>3, <1>4, <1>5, <1>6, <1>7, <1>8, <1>9, <1>10, <1>11

(* A worker goes to sleep.                                                 *)
LEMMA WorkerSleepsKeeps ==
  ASSUME PoolInv, NEW i \in Threads, WorkerSleeps(i)
  PROVE  PoolInv'
<1> USE TpoolrrAssumption
    DEF PoolInv, TypeOK, WorkerSleeps, WorkerGoes, shared, worker, main,
        history
<1>1. ThreadTypes' BY DEF ThreadTypes
<1>2. WorkerFits'
  BY DEF WorkerFits, InHand, HoldsOff, Holding, ThreadTypes, HistoryTypes
<1>3. MutexHeld' BY DEF MutexHeld, NextInTurn, ThreadTypes
<1>4. NeverEmptyHanded' BY DEF NeverEmptyHanded, ThreadTypes, QueueTypes
<1>5. InactiveIsIdle' BY DEF InactiveIsIdle, InHand, Finished, ThreadTypes
<1>6. SleepIsJustified'
  BY DEF SleepIsJustified, NextInTurn, ThreadTypes, MutexHeld, WorkerFits
<1>7. EndedSoFar'
  BY DEF EndedSoFar, Controlling, Ending, ThreadTypes, MainTypes
<1>8. JoinFits'
  BY DEF JoinFits, ThreadTypes, QueueTypes, MainTypes, LocalsFit,
         Controlling, Threads
<1>9. StoppedIsQuiet' BY DEF StoppedIsQuiet, ThreadTypes
<1>10. /\ QueueTypes'
      /\ MainTypes'
      /\ HistoryTypes'
      /\ LocalsFit'
      /\ AtMostOneLateStart'
  BY DEF QueueTypes, MainTypes, Desire, HistoryTypes, LocalsFit, Adding,
         Controlling, Ending, AtMostOneLateStart
<1> QED
  BY <1>1, <1>2, <1>3, <1>4, <1>5, <1>6, <1>7, <1>8, <1>9, <1>10

(* A worker wakes for no reason.                                           *)
LEMMA SpuriousWakeupKeeps ==
  ASSUME PoolInv, NEW i \in Threads, SpuriousWakeup(i)
  PROVE  PoolInv'
<1> USE TpoolrrAssumption
    DEF PoolInv, TypeOK, SpuriousWakeup, WorkerGoes, shared, worker, main,
        history
<1>1. ThreadTypes' BY DEF ThreadTypes
<1>2. WorkerFits'
  BY DEF WorkerFits, InHand, HoldsOff, Holding, ThreadTypes, HistoryTypes
<1>3. MutexHeld' BY DEF MutexHeld, NextInTurn, ThreadTypes
<1>4. NeverEmptyHanded' BY DEF NeverEmptyHanded, ThreadTypes, QueueTypes
<1>5. InactiveIsIdle' BY DEF InactiveIsIdle, InHand, Finished, ThreadTypes
<1>6. SleepIsJustified'
  BY DEF SleepIsJustified, NextInTurn, ThreadTypes, MutexHeld, WorkerFits
<1>7. EndedSoFar'
  BY DEF EndedSoFar, Controlling, Ending, ThreadTypes, MainTypes
<1>8. JoinFits'
  BY DEF JoinFits, ThreadTypes, QueueTypes, MainTypes, LocalsFit,
         Controlling, Threads
<1>9. StoppedIsQuiet' BY DEF StoppedIsQuiet, ThreadTypes
<1>10. /\ QueueTypes'
      /\ MainTypes'
      /\ HistoryTypes'
      /\ LocalsFit'
      /\ AtMostOneLateStart'
  BY DEF QueueTypes, MainTypes, Desire, HistoryTypes, LocalsFit, Adding,
         Controlling, Ending, AtMostOneLateStart
<1> QED
  BY <1>1, <1>2, <1>3, <1>4, <1>5, <1>6, <1>7, <1>8, <1>9, <1>10

(* A worker has its mutex back and starts over.                            *)
LEMMA WorkerWakesKeeps ==
  ASSUME PoolInv, NEW i \in Threads, WorkerWakes(i)
  PROVE  PoolInv'
<1> USE TpoolrrAssumption
    DEF PoolInv, TypeOK, WorkerWakes, WorkerGoes, shared, worker, main,
        history
<1>1. ThreadTypes' BY DEF ThreadTypes
<1>2. WorkerFits'
  BY DEF WorkerFits, InHand, HoldsOff, Holding, ThreadTypes, HistoryTypes
<1>3. MutexHeld' BY DEF MutexHeld, NextInTurn, ThreadTypes
<1>4. NeverEmptyHanded' BY DEF NeverEmptyHanded, ThreadTypes, QueueTypes
<1>5. InactiveIsIdle' BY DEF InactiveIsIdle, InHand, Finished, ThreadTypes
<1>6. SleepIsJustified'
  BY DEF SleepIsJustified, NextInTurn, ThreadTypes, MutexHeld, WorkerFits
<1>7. EndedSoFar'
  BY DEF EndedSoFar, Controlling, Ending, ThreadTypes, MainTypes
<1>8. JoinFits'
  BY DEF JoinFits, ThreadTypes, QueueTypes, MainTypes, LocalsFit,
         Controlling, Threads
<1>9. StoppedIsQuiet' BY DEF StoppedIsQuiet, ThreadTypes
<1>10. /\ QueueTypes'
      /\ MainTypes'
      /\ HistoryTypes'
      /\ LocalsFit'
      /\ AtMostOneLateStart'
  BY DEF QueueTypes, MainTypes, Desire, HistoryTypes, LocalsFit, Adding,
         Controlling, Ending, AtMostOneLateStart
<1> QED
  BY <1>1, <1>2, <1>3, <1>4, <1>5, <1>6, <1>7, <1>8, <1>9, <1>10

(* A worker takes a job; since NeverEmptyHanded, there is one.             *)
LEMMA WorkerDequeuesKeeps ==
  ASSUME PoolInv, NEW i \in Threads, WorkerDequeues(i)
  PROVE  PoolInv'
<1> USE TpoolrrAssumption
    DEF PoolInv, TypeOK, WorkerDequeues, WorkerGoes, shared, worker, main,
        history
<1>a. /\ submission[i] \in Seq(Jobs)
      /\ submission[i] # <<>>
      /\ Len(submission[i]) \in Nat
  BY LenProperties DEF QueueTypes, NeverEmptyHanded
<1>b. /\ Head(submission[i]) \in Jobs
      /\ Tail(submission[i]) \in Seq(Jobs)
      /\ Len(Tail(submission[i])) = Len(submission[i]) - 1
  BY <1>a, HeadTailProperties
<1>c. /\ submission' = [submission EXCEPT ![i] = Tail(submission[i])]
      /\ wjob' = [wjob EXCEPT ![i] = Head(submission[i])]
  BY <1>a
<1>m. mpc \in {"ctlsignal", "ctljoin"} => mi \in Threads
  BY DEF MainTypes, LocalsFit, Controlling, Threads
<1>1. QueueTypes' BY <1>a, <1>b, <1>c DEF QueueTypes
<1>2. ThreadTypes' BY <1>b, <1>c DEF ThreadTypes, Jobs
<1>3. WorkerFits'
  BY <1>b, <1>c DEF WorkerFits, InHand, HoldsOff, Holding, ThreadTypes
<1>4. MutexHeld' BY DEF MutexHeld, NextInTurn, ThreadTypes
<1>5. NeverEmptyHanded' BY DEF NeverEmptyHanded, ThreadTypes, QueueTypes
<1>6. InactiveIsIdle' BY DEF InactiveIsIdle, InHand, Finished, ThreadTypes
<1>7. SleepIsJustified'
  BY DEF SleepIsJustified, NextInTurn, ThreadTypes, MutexHeld, WorkerFits
<1>8. EndedSoFar'
  BY DEF EndedSoFar, Controlling, Ending, ThreadTypes, MainTypes
<1>9. JoinFits' BY <1>m, <1>c DEF JoinFits, ThreadTypes, QueueTypes
<1>10. StoppedIsQuiet' BY DEF StoppedIsQuiet, ThreadTypes
<1>11. /\ MainTypes'
      /\ HistoryTypes'
      /\ LocalsFit'
      /\ AtMostOneLateStart'
  BY DEF MainTypes, Desire, HistoryTypes, LocalsFit, Adding, Controlling,
         Ending, AtMostOneLateStart
<1> QED
  BY <1>1, <1>2, <1>3, <1>4, <1>5, <1>6, <1>7, <1>8, <1>9, <1>10, <1>11

(* A worker starts its job.  If it was told to hold off, it had started    *)
(* none since.                                                             *)
LEMMA WorkerStartsJobKeeps ==
  ASSUME PoolInv, NEW i \in Threads, WorkerStartsJob(i)
  PROVE  PoolInv'
<1> USE TpoolrrAssumption
    DEF PoolInv, TypeOK, WorkerStartsJob, WorkerGoes, shared, worker, main,
        history
<1>1. ThreadTypes' BY DEF ThreadTypes
<1>2. HistoryTypes' BY DEF HistoryTypes, WorkerFits, InHand
<1>3. WorkerFits'
  BY DEF WorkerFits, InHand, HoldsOff, Holding, ThreadTypes, HistoryTypes
<1>4. MutexHeld' BY DEF MutexHeld, NextInTurn, ThreadTypes
<1>5. NeverEmptyHanded' BY DEF NeverEmptyHanded, ThreadTypes, QueueTypes
<1>6. InactiveIsIdle' BY DEF InactiveIsIdle, InHand, Finished, ThreadTypes
<1>7. SleepIsJustified'
  BY DEF SleepIsJustified, NextInTurn, ThreadTypes, MutexHeld, WorkerFits
<1>8. AtMostOneLateStart'
  BY DEF AtMostOneLateStart, HistoryTypes, WorkerFits, HoldsOff, Holding
<1>9. EndedSoFar'
  BY DEF EndedSoFar, Controlling, Ending, ThreadTypes, MainTypes
<1>10. JoinFits'
  BY DEF JoinFits, ThreadTypes, QueueTypes, MainTypes, LocalsFit,
         Controlling, Threads
<1>11. StoppedIsQuiet' BY DEF StoppedIsQuiet, ThreadTypes
<1>12. /\ QueueTypes'
      /\ MainTypes'
      /\ LocalsFit'
  BY DEF QueueTypes, MainTypes, Desire, LocalsFit, Adding, Controlling,
         Ending
<1> QED
  BY <1>1, <1>2, <1>3, <1>4, <1>5, <1>6, <1>7, <1>8, <1>9, <1>10, <1>11,
     <1>12

(* A worker reports a job, run or expired.                                 *)
LEMMA CompleteKeeps ==
  ASSUME PoolInv, NEW i \in Threads, NEW flags \in {0, 1},
         InHand(i), Complete(i, flags)
  PROVE  PoolInv'
<1> USE TpoolrrAssumption
    DEF PoolInv, TypeOK, Complete, WorkerGoes, shared, worker, main, history
<1> DEFINE result == [job |-> wjob[i], flags |-> flags]
<1>a. result \in Result
  BY DEF Result, WorkerFits
<1>b. completion[i] \in Seq(Result) /\ Len(completion[i]) \in Nat
  BY LenProperties DEF QueueTypes
<1>c. /\ Append(completion[i], result) \in Seq(Result)
      /\ Len(Append(completion[i], result)) = Len(completion[i]) + 1
  BY <1>a, <1>b, AppendProperties
<1>1. QueueTypes'
  <2>1. CASE Len(completion[i]) = Cap
    BY <2>1 DEF QueueTypes
  <2>2. CASE Len(completion[i]) # Cap
    <3>1. completion' = [completion EXCEPT ![i] = Append(completion[i], result)]
      BY <2>2
    <3> HIDE DEF result
    <3> QED BY <3>1, <1>b, <1>c, <2>2 DEF QueueTypes
  <2> QED BY <2>1, <2>2
<1>2. ThreadTypes' BY DEF ThreadTypes
<1>3. HistoryTypes' BY <1>a DEF HistoryTypes
<1>4. WorkerFits'
  BY DEF WorkerFits, InHand, HoldsOff, Holding, ThreadTypes, HistoryTypes
<1>5. MutexHeld' BY DEF MutexHeld, NextInTurn, ThreadTypes, InHand
<1>6. NeverEmptyHanded' BY DEF NeverEmptyHanded, ThreadTypes, QueueTypes
<1>7. InactiveIsIdle' BY DEF InactiveIsIdle, InHand, Finished, ThreadTypes
<1>8. SleepIsJustified'
  BY DEF SleepIsJustified, NextInTurn, ThreadTypes, MutexHeld, WorkerFits
<1>9. EndedSoFar' BY DEF EndedSoFar, Controlling, Ending, ThreadTypes, InHand
<1>10. JoinFits'
  BY DEF JoinFits, ThreadTypes, QueueTypes, MainTypes, LocalsFit,
         Controlling, Threads
<1>11. StoppedIsQuiet' BY DEF StoppedIsQuiet, ThreadTypes, InHand
<1>12. /\ MainTypes'
      /\ LocalsFit'
      /\ AtMostOneLateStart'
  BY DEF MainTypes, Desire, LocalsFit, Adding, Controlling, Ending,
         AtMostOneLateStart
<1> QED
  BY <1>1, <1>2, <1>3, <1>4, <1>5, <1>6, <1>7, <1>8, <1>9, <1>10, <1>11,
     <1>12

-----------------------------------------------------------------------------
(* The calls of main.                                                      *)

(* Main starts to add jobs.                                                *)
LEMMA AddCallKeeps ==
  ASSUME PoolInv, NEW op \in {"add", "addall", "assign"},
         NEW n \in 1..MaxJobs, AddCall(op, n)
  PROVE  PoolInv'
<1> USE TpoolrrAssumption
    DEF PoolInv, TypeOK, AddCall, Attempts, shared, worker, main, history
<1>1. MainTypes' BY DEF MainTypes, Desire, LocalsFit, Adding, Controlling
<1>2. LocalsFit'
  BY DEF LocalsFit, Adding, Controlling, Ending, Desire, MainTypes,
         HistoryTypes
<1>3. MutexHeld' BY DEF MutexHeld, NextInTurn, ThreadTypes
<1>4. SleepIsJustified'
  BY DEF SleepIsJustified, NextInTurn, ThreadTypes, MutexHeld, WorkerFits
<1>5. EndedSoFar'
  BY DEF EndedSoFar, Controlling, Ending, ThreadTypes, MainTypes
<1>6. JoinFits'
  BY DEF JoinFits, ThreadTypes, QueueTypes, MainTypes, LocalsFit,
         Controlling, Threads
<1>7. /\ QueueTypes'
      /\ ThreadTypes'
      /\ HistoryTypes'
      /\ WorkerFits'
      /\ NeverEmptyHanded'
      /\ InactiveIsIdle'
      /\ AtMostOneLateStart'
      /\ StoppedIsQuiet'
  BY DEF QueueTypes, ThreadTypes, HistoryTypes, WorkerFits, InHand, HoldsOff,
         Holding, NeverEmptyHanded, InactiveIsIdle, Finished,
         AtMostOneLateStart, StoppedIsQuiet
<1> QED
  BY <1>1, <1>2, <1>3, <1>4, <1>5, <1>6, <1>7

(* jobs_assign gives up at once.                                           *)
LEMMA JobsAssignBusyKeeps ==
  ASSUME PoolInv, JobsAssignBusy
  PROVE  PoolInv'
<1> USE TpoolrrAssumption
    DEF PoolInv, TypeOK, JobsAssignBusy, Return, shared, worker, main,
        history
<1>1. MainTypes' BY DEF MainTypes, Desire, LocalsFit, Adding, Controlling
<1>2. LocalsFit'
  BY DEF LocalsFit, Adding, Controlling, Ending, Desire, MainTypes,
         HistoryTypes
<1>3. MutexHeld' BY DEF MutexHeld, NextInTurn, ThreadTypes
<1>4. SleepIsJustified'
  BY DEF SleepIsJustified, NextInTurn, ThreadTypes, MutexHeld, WorkerFits
<1>5. EndedSoFar'
  BY DEF EndedSoFar, Controlling, Ending, ThreadTypes, MainTypes
<1>6. JoinFits'
  BY DEF JoinFits, ThreadTypes, QueueTypes, MainTypes, LocalsFit,
         Controlling, Threads
<1>7. /\ QueueTypes'
      /\ ThreadTypes'
      /\ HistoryTypes'
      /\ WorkerFits'
      /\ NeverEmptyHanded'
      /\ InactiveIsIdle'
      /\ AtMostOneLateStart'
      /\ StoppedIsQuiet'
  BY DEF QueueTypes, ThreadTypes, HistoryTypes, WorkerFits, InHand, HoldsOff,
         Holding, NeverEmptyHanded, InactiveIsIdle, Finished,
         AtMostOneLateStart, StoppedIsQuiet
<1> QED
  BY <1>1, <1>2, <1>3, <1>4, <1>5, <1>6, <1>7

(* Main starts a pause, resume, stop, join or deinit.                      *)
LEMMA ControlCallKeeps ==
  ASSUME PoolInv, NEW op \in DOMAIN Desire, ControlCall(op)
  PROVE  PoolInv'
<1> USE TpoolrrAssumption
    DEF PoolInv, TypeOK, ControlCall, shared, worker, main, history
<1>1. MainTypes' BY DEF MainTypes, Desire, LocalsFit, Adding, Controlling
<1>2. LocalsFit'
  BY DEF LocalsFit, Adding, Controlling, Ending, Desire, MainTypes,
         HistoryTypes
<1>3. MutexHeld' BY DEF MutexHeld, NextInTurn, ThreadTypes
<1>4. SleepIsJustified'
  BY DEF SleepIsJustified, NextInTurn, ThreadTypes, MutexHeld, WorkerFits
<1>5. EndedSoFar' BY DEF EndedSoFar, Controlling, Threads
<1>6. JoinFits'
  BY DEF JoinFits, ThreadTypes, QueueTypes, MainTypes, LocalsFit,
         Controlling, Threads
<1>7. /\ QueueTypes'
      /\ ThreadTypes'
      /\ HistoryTypes'
      /\ WorkerFits'
      /\ NeverEmptyHanded'
      /\ InactiveIsIdle'
      /\ AtMostOneLateStart'
      /\ StoppedIsQuiet'
  BY DEF QueueTypes, ThreadTypes, HistoryTypes, WorkerFits, InHand, HoldsOff,
         Holding, NeverEmptyHanded, InactiveIsIdle, Finished,
         AtMostOneLateStart, StoppedIsQuiet
<1> QED
  BY <1>1, <1>2, <1>3, <1>4, <1>5, <1>6, <1>7

(* deinit of a pool that is stopped.                                       *)
LEMMA DeinitStoppedKeeps ==
  ASSUME PoolInv, DeinitStopped
  PROVE  PoolInv'
<1> USE TpoolrrAssumption
    DEF PoolInv, TypeOK, DeinitStopped, shared, worker, main, history
<1>1. MainTypes' BY DEF MainTypes, Desire, LocalsFit, Adding, Controlling
<1>2. LocalsFit'
  BY DEF LocalsFit, Adding, Controlling, Ending, Desire, MainTypes,
         HistoryTypes
<1>3. MutexHeld' BY DEF MutexHeld, NextInTurn, ThreadTypes
<1>4. SleepIsJustified'
  BY DEF SleepIsJustified, NextInTurn, ThreadTypes, MutexHeld, WorkerFits
<1>5. EndedSoFar'
  BY DEF EndedSoFar, Controlling, Ending, ThreadTypes, MainTypes
<1>6. JoinFits'
  BY DEF JoinFits, ThreadTypes, QueueTypes, MainTypes, LocalsFit,
         Controlling, Threads
<1>7. /\ QueueTypes'
      /\ ThreadTypes'
      /\ HistoryTypes'
      /\ WorkerFits'
      /\ NeverEmptyHanded'
      /\ InactiveIsIdle'
      /\ AtMostOneLateStart'
      /\ StoppedIsQuiet'
  BY DEF QueueTypes, ThreadTypes, HistoryTypes, WorkerFits, InHand, HoldsOff,
         Holding, NeverEmptyHanded, InactiveIsIdle, Finished,
         AtMostOneLateStart, StoppedIsQuiet
<1> QED
  BY <1>1, <1>2, <1>3, <1>4, <1>5, <1>6, <1>7

(* Main starts to pop results.                                             *)
LEMMA PopCallKeeps ==
  ASSUME PoolInv, NEW op \in {"pop", "popall", "popsome"},
         NEW n \in 1..(IF N <= MaxJobs THEN MaxJobs ELSE N),
         op = "popsome" => n <= N, PopCall(op, n)
  PROVE  PoolInv'
<1> USE TpoolrrAssumption
    DEF PoolInv, TypeOK, PopCall, shared, worker, main, history
<1>1. MainTypes' BY DEF MainTypes, Desire, LocalsFit, Adding, Controlling
<1>2. LocalsFit'
  BY DEF LocalsFit, Adding, Controlling, Ending, Desire, MainTypes,
         HistoryTypes
<1>3. MutexHeld' BY DEF MutexHeld, NextInTurn, ThreadTypes
<1>4. SleepIsJustified'
  BY DEF SleepIsJustified, NextInTurn, ThreadTypes, MutexHeld, WorkerFits
<1>5. EndedSoFar'
  BY DEF EndedSoFar, Controlling, Ending, ThreadTypes, MainTypes
<1>6. JoinFits'
  BY DEF JoinFits, ThreadTypes, QueueTypes, MainTypes, LocalsFit,
         Controlling, Threads
<1>7. /\ QueueTypes'
      /\ ThreadTypes'
      /\ HistoryTypes'
      /\ WorkerFits'
      /\ NeverEmptyHanded'
      /\ InactiveIsIdle'
      /\ AtMostOneLateStart'
      /\ StoppedIsQuiet'
  BY DEF QueueTypes, ThreadTypes, HistoryTypes, WorkerFits, InHand, HoldsOff,
         Holding, NeverEmptyHanded, InactiveIsIdle, Finished,
         AtMostOneLateStart, StoppedIsQuiet
<1> QED
  BY <1>1, <1>2, <1>3, <1>4, <1>5, <1>6, <1>7

-----------------------------------------------------------------------------
(* The steps of main.                                                      *)

(* The scan passes a full queue.                                           *)
LEMMA AddSkipsFullKeeps ==
  ASSUME PoolInv, AddSkipsFull
  PROVE  PoolInv'
<1> USE TpoolrrAssumption
    DEF PoolInv, TypeOK, AddSkipsFull, shared, worker, main, history
<1>1. MainTypes' BY DEF MainTypes, Desire, LocalsFit, Adding, Controlling
<1>2. LocalsFit'
  BY DEF LocalsFit, Adding, Controlling, Ending, Desire, MainTypes,
         HistoryTypes
<1>3. MutexHeld' BY DEF MutexHeld, NextInTurn, ThreadTypes
<1>4. SleepIsJustified'
  BY DEF SleepIsJustified, NextInTurn, ThreadTypes, MutexHeld, WorkerFits
<1>5. EndedSoFar'
  BY DEF EndedSoFar, Controlling, Ending, ThreadTypes, MainTypes
<1>6. JoinFits'
  BY DEF JoinFits, ThreadTypes, QueueTypes, MainTypes, LocalsFit,
         Controlling, Threads
<1>7. /\ QueueTypes'
      /\ ThreadTypes'
      /\ HistoryTypes'
      /\ WorkerFits'
      /\ NeverEmptyHanded'
      /\ InactiveIsIdle'
      /\ AtMostOneLateStart'
      /\ StoppedIsQuiet'
  BY DEF QueueTypes, ThreadTypes, HistoryTypes, WorkerFits, InHand, HoldsOff,
         Holding, NeverEmptyHanded, InactiveIsIdle, Finished,
         AtMostOneLateStart, StoppedIsQuiet
<1> QED
  BY <1>1, <1>2, <1>3, <1>4, <1>5, <1>6, <1>7

(* Main enqueues a job: a worker that sleeps beside it is one that main is *)
(* about to signal.                                                        *)
LEMMA AddEnqueuesKeeps ==
  ASSUME PoolInv, AddEnqueues
  PROVE  PoolInv'
<1> USE TpoolrrAssumption
    DEF PoolInv, TypeOK, AddEnqueues, shared, worker, main, history
<1> DEFINE i == NextInTurn(mi)
<1>a. i \in Threads
  BY NextInTurnIsThread DEF MainTypes
<1>b. /\ submission[i] \in Seq(Jobs)
      /\ Len(submission[i]) \in Nat
      /\ Len(submission[i]) < Cap
  BY <1>a, LenProperties DEF QueueTypes, HasRoom
<1>c. added + 1 \in Jobs
  BY DEF LocalsFit, Adding, MainTypes, HistoryTypes, Jobs
<1>d. /\ Append(submission[i], added + 1) \in Seq(Jobs)
      /\ Append(submission[i], added + 1) # <<>>
      /\ Len(Append(submission[i], added + 1)) = Len(submission[i]) + 1
  BY <1>b, <1>c, AppendProperties
<1>e. submission' = [submission EXCEPT ![i] = Append(submission[i], added + 1)]
  OBVIOUS
<1>1. QueueTypes' BY <1>a, <1>b, <1>d, <1>e DEF QueueTypes
<1>2. MainTypes' BY DEF MainTypes, Desire, LocalsFit, Adding, Controlling
<1>3. HistoryTypes' BY <1>a, <1>c DEF HistoryTypes, Jobs
<1>4. LocalsFit'
  BY DEF LocalsFit, Adding, Controlling, Ending, Desire, MainTypes,
         HistoryTypes
<1>5. MutexHeld' BY DEF MutexHeld, NextInTurn, ThreadTypes
<1>6. NeverEmptyHanded' BY <1>a, <1>d, <1>e DEF NeverEmptyHanded, QueueTypes
<1>7. SleepIsJustified'
  BY DEF SleepIsJustified, NextInTurn, ThreadTypes, MutexHeld, WorkerFits
<1>8. EndedSoFar'
  BY DEF EndedSoFar, Controlling, Ending, ThreadTypes, MainTypes
<1>9. JoinFits'
  BY DEF JoinFits, ThreadTypes, QueueTypes, MainTypes, LocalsFit,
         Controlling, Threads
<1>10. /\ ThreadTypes'
      /\ WorkerFits'
      /\ InactiveIsIdle'
      /\ AtMostOneLateStart'
      /\ StoppedIsQuiet'
  BY DEF ThreadTypes, WorkerFits, InHand, HoldsOff, Holding, InactiveIsIdle,
         Finished, AtMostOneLateStart, StoppedIsQuiet
<1> QED
  BY <1>1, <1>2, <1>3, <1>4, <1>5, <1>6, <1>7, <1>8, <1>9, <1>10

(* Main takes the mutex of the thread it will signal.                      *)
LEMMA AddLocksKeeps ==
  ASSUME PoolInv, AddLocks
  PROVE  PoolInv'
<1> USE TpoolrrAssumption
    DEF PoolInv, TypeOK, AddLocks, MainLocks, shared, worker, main, history
<1>1. ThreadTypes' BY DEF ThreadTypes
<1>2. MainTypes' BY DEF MainTypes, Desire, LocalsFit, Adding, Controlling
<1>3. LocalsFit'
  BY DEF LocalsFit, Adding, Controlling, Ending, Desire, MainTypes,
         HistoryTypes
<1>4. MutexHeld' BY DEF MutexHeld, NextInTurn, ThreadTypes
<1>5. SleepIsJustified'
  BY DEF SleepIsJustified, NextInTurn, ThreadTypes, MutexHeld, WorkerFits
<1>6. EndedSoFar'
  BY DEF EndedSoFar, Controlling, Ending, ThreadTypes, MainTypes
<1>7. JoinFits'
  BY DEF JoinFits, ThreadTypes, QueueTypes, MainTypes, LocalsFit,
         Controlling, Threads
<1>8. StoppedIsQuiet' BY DEF StoppedIsQuiet, ThreadTypes
<1>9. /\ QueueTypes'
      /\ HistoryTypes'
      /\ WorkerFits'
      /\ NeverEmptyHanded'
      /\ InactiveIsIdle'
      /\ AtMostOneLateStart'
  BY DEF QueueTypes, HistoryTypes, WorkerFits, InHand, HoldsOff, Holding,
         NeverEmptyHanded, InactiveIsIdle, Finished, AtMostOneLateStart
<1> QED
  BY <1>1, <1>2, <1>3, <1>4, <1>5, <1>6, <1>7, <1>8, <1>9

(* Main signals: a thread that sleeps wakes, and none is between its look  *)
(* at the queue and its sleep, since main holds the mutex.                 *)
LEMMA AddSignalsKeeps ==
  ASSUME PoolInv, AddSignals
  PROVE  PoolInv'
<1> USE TpoolrrAssumption
    DEF PoolInv, TypeOK, AddSignals, Signal, Return, Attempts, shared,
        worker, main, history
<1>1. ThreadTypes' BY DEF ThreadTypes
<1>2. MainTypes' BY DEF MainTypes, Desire, LocalsFit, Adding, Controlling
<1>3. HistoryTypes' BY DEF HistoryTypes, LocalsFit, Adding
<1>4. LocalsFit'
  BY DEF LocalsFit, Adding, Controlling, Ending, Desire, MainTypes,
         HistoryTypes
<1>5. WorkerFits'
  BY DEF WorkerFits, InHand, HoldsOff, Holding, ThreadTypes, HistoryTypes
<1>6. MutexHeld' BY DEF MutexHeld, NextInTurn, ThreadTypes
<1>7. NeverEmptyHanded' BY DEF NeverEmptyHanded, ThreadTypes, QueueTypes
<1>8. InactiveIsIdle' BY DEF InactiveIsIdle, InHand, Finished, ThreadTypes
<1>9. SleepIsJustified'
  BY DEF SleepIsJustified, NextInTurn, ThreadTypes, MutexHeld, WorkerFits
<1>10. EndedSoFar'
  BY DEF EndedSoFar, Controlling, Ending, ThreadTypes, MainTypes
<1>11. JoinFits'
  BY DEF JoinFits, ThreadTypes, QueueTypes, MainTypes, LocalsFit,
         Controlling, Threads
<1>12. StoppedIsQuiet' BY DEF StoppedIsQuiet, ThreadTypes
<1>13. /\ QueueTypes'
      /\ AtMostOneLateStart'
  BY DEF QueueTypes, AtMostOneLateStart
<1> QED
  BY <1>1, <1>2, <1>3, <1>4, <1>5, <1>6, <1>7, <1>8, <1>9, <1>10, <1>11,
     <1>12, <1>13

(* No queue had room.                                                      *)
LEMMA AddBusyKeeps ==
  ASSUME PoolInv, AddBusy
  PROVE  PoolInv'
<1> USE TpoolrrAssumption
    DEF PoolInv, TypeOK, AddBusy, Return, shared, worker, main, history
<1>1. MainTypes' BY DEF MainTypes, Desire, LocalsFit, Adding, Controlling
<1>2. HistoryTypes' BY DEF HistoryTypes, LocalsFit, Adding
<1>3. LocalsFit'
  BY DEF LocalsFit, Adding, Controlling, Ending, Desire, MainTypes,
         HistoryTypes
<1>4. MutexHeld' BY DEF MutexHeld, NextInTurn, ThreadTypes
<1>5. SleepIsJustified'
  BY DEF SleepIsJustified, NextInTurn, ThreadTypes, MutexHeld, WorkerFits
<1>6. EndedSoFar'
  BY DEF EndedSoFar, Controlling, Ending, ThreadTypes, MainTypes
<1>7. JoinFits'
  BY DEF JoinFits, ThreadTypes, QueueTypes, MainTypes, LocalsFit,
         Controlling, Threads
<1>8. /\ QueueTypes'
      /\ ThreadTypes'
      /\ WorkerFits'
      /\ NeverEmptyHanded'
      /\ InactiveIsIdle'
      /\ AtMostOneLateStart'
      /\ StoppedIsQuiet'
  BY DEF QueueTypes, ThreadTypes, WorkerFits, InHand, HoldsOff, Holding,
         NeverEmptyHanded, InactiveIsIdle, Finished, AtMostOneLateStart,
         StoppedIsQuiet
<1> QED
  BY <1>1, <1>2, <1>3, <1>4, <1>5, <1>6, <1>7, <1>8

(* Main takes the mutex of the next thread.                                *)
LEMMA ControlLocksKeeps ==
  ASSUME PoolInv, ControlLocks
  PROVE  PoolInv'
<1> USE TpoolrrAssumption
    DEF PoolInv, TypeOK, ControlLocks, MainLocks, shared, worker, main,
        history
<1>1. ThreadTypes' BY DEF ThreadTypes
<1>2. MainTypes' BY DEF MainTypes, Desire, LocalsFit, Adding, Controlling
<1>3. LocalsFit'
  BY DEF LocalsFit, Adding, Controlling, Ending, Desire, MainTypes,
         HistoryTypes
<1>4. MutexHeld' BY DEF MutexHeld, NextInTurn, ThreadTypes
<1>5. SleepIsJustified'
  BY DEF SleepIsJustified, NextInTurn, ThreadTypes, MutexHeld, WorkerFits
<1>6. EndedSoFar'
  BY DEF EndedSoFar, Controlling, Ending, ThreadTypes, MainTypes
<1>7. JoinFits'
  BY DEF JoinFits, ThreadTypes, QueueTypes, MainTypes, LocalsFit,
         Controlling, Threads
<1>8. StoppedIsQuiet' BY DEF StoppedIsQuiet, ThreadTypes
<1>9. /\ QueueTypes'
      /\ HistoryTypes'
      /\ WorkerFits'
      /\ NeverEmptyHanded'
      /\ InactiveIsIdle'
      /\ AtMostOneLateStart'
  BY DEF QueueTypes, HistoryTypes, WorkerFits, InHand, HoldsOff, Holding,
         NeverEmptyHanded, InactiveIsIdle, Finished, AtMostOneLateStart
<1> QED
  BY <1>1, <1>2, <1>3, <1>4, <1>5, <1>6, <1>7, <1>8, <1>9

(* Main tells a thread to pause or to go on.                               *)
LEMMA PauseOrResumeThreadKeeps ==
  ASSUME PoolInv, PauseOrResumeThread
  PROVE  PoolInv'
<1> USE TpoolrrAssumption
    DEF PoolInv, TypeOK, PauseOrResumeThread, Tell, Signal, shared, worker,
        main, history
<1>a. mi \in Threads
  BY DEF MainTypes, LocalsFit, Controlling, Threads
<1>b. Desire[mop] \in {"ACTIVE", "PAUSED"}
  BY DesireOf DEF Ending
<1>1. ThreadTypes' BY <1>a, <1>b DEF ThreadTypes
<1>2. MainTypes' BY <1>a DEF MainTypes, Threads, Desire
<1>3. HistoryTypes' BY DEF HistoryTypes, LocalsFit, Adding
<1>4. LocalsFit'
  BY DEF LocalsFit, Adding, Controlling, Ending, Desire, MainTypes,
         HistoryTypes
<1>5. WorkerFits'
  BY <1>a, <1>b DEF WorkerFits, InHand, HoldsOff, Holding, ThreadTypes,
         HistoryTypes, MutexHeld
<1>6. MutexHeld' BY DEF MutexHeld, NextInTurn, ThreadTypes
<1>7. NeverEmptyHanded' BY DEF NeverEmptyHanded, ThreadTypes, QueueTypes
<1>8. InactiveIsIdle' BY DEF InactiveIsIdle, InHand, Finished, ThreadTypes
<1>9. SleepIsJustified'
  BY DEF SleepIsJustified, NextInTurn, ThreadTypes, MutexHeld, WorkerFits
<1>10. AtMostOneLateStart'
  BY DEF AtMostOneLateStart, HistoryTypes, WorkerFits, HoldsOff, Holding
<1>11. EndedSoFar'
  BY DEF EndedSoFar, Controlling, Ending, ThreadTypes, MainTypes
<1>12. JoinFits'
  BY DEF JoinFits, ThreadTypes, QueueTypes, MainTypes, LocalsFit,
         Controlling, Threads
<1>13. StoppedIsQuiet' BY DEF StoppedIsQuiet, ThreadTypes
<1>14. QueueTypes'
  BY DEF QueueTypes
<1> QED
  BY <1>1, <1>2, <1>3, <1>4, <1>5, <1>6, <1>7, <1>8, <1>9, <1>10, <1>11,
     <1>12, <1>13, <1>14

(* Main tells a thread to end, or finds that it already has.               *)
LEMMA EndThreadKeeps ==
  ASSUME PoolInv, EndThread
  PROVE  PoolInv'
<1> USE TpoolrrAssumption
    DEF PoolInv, TypeOK, EndThread, Tell, shared, worker, main, history
<1>a. mi \in Threads
  BY DEF MainTypes, LocalsFit, Controlling, Threads
<1>b. Desire[mop] \in {"JOINED", "STOPPED"}
  BY DesireOf DEF Ending
<1>1. ThreadTypes' BY <1>a, <1>b DEF ThreadTypes
<1>2. MainTypes' BY <1>a DEF MainTypes, Threads, Desire
<1>3. HistoryTypes' BY DEF HistoryTypes, LocalsFit, Adding
<1>4. LocalsFit'
  BY DEF LocalsFit, Adding, Controlling, Ending, Desire, MainTypes,
         HistoryTypes
<1>5. WorkerFits'
  BY <1>a, <1>b DEF WorkerFits, InHand, HoldsOff, Holding, ThreadTypes,
         HistoryTypes, MutexHeld
<1>6. MutexHeld' BY DEF MutexHeld, NextInTurn, ThreadTypes
<1>7. SleepIsJustified'
  BY <1>a, <1>b DEF SleepIsJustified, NextInTurn, ThreadTypes, InactiveIsIdle,
         Finished
<1>8. AtMostOneLateStart'
  BY DEF AtMostOneLateStart, HistoryTypes, WorkerFits, HoldsOff, Holding
<1>9. EndedSoFar'
  BY <1>a DEF EndedSoFar, Controlling, Ending, Threads, InactiveIsIdle, Finished
<1>10. JoinFits'
  BY <1>a DEF JoinFits, ThreadTypes, InactiveIsIdle, Finished, Desire
<1>11. StoppedIsQuiet' BY DEF StoppedIsQuiet, ThreadTypes
<1>12. /\ QueueTypes'
      /\ NeverEmptyHanded'
      /\ InactiveIsIdle'
  BY DEF QueueTypes, NeverEmptyHanded, InactiveIsIdle, InHand, Finished
<1> QED
  BY <1>1, <1>2, <1>3, <1>4, <1>5, <1>6, <1>7, <1>8, <1>9, <1>10, <1>11,
     <1>12

(* Main wakes the thread it told to end.                                   *)
LEMMA EndSignalsKeeps ==
  ASSUME PoolInv, EndSignals
  PROVE  PoolInv'
<1> USE TpoolrrAssumption
    DEF PoolInv, TypeOK, EndSignals, Signal, shared, worker, main, history
<1>1. ThreadTypes' BY DEF ThreadTypes
<1>2. MainTypes' BY DEF MainTypes, Desire, LocalsFit, Adding, Controlling
<1>3. LocalsFit'
  BY DEF LocalsFit, Adding, Controlling, Ending, Desire, MainTypes,
         HistoryTypes
<1>4. WorkerFits'
  BY DEF WorkerFits, InHand, HoldsOff, Holding, ThreadTypes, HistoryTypes
<1>5. MutexHeld' BY DEF MutexHeld, NextInTurn, ThreadTypes
<1>6. NeverEmptyHanded' BY DEF NeverEmptyHanded, ThreadTypes, QueueTypes
<1>7. InactiveIsIdle' BY DEF InactiveIsIdle, InHand, Finished, ThreadTypes
<1>8. SleepIsJustified'
  BY DEF SleepIsJustified, NextInTurn, ThreadTypes, MutexHeld, WorkerFits
<1>9. EndedSoFar'
  BY DEF EndedSoFar, Controlling, Ending, ThreadTypes, MainTypes
<1>10. JoinFits'
  BY DEF JoinFits, ThreadTypes, QueueTypes, MainTypes, LocalsFit,
         Controlling, Threads
<1>11. StoppedIsQuiet' BY DEF StoppedIsQuiet, ThreadTypes
<1>12. /\ QueueTypes'
      /\ HistoryTypes'
      /\ AtMostOneLateStart'
  BY DEF QueueTypes, HistoryTypes, AtMostOneLateStart
<1> QED
  BY <1>1, <1>2, <1>3, <1>4, <1>5, <1>6, <1>7, <1>8, <1>9, <1>10, <1>11,
     <1>12

(* Main gets the thread back.                                              *)
LEMMA EndJoinsKeeps ==
  ASSUME PoolInv, EndJoins
  PROVE  PoolInv'
<1> USE TpoolrrAssumption
    DEF PoolInv, TypeOK, EndJoins, shared, worker, main, history
<1>1. MainTypes' BY DEF MainTypes, Desire, LocalsFit, Adding, Controlling
<1>2. LocalsFit'
  BY DEF LocalsFit, Adding, Controlling, Ending, Desire, MainTypes,
         HistoryTypes
<1>3. MutexHeld' BY DEF MutexHeld, NextInTurn, ThreadTypes
<1>4. SleepIsJustified'
  BY DEF SleepIsJustified, NextInTurn, ThreadTypes, MutexHeld, WorkerFits
<1>5. EndedSoFar' BY DEF EndedSoFar, Controlling, Ending, Threads, MainTypes
<1>6. JoinFits'
  BY DEF JoinFits, ThreadTypes, QueueTypes, MainTypes, LocalsFit,
         Controlling, Threads
<1>7. /\ QueueTypes'
      /\ ThreadTypes'
      /\ HistoryTypes'
      /\ WorkerFits'
      /\ NeverEmptyHanded'
      /\ InactiveIsIdle'
      /\ AtMostOneLateStart'
      /\ StoppedIsQuiet'
  BY DEF QueueTypes, ThreadTypes, HistoryTypes, WorkerFits, InHand, HoldsOff,
         Holding, NeverEmptyHanded, InactiveIsIdle, Finished,
         AtMostOneLateStart, StoppedIsQuiet
<1> QED
  BY <1>1, <1>2, <1>3, <1>4, <1>5, <1>6, <1>7

(* The call has been through all threads: if it was an ending one, none is *)
(* left.                                                                   *)
LEMMA ControlReturnsKeeps ==
  ASSUME PoolInv, ControlReturns
  PROVE  PoolInv'
<1> USE TpoolrrAssumption
    DEF PoolInv, TypeOK, ControlReturns, Return, shared, worker, main,
        history
<1>a. mop \in Ending => \A i \in Threads : wpc[i] = "exited"
  BY DEF EndedSoFar, Controlling, Threads, MainTypes
<1>b. \A i \in Threads : wpc[i] = "exited" => mutex[i] # "worker"
  BY DEF MutexHeld
<1>c. stopped' => stopped \/ mop \in Ending
  BY DEF Ending, MainTypes
<1>1. MainTypes' BY DEF MainTypes, Desire, LocalsFit, Adding, Controlling
<1>2. LocalsFit'
  BY DEF LocalsFit, Adding, Controlling, Ending, Desire, MainTypes,
         HistoryTypes
<1>3. MutexHeld' BY DEF MutexHeld, NextInTurn, ThreadTypes
<1>4. SleepIsJustified'
  BY DEF SleepIsJustified, NextInTurn, ThreadTypes, MutexHeld, WorkerFits
<1>5. EndedSoFar'
  BY DEF EndedSoFar, Controlling, Ending, ThreadTypes, MainTypes
<1>6. JoinFits'
  BY DEF JoinFits, ThreadTypes, QueueTypes, MainTypes, LocalsFit,
         Controlling, Threads
<1>7. StoppedIsQuiet' BY <1>a, <1>b, <1>c DEF StoppedIsQuiet
<1>8. /\ QueueTypes'
      /\ ThreadTypes'
      /\ HistoryTypes'
      /\ WorkerFits'
      /\ NeverEmptyHanded'
      /\ InactiveIsIdle'
      /\ AtMostOneLateStart'
  BY DEF QueueTypes, ThreadTypes, HistoryTypes, WorkerFits, InHand, HoldsOff,
         Holding, NeverEmptyHanded, InactiveIsIdle, Finished,
         AtMostOneLateStart
<1> QED
  BY <1>1, <1>2, <1>3, <1>4, <1>5, <1>6, <1>7, <1>8

(* pop and popall take a result.                                           *)
LEMMA PopFindsKeeps ==
  ASSUME PoolInv, PopFinds
  PROVE  PoolInv'
<1> USE TpoolrrAssumption
    DEF PoolInv, TypeOK, PopFinds, Take, Return, shared, worker, main,
        history
<1> DEFINE i == PopQueue
<1>a. i \in Threads
  <2>1. i = NextInTurn(mi)
    BY DEF PopQueue
  <2>2. mi \in Nat /\ rr \in Nat
    BY DEF MainTypes
  <2> QED BY <2>1, <2>2, NextInTurnIsThread
<1>b. /\ completion[i] \in Seq(Result)
      /\ completion[i] # <<>>
      /\ Len(completion[i]) \in Nat
  BY <1>a, LenProperties DEF QueueTypes
<1>c. /\ Head(completion[i]) \in Result
      /\ Tail(completion[i]) \in Seq(Result)
      /\ Len(Tail(completion[i])) = Len(completion[i]) - 1
  BY <1>b, HeadTailProperties
<1>1. QueueTypes' BY <1>a, <1>b, <1>c DEF QueueTypes
<1>2. MainTypes' BY DEF MainTypes, Desire, LocalsFit, Adding, Controlling
<1>3. HistoryTypes' BY <1>c DEF HistoryTypes
<1>4. LocalsFit'
  BY DEF LocalsFit, Adding, Controlling, Ending, Desire, MainTypes,
         HistoryTypes
<1>5. MutexHeld' BY DEF MutexHeld, NextInTurn, ThreadTypes
<1>6. SleepIsJustified'
  BY DEF SleepIsJustified, NextInTurn, ThreadTypes, MutexHeld, WorkerFits
<1>7. EndedSoFar'
  BY DEF EndedSoFar, Controlling, Ending, ThreadTypes, MainTypes
<1>8. JoinFits'
  BY DEF JoinFits, ThreadTypes, QueueTypes, MainTypes, LocalsFit,
         Controlling, Threads
<1>9. /\ ThreadTypes'
      /\ WorkerFits'
      /\ NeverEmptyHanded'
      /\ InactiveIsIdle'
      /\ AtMostOneLateStart'
      /\ StoppedIsQuiet'
  BY DEF ThreadTypes, WorkerFits, InHand, HoldsOff, Holding,
         NeverEmptyHanded, InactiveIsIdle, Finished, AtMostOneLateStart,
         StoppedIsQuiet
<1> QED
  BY <1>1, <1>2, <1>3, <1>4, <1>5, <1>6, <1>7, <1>8, <1>9

(* They pass an empty queue.                                               *)
LEMMA PopSkipsEmptyKeeps ==
  ASSUME PoolInv, PopSkipsEmpty
  PROVE  PoolInv'
<1> USE TpoolrrAssumption
    DEF PoolInv, TypeOK, PopSkipsEmpty, shared, worker, main, history
<1>1. MainTypes' BY DEF MainTypes, Desire, LocalsFit, Adding, Controlling
<1>2. LocalsFit'
  BY DEF LocalsFit, Adding, Controlling, Ending, Desire, MainTypes,
         HistoryTypes
<1>3. MutexHeld' BY DEF MutexHeld, NextInTurn, ThreadTypes
<1>4. SleepIsJustified'
  BY DEF SleepIsJustified, NextInTurn, ThreadTypes, MutexHeld, WorkerFits
<1>5. EndedSoFar'
  BY DEF EndedSoFar, Controlling, Ending, ThreadTypes, MainTypes
<1>6. JoinFits'
  BY DEF JoinFits, ThreadTypes, QueueTypes, MainTypes, LocalsFit,
         Controlling, Threads
<1>7. /\ QueueTypes'
      /\ ThreadTypes'
      /\ HistoryTypes'
      /\ WorkerFits'
      /\ NeverEmptyHanded'
      /\ InactiveIsIdle'
      /\ AtMostOneLateStart'
      /\ StoppedIsQuiet'
  BY DEF QueueTypes, ThreadTypes, HistoryTypes, WorkerFits, InHand, HoldsOff,
         Holding, NeverEmptyHanded, InactiveIsIdle, Finished,
         AtMostOneLateStart, StoppedIsQuiet
<1> QED
  BY <1>1, <1>2, <1>3, <1>4, <1>5, <1>6, <1>7

(* They found none.                                                        *)
LEMMA PopFindsNoneKeeps ==
  ASSUME PoolInv, PopFindsNone
  PROVE  PoolInv'
<1> USE TpoolrrAssumption
    DEF PoolInv, TypeOK, PopFindsNone, Return, shared, worker, main, history
<1>1. MainTypes' BY DEF MainTypes, Desire, LocalsFit, Adding, Controlling
<1>2. LocalsFit'
  BY DEF LocalsFit, Adding, Controlling, Ending, Desire, MainTypes,
         HistoryTypes
<1>3. MutexHeld' BY DEF MutexHeld, NextInTurn, ThreadTypes
<1>4. SleepIsJustified'
  BY DEF SleepIsJustified, NextInTurn, ThreadTypes, MutexHeld, WorkerFits
<1>5. EndedSoFar'
  BY DEF EndedSoFar, Controlling, Ending, ThreadTypes, MainTypes
<1>6. JoinFits'
  BY DEF JoinFits, ThreadTypes, QueueTypes, MainTypes, LocalsFit,
         Controlling, Threads
<1>7. /\ QueueTypes'
      /\ ThreadTypes'
      /\ HistoryTypes'
      /\ WorkerFits'
      /\ NeverEmptyHanded'
      /\ InactiveIsIdle'
      /\ AtMostOneLateStart'
      /\ StoppedIsQuiet'
  BY DEF QueueTypes, ThreadTypes, HistoryTypes, WorkerFits, InHand, HoldsOff,
         Holding, NeverEmptyHanded, InactiveIsIdle, Finished,
         AtMostOneLateStart, StoppedIsQuiet
<1> QED
  BY <1>1, <1>2, <1>3, <1>4, <1>5, <1>6, <1>7

(* popsome takes a result.                                                 *)
LEMMA PopsomeTakesKeeps ==
  ASSUME PoolInv, PopsomeTakes
  PROVE  PoolInv'
<1> USE TpoolrrAssumption
    DEF PoolInv, TypeOK, PopsomeTakes, Take, Return, shared, worker, main,
        history
<1> DEFINE i == PopQueue
<1>a. i \in Threads
  <2>1. i = mi
    BY DEF PopQueue
  <2>2. mi \in Nat /\ mi < N
    BY DEF MainTypes, LocalsFit
  <2> QED BY <2>1, <2>2 DEF Threads
<1>b. /\ completion[i] \in Seq(Result)
      /\ completion[i] # <<>>
      /\ Len(completion[i]) \in Nat
  BY <1>a, LenProperties DEF QueueTypes
<1>c. /\ Head(completion[i]) \in Result
      /\ Tail(completion[i]) \in Seq(Result)
      /\ Len(Tail(completion[i])) = Len(completion[i]) - 1
  BY <1>b, HeadTailProperties
<1>1. QueueTypes' BY <1>a, <1>b, <1>c DEF QueueTypes
<1>2. MainTypes' BY DEF MainTypes, Desire, LocalsFit, Adding, Controlling
<1>3. HistoryTypes' BY <1>c DEF HistoryTypes
<1>4. LocalsFit'
  BY DEF LocalsFit, Adding, Controlling, Ending, Desire, MainTypes,
         HistoryTypes
<1>5. MutexHeld' BY DEF MutexHeld, NextInTurn, ThreadTypes
<1>6. SleepIsJustified'
  BY DEF SleepIsJustified, NextInTurn, ThreadTypes, MutexHeld, WorkerFits
<1>7. EndedSoFar'
  BY DEF EndedSoFar, Controlling, Ending, ThreadTypes, MainTypes
<1>8. JoinFits'
  BY DEF JoinFits, ThreadTypes, QueueTypes, MainTypes, LocalsFit,
         Controlling, Threads
<1>9. /\ ThreadTypes'
      /\ WorkerFits'
      /\ NeverEmptyHanded'
      /\ InactiveIsIdle'
      /\ AtMostOneLateStart'
      /\ StoppedIsQuiet'
  BY DEF ThreadTypes, WorkerFits, InHand, HoldsOff, Holding,
         NeverEmptyHanded, InactiveIsIdle, Finished, AtMostOneLateStart,
         StoppedIsQuiet
<1> QED
  BY <1>1, <1>2, <1>3, <1>4, <1>5, <1>6, <1>7, <1>8, <1>9

(* popsome meets an empty queue.                                           *)
LEMMA PopsomeEndsKeeps ==
  ASSUME PoolInv, PopsomeEnds
  PROVE  PoolInv'
<1> USE TpoolrrAssumption
    DEF PoolInv, TypeOK, PopsomeEnds, Return, shared, worker, main, history
<1>1. MainTypes' BY DEF MainTypes, Desire, LocalsFit, Adding, Controlling
<1>2. LocalsFit'
  BY DEF LocalsFit, Adding, Controlling, Ending, Desire, MainTypes,
         HistoryTypes
<1>3. MutexHeld' BY DEF MutexHeld, NextInTurn, ThreadTypes
<1>4. SleepIsJustified'
  BY DEF SleepIsJustified, NextInTurn, ThreadTypes, MutexHeld, WorkerFits
<1>5. EndedSoFar'
  BY DEF EndedSoFar, Controlling, Ending, ThreadTypes, MainTypes
<1>6. JoinFits'
  BY DEF JoinFits, ThreadTypes, QueueTypes, MainTypes, LocalsFit,
         Controlling, Threads
<1>7. /\ QueueTypes'
      /\ ThreadTypes'
      /\ HistoryTypes'
      /\ WorkerFits'
      /\ NeverEmptyHanded'
      /\ InactiveIsIdle'
      /\ AtMostOneLateStart'
      /\ StoppedIsQuiet'
  BY DEF QueueTypes, ThreadTypes, HistoryTypes, WorkerFits, InHand, HoldsOff,
         Holding, NeverEmptyHanded, InactiveIsIdle, Finished,
         AtMostOneLateStart, StoppedIsQuiet
<1> QED
  BY <1>1, <1>2, <1>3, <1>4, <1>5, <1>6, <1>7

-----------------------------------------------------------------------------
(* The inductive invariant.                                                *)

(* It holds initially.                                                     *)
LEMMA InitPool == Init => PoolInv
<1> SUFFICES ASSUME Init PROVE PoolInv
  OBVIOUS
<1> USE TpoolrrAssumption DEF Init
<1>1. QueueTypes /\ ThreadTypes
  BY EmptySeq DEF QueueTypes, ThreadTypes
<1>2. MainTypes
  <2>1. mpc = "idle" /\ mop = "none" /\ mret = NoResult /\ rr \in Nat
    OBVIOUS
  <2>2. mi \in 0..N+1 /\ tries \in 0..3
    OBVIOUS
  <2>3. left \in 0..(IF N <= MaxJobs THEN MaxJobs ELSE N)
    OBVIOUS
  <2>4. stopped \in BOOLEAN
    OBVIOUS
  <2> QED BY ONLY <2>1, <2>2, <2>3, <2>4 DEF MainTypes
<1>3. HistoryTypes
  BY DEF HistoryTypes
<1>4. LocalsFit /\ WorkerFits
  BY DEF LocalsFit, WorkerFits, Adding, Controlling, InHand, HoldsOff
<1>5. MutexHeld /\ NeverEmptyHanded /\ InactiveIsIdle
  BY DEF MutexHeld, NeverEmptyHanded, InactiveIsIdle, InHand, Finished
<1>6. SleepIsJustified /\ AtMostOneLateStart
  BY DEF SleepIsJustified, AtMostOneLateStart
<1>7. EndedSoFar /\ JoinFits /\ StoppedIsQuiet
  BY DEF EndedSoFar, JoinFits, StoppedIsQuiet, Controlling
<1> QED
  BY <1>1, <1>2, <1>3, <1>4, <1>5, <1>6, <1>7 DEF PoolInv, TypeOK

(* Every step of a worker preserves it.                                    *)
LEMMA WorkerKeeps ==
  ASSUME PoolInv, NEW i \in Threads, Worker(i) \/ SpuriousWakeup(i)
  PROVE  PoolInv'
<1>1. CASE WorkerLock(i)
  BY <1>1, WorkerLockKeeps
<1>2. CASE \/ WorkerTakesJob(i) \/ WorkerHasNothing(i)
           \/ WorkerPauses(i) \/ WorkerExits(i)
  BY <1>2, DecideKeeps
<1>3. CASE WorkerSleeps(i)
  BY <1>3, WorkerSleepsKeeps
<1>4. CASE WorkerWakes(i)
  BY <1>4, WorkerWakesKeeps
<1>5. CASE WorkerDequeues(i)
  BY <1>5, WorkerDequeuesKeeps
<1>6. CASE WorkerStartsJob(i)
  BY <1>6, WorkerStartsJobKeeps
<1>7. CASE WorkerExpiresJob(i)
  <2>1. InHand(i) /\ Complete(i, 1)
    BY <1>7 DEF WorkerExpiresJob, InHand
  <2> QED BY <2>1, CompleteKeeps
<1>8. CASE WorkerFinishesJob(i)
  <2>1. InHand(i) /\ Complete(i, 0)
    BY <1>8 DEF WorkerFinishesJob, InHand
  <2> QED BY <2>1, CompleteKeeps
<1>9. CASE SpuriousWakeup(i)
  BY <1>9, SpuriousWakeupKeeps
<1> QED
  BY <1>1, <1>2, <1>3, <1>4, <1>5, <1>6, <1>7, <1>8, <1>9 DEF Worker

(* Every call of main preserves it.                                        *)
LEMMA CallKeeps ==
  ASSUME PoolInv, Call
  PROVE  PoolInv'
<1>1. CASE JobsAdd
  <2>1. 1 \in 1..MaxJobs
    BY <1>1, TpoolrrAssumption
       DEF JobsAdd, AddCall, PoolInv, TypeOK, HistoryTypes
  <2> QED BY <1>1, <2>1, AddCallKeeps DEF JobsAdd
<1>2. CASE JobsAddall
  BY <1>2, AddCallKeeps DEF JobsAddall
<1>3. CASE JobsAssign
  <2>1. N \in 1..MaxJobs
    BY <1>3, TpoolrrAssumption
       DEF JobsAssign, AddCall, PoolInv, TypeOK, HistoryTypes
  <2> QED BY <1>3, <2>1, AddCallKeeps DEF JobsAssign
<1>4. CASE JobsAssignBusy
  BY <1>4, JobsAssignBusyKeeps
<1>5. ASSUME NEW op \in DOMAIN Desire, ControlCall(op) PROVE PoolInv'
  BY <1>5, ControlCallKeeps
<1>6. CASE DeinitStopped
  BY <1>6, DeinitStoppedKeeps
<1>7. CASE CompletionsPop
  BY <1>7, PopCallKeeps, TpoolrrAssumption DEF CompletionsPop
<1>8. CASE CompletionsPopall
  <2>1. PICK n \in 1..MaxJobs : PopCall("popall", n)
    BY <1>8 DEF CompletionsPopall
  <2>2. n \in 1..(IF N <= MaxJobs THEN MaxJobs ELSE N)
    BY TpoolrrAssumption
  <2> QED BY <2>1, <2>2, PopCallKeeps
<1>9. CASE CompletionsPopsome
  <2>1. PICK n \in 1..N : PopCall("popsome", n)
    BY <1>9 DEF CompletionsPopsome
  <2>2. n \in 1..(IF N <= MaxJobs THEN MaxJobs ELSE N) /\ n <= N
    BY TpoolrrAssumption
  <2> QED BY <2>1, <2>2, PopCallKeeps
<1> QED
  BY <1>1, <1>2, <1>3, <1>4, <1>5, <1>6, <1>7, <1>8, <1>9 DEF Call

(* Every step of main in a call preserves it.                              *)
LEMMA ProceedKeeps ==
  ASSUME PoolInv, Proceed
  PROVE  PoolInv'
BY AddSkipsFullKeeps, AddEnqueuesKeeps, AddLocksKeeps, AddSignalsKeeps,
   AddBusyKeeps, ControlLocksKeeps, PauseOrResumeThreadKeeps, EndThreadKeeps,
   EndSignalsKeeps, EndJoinsKeeps, ControlReturnsKeeps, PopFindsKeeps,
   PopSkipsEmptyKeeps, PopFindsNoneKeeps, PopsomeTakesKeeps, PopsomeEndsKeeps
   DEF Proceed

(* A step that changes nothing preserves it.                               *)
LEMMA StutterKeeps ==
  ASSUME PoolInv, UNCHANGED vars
  PROVE  PoolInv'
<1> USE DEF PoolInv, TypeOK, vars, shared, worker, main, history
<1>1. QueueTypes' /\ ThreadTypes' /\ MainTypes' /\ HistoryTypes'
  BY DEF QueueTypes, ThreadTypes, MainTypes, HistoryTypes, Desire
<1>2. LocalsFit' /\ WorkerFits'
  BY DEF LocalsFit, WorkerFits, Adding, Controlling, Ending, Desire, InHand,
         HoldsOff, Holding
<1>3. MutexHeld' /\ NeverEmptyHanded' /\ InactiveIsIdle'
  BY DEF MutexHeld, NeverEmptyHanded, InactiveIsIdle, NextInTurn, InHand,
         Finished
<1>4. SleepIsJustified' /\ AtMostOneLateStart'
  BY DEF SleepIsJustified, AtMostOneLateStart, NextInTurn
<1>5. EndedSoFar' /\ JoinFits' /\ StoppedIsQuiet'
  BY DEF EndedSoFar, JoinFits, StoppedIsQuiet, Controlling, Ending
<1> QED
  BY <1>1, <1>2, <1>3, <1>4, <1>5

LEMMA NextPool == PoolInv /\ [Next]_vars => PoolInv'
BY WorkerKeeps, CallKeeps, ProceedKeeps, StutterKeeps DEF Next

-----------------------------------------------------------------------------
(* The theorems.                                                           *)

(* PoolInv is an invariant of the pool: whatever calls main makes and      *)
(* however the workers interleave with them, the states, the mutexes and   *)
(* the queues fit where every thread is.                                   *)
THEOREM PoolCorrect == Spec => []PoolInv
BY InitPool, NextPool, PTL DEF Spec

(* Every variable has its type; in particular no queue of the pool ever    *)
(* holds more than jobs_per_thread jobs, and the loop indices of main stay *)
(* in range.                                                               *)
THEOREM PoolTypeCorrect == Spec => []TypeOK
<1>1. PoolInv => TypeOK
  BY DEF PoolInv
<1> QED BY <1>1, PoolCorrect, PTL

(* A thread and main never both hold the mutex that guards its states.     *)
THEOREM PoolMutexHeld == Spec => []MutexHeld
<1>1. PoolInv => MutexHeld
  BY DEF PoolInv
<1> QED BY <1>1, PoolCorrect, PTL

(* A worker that has left its check to take a job always finds one, so it  *)
(* never runs the job of an earlier round again.                           *)
THEOREM WorkersFindJobs == Spec => []NeverEmptyHanded
<1>1. PoolInv => NeverEmptyHanded
  BY DEF PoolInv
<1> QED BY <1>1, PoolCorrect, PTL

(* current_states tells the truth: a thread that is not ACTIVE is idle and *)
(* one whose state is final has left.                                      *)
THEOREM StatesAreHonest == Spec => []InactiveIsIdle
<1>1. PoolInv => InactiveIsIdle
  BY DEF PoolInv
<1> QED BY <1>1, PoolCorrect, PTL

(* No wakeup is lost: a worker that sleeps on a job or on an order to end  *)
(* is one that main is about to signal.                                    *)
THEOREM NoWakeupIsLost == Spec => []SleepIsJustified
<1>1. PoolInv => SleepIsJustified
  BY DEF PoolInv
<1> QED BY <1>1, PoolCorrect, PTL

(* After pause or stop_safe has told a thread to hold off, it starts one   *)
(* job at most.                                                            *)
THEOREM LateStartsBounded == Spec => []AtMostOneLateStart
<1>1. PoolInv => AtMostOneLateStart
  BY DEF PoolInv
<1> QED BY <1>1, PoolCorrect, PTL

(* When stop_safe, join or deinit has returned, no worker is left.         *)
THEOREM StoppedPoolIsQuiet == Spec => []StoppedIsQuiet
<1>1. PoolInv => StoppedIsQuiet
  BY DEF PoolInv
<1> QED BY <1>1, PoolCorrect, PTL

(* When join gets a thread back, that thread has run all its jobs.         *)
THEOREM JoinLeavesNothing == Spec => JoinRunsAll
<1>1. PoolInv => (EndJoins /\ mop = "join" => submission[mi] = <<>>)
  BY DEF PoolInv, JoinFits, EndJoins
<1> QED BY <1>1, PoolCorrect, PTL DEF JoinRunsAll

-----------------------------------------------------------------------------
(* The jobs.  The inductive invariant, in terms of where a job is and not  *)
(* of how many places it has.                                              *)
IsQueued(i, j) == \E k \in 1..Len(submission[i]) : submission[i][k] = j
IsInHand(i, j) == InHand(i) /\ wjob[i] = j
IsCompleted(i, j) == \E k \in 1..Len(completion[i]) : completion[i][k].job = j

IsAt(i, j) == IsQueued(i, j) \/ IsInHand(i, j) \/ IsCompleted(i, j)

IsOut(j) == \E r \in popped \cup dropped : r.job = j

(* From its unclaimed results to its queue, the jobs of a thread increase. *)
QueueOrder(i) ==
  \A k, l \in 1..Len(submission[i]) : k < l => submission[i][k] < submission[i][l]
HandOrder(i) ==
  InHand(i) => /\ \A k \in 1..Len(submission[i]) : wjob[i] < submission[i][k]
               /\ \A k \in 1..Len(completion[i]) : completion[i][k].job < wjob[i]
CompletionOrder(i) ==
  /\ \A k, l \in 1..Len(completion[i]) :
       k < l => completion[i][k].job < completion[i][l].job
  /\ \A k \in 1..Len(completion[i]) : \A l \in 1..Len(submission[i]) :
       completion[i][k].job < submission[i][l]

OrderInv == \A i \in Threads : QueueOrder(i) /\ HandOrder(i) /\ CompletionOrder(i)

(* A job that was added is with one thread or out, and out once.           *)
OneThread == \A i, t \in Threads : \A j \in Jobs : IsAt(i, j) /\ IsAt(t, j) => i = t
NotOut == \A i \in Threads : \A j \in Jobs : IsAt(i, j) => ~IsOut(j)
OutOnce == /\ \A r, s \in popped \cup dropped : r.job = s.job => r = s
           /\ popped \cap dropped = {}
Added == \A j \in Jobs : j <= added <=> IsOut(j) \/ \E i \in Threads : IsAt(i, j)

PlacesInv == OneThread /\ NotOut /\ OutOnce /\ Added

NotYetRun == \A j \in Jobs : j > added => runs[j] = 0

JobsInv == OrderInv /\ PlacesInv /\ NotYetRun /\ HonestResults

(* What the steps need of the types.                                       *)
LEMMA QueuesAre ==
  ASSUME PoolInv
  PROVE  /\ submission \in [Threads -> Seq(Jobs)]
         /\ completion \in [Threads -> Seq(Result)]
         /\ wpc \in [Threads -> {"lock", "check", "wait", "asleep", "woken",
                                 "dequeue", "start", "running", "exited"}]
         /\ wjob \in [Threads -> 0..MaxJobs]
         /\ runs \in [Jobs -> Nat]
         /\ popped \subseteq Result /\ dropped \subseteq Result
         /\ added \in 0..MaxJobs /\ MaxJobs \in Nat
         /\ \A i \in Threads : InHand(i) => wjob[i] \in Jobs
BY TpoolrrAssumption
   DEF PoolInv, TypeOK, QueueTypes, ThreadTypes, HistoryTypes, WorkerFits

(* The elements of a queue are jobs, those of the other results.           *)
LEMMA ElementsAre ==
  ASSUME PoolInv, NEW i \in Threads
  PROVE  /\ Len(submission[i]) \in Nat /\ Len(completion[i]) \in Nat
         /\ \A k \in 1..Len(submission[i]) : submission[i][k] \in Jobs
         /\ \A k \in 1..Len(completion[i]) : /\ completion[i][k] \in Result
                                             /\ completion[i][k].job \in Jobs
                                             /\ completion[i][k].flags \in {0, 1}
<1>1. submission[i] \in Seq(Jobs) /\ completion[i] \in Seq(Result)
  BY QueuesAre
<1>2. \A k \in 1..Len(completion[i]) : completion[i][k] \in Result
  BY <1>1, ElementOfSeq
<1> QED BY <1>1, <1>2, ElementOfSeq, LenProperties DEF Result

-----------------------------------------------------------------------------
(* Steps that move no job and change no result.                            *)
LEMMA QuietKeepsJobs ==
  ASSUME PoolInv, JobsInv,
         UNCHANGED <<submission, completion, wjob, runs, dropped, popped, added>>,
         \A i \in Threads : \/ wpc'[i] = wpc[i]
                            \/ /\ wpc[i] \notin {"start", "running"}
                               /\ wpc'[i] \notin {"start", "running"}
  PROVE  JobsInv'
<1>1. \A i \in Threads : InHand(i)' = InHand(i)
  BY DEF InHand
<1>2. OrderInv'
  BY <1>1 DEF JobsInv, OrderInv, QueueOrder, HandOrder, CompletionOrder
<1>3. /\ \A i \in Threads : \A j \in Jobs : IsAt(i, j)' <=> IsAt(i, j)
      /\ \A j \in Jobs : IsOut(j)' <=> IsOut(j)
  BY <1>1 DEF IsAt, IsOut, IsQueued, IsInHand, IsCompleted
<1>4. PlacesInv'
  BY <1>3 DEF JobsInv, PlacesInv, OneThread, NotOut, OutOnce, Added
<1>5. NotYetRun' /\ HonestResults'
  BY DEF JobsInv, NotYetRun, HonestResults
<1> QED BY <1>2, <1>4, <1>5 DEF JobsInv

-----------------------------------------------------------------------------
(* The steps that move a job.                                              *)

(* From the queue into the hand: the front, which is below all the others. *)
LEMMA DequeuesKeepsJobs ==
  ASSUME PoolInv, JobsInv, NEW i \in Threads, WorkerDequeues(i)
  PROVE  JobsInv'
<1>0. /\ submission[i] \in Seq(Jobs) /\ submission[i] # <<>> /\ ~InHand(i)
      /\ Len(submission[i]) \in Nat
  BY QueuesAre, LenProperties DEF PoolInv, NeverEmptyHanded, WorkerDequeues, InHand
<1>1. /\ Len(Tail(submission[i])) = Len(submission[i]) - 1
      /\ \A k \in 1..Len(submission[i])-1 : Tail(submission[i])[k] = submission[i][k + 1]
      /\ Head(submission[i]) = submission[i][1] /\ 1 \in 1..Len(submission[i])
  BY <1>0, HeadTailProperties
<1>2. /\ submission' = [submission EXCEPT ![i] = Tail(submission[i])]
      /\ wjob' = [wjob EXCEPT ![i] = submission[i][1]]
      /\ wpc' = [wpc EXCEPT ![i] = "start"]
      /\ UNCHANGED <<completion, runs, popped, dropped, added>>
  BY <1>0, <1>1 DEF WorkerDequeues, WorkerGoes, history
<1>3. /\ submission'[i] = Tail(submission[i]) /\ wjob'[i] = submission[i][1]
      /\ Len(submission'[i]) = Len(submission[i]) - 1
      /\ \A k \in 1..Len(submission'[i]) : /\ k + 1 \in 1..Len(submission[i])
                                           /\ submission'[i][k] = submission[i][k + 1]
      /\ InHand(i)'
      /\ \A t \in Threads \ {i} : /\ submission'[t] = submission[t]
                                  /\ wjob'[t] = wjob[t] /\ wpc'[t] = wpc[t]
                                  /\ InHand(t)' = InHand(t)
  BY <1>0, <1>1, <1>2, QueuesAre DEF InHand
<1>4. OrderInv'
  <2>1. ASSUME NEW t \in Threads \ {i}
        PROVE  QueueOrder(t)' /\ HandOrder(t)' /\ CompletionOrder(t)'
    BY <1>2, <1>3 DEF JobsInv, OrderInv, QueueOrder, HandOrder, CompletionOrder
  <2>2. QueueOrder(i)'
    BY <1>0, <1>3 DEF JobsInv, OrderInv, QueueOrder
  <2>3. HandOrder(i)'
    <3>1. \A k \in 1..Len(submission'[i]) : wjob'[i] < submission'[i][k]
      <4>1. \A k \in 1..Len(submission'[i]) : 1 < k + 1
        BY <1>0, <1>3
      <4> QED BY <1>1, <1>3, <4>1 DEF JobsInv, OrderInv, QueueOrder
    <3>2. \A k \in 1..Len(completion'[i]) : completion'[i][k].job < wjob'[i]
      BY <1>1, <1>2, <1>3 DEF JobsInv, OrderInv, CompletionOrder
    <3> QED BY <3>1, <3>2 DEF HandOrder
  <2>4. CompletionOrder(i)'
    BY <1>0, <1>2, <1>3 DEF JobsInv, OrderInv, CompletionOrder
  <2> QED BY <2>1, <2>2, <2>3, <2>4 DEF OrderInv
<1>5. /\ \A t \in Threads : \A j \in Jobs : IsAt(t, j)' <=> IsAt(t, j)
      /\ \A j \in Jobs : IsOut(j)' <=> IsOut(j)
  <2>1. ASSUME NEW t \in Threads \ {i}, NEW j \in Jobs PROVE IsAt(t, j)' <=> IsAt(t, j)
    BY <1>2, <1>3 DEF IsAt, IsQueued, IsInHand, IsCompleted
  <2>2. ASSUME NEW j \in Jobs PROVE IsAt(i, j)' <=> IsAt(i, j)
    <3>1. IsCompleted(i, j)' <=> IsCompleted(i, j)
      BY <1>2 DEF IsCompleted
    <3>2. IsInHand(i, j)' <=> submission[i][1] = j
      BY <1>3 DEF IsInHand
    <3>3. ~IsInHand(i, j)
      BY <1>0 DEF IsInHand
    <3>4. IsQueued(i, j) <=> submission[i][1] = j \/ IsQueued(i, j)'
      <4>1. \A k \in 1..Len(submission[i]) : k = 1 \/ k - 1 \in 1..Len(submission'[i])
        BY <1>0, <1>3
      <4>2. \A k \in 1..Len(submission[i]) : k # 1 => submission'[i][k - 1] = submission[i][k]
        BY <1>0, <1>3, <4>1
      <4>3. ASSUME IsQueued(i, j) PROVE submission[i][1] = j \/ IsQueued(i, j)'
        BY <4>1, <4>2, <4>3 DEF IsQueued
      <4>4. ASSUME IsQueued(i, j)' PROVE IsQueued(i, j)
        <5>1. PICK k \in 1..Len(submission'[i]) : submission'[i][k] = j
          BY <4>4 DEF IsQueued
        <5>2. k + 1 \in 1..Len(submission[i]) /\ submission[i][k + 1] = j
          BY <1>3, <5>1
        <5> QED BY <5>2 DEF IsQueued
      <4>5. submission[i][1] = j => IsQueued(i, j)
        BY <1>1 DEF IsQueued
      <4> QED BY <4>3, <4>4, <4>5
    <3> QED BY <3>1, <3>2, <3>3, <3>4 DEF IsAt
  <2>3. \A j \in Jobs : IsOut(j)' <=> IsOut(j)
    BY <1>2 DEF IsOut
  <2> QED BY <2>1, <2>2, <2>3
<1>6. PlacesInv'
  BY <1>2, <1>5 DEF JobsInv, PlacesInv, OneThread, NotOut, OutOnce, Added
<1>7. NotYetRun'
  BY <1>2 DEF JobsInv, NotYetRun
<1>8. HonestResults'
  <2>1. \A r \in popped' \cup dropped' : runs'[r.job] = 1 - r.flags
    BY <1>2 DEF JobsInv, HonestResults
  <2>2. \A t \in Threads : \A k \in 1..Len(completion'[t]) :
          runs'[completion'[t][k].job] = 1 - completion'[t][k].flags
    BY <1>2 DEF JobsInv, HonestResults
  <2>3. \A t \in Threads : \A k \in 1..Len(submission'[t]) : runs'[submission'[t][k]] = 0
    BY <1>2, <1>3 DEF JobsInv, HonestResults
  <2>4. \A t \in Threads : /\ wpc'[t] = "start" => runs'[wjob'[t]] = 0
                           /\ wpc'[t] = "running" => runs'[wjob'[t]] = 1
    BY <1>1, <1>2, <1>3, QueuesAre DEF JobsInv, HonestResults
  <2> QED BY <2>1, <2>2, <2>3, <2>4 DEF HonestResults
<1> QED BY <1>4, <1>6, <1>7, <1>8 DEF JobsInv

(* The start of the job in hand: no other place has that job.              *)
LEMMA StartsKeepsJobs ==
  ASSUME PoolInv, JobsInv, NEW i \in Threads, WorkerStartsJob(i)
  PROVE  JobsInv'
<1>0. /\ InHand(i) /\ wjob[i] \in Jobs /\ wpc[i] = "start" /\ runs[wjob[i]] = 0
  BY QueuesAre DEF WorkerStartsJob, InHand, JobsInv, HonestResults
<1>1. /\ UNCHANGED <<submission, completion, wjob, popped, dropped, added>>
      /\ wpc' = [wpc EXCEPT ![i] = "running"]
      /\ runs' = [runs EXCEPT ![wjob[i]] = runs[wjob[i]] + 1]
  BY DEF WorkerStartsJob, WorkerGoes, shared
<1>2. \A t \in Threads : InHand(t)' = InHand(t)
  BY <1>0, <1>1, QueuesAre DEF InHand
<1>3. OrderInv'
  BY <1>1, <1>2 DEF JobsInv, OrderInv, QueueOrder, HandOrder, CompletionOrder
<1>4. /\ \A t \in Threads : \A j \in Jobs : IsAt(t, j)' <=> IsAt(t, j)
      /\ \A j \in Jobs : IsOut(j)' <=> IsOut(j)
  BY <1>1, <1>2 DEF IsAt, IsOut, IsQueued, IsInHand, IsCompleted
<1>5. PlacesInv'
  BY <1>1, <1>4 DEF JobsInv, PlacesInv, OneThread, NotOut, OutOnce, Added
<1>6. IsAt(i, wjob[i])
  BY <1>0 DEF IsAt, IsInHand
<1>7. \A j \in Jobs : j # wjob[i] => runs'[j] = runs[j]
  BY <1>0, <1>1, QueuesAre
<1>8. NotYetRun'
  <2>1. wjob[i] <= added
    BY <1>0, <1>6 DEF JobsInv, PlacesInv, Added
  <2>2. added \in Nat /\ \A j \in Jobs : j > added => j # wjob[i]
    BY <2>1, <1>0, QueuesAre DEF Jobs
  <2> QED BY <1>1, <1>7, <2>2 DEF JobsInv, NotYetRun
<1>9. HonestResults'
  <2>1. \A r \in popped' \cup dropped' : runs'[r.job] = 1 - r.flags
    <3> SUFFICES ASSUME NEW r \in popped \cup dropped PROVE runs'[r.job] = 1 - r.flags
      BY <1>1
    <3>1. r.job \in Jobs /\ IsOut(r.job)
      BY QueuesAre DEF IsOut, Result
    <3>2. r.job # wjob[i]
      BY <3>1, <1>6 DEF JobsInv, PlacesInv, NotOut
    <3> QED BY <3>1, <3>2, <1>7 DEF JobsInv, HonestResults
  <2>2. ASSUME NEW t \in Threads, NEW k \in 1..Len(completion[t])
        PROVE  runs'[completion[t][k].job] = 1 - completion[t][k].flags
    <3>1. completion[t][k].job \in Jobs
      BY ElementsAre
    <3>2. ASSUME completion[t][k].job = wjob[i] PROVE FALSE
      <4>1. IsAt(t, wjob[i])
        BY <3>2 DEF IsAt, IsCompleted
      <4>2. t = i
        BY <4>1, <1>0, <1>6 DEF JobsInv, PlacesInv, OneThread
      <4>3. completion[i][k].job < wjob[i]
        BY <4>2, <1>0 DEF JobsInv, OrderInv, HandOrder
      <4> QED BY <4>2, <4>3, <3>2, <1>0 DEF Jobs
    <3> QED BY <3>1, <3>2, <1>7 DEF JobsInv, HonestResults
  <2>3. ASSUME NEW t \in Threads, NEW k \in 1..Len(submission[t])
        PROVE  runs'[submission[t][k]] = 0
    <3>1. submission[t][k] \in Jobs
      BY ElementsAre
    <3>2. ASSUME submission[t][k] = wjob[i] PROVE FALSE
      <4>1. IsAt(t, wjob[i])
        BY <3>2 DEF IsAt, IsQueued
      <4>2. t = i
        BY <4>1, <1>0, <1>6 DEF JobsInv, PlacesInv, OneThread
      <4>3. wjob[i] < submission[i][k]
        BY <4>2, <1>0 DEF JobsInv, OrderInv, HandOrder
      <4> QED BY <4>2, <4>3, <3>2, <1>0 DEF Jobs
    <3> QED BY <3>1, <3>2, <1>7 DEF JobsInv, HonestResults
  <2>4. ASSUME NEW t \in Threads
        PROVE  /\ wpc'[t] = "start" => runs'[wjob[t]] = 0
               /\ wpc'[t] = "running" => runs'[wjob[t]] = 1
    <3>1. CASE t = i
      <4>1. runs'[wjob[i]] = 1
        BY <1>0, <1>1, QueuesAre
      <4> QED BY <3>1, <4>1, <1>1, QueuesAre
    <3>2. CASE t # i /\ InHand(t)
      <4>1. wjob[t] \in Jobs /\ IsAt(t, wjob[t])
        BY <3>2, QueuesAre DEF IsAt, IsInHand
      <4>2. wjob[t] # wjob[i]
        BY <4>1, <3>2, <1>6 DEF JobsInv, PlacesInv, OneThread
      <4>3. wpc'[t] = wpc[t]
        BY <3>2, <1>1, QueuesAre
      <4> QED BY <4>1, <4>2, <4>3, <1>7 DEF JobsInv, HonestResults
    <3>3. CASE t # i /\ ~InHand(t)
      BY <3>3, <1>1, QueuesAre DEF InHand
    <3> QED BY <3>1, <3>2, <3>3
  <2> QED BY <2>1, <2>2, <2>3, <2>4, <1>1 DEF HonestResults
<1> QED BY <1>3, <1>5, <1>8, <1>9 DEF JobsInv

(* Only the job in hand leaves its thread for what is out: the places that *)
(* are as before are those of every other job.                             *)
LEMMA LeavesKeepsPlaces ==
  ASSUME PoolInv, JobsInv, NEW i \in Threads, NEW res \in Result,
         IsAt(i, res.job), ~IsAt(i, res.job)',
         \A t \in Threads : \A j \in Jobs : j # res.job \/ t # i => (IsAt(t, j)' <=> IsAt(t, j)),
         \/ popped' = popped \cup {res} /\ dropped' = dropped
         \/ dropped' = dropped \cup {res} /\ popped' = popped,
         added' = added
  PROVE  PlacesInv'
<1>0. res.job \in Jobs
  BY DEF Result
<1>1. ~IsOut(res.job)
  BY <1>0 DEF JobsInv, PlacesInv, NotOut
<1>2. \A j \in Jobs : IsOut(j)' <=> IsOut(j) \/ j = res.job
  BY DEF IsOut
<1>3. \A t \in Threads : IsAt(t, res.job) => t = i
  BY <1>0 DEF JobsInv, PlacesInv, OneThread
<1>4. OneThread'
  BY <1>3 DEF JobsInv, PlacesInv, OneThread
<1>5. NotOut'
  BY <1>2, <1>3 DEF JobsInv, PlacesInv, NotOut
<1>6. OutOnce'
  <2>1. \A r \in popped \cup dropped : r.job # res.job
    BY <1>1 DEF IsOut
  <2> QED BY <2>1 DEF JobsInv, PlacesInv, OutOnce
<1>7. Added'
  BY <1>0, <1>2, <1>3 DEF JobsInv, PlacesInv, Added
<1> QED BY <1>4, <1>5, <1>6, <1>7 DEF PlacesInv

(* A job that expired, or that ran, leaves the hand for the completion     *)
(* queue or, when that is full, for nowhere.                               *)
LEMMA CompleteKeepsJobs ==
  ASSUME PoolInv, JobsInv, NEW i \in Threads, NEW flags \in {0, 1},
         Complete(i, flags), InHand(i), runs[wjob[i]] = 1 - flags
  PROVE  JobsInv'
<1>p. PICK res : res = [job |-> wjob[i], flags |-> flags]
  OBVIOUS
<1>0. /\ wjob[i] \in Jobs /\ res \in Result /\ res.job = wjob[i] /\ res.flags = flags
      /\ completion[i] \in Seq(Result) /\ Len(completion[i]) \in Nat
  BY <1>p, QueuesAre, ElementsAre DEF Result
<1>1. /\ UNCHANGED <<submission, wjob, runs, popped, added>>
      /\ wpc' = [wpc EXCEPT ![i] = "lock"]
      /\ \/ dropped' = dropped \cup {res} /\ completion' = completion
         \/ /\ completion' = [completion EXCEPT ![i] = Append(completion[i], res)]
            /\ dropped' = dropped
  BY <1>p DEF Complete, WorkerGoes
<1>2. /\ ~InHand(i)' /\ \A t \in Threads \ {i} : InHand(t)' = InHand(t)
  BY <1>1, QueuesAre DEF InHand
<1>3. NotYetRun'
  BY <1>1 DEF JobsInv, NotYetRun
<1>4. /\ \A t \in Threads : \A k \in 1..Len(submission'[t]) : runs'[submission'[t][k]] = 0
      /\ \A t \in Threads : /\ wpc'[t] = "start" => runs'[wjob'[t]] = 0
                            /\ wpc'[t] = "running" => runs'[wjob'[t]] = 1
  BY <1>1, QueuesAre DEF JobsInv, HonestResults
<1>5. CASE dropped' = dropped \cup {res} /\ completion' = completion
  <2>1. OrderInv'
    BY <1>1, <1>2, <1>5 DEF JobsInv, OrderInv, QueueOrder, HandOrder, CompletionOrder
  <2>2. PlacesInv'
    <3>1. IsAt(i, res.job)
      BY <1>0 DEF IsAt, IsInHand
    <3>2. ~IsAt(i, res.job)'
      <4>1. \A k \in 1..Len(submission[i]) : submission[i][k] # res.job
        BY <1>0, ElementsAre DEF JobsInv, OrderInv, HandOrder, Jobs
      <4>2. \A k \in 1..Len(completion[i]) : completion[i][k].job # res.job
        BY <1>0, ElementsAre DEF JobsInv, OrderInv, HandOrder, Jobs
      <4>3. ~IsQueued(i, res.job)' /\ ~IsCompleted(i, res.job)'
        BY <4>1, <4>2, <1>1, <1>5 DEF IsQueued, IsCompleted
      <4> QED BY <4>3, <1>2 DEF IsAt, IsInHand
    <3>3. \A t \in Threads : \A j \in Jobs :
            j # res.job \/ t # i => (IsAt(t, j)' <=> IsAt(t, j))
      BY <1>0, <1>1, <1>2, <1>5 DEF IsAt, IsQueued, IsInHand, IsCompleted
    <3>4. popped' = popped /\ dropped' = dropped \cup {res} /\ added' = added
      BY <1>1, <1>5
    <3> QED BY <3>1, <3>2, <3>3, <3>4, <1>0, LeavesKeepsPlaces
  <2>3. HonestResults'
    BY <1>0, <1>1, <1>4, <1>5 DEF JobsInv, HonestResults
  <2> QED BY <2>1, <2>2, <2>3, <1>3 DEF JobsInv
<1>6. CASE /\ completion' = [completion EXCEPT ![i] = Append(completion[i], res)]
           /\ dropped' = dropped
  <2>0. /\ Len(completion'[i]) = Len(completion[i]) + 1
        /\ \A k \in 1..Len(completion[i]) : completion'[i][k] = completion[i][k]
        /\ completion'[i][Len(completion[i]) + 1] = res
        /\ \A t \in Threads \ {i} : completion'[t] = completion[t]
    BY <1>0, <1>6, QueuesAre, AppendProperties
  <2>a. \A k \in 1..Len(completion'[i]) :
          \/ k \in 1..Len(completion[i]) /\ completion'[i][k] = completion[i][k]
          \/ k = Len(completion[i]) + 1 /\ completion'[i][k] = res
    BY <1>0, <2>0
  <2>1. OrderInv'
    <3>1. ASSUME NEW t \in Threads \ {i}
          PROVE  QueueOrder(t)' /\ HandOrder(t)' /\ CompletionOrder(t)'
      BY <1>1, <1>2, <2>0 DEF JobsInv, OrderInv, QueueOrder, HandOrder, CompletionOrder
    <3>2. QueueOrder(i)' /\ HandOrder(i)'
      BY <1>1, <1>2 DEF JobsInv, OrderInv, QueueOrder, HandOrder
    <3>3. \A k, l \in 1..Len(completion'[i]) :
            k < l => completion'[i][k].job < completion'[i][l].job
      <4>1. /\ \A k, l \in 1..Len(completion[i]) :
                 k < l => completion[i][k].job < completion[i][l].job
            /\ \A k \in 1..Len(completion[i]) : completion[i][k].job < res.job
        BY <1>0 DEF JobsInv, OrderInv, HandOrder, CompletionOrder
      <4>2. Len(completion[i]) \in Nat
        BY <1>0, QueuesAre
      <4>3. SUFFICES ASSUME NEW k \in 1..Len(completion'[i]),
                            NEW l \in 1..Len(completion'[i]), k < l
                     PROVE  completion'[i][k].job < completion'[i][l].job
        OBVIOUS
      <4>4. k \in 1..Len(completion[i]) /\ completion'[i][k] = completion[i][k]
        BY <2>0, <2>a, <4>2, <4>3
      <4>5. CASE l \in 1..Len(completion[i]) /\ completion'[i][l] = completion[i][l]
        BY <4>1, <4>3, <4>4, <4>5
      <4>6. CASE completion'[i][l] = res
        BY <4>1, <4>4, <4>6
      <4> QED BY <2>a, <4>5, <4>6
    <3>4. \A k \in 1..Len(completion'[i]) : \A l \in 1..Len(submission[i]) :
            completion'[i][k].job < submission[i][l]
      BY <1>0, <2>a DEF JobsInv, OrderInv, HandOrder, CompletionOrder
    <3> QED BY <3>1, <3>2, <3>3, <3>4, <1>1 DEF OrderInv, CompletionOrder
  <2>2. \A t \in Threads : \A j \in Jobs : IsAt(t, j)' <=> IsAt(t, j)
    <3>1. ASSUME NEW t \in Threads \ {i}, NEW j \in Jobs PROVE IsAt(t, j)' <=> IsAt(t, j)
      BY <1>1, <1>2, <2>0 DEF IsAt, IsQueued, IsInHand, IsCompleted
    <3>2. ASSUME NEW j \in Jobs PROVE IsAt(i, j)' <=> IsAt(i, j)
      <4>1. IsQueued(i, j)' <=> IsQueued(i, j)
        BY <1>1 DEF IsQueued
      <4>2. ~IsInHand(i, j)' /\ (IsInHand(i, j) <=> j = res.job)
        BY <1>0, <1>2 DEF IsInHand
      <4>3. IsCompleted(i, j)' => IsCompleted(i, j) \/ j = res.job
        BY <2>a DEF IsCompleted
      <4>4. IsCompleted(i, j) => IsCompleted(i, j)'
        <5>1. \A k \in 1..Len(completion[i]) : k \in 1..Len(completion'[i])
          BY <1>0, <2>0
        <5> QED BY <5>1, <2>0 DEF IsCompleted
      <4>5. j = res.job => IsCompleted(i, j)'
        <5>1. Len(completion[i]) + 1 \in 1..Len(completion'[i])
          BY <1>0, <2>0
        <5> QED BY <5>1, <2>0 DEF IsCompleted
      <4> QED BY <4>1, <4>2, <4>3, <4>4, <4>5 DEF IsAt
    <3> QED BY <3>1, <3>2
  <2>3. \A j \in Jobs : IsOut(j)' <=> IsOut(j)
    BY <1>1, <1>6 DEF IsOut
  <2>4. PlacesInv'
    BY <2>2, <2>3, <1>1, <1>6 DEF JobsInv, PlacesInv, OneThread, NotOut, OutOnce, Added
  <2>5. HonestResults'
    <3>1. \A t \in Threads : \A k \in 1..Len(completion'[t]) :
            runs'[completion'[t][k].job] = 1 - completion'[t][k].flags
      <4>1. ASSUME NEW k \in 1..Len(completion'[i])
            PROVE  runs'[completion'[i][k].job] = 1 - completion'[i][k].flags
        <5>1. CASE k \in 1..Len(completion[i]) /\ completion'[i][k] = completion[i][k]
          BY <5>1, <1>1 DEF JobsInv, HonestResults
        <5>2. CASE completion'[i][k] = res
          BY <5>2, <1>0, <1>1
        <5> QED BY <5>1, <5>2, <2>a
      <4>2. ASSUME NEW t \in Threads \ {i}, NEW k \in 1..Len(completion'[t])
            PROVE  runs'[completion'[t][k].job] = 1 - completion'[t][k].flags
        BY <1>1, <2>0 DEF JobsInv, HonestResults
      <4> QED BY <4>1, <4>2
    <3> QED BY <3>1, <1>1, <1>4, <1>6 DEF JobsInv, HonestResults
  <2> QED BY <2>1, <2>4, <2>5, <1>3 DEF JobsInv
<1> QED BY <1>1, <1>5, <1>6

(* Main takes the oldest result of a thread out.                           *)
LEMMA TakeKeepsJobs ==
  ASSUME PoolInv, JobsInv, NEW i \in Threads, completion[i] # <<>>, Take(i)
  PROVE  JobsInv'
<1>p. PICK res : res = completion[i][1]
  OBVIOUS
<1>0. /\ completion[i] \in Seq(Result) /\ Len(completion[i]) \in Nat
      /\ 1 \in 1..Len(completion[i]) /\ res = Head(completion[i])
      /\ Len(Tail(completion[i])) = Len(completion[i]) - 1
      /\ \A k \in 1..Len(completion[i])-1 : Tail(completion[i])[k] = completion[i][k + 1]
  BY <1>p, QueuesAre, HeadTailProperties, LenProperties
<1>1. res \in Result /\ res.job \in Jobs
  BY <1>p, <1>0, ElementsAre
<1>2. /\ UNCHANGED <<submission, wjob, wpc, runs, dropped, added>>
      /\ popped' = popped \cup {res}
      /\ completion' = [completion EXCEPT ![i] = Tail(completion[i])]
  BY <1>0 DEF Take, worker
<1>3. /\ Len(completion'[i]) = Len(completion[i]) - 1
      /\ \A k \in 1..Len(completion'[i]) : /\ k + 1 \in 1..Len(completion[i])
                                           /\ completion'[i][k] = completion[i][k + 1]
      /\ \A t \in Threads \ {i} : completion'[t] = completion[t]
      /\ \A t \in Threads : InHand(t)' = InHand(t)
  BY <1>0, <1>2, QueuesAre DEF InHand
<1>4. OrderInv'
  <2>1. ASSUME NEW t \in Threads \ {i}
        PROVE  QueueOrder(t)' /\ HandOrder(t)' /\ CompletionOrder(t)'
    BY <1>2, <1>3 DEF JobsInv, OrderInv, QueueOrder, HandOrder, CompletionOrder
  <2>2. QueueOrder(i)' /\ HandOrder(i)'
    BY <1>2, <1>3 DEF JobsInv, OrderInv, QueueOrder, HandOrder
  <2>3. CompletionOrder(i)'
    <3>1. \A k, l \in 1..Len(completion'[i]) : k < l => k + 1 < l + 1
      BY <1>0, <1>3
    <3>2. \A k, l \in 1..Len(completion'[i]) :
            k < l => completion'[i][k].job < completion'[i][l].job
      BY <3>1, <1>3 DEF JobsInv, OrderInv, CompletionOrder
    <3>3. \A k \in 1..Len(completion'[i]) : \A l \in 1..Len(submission[i]) :
            completion'[i][k].job < submission[i][l]
      BY <1>3 DEF JobsInv, OrderInv, CompletionOrder
    <3> QED BY <3>2, <3>3, <1>2 DEF CompletionOrder
  <2> QED BY <2>1, <2>2, <2>3 DEF OrderInv
<1>5. PlacesInv'
  <2>1. IsAt(i, res.job)
    BY <1>p, <1>0 DEF IsAt, IsCompleted
  <2>2. ~IsAt(i, res.job)'
    <3>1. \A k \in 1..Len(completion[i]) : k # 1 => completion[i][k].job # res.job
      <4>1. \A k \in 1..Len(completion[i]) : k # 1 => 1 < k
        BY <1>0
      <4> QED BY <4>1, <1>p, <1>0, ElementsAre DEF JobsInv, OrderInv, CompletionOrder, Jobs
    <3>2. \A k \in 1..Len(submission[i]) : submission[i][k] # res.job
      BY <1>p, <1>0, ElementsAre DEF JobsInv, OrderInv, CompletionOrder, Jobs
    <3>3. InHand(i) => wjob[i] # res.job
      BY <1>p, <1>0, <1>1, QueuesAre DEF JobsInv, OrderInv, HandOrder, Jobs
    <3>4. \A k \in 1..Len(completion'[i]) : completion'[i][k].job # res.job
      <4>1. \A k \in 1..Len(completion'[i]) : k + 1 # 1
        BY <1>0, <1>3
      <4> QED BY <3>1, <4>1, <1>3
    <3>5. ~IsQueued(i, res.job)' /\ ~IsCompleted(i, res.job)' /\ ~IsInHand(i, res.job)'
      BY <3>2, <3>3, <3>4, <1>2, <1>3 DEF IsQueued, IsCompleted, IsInHand
    <3> QED BY <3>5 DEF IsAt
  <2>3. ASSUME NEW t \in Threads, NEW j \in Jobs, j # res.job \/ t # i
        PROVE  IsAt(t, j)' <=> IsAt(t, j)
    <3>1. (IsQueued(t, j)' <=> IsQueued(t, j)) /\ (IsInHand(t, j)' <=> IsInHand(t, j))
      BY <1>2, <1>3 DEF IsQueued, IsInHand
    <3>2. IsCompleted(t, j)' => IsCompleted(t, j)
      BY <1>3 DEF IsCompleted
    <3>3. CASE t # i
      BY <1>3, <3>1, <3>3 DEF IsAt, IsCompleted
    <3>4. CASE t = i /\ j # res.job
      <4>1. ASSUME NEW k \in 1..Len(completion[i]), completion[i][k].job = j
            PROVE  IsCompleted(i, j)'
        <5>1. k # 1
          BY <3>4, <4>1, <1>p
        <5>2. k - 1 \in 1..Len(completion'[i]) /\ (k - 1) + 1 = k
          BY <5>1, <1>0, <1>3
        <5>3. completion'[i][k - 1] = completion[i][k]
          BY <5>2, <1>3
        <5> QED BY <4>1, <5>2, <5>3 DEF IsCompleted
      <4> QED BY <4>1, <3>1, <3>2, <3>4 DEF IsAt, IsCompleted
    <3> QED BY <2>3, <3>3, <3>4
  <2>4. popped' = popped \cup {res} /\ dropped' = dropped /\ added' = added
    BY <1>2
  <2> QED BY <2>1, <2>2, <2>3, <2>4, <1>1, LeavesKeepsPlaces
<1>6. NotYetRun'
  BY <1>2 DEF JobsInv, NotYetRun
<1>7. HonestResults'
  <2>1. runs[res.job] = 1 - res.flags
    BY <1>p, <1>0 DEF JobsInv, HonestResults
  <2>2. \A r \in popped' \cup dropped' : runs'[r.job] = 1 - r.flags
    BY <2>1, <1>2 DEF JobsInv, HonestResults
  <2>3. \A t \in Threads : \A k \in 1..Len(completion'[t]) :
          runs'[completion'[t][k].job] = 1 - completion'[t][k].flags
    <3>1. ASSUME NEW k \in 1..Len(completion'[i])
          PROVE  runs'[completion'[i][k].job] = 1 - completion'[i][k].flags
      BY <1>2, <1>3 DEF JobsInv, HonestResults
    <3>2. ASSUME NEW t \in Threads \ {i}, NEW k \in 1..Len(completion'[t])
          PROVE  runs'[completion'[t][k].job] = 1 - completion'[t][k].flags
      BY <1>2, <1>3 DEF JobsInv, HonestResults
    <3> QED BY <3>1, <3>2
  <2> QED BY <2>2, <2>3, <1>2 DEF JobsInv, HonestResults
<1> QED BY <1>4, <1>5, <1>6, <1>7 DEF JobsInv

(* Main adds the next job: it is above all the others and was nowhere.     *)
LEMMA AddKeepsJobs ==
  ASSUME PoolInv, JobsInv, AddEnqueues
  PROVE  JobsInv'
<1>p. PICK i, new : i = NextInTurn(mi) /\ new = added + 1
  OBVIOUS
<1>0. /\ i \in Threads /\ new \in Jobs /\ added \in Nat
  <2>1. mi \in Nat /\ rr \in Nat
    BY TpoolrrAssumption DEF PoolInv, TypeOK, MainTypes
  <2>2. new \in Jobs
    BY <1>p, TpoolrrAssumption DEF PoolInv, TypeOK, LocalsFit, Adding, MainTypes, HistoryTypes,
                             AddEnqueues, Jobs
  <2> QED BY <2>1, <2>2, <1>p, NextInTurnIsThread, QueuesAre
<1>1. /\ submission' = [submission EXCEPT ![i] = Append(submission[i], new)]
      /\ added' = new
      /\ UNCHANGED <<completion, wjob, wpc, runs, popped, dropped>>
  BY <1>p DEF AddEnqueues, worker
<1>2. /\ submission[i] \in Seq(Jobs) /\ Len(submission[i]) \in Nat
      /\ Len(submission'[i]) = Len(submission[i]) + 1
      /\ \A k \in 1..Len(submission[i]) : submission'[i][k] = submission[i][k]
      /\ submission'[i][Len(submission[i]) + 1] = new
      /\ \A t \in Threads \ {i} : submission'[t] = submission[t]
      /\ \A t \in Threads : InHand(t)' = InHand(t)
  BY <1>0, <1>1, QueuesAre, ElementsAre, AppendProperties DEF InHand
<1>3. \A k \in 1..Len(submission'[i]) :
        \/ k \in 1..Len(submission[i]) /\ submission'[i][k] = submission[i][k]
        \/ k = Len(submission[i]) + 1 /\ submission'[i][k] = new
  BY <1>2
<1>4. \A t \in Threads : \A j \in Jobs : IsAt(t, j) => j < new
  <2>1. \A t \in Threads : \A j \in Jobs : IsAt(t, j) => j <= added
    BY DEF JobsInv, PlacesInv, Added
  <2> QED BY <2>1, <1>p, <1>0 DEF Jobs
<1>5. \A j \in Jobs : IsOut(j) => j < new
  <2>1. \A j \in Jobs : IsOut(j) => j <= added
    BY DEF JobsInv, PlacesInv, Added
  <2> QED BY <2>1, <1>p, <1>0 DEF Jobs
<1>6. /\ \A k \in 1..Len(submission[i]) : submission[i][k] < new
      /\ \A k \in 1..Len(completion[i]) : completion[i][k].job < new
      /\ InHand(i) => wjob[i] < new
  BY <1>0, <1>4, ElementsAre, QueuesAre DEF IsAt, IsQueued, IsInHand, IsCompleted
<1>7. OrderInv'
  <2>1. ASSUME NEW t \in Threads \ {i}
        PROVE  QueueOrder(t)' /\ HandOrder(t)' /\ CompletionOrder(t)'
    BY <1>1, <1>2 DEF JobsInv, OrderInv, QueueOrder, HandOrder, CompletionOrder
  <2>2. QueueOrder(i)'
    <3>1. /\ QueueOrder(i)
          /\ \A k \in 1..Len(submission[i]) : submission[i][k] < new
      BY <1>0, <1>6 DEF JobsInv, OrderInv
    <3>2. SUFFICES ASSUME NEW k \in 1..Len(submission'[i]),
                          NEW l \in 1..Len(submission'[i]), k < l
                   PROVE  submission'[i][k] < submission'[i][l]
      BY DEF QueueOrder
    <3>3. k \in 1..Len(submission[i]) /\ submission'[i][k] = submission[i][k]
      BY <1>2, <1>3, <3>2
    <3>4. CASE l \in 1..Len(submission[i]) /\ submission'[i][l] = submission[i][l]
      BY <3>1, <3>2, <3>3, <3>4 DEF QueueOrder
    <3>5. CASE submission'[i][l] = new
      BY <3>1, <3>3, <3>5
    <3> QED BY <1>3, <3>4, <3>5
  <2>3. HandOrder(i)'
    BY <1>0, <1>1, <1>2, <1>3, <1>6 DEF JobsInv, OrderInv, HandOrder
  <2>4. CompletionOrder(i)'
    BY <1>0, <1>1, <1>2, <1>3, <1>6 DEF JobsInv, OrderInv, CompletionOrder
  <2> QED BY <2>1, <2>2, <2>3, <2>4 DEF OrderInv
<1>8. \A j \in Jobs : IsOut(j)' <=> IsOut(j)
  BY <1>1 DEF IsOut
<1>9. \A t \in Threads : \A j \in Jobs :
        IsAt(t, j)' <=> (IsAt(t, j) \/ (t = i /\ j = new))
  <2>1. ASSUME NEW t \in Threads \ {i}, NEW j \in Jobs PROVE IsAt(t, j)' <=> IsAt(t, j)
    BY <1>1, <1>2 DEF IsAt, IsQueued, IsInHand, IsCompleted
  <2>2. ASSUME NEW j \in Jobs PROVE IsAt(i, j)' <=> IsAt(i, j) \/ j = new
    <3>1. /\ IsInHand(i, j)' <=> IsInHand(i, j)
          /\ IsCompleted(i, j)' <=> IsCompleted(i, j)
      BY <1>0, <1>1, <1>2 DEF IsInHand, IsCompleted
    <3>2. IsQueued(i, j)' => IsQueued(i, j) \/ j = new
      BY <1>3 DEF IsQueued
    <3>3. IsQueued(i, j) => IsQueued(i, j)'
      <4>1. \A k \in 1..Len(submission[i]) : k \in 1..Len(submission'[i])
        BY <1>2
      <4> QED BY <4>1, <1>2 DEF IsQueued
    <3>4. j = new => IsQueued(i, j)'
      <4>1. Len(submission[i]) + 1 \in 1..Len(submission'[i])
        BY <1>2
      <4> QED BY <4>1, <1>2 DEF IsQueued
    <3> QED BY <3>1, <3>2, <3>3, <3>4 DEF IsAt
  <2> SUFFICES ASSUME NEW t \in Threads, NEW j \in Jobs
               PROVE  IsAt(t, j)' <=> (IsAt(t, j) \/ (t = i /\ j = new))
    OBVIOUS
  <2>3. CASE t = i
    BY <2>2, <2>3
  <2>4. CASE t # i
    BY <2>1, <2>4
  <2> QED BY <2>3, <2>4
<1>10. PlacesInv'
  <2>1. \A t \in Threads : ~IsAt(t, new)
    BY <1>0, <1>4 DEF Jobs
  <2>2. ~IsOut(new)
    BY <1>0, <1>5 DEF Jobs
  <2>3. OneThread'
    BY <2>1, <1>9 DEF JobsInv, PlacesInv, OneThread
  <2>4. NotOut'
    BY <2>2, <1>8, <1>9 DEF JobsInv, PlacesInv, NotOut
  <2>5. OutOnce'
    BY <1>1 DEF JobsInv, PlacesInv, OutOnce
  <2>6. Added'
    <3>1. \A j \in Jobs : j <= new <=> j <= added \/ j = new
      BY <1>p, <1>0 DEF Jobs
    <3> SUFFICES ASSUME NEW j \in Jobs
                 PROVE  j <= new <=> IsOut(j)' \/ \E t \in Threads : IsAt(t, j)'
      BY <1>1 DEF Added
    <3>2. j <= added <=> IsOut(j) \/ \E t \in Threads : IsAt(t, j)
      BY DEF JobsInv, PlacesInv, Added
    <3>3. (\E t \in Threads : IsAt(t, j)') <=> (j = new \/ \E t \in Threads : IsAt(t, j))
      BY <1>0, <1>9
    <3> QED BY <3>1, <3>2, <3>3, <1>8
  <2> QED BY <2>3, <2>4, <2>5, <2>6 DEF PlacesInv
<1>11. NotYetRun'
  <2>1. \A j \in Jobs : j > new => j > added
    BY <1>p, <1>0 DEF Jobs
  <2> QED BY <2>1, <1>1 DEF JobsInv, NotYetRun
<1>12. HonestResults'
  <2>1. runs[new] = 0
    BY <1>p, <1>0 DEF JobsInv, NotYetRun
  <2>2. \A t \in Threads : \A k \in 1..Len(submission'[t]) : runs'[submission'[t][k]] = 0
    <3>1. ASSUME NEW k \in 1..Len(submission'[i]) PROVE runs'[submission'[i][k]] = 0
      BY <2>1, <1>0, <1>1, <1>3 DEF JobsInv, HonestResults
    <3>2. ASSUME NEW t \in Threads \ {i}, NEW k \in 1..Len(submission'[t])
          PROVE  runs'[submission'[t][k]] = 0
      BY <1>1, <1>2 DEF JobsInv, HonestResults
    <3> QED BY <3>1, <3>2
  <2> QED BY <2>2, <1>1 DEF JobsInv, HonestResults
<1> QED BY <1>7, <1>10, <1>11, <1>12 DEF JobsInv

-----------------------------------------------------------------------------
(* JobsInv is inductive.                                                   *)
LEMMA InitJobs == Init => JobsInv
<1> SUFFICES ASSUME Init PROVE JobsInv
  OBVIOUS
<1> USE DEF Init
<1>1. /\ \A i \in Threads : Len(submission[i]) = 0 /\ Len(completion[i]) = 0 /\ ~InHand(i)
      /\ popped = {} /\ dropped = {} /\ added = 0
  BY DEF InHand
<1>2. OrderInv
  BY <1>1 DEF OrderInv, QueueOrder, HandOrder, CompletionOrder
<1>3. /\ \A i \in Threads : \A j \in Jobs : ~IsAt(i, j)
      /\ \A j \in Jobs : ~IsOut(j)
  BY <1>1 DEF IsAt, IsQueued, IsInHand, IsCompleted, IsOut
<1>4. PlacesInv
  BY <1>1, <1>3 DEF PlacesInv, OneThread, NotOut, OutOnce, Added, Jobs
<1>5. NotYetRun /\ HonestResults
  BY <1>1 DEF NotYetRun, HonestResults
<1> QED BY <1>2, <1>4, <1>5 DEF JobsInv

LEMMA WorkerKeepsJobs ==
  ASSUME PoolInv, JobsInv, NEW i \in Threads, Worker(i) \/ SpuriousWakeup(i)
  PROVE  JobsInv'
<1>1. CASE \/ WorkerLock(i) \/ WorkerSleeps(i) \/ SpuriousWakeup(i) \/ WorkerWakes(i)
           \/ WorkerTakesJob(i) \/ WorkerHasNothing(i) \/ WorkerPauses(i) \/ WorkerExits(i)
  <2>1. UNCHANGED <<submission, completion, wjob, runs, dropped, popped, added>>
    BY <1>1 DEF WorkerLock, WorkerSleeps, SpuriousWakeup, WorkerWakes, WorkerTakesJob,
                WorkerHasNothing, WorkerPauses, WorkerExits, Decide, shared, main, history
  <2>2. \E to \in {"check", "asleep", "woken", "lock", "dequeue", "wait", "exited"} :
          wpc' = [wpc EXCEPT ![i] = to]
    BY <1>1 DEF WorkerLock, WorkerSleeps, SpuriousWakeup, WorkerWakes, WorkerTakesJob,
                WorkerHasNothing, WorkerPauses, WorkerExits, Decide, WorkerGoes
  <2>3. wpc[i] \in {"lock", "wait", "asleep", "woken", "check"}
    BY <1>1 DEF WorkerLock, WorkerSleeps, SpuriousWakeup, WorkerWakes, WorkerTakesJob,
                WorkerHasNothing, WorkerPauses, WorkerExits, Decide
  <2> QED BY <2>1, <2>2, <2>3, QueuesAre, QuietKeepsJobs
<1>2. CASE WorkerDequeues(i)
  BY <1>2, DequeuesKeepsJobs
<1>3. CASE WorkerStartsJob(i)
  BY <1>3, StartsKeepsJobs
<1>4. CASE WorkerExpiresJob(i)
  <2>1. InHand(i) /\ Complete(i, 1) /\ runs[wjob[i]] = 1 - 1
    BY <1>4 DEF WorkerExpiresJob, InHand, JobsInv, HonestResults
  <2> QED BY <2>1, CompleteKeepsJobs
<1>5. CASE WorkerFinishesJob(i)
  <2>1. InHand(i) /\ Complete(i, 0) /\ runs[wjob[i]] = 1 - 0
    BY <1>5 DEF WorkerFinishesJob, InHand, JobsInv, HonestResults
  <2> QED BY <2>1, CompleteKeepsJobs
<1> QED BY <1>1, <1>2, <1>3, <1>4, <1>5 DEF Worker

LEMMA CallKeepsJobs ==
  ASSUME PoolInv, JobsInv, Call
  PROVE  JobsInv'
<1>1. UNCHANGED <<submission, completion, wjob, wpc, runs, dropped, popped, added>>
  BY DEF Call, JobsAdd, JobsAddall, JobsAssign, JobsAssignBusy, AddCall, ControlCall,
         DeinitStopped, CompletionsPop, CompletionsPopall, CompletionsPopsome, PopCall,
         shared, worker, main, history
<1> QED BY <1>1, QuietKeepsJobs

LEMMA ProceedKeepsJobs ==
  ASSUME PoolInv, JobsInv, Proceed
  PROVE  JobsInv'
<1>1. CASE AddEnqueues
  BY <1>1, AddKeepsJobs
<1>2. CASE PopFinds
  <2>1. NextInTurn(mi) \in Threads
    <3>1. mi \in Nat /\ rr \in Nat
      BY TpoolrrAssumption DEF PoolInv, TypeOK, MainTypes
    <3> QED BY <3>1, NextInTurnIsThread
  <2>2. PopQueue = NextInTurn(mi) /\ completion[PopQueue] # <<>> /\ Take(PopQueue)
    BY <1>2 DEF PopFinds, PopQueue
  <2> QED BY <2>1, <2>2, TakeKeepsJobs
<1>3. CASE PopsomeTakes
  <2>1. mi \in Threads
    <3>1. mi \in Nat /\ mi < N
      BY <1>3, TpoolrrAssumption
         DEF PopsomeTakes, PoolInv, TypeOK, MainTypes, LocalsFit
    <3> QED BY <3>1, TpoolrrAssumption DEF Threads
  <2>2. PopQueue = mi /\ completion[PopQueue] # <<>> /\ Take(PopQueue)
    BY <1>3 DEF PopsomeTakes, PopQueue
  <2> QED BY <2>1, <2>2, TakeKeepsJobs
<1>4. CASE \/ AddSignals \/ PauseOrResumeThread \/ EndSignals
  <2>1. UNCHANGED <<submission, completion, wjob, runs, dropped, popped, added>>
    BY <1>4 DEF AddSignals, PauseOrResumeThread, EndSignals, shared, history
  <2>2. \E t \in Int : Signal(t)
    <3>1. mi \in Int /\ NextInTurn(mi) \in Int
      BY TpoolrrAssumption DEF PoolInv, TypeOK, MainTypes, NextInTurn
    <3> QED BY <1>4, <3>1 DEF AddSignals, PauseOrResumeThread, EndSignals
  <2>3. \A i \in Threads : \/ wpc'[i] = wpc[i]
                           \/ wpc[i] = "asleep" /\ wpc'[i] = "woken"
    BY <2>2, QueuesAre DEF Signal
  <2> QED BY <2>1, <2>3, QuietKeepsJobs
<1>5. CASE \/ AddSkipsFull \/ AddLocks \/ AddBusy \/ ControlLocks \/ EndThread
           \/ EndJoins \/ ControlReturns \/ PopSkipsEmpty \/ PopFindsNone \/ PopsomeEnds
  <2>1. UNCHANGED <<submission, completion, wjob, wpc, runs, dropped, popped, added>>
    BY <1>5 DEF AddSkipsFull, AddLocks, AddBusy, ControlLocks, EndThread, EndJoins,
                ControlReturns, PopSkipsEmpty, PopFindsNone, PopsomeEnds, MainLocks, Tell,
                shared, worker, history
  <2> QED BY <2>1, QuietKeepsJobs
<1> QED BY <1>1, <1>2, <1>3, <1>4, <1>5 DEF Proceed

LEMMA NextJobs == PoolInv /\ JobsInv /\ [Next]_vars => JobsInv'
<1> SUFFICES ASSUME PoolInv, JobsInv, [Next]_vars PROVE JobsInv'
  OBVIOUS
<1>1. CASE UNCHANGED vars
  <2>1. UNCHANGED <<submission, completion, wjob, wpc, runs, dropped, popped, added>>
    BY <1>1 DEF vars, shared, worker, history
  <2> QED BY <2>1, QuietKeepsJobs
<1> QED BY <1>1, WorkerKeepsJobs, CallKeepsJobs, ProceedKeepsJobs DEF Next

LEMMA JobsCorrect == Spec => [](PoolInv /\ JobsInv)
BY InitPool, NextPool, InitJobs, NextJobs, PTL DEF Spec

-----------------------------------------------------------------------------
(* The theorems.                                                           *)

(* Whatever main calls and however the workers interleave: a result says   *)
(* truthfully whether its job's function ran, and no function is started   *)
(* twice (tpoolrr_worker 443-461).                                         *)
THEOREM ResultsAreHonest == Spec => []HonestResults
<1>1. JobsInv => HonestResults
  BY DEF JobsInv
<1> QED BY <1>1, JobsCorrect, PTL

(* A place, in words the provers can split.                                *)
QueuedPlace(x, j) == \E i \in Threads, k \in 1..Cap :
  k \in 1..Len(submission[i]) /\ submission[i][k] = j /\ x = <<"queued", i, k>>
HeldPlace(x, j) == \E i \in Threads :
  InHand(i) /\ wjob[i] = j /\ x = <<"in hand", i, 0>>
CompletedPlace(x, j) == \E i \in Threads, k \in 1..Cap :
  k \in 1..Len(completion[i]) /\ completion[i][k].job = j /\ x = <<"completed", i, k>>
OutPlace(x, j) ==
  \/ \E r \in dropped : r.job = j /\ x = <<"dropped", r.flags, 0>>
  \/ \E r \in popped : r.job = j /\ x = <<"popped", r.flags, 0>>

LEMMA InPlaces ==
  ASSUME NEW j, NEW x
  PROVE  x \in Places(j) <=>
           QueuedPlace(x, j) \/ HeldPlace(x, j) \/ CompletedPlace(x, j) \/ OutPlace(x, j)
<1> DEFINE Q == {q \in Threads \X (1..Cap) : /\ q[2] <= Len(submission[q[1]])
                                            /\ submission[q[1]][q[2]] = j}
           C == {q \in Threads \X (1..Cap) : /\ q[2] <= Len(completion[q[1]])
                                            /\ completion[q[1]][q[2]].job = j}
<1>0. \A n : \A k \in 1..Cap : k <= n <=> k \in 1..n
  BY TpoolrrAssumption
<1>1. x \in {<<"queued", p[1], p[2]>> : p \in Q} <=> QueuedPlace(x, j)
  <2>1. ASSUME x \in {<<"queued", p[1], p[2]>> : p \in Q} PROVE QueuedPlace(x, j)
    <3>1. PICK p \in Q : x = <<"queued", p[1], p[2]>>
      BY <2>1
    <3>2. p[1] \in Threads /\ p[2] \in 1..Cap
      OBVIOUS
    <3> QED BY <3>1, <3>2, <1>0 DEF QueuedPlace
  <2>2. ASSUME QueuedPlace(x, j) PROVE x \in {<<"queued", p[1], p[2]>> : p \in Q}
    <3>1. PICK i \in Threads, k \in 1..Cap :
            k \in 1..Len(submission[i]) /\ submission[i][k] = j /\ x = <<"queued", i, k>>
      BY <2>2 DEF QueuedPlace
    <3>2. <<i, k>> \in Q
      BY <3>1, <1>0
    <3> QED BY <3>1, <3>2
  <2> QED BY <2>1, <2>2
<1>2. x \in {<<"completed", p[1], p[2]>> : p \in C} <=> CompletedPlace(x, j)
  <2>1. ASSUME x \in {<<"completed", p[1], p[2]>> : p \in C} PROVE CompletedPlace(x, j)
    <3>1. PICK p \in C : x = <<"completed", p[1], p[2]>>
      BY <2>1
    <3>2. p[1] \in Threads /\ p[2] \in 1..Cap
      OBVIOUS
    <3> QED BY <3>1, <3>2, <1>0 DEF CompletedPlace
  <2>2. ASSUME CompletedPlace(x, j) PROVE x \in {<<"completed", p[1], p[2]>> : p \in C}
    <3>1. PICK i \in Threads, k \in 1..Cap :
            /\ k \in 1..Len(completion[i]) /\ completion[i][k].job = j
            /\ x = <<"completed", i, k>>
      BY <2>2 DEF CompletedPlace
    <3>2. <<i, k>> \in C
      BY <3>1, <1>0
    <3> QED BY <3>1, <3>2
  <2> QED BY <2>1, <2>2
<1>3. x \in {<<"in hand", i, 0>> : i \in {t \in Threads : InHand(t) /\ wjob[t] = j}}
      <=> HeldPlace(x, j)
  BY DEF HeldPlace
<1>4. x \in {<<"dropped", r.flags, 0>> : r \in {d \in dropped : d.job = j}}
           \cup {<<"popped", r.flags, 0>> : r \in {d \in popped : d.job = j}}
      <=> OutPlace(x, j)
  BY DEF OutPlace
<1> QED BY <1>1, <1>2, <1>3, <1>4 DEF Places

(* A job is with a thread, or out, exactly if it has a place.              *)
LEMMA PlaceMeans ==
  ASSUME PoolInv, NEW j \in Jobs
  PROVE  (\E x : x \in Places(j)) <=> (IsOut(j) \/ \E i \in Threads : IsAt(i, j))
<1>1. \A i \in Threads : /\ \A k \in 1..Len(submission[i]) : k \in 1..Cap
                         /\ \A k \in 1..Len(completion[i]) : k \in 1..Cap
  <2>1. /\ Cap \in Nat
        /\ \A i \in Threads : /\ Len(submission[i]) \in Nat /\ Len(submission[i]) <= Cap
                              /\ Len(completion[i]) \in Nat /\ Len(completion[i]) <= Cap
    BY ElementsAre, TpoolrrAssumption DEF PoolInv, TypeOK, QueueTypes
  <2> QED BY <2>1
<1>2. ASSUME NEW x, x \in Places(j)
      PROVE  IsOut(j) \/ \E i \in Threads : IsAt(i, j)
  <2>1. QueuedPlace(x, j) => \E i \in Threads : IsAt(i, j)
    BY DEF QueuedPlace, IsAt, IsQueued
  <2>2. HeldPlace(x, j) => \E i \in Threads : IsAt(i, j)
    BY DEF HeldPlace, IsAt, IsInHand
  <2>3. CompletedPlace(x, j) => \E i \in Threads : IsAt(i, j)
    BY DEF CompletedPlace, IsAt, IsCompleted
  <2>4. OutPlace(x, j) => IsOut(j)
    BY DEF OutPlace, IsOut
  <2> QED BY <1>2, <2>1, <2>2, <2>3, <2>4, InPlaces
<1>3. ASSUME IsOut(j) PROVE \E x : x \in Places(j)
  <2>1. PICK r \in popped \cup dropped : r.job = j
    BY <1>3 DEF IsOut
  <2>2. OutPlace(<<"popped", r.flags, 0>>, j) \/ OutPlace(<<"dropped", r.flags, 0>>, j)
    BY <2>1 DEF OutPlace
  <2> QED BY <2>2, InPlaces
<1>4. ASSUME NEW i \in Threads, IsAt(i, j) PROVE \E x : x \in Places(j)
  <2>1. CASE IsQueued(i, j)
    <3>1. PICK k \in 1..Len(submission[i]) : submission[i][k] = j
      BY <2>1 DEF IsQueued
    <3>2. QueuedPlace(<<"queued", i, k>>, j)
      BY <3>1, <1>1 DEF QueuedPlace
    <3> QED BY <3>2, InPlaces
  <2>2. CASE IsInHand(i, j)
    <3>1. HeldPlace(<<"in hand", i, 0>>, j)
      BY <2>2 DEF HeldPlace, IsInHand
    <3> QED BY <3>1, InPlaces
  <2>3. CASE IsCompleted(i, j)
    <3>1. PICK k \in 1..Len(completion[i]) : completion[i][k].job = j
      BY <2>3 DEF IsCompleted
    <3>2. CompletedPlace(<<"completed", i, k>>, j)
      BY <3>1, <1>1 DEF CompletedPlace
    <3> QED BY <3>2, InPlaces
  <2> QED BY <1>4, <2>1, <2>2, <2>3 DEF IsAt
<1> QED BY <1>2, <1>3, <1>4

(* And it has no second one.                                               *)
LEMMA PlaceUnique ==
  ASSUME PoolInv, JobsInv, NEW j \in Jobs, NEW x \in Places(j), NEW y \in Places(j)
  PROVE  x = y
<1> USE DEF JobsInv, OrderInv, PlacesInv
<1>0. j \in Int
  BY DEF Jobs
<1>1. \A p \in Places(j) :
        QueuedPlace(p, j) \/ HeldPlace(p, j) \/ CompletedPlace(p, j) \/ OutPlace(p, j)
  BY InPlaces
<1>2. \A i, t \in Threads : IsAt(i, j) /\ IsAt(t, j) => i = t
  BY DEF OneThread
<1>3. \A i \in Threads : IsAt(i, j) => ~IsOut(j)
  BY DEF NotOut
<1>a. \A i \in Threads : \A k \in 1..Len(submission[i]) : submission[i][k] = j => IsAt(i, j)
  BY DEF IsAt, IsQueued
<1>b. \A i \in Threads : InHand(i) /\ wjob[i] = j => IsAt(i, j)
  BY DEF IsAt, IsInHand
<1>c. \A i \in Threads : \A k \in 1..Len(completion[i]) : completion[i][k].job = j => IsAt(i, j)
  BY DEF IsAt, IsCompleted
<1>4. ASSUME NEW p, NEW q, QueuedPlace(p, j), QueuedPlace(q, j) PROVE p = q
  <2>1. PICK i \in Threads, k \in 1..Cap :
               k \in 1..Len(submission[i]) /\ submission[i][k] = j /\ p = <<"queued", i, k>>
    BY <1>4 DEF QueuedPlace
  <2>2. PICK t \in Threads, l \in 1..Cap :
               l \in 1..Len(submission[t]) /\ submission[t][l] = j /\ q = <<"queued", t, l>>
    BY <1>4 DEF QueuedPlace
  <2>3. t = i
    BY <1>2, <1>a, <2>1, <2>2
  <2>4. ~(k < l) /\ ~(l < k)
    BY <1>0, <2>1, <2>2, <2>3 DEF QueueOrder
  <2>5. k = l
    BY <2>4
  <2> QED BY <2>1, <2>2, <2>3, <2>5
<1>5. ASSUME NEW p, NEW q, CompletedPlace(p, j), CompletedPlace(q, j) PROVE p = q
  <2>1. PICK i \in Threads, k \in 1..Cap :
          /\ k \in 1..Len(completion[i]) /\ completion[i][k].job = j
          /\ p = <<"completed", i, k>>
    BY <1>5 DEF CompletedPlace
  <2>2. PICK t \in Threads, l \in 1..Cap :
          /\ l \in 1..Len(completion[t]) /\ completion[t][l].job = j
          /\ q = <<"completed", t, l>>
    BY <1>5 DEF CompletedPlace
  <2>3. t = i
    BY <1>2, <1>c, <2>1, <2>2
  <2>4. ~(k < l) /\ ~(l < k)
    BY <1>0, <2>1, <2>2, <2>3 DEF CompletionOrder
  <2>5. k = l
    BY <2>4
  <2> QED BY <2>1, <2>2, <2>3, <2>5
<1>6. ASSUME NEW p, NEW q, HeldPlace(p, j), HeldPlace(q, j) PROVE p = q
  BY <1>2, <1>6, <1>b DEF HeldPlace
<1>7. ASSUME NEW p, NEW q, OutPlace(p, j), OutPlace(q, j) PROVE p = q
  BY <1>7 DEF OutOnce, OutPlace
<1>8. ASSUME NEW p, NEW q, QueuedPlace(p, j), HeldPlace(q, j) PROVE FALSE
  <2>1. PICK i \in Threads, k \in 1..Cap :
               k \in 1..Len(submission[i]) /\ submission[i][k] = j
    BY <1>8 DEF QueuedPlace
  <2>2. InHand(i) /\ wjob[i] = j
    BY <1>2, <1>8, <1>a, <1>b, <2>1 DEF HeldPlace
  <2> QED BY <1>0, <2>1, <2>2 DEF HandOrder
<1>9. ASSUME NEW p, NEW q, CompletedPlace(p, j), HeldPlace(q, j) PROVE FALSE
  <2>1. PICK i \in Threads, k \in 1..Cap :
               k \in 1..Len(completion[i]) /\ completion[i][k].job = j
    BY <1>9 DEF CompletedPlace
  <2>2. InHand(i) /\ wjob[i] = j
    BY <1>2, <1>9, <1>b, <1>c, <2>1 DEF HeldPlace
  <2> QED BY <1>0, <2>1, <2>2 DEF HandOrder
<1>10. ASSUME NEW p, NEW q, CompletedPlace(p, j), QueuedPlace(q, j) PROVE FALSE
  <2>1. PICK i \in Threads, k \in 1..Cap :
               k \in 1..Len(completion[i]) /\ completion[i][k].job = j
    BY <1>10 DEF CompletedPlace
  <2>2. PICK t \in Threads, l \in 1..Cap :
               l \in 1..Len(submission[t]) /\ submission[t][l] = j
    BY <1>10 DEF QueuedPlace
  <2>3. t = i
    BY <1>2, <1>a, <1>c, <2>1, <2>2
  <2> QED BY <1>0, <2>1, <2>2, <2>3 DEF CompletionOrder
<1>11. ASSUME NEW p, NEW q, QueuedPlace(p, j) \/ HeldPlace(p, j) \/ CompletedPlace(p, j),
              OutPlace(q, j)
       PROVE  FALSE
  <2>1. IsOut(j)
    BY <1>11 DEF OutPlace, IsOut
  <2>2. \E i \in Threads : IsAt(i, j)
    BY <1>11, <1>a, <1>b, <1>c DEF QueuedPlace, HeldPlace, CompletedPlace
  <2> QED BY <1>3, <2>1, <2>2
<1> QED BY <1>1, <1>4, <1>5, <1>6, <1>7, <1>8, <1>9, <1>10, <1>11

(* No interleaving of main's scans with the workers loses a job, runs one  *)
(* twice or reports one twice: a job that was added is in one place at a   *)
(* time, from its queue to the caller (_tpoolrr_jobs_add, tpoolrr_worker   *)
(* 434-465, tpoolrr_completions_pop and popsome).                          *)
THEOREM JobsAreConserved == Spec => []Conservation
<1>1. PoolInv /\ JobsInv => Conservation
  <2> SUFFICES ASSUME PoolInv, JobsInv, NEW j \in Jobs
               PROVE  Cardinality(Places(j)) = IF j <= added THEN 1 ELSE 0
    BY DEF Conservation
  <2>1. j <= added <=> \E x : x \in Places(j)
    BY PlaceMeans DEF JobsInv, PlacesInv, Added
  <2>2. CASE j <= added
    <3>1. PICK x : x \in Places(j)
      BY <2>1, <2>2
    <3>2. Places(j) = {x}
      BY <3>1, PlaceUnique
    <3> QED BY <2>2, <3>2, FS_Singleton
  <2>3. CASE ~(j <= added)
    <3>1. Places(j) = {}
      BY <2>1, <2>3
    <3> QED BY <2>3, <3>1, FS_EmptySet
  <2> QED BY <2>2, <2>3
<1> QED BY <1>1, JobsCorrect, PTL

(* The results of a thread, the job in its hand and its queue are in the   *)
(* order in which main added them.                                         *)
THEOREM ThreadsKeepOrder == Spec => []ThreadOrder
<1>1. PoolInv /\ JobsInv => ThreadOrder
  <2> SUFFICES ASSUME PoolInv, JobsInv, NEW i \in Threads
               PROVE  LET results == [k \in 1..Len(completion[i]) |-> completion[i][k].job]
                          hand == IF InHand(i) THEN <<wjob[i]>> ELSE <<>>
                          line == results \o hand \o submission[i]
                      IN  \A k \in 1..Len(line) - 1 : line[k] < line[k + 1]
    BY DEF ThreadOrder
  <2> DEFINE results == [k \in 1..Len(completion[i]) |-> completion[i][k].job]
             hand == IF InHand(i) THEN <<wjob[i]>> ELSE <<>>
             queue == submission[i]
             line == results \o hand \o queue
             c == Len(completion[i])
             h == IF InHand(i) THEN 1 ELSE 0
             q == Len(submission[i])
  <2>1. /\ c \in Nat /\ q \in Nat /\ h \in 0..1
        /\ \A k \in 1..c : completion[i][k].job \in Jobs
    BY ElementsAre
  <2>2. results \in Seq(Jobs) /\ Len(results) = c
    BY <2>1, IsASeq, LenProperties
  <2>3. hand \in Seq(Jobs) /\ Len(hand) = h
    <3>1. CASE InHand(i)
      <4>1. wjob[i] \in Jobs
        BY <3>1, QueuesAre
      <4> QED BY <3>1, <4>1
    <3>2. CASE ~InHand(i)
      BY <3>2
    <3> QED BY <3>1, <3>2
  <2>4. queue \in Seq(Jobs) /\ Len(queue) = q
    BY QueuesAre
  <2>5. /\ results \o hand \in Seq(Jobs) /\ Len(results \o hand) = c + h
        /\ \A k \in 1..c : (results \o hand)[k] = results[k]
        /\ \A k \in 1..h : (results \o hand)[c + k] = hand[k]
    <3> HIDE DEF results, hand, c, h
    <3> QED BY <2>1, <2>2, <2>3, ConcatProperties
  <2>6. /\ Len(line) = c + h + q
        /\ \A k \in 1..c + h : line[k] = (results \o hand)[k]
        /\ \A k \in 1..q : line[c + h + k] = queue[k]
    <3> DEFINE front == results \o hand
    <3> HIDE DEF front, queue, c, h, q
    <3>1. line = front \o queue
      BY DEF front
    <3> QED BY <2>1, <2>4, <2>5, <3>1, ConcatProperties DEF front
  <2>7. /\ \A k \in 1..c : line[k] = completion[i][k].job
        /\ InHand(i) => line[c + 1] = wjob[i]
        /\ \A k \in 1..q : line[c + h + k] = submission[i][k]
    <3> HIDE DEF line
    <3>1. \A k \in 1..c : line[k] = results[k]
      <4> DEFINE both == results \o hand
      <4> HIDE DEF results, hand, c, h, both
      <4>1. \A k \in 1..c : k \in 1..c + h
        BY <2>1
      <4>2. /\ \A k \in 1..c : both[k] = results[k]
            /\ \A k \in 1..c + h : line[k] = both[k]
        BY <2>5, <2>6 DEF both
      <4> QED BY <4>1, <4>2
    <3>2. \A k \in 1..h : line[c + k] = hand[k]
      <4> DEFINE both == results \o hand
      <4> HIDE DEF results, hand, c, h, both
      <4>1. \A k \in 1..h : c + k \in 1..c + h
        BY <2>1
      <4>2. /\ \A k \in 1..h : both[c + k] = hand[k]
            /\ \A k \in 1..c + h : line[k] = both[k]
        BY <2>5, <2>6 DEF both
      <4> QED BY <4>1, <4>2
    <3>3. InHand(i) => 1 \in 1..h
      OBVIOUS
    <3> QED BY <3>1, <3>2, <3>3, <2>6
  <2>8. InHand(i) <=> h = 1
    OBVIOUS
  <2> HIDE DEF line, h, results, hand, queue
  <2>9. ASSUME NEW k \in 1..Len(line) - 1 PROVE line[k] < line[k + 1]
    <3> HIDE DEF c, q
    <3>0. k \in Nat /\ k >= 1 /\ k + 1 <= c + h + q
      BY <2>1, <2>6
    <3>1. CASE k + 1 <= c
      <4>1. k \in 1..c /\ k + 1 \in 1..c /\ k < k + 1
        BY <3>0, <3>1, <2>1
      <4> QED BY <4>1, <2>7 DEF JobsInv, OrderInv, CompletionOrder, c, q
    <3>2. CASE k = c /\ h = 1
      <4>1. k \in 1..c /\ InHand(i)
        BY <3>0, <3>2, <2>1, <2>8
      <4> QED BY <3>2, <4>1, <2>7 DEF JobsInv, OrderInv, HandOrder, c, q
    <3>3. CASE k = c /\ h = 0
      <4>1. k \in 1..c /\ 1 \in 1..q /\ c + h + 1 = k + 1
        BY <3>0, <3>3, <2>1
      <4>2. line[k + 1] = submission[i][1]
        BY <4>1, <2>7
      <4> QED BY <4>1, <4>2, <2>7 DEF JobsInv, OrderInv, CompletionOrder, c, q
    <3>4. CASE k = c + 1 /\ h = 1
      <4>1. InHand(i) /\ 1 \in 1..q /\ c + h + 1 = k + 1
        BY <3>0, <3>4, <2>1, <2>8
      <4>2. line[k + 1] = submission[i][1] /\ line[k] = wjob[i]
        BY <3>4, <4>1, <2>7
      <4> QED BY <4>1, <4>2 DEF JobsInv, OrderInv, HandOrder, c, q
    <3>5. CASE k > c + h
      <4>1. PICK l \in 1..q : k = c + h + l /\ l + 1 \in 1..q /\ k + 1 = c + h + (l + 1)
        <5>1. k - (c + h) \in 1..q /\ k - (c + h) + 1 \in 1..q
          BY <3>0, <3>5, <2>1
        <5> QED BY <5>1, <3>0, <2>1
      <4>2. line[k] = submission[i][l] /\ line[k + 1] = submission[i][l + 1]
        BY <4>1, <2>7
      <4>3. l < l + 1
        BY <2>1
      <4> QED BY <4>1, <4>2, <4>3 DEF JobsInv, OrderInv, QueueOrder, q
    <3> QED BY <3>0, <3>1, <3>2, <3>3, <3>4, <3>5, <2>1
  <2> QED BY <2>9 DEF line, results, hand, queue
<1> QED BY <1>1, JobsCorrect, PTL
=============================================================================
