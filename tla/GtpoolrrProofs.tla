--------------------------- MODULE GtpoolrrProofs ---------------------------
(***************************************************************************)
(* Proofs about Gtpoolrr, for every pool, whichever threads fail to start, *)
(* and whatever the bounds.  What is shared is looked at in parts: the     *)
(* types, the places of the green threads of a worker (Settled), the states*)
(* that cross between main and the workers (QuietInv, AllLeave), where each*)
(* job is and what its record says until a worker reports another than the *)
(* one that ended (HonestInv), and that none does while their jobs do not  *)
(* overlap (SerialInv).  A lemma says for each part what a step of a       *)
(* worker, or of main, makes of it; Inv is all parts.                      *)
(***************************************************************************)
EXTENDS Gtpoolrr, FiniteSetTheorems, TLAPS

(* What the steps below assume of the parts of the state they look at.     *)
Types ==
  /\ N \in Nat \ {0}
  /\ wpc \in [Threads -> {"drain", "ACTIVE", "PAUSED", "select", "sleep", "run",
                          "complete", "exit", "gone"}]
  /\ desired \in [Threads -> States]
  /\ current \in [Threads -> States]
  /\ DOMAIN ended = Threads
  /\ mi \in 0..N

(* The calls wait for a current state that only a worker which leaves      *)
(* writes, so the threads main has passed have left.                       *)
FinalIsGone ==
  \A i \in Threads : killed = {} /\ Over(current[i]) => wpc[i] = "gone"
PassedIsFinal ==
  mpc = "control" /\ mop \in {"stop", "join"} /\ killed = {} =>
    \A i \in Threads : i < mi => Over(current[i])
CancelKills == mpc = "control" /\ mop = "cancel" /\ mi > 0 => killed # {}
CallsAreCalls == mpc = "control" => mop \in DOMAIN Desire

QuietInv == FinalIsGone /\ PassedIsFinal /\ CancelKills /\ CallsAreCalls /\ StoppedIsQuiet

-----------------------------------------------------------------------------
(* Where a worker goes from the top of its loop.                           *)
LEMMA AfterDesiredIs ==
  ASSUME Types, NEW i \in Threads
  PROVE  AfterDesired(i) \in {"ACTIVE", "PAUSED", "exit", "select"}
<1> USE DEF Types, States
<1>1. CASE desired[i] \in {"ACTIVE", "PAUSED"}
  BY <1>1 DEF AfterDesired
<1>2. CASE desired[i] = "JOINED"
  BY <1>2 DEF AfterDesired
<1>3. CASE desired[i] \in {"STOPPED", "CANCELLED"}
  BY <1>3 DEF AfterDesired
<1> QED BY <1>1, <1>2, <1>3

(* The steps of a worker.                                                  *)
LEMMA WorkerKeepsTypes ==
  ASSUME Types, NEW i \in Threads,
         Worker(i) \/ IsCancelled(i)
  PROVE  Types'
<1> USE DEF Types, Threads, States, GoesOn, shape, shared, greenstate, pool, mainlocal, main, whist, mhist
<1>1. CASE WriteCurrent(i)
  BY <1>1 DEF WriteCurrent, Goes
<1>2. CASE Sleeps(i)
  BY <1>2 DEF Sleeps, Goes
<1>3. CASE Resumes(i)
  BY <1>3 DEF Resumes, Goes
<1>4. CASE StartsJob(i)
  BY <1>4 DEF StartsJob, TakesJob, Goes
<1>5. CASE ExpiresJob(i)
  BY <1>5 DEF ExpiresJob, TakesJob, Goes
<1>6. CASE \E op \in Ops : Yields(i, op)
  BY <1>6 DEF Yields, Goes
<1>7. CASE Returns(i)
  BY <1>7 DEF Returns, Goes
<1>8. CASE Completes(i)
  BY <1>8 DEF Completes, Reports, Goes
<1>9. CASE Exits(i)
  BY <1>9 DEF Exits, Goes
<1>10. CASE \E word \in ring[i] : Drains(i, word)
  BY <1>10 DEF Drains, Goes
<1>11. CASE Decides(i)
  BY <1>11, AfterDesiredIs DEF Decides, Goes
<1>12. CASE IsCancelled(i)
  BY <1>12 DEF IsCancelled, Goes
<1> QED
  BY <1>1, <1>2, <1>3, <1>4, <1>5, <1>6, <1>7, <1>8,
     <1>9, <1>10, <1>11, <1>12 DEF Worker, Rest

(* A worker writes a final state only on its way out, and nothing of main. *)
LEMMA WorkerLeavesCalls ==
  ASSUME Types, QuietInv, NEW i \in Threads,
         Worker(i) \/ IsCancelled(i)
  PROVE  QuietInv'
<1> USE DEF Types, QuietInv, FinalIsGone, PassedIsFinal, CancelKills, CallsAreCalls, StoppedIsQuiet,
           Threads, Over, GoesOn, shape, shared, greenstate, pool, mainlocal, main, whist, mhist
<1>1. CASE WriteCurrent(i)
  BY <1>1 DEF WriteCurrent, Goes
<1>2. CASE Sleeps(i)
  BY <1>2 DEF Sleeps, Goes
<1>3. CASE Resumes(i)
  BY <1>3 DEF Resumes, Goes
<1>4. CASE StartsJob(i)
  BY <1>4 DEF StartsJob, TakesJob, Goes
<1>5. CASE ExpiresJob(i)
  BY <1>5 DEF ExpiresJob, TakesJob, Goes
<1>6. CASE \E op \in Ops : Yields(i, op)
  BY <1>6 DEF Yields, Goes
<1>7. CASE Returns(i)
  BY <1>7 DEF Returns, Goes
<1>8. CASE Completes(i)
  BY <1>8 DEF Completes, Goes
<1>9. CASE Exits(i)
  BY <1>9 DEF Exits, Goes
<1>10. CASE \E word \in ring[i] : Drains(i, word)
  BY <1>10 DEF Drains, Goes
<1>11. CASE Decides(i)
  BY <1>11, AfterDesiredIs DEF Decides, Goes
<1>12. CASE IsCancelled(i)
  BY <1>12 DEF IsCancelled, Goes
<1> QED
  BY <1>1, <1>2, <1>3, <1>4, <1>5, <1>6, <1>7, <1>8,
     <1>9, <1>10, <1>11, <1>12 DEF Worker, Rest

LEMMA DesireIs ==
  /\ DOMAIN Desire = {"pause", "resume", "stop", "join", "cancel"}
  /\ \A op \in DOMAIN Desire : Desire[op] \in States
BY DEF Desire, States

LEMMA NextIsThread ==
  ASSUME NEW m \in Nat, NEW n \in Nat \ {0}
  PROVE  (m + 1) % n \in 0..n
OBVIOUS

(* The steps of main.                                                      *)
LEMMA MainKeepsTypes ==
  ASSUME Types, CallsAreCalls, Call \/ Proceed
  PROVE  Types'
<1> USE DEF Types, Threads, States, worker, GoesOn, shape, shared, greenstate, pool, mainlocal, main, whist, mhist
<1>1. CASE SbsGet
  BY <1>1 DEF SbsGet, MainGoes, MainIs
<1>2. CASE SbsGetFails
  BY <1>2 DEF SbsGetFails, MainGoes, MainIs
<1>3. CASE \E n \in 1..2 : SbsPush("rr", 0, n) \/ \E i \in Threads : SbsPush("direct", i, n)
  BY <1>3 DEF SbsPush, MainGoes, MainIs
<1>4. CASE (\E k \in 1..2 : CpsPop("popsome", k)) \/ CpsPop("popall", 2)
  BY <1>4 DEF CpsPop, MainGoes, MainIs
<1>5. CASE CpsAck
  BY <1>5 DEF CpsAck, MainGoes, MainIs
<1>6. CASE \E op \in DOMAIN Desire : Control(op)
  BY <1>6 DEF Control, MainGoes, MainIs
<1>7. CASE PushEnqueues
  BY <1>7 DEF PushEnqueues, MainIs, MainReturns
<1>8. CASE PushIsRefused
  BY <1>8 DEF PushIsRefused, MainIs, MainReturns
<1>9. CASE PopFinds
  BY <1>9 DEF PopFinds, MainIs, MainReturns
<1>10. CASE PopFindsNone
  <2>1. mpc = "pop" /\ (MainReturns \/ mi' = (mi + 1) % N)
    BY <1>10 DEF PopFindsNone, MainIs
  <2>2. mi' \in 0..N
    BY <2>1, NextIsThread DEF MainReturns
  <2> QED BY <1>10, <2>2 DEF PopFindsNone, MainIs
<1>11. CASE Tell
  <2>1. Desire[mop] \in States /\ mi \in Threads
    BY <1>11, DesireIs DEF Tell, MainGoes, MainIs, CallsAreCalls
  <2> HIDE DEF States
  <2>2. "CANCELLED" \in States
    BY DEF States
  <2> QED BY <1>11, <2>1, <2>2 DEF Tell, MainGoes, MainIs
<1>12. CASE ControlReturns
  BY <1>12 DEF ControlReturns, MainIs, MainReturns
<1> QED
  BY <1>1, <1>2, <1>3, <1>4, <1>5, <1>6, <1>7, <1>8,
     <1>9, <1>10, <1>11, <1>12 DEF Call, Proceed

(* Main passes a thread when its state is final.                           *)
LEMMA MainWaits ==
  ASSUME Types, QuietInv, Call \/ Proceed
  PROVE  QuietInv'
<1> USE DEF Types, QuietInv, FinalIsGone, PassedIsFinal, CancelKills, CallsAreCalls, StoppedIsQuiet,
           Threads, Over, worker, GoesOn, shape, shared, greenstate, pool, mainlocal, main, whist, mhist
<1>1. CASE SbsGet
  BY <1>1 DEF SbsGet, MainGoes, MainIs
<1>2. CASE SbsGetFails
  BY <1>2 DEF SbsGetFails, MainGoes, MainIs
<1>3. CASE \E n \in 1..2 : SbsPush("rr", 0, n) \/ \E i \in Threads : SbsPush("direct", i, n)
  BY <1>3 DEF SbsPush, MainGoes, MainIs
<1>4. CASE (\E k \in 1..2 : CpsPop("popsome", k)) \/ CpsPop("popall", 2)
  BY <1>4 DEF CpsPop, MainGoes, MainIs
<1>5. CASE CpsAck
  BY <1>5 DEF CpsAck, MainGoes, MainIs
<1>6. CASE \E op \in DOMAIN Desire : Control(op)
  BY <1>6 DEF Control, MainGoes, MainIs
<1>7. CASE PushEnqueues
  BY <1>7 DEF PushEnqueues, MainIs, MainReturns
<1>8. CASE PushIsRefused
  BY <1>8 DEF PushIsRefused, MainIs, MainReturns
<1>9. CASE PopFinds
  BY <1>9 DEF PopFinds, MainIs, MainReturns
<1>10. CASE PopFindsNone
  BY <1>10 DEF PopFindsNone, MainIs, MainReturns
<1>11. CASE Tell
  <2>1. mi \in Threads /\ wpc' = wpc /\ stopped' = stopped /\ mop' = mop /\ mpc' = mpc
        /\ mpc = "control" /\ N' = N
    BY <1>11 DEF Tell, MainGoes, MainIs
  <2>2. CASE mop = "cancel"
    <3>1. killed' # {} /\ mop' = "cancel"
      <4>1. killed' = killed \cup {mi}
        BY <1>11, <2>2 DEF Tell
      <4> QED BY <2>1, <2>2, <4>1
    <3> QED BY <2>1, <3>1, DesireIs
  <2>3. CASE mop # "cancel"
    <3>1. current' = current /\ killed' = killed
      BY <1>11, <2>3 DEF Tell
    <3>2. ASSUME mop \in {"stop", "join"}
          PROVE  mi' = mi \/ (mi' = mi + 1 /\ Over(current[mi]))
      <4>1. mi' = IF mop \in {"stop", "join"} /\ ~Over(current[mi]) THEN mi ELSE mi + 1
        BY <1>11 DEF Tell
      <4> QED BY <3>2, <4>1
    <3>3. PassedIsFinal'
      BY <2>1, <3>1, <3>2
    <3> QED BY <2>1, <2>3, <3>1, <3>3
  <2> QED BY <2>2, <2>3
<1>12. CASE ControlReturns
  <2>1. wpc' = wpc /\ mpc = "control" /\ mi = N /\ N' = N /\ mpc' = "idle"
        /\ current' = current /\ killed' = killed
        /\ stopped' = (stopped \/ mop \in {"stop", "join", "cancel"})
    BY <1>12 DEF ControlReturns, MainIs, MainReturns
  <2>2. ASSUME killed = {}, mop \in {"stop", "join"} PROVE \A i \in Threads : wpc[i] = "gone"
    BY <2>1, <2>2
  <2>3. ASSUME killed = {}, mop = "cancel" PROVE FALSE
    BY <2>1, <2>3
  <2>4. StoppedIsQuiet'
    BY <2>1, <2>2, <2>3
  <2> QED BY <2>1, <2>4
<1> QED
  BY <1>1, <1>2, <1>3, <1>4, <1>5, <1>6, <1>7, <1>8,
     <1>9, <1>10, <1>11, <1>12 DEF Call, Proceed

-----------------------------------------------------------------------------
(* Lists of jobs.                                                          *)
LEMMA SeqGrows ==
  ASSUME NEW S, NEW T, S \subseteq T, NEW s \in Seq(S)
  PROVE  s \in Seq(T)
OBVIOUS

LEMMA HeadAndTail ==
  ASSUME NEW S, NEW s \in Seq(S), s # <<>>
  PROVE  /\ Head(s) \in S /\ Tail(s) \in Seq(S) /\ Len(Tail(s)) = Len(s) - 1
         /\ DOMAIN Tail(s) = 1..Len(s) - 1
         /\ \A k \in 1..Len(s) - 1 : Tail(s)[k] = s[k + 1]
         /\ Head(s) = s[1] /\ Len(s) \in Nat \ {0} /\ DOMAIN s = 1..Len(s)
OBVIOUS

LEMMA AppendIsSeq ==
  ASSUME NEW S, NEW s \in Seq(S), NEW x \in S
  PROVE  /\ Append(s, x) \in Seq(S) /\ Len(Append(s, x)) = Len(s) + 1
         /\ DOMAIN Append(s, x) = 1..Len(s) + 1
         /\ \A k \in 1..Len(s) : Append(s, x)[k] = s[k]
         /\ Append(s, x)[Len(s) + 1] = x /\ Len(s) \in Nat /\ DOMAIN s = 1..Len(s)
OBVIOUS

LEMMA ToSetIsFinite ==
  ASSUME NEW S, NEW s \in Seq(S)
  PROVE  IsFiniteSet(ToSet(s)) /\ ToSet(s) \subseteq S
<1>1. s \in Surjection(1..Len(s), ToSet(s))
  BY DEF Surjection, ToSet
<1>2. IsFiniteSet(1..Len(s))
  BY FS_Interval
<1>3. IsFiniteSet(ToSet(s))
  BY <1>1, <1>2, FS_Surjection
<1>4. ToSet(s) \subseteq S
  BY DEF ToSet
<1> QED BY <1>3, <1>4

(* The order in which popped jobs go back is chosen, but each goes once.   *)
LEMMA SetToSeqIsList ==
  ASSUME NEW S, IsFiniteSet(S)
  PROVE  /\ SetToSeq(S) \in Seq(S) /\ IsInjective(SetToSeq(S))
         /\ \A x \in S : \E k \in DOMAIN SetToSeq(S) : SetToSeq(S)[k] = x
<1> DEFINE n == Cardinality(S)
<1>1. n \in Nat /\ ExistsBijection(1..n, S)
  BY FS_CardinalityType
<1>2. \E f \in [1..n -> S] : IsInjective(f)
  BY <1>1 DEF ExistsBijection, Bijection, Injection
<1>3. SetToSeq(S) \in [1..n -> S] /\ IsInjective(SetToSeq(S))
  BY <1>2 DEF SetToSeq
<1>4. [1..n -> S] \subseteq Seq(S)
  BY <1>1
<1>5. SetToSeq(S) \in Injection(1..n, S)
  BY <1>3 DEF Injection, IsInjective
<1>6. Cardinality(1..n) = Cardinality(S)
  BY <1>1, FS_Interval
<1>7. SetToSeq(S) \in Surjection(1..n, S)
  BY <1>5, <1>6, FS_Injection
<1> QED BY <1>3, <1>4, <1>7 DEF Surjection

LEMMA NumberOfJobs ==
  ASSUME NEW n \in Nat \ {0}, NEW p \in Nat \ {0}
  PROVE  n * p \in Nat \ {0}
OBVIOUS

LEMMA ModIsThread ==
  ASSUME N \in Nat \ {0}, NEW m \in Nat
  PROVE  m % N \in Threads
BY DEF Threads

-----------------------------------------------------------------------------
(* Jobs and where they are kept.                                           *)

(* Jobs the pool has given out at least once.                              *)
Given == 1..fresh

MainTypes ==
  /\ PerThread \in Nat \ {0} /\ fresh \in 0..N * PerThread
  /\ free \in Seq(Given) /\ mine \in Seq(Given) /\ taken \in Seq(Given)
  /\ mpc \in {"idle", "push", "pop", "control"}
  /\ rr \in Threads /\ left \in Nat
  /\ mpc \in {"push", "pop"} => mi \in Threads /\ left # 0
  /\ mpc = "push" => left <= Len(mine)

QueueTypes ==
  /\ submission \in [Threads -> Seq(Given)]
  /\ completion \in [Threads -> Seq(Given)]
  /\ \A i \in Threads : Len(submission[i]) <= PerThread /\ Len(completion[i]) <= PerThread
  /\ wjob \in [Threads -> {0} \cup Given]
  /\ gjob \in [Threads -> [Greens -> {0} \cup Given]]

JobTypes == MainTypes /\ QueueTypes

GreenTypes ==
  /\ greens \in [Threads -> 0..PerThread]
  /\ running \in [Threads -> Nat]
  /\ ready \in [Threads -> Seq(Nat)]
  /\ ring \in [Threads -> SUBSET Nat]
  /\ done \in [Threads -> SUBSET Nat]
  /\ overlapped \in [Threads -> BOOLEAN]

(* A worker that never took a job has nothing to run.                      *)
Begun(i) ==
  wjob[i] = 0 =>
    /\ wpc[i] \notin {"run", "complete"} /\ running[i] = 0
    /\ ready[i] = <<>> /\ ring[i] = {}
AllBegun == \A i \in Threads : Begun(i)

(* What a worker does not touch, and what main does not.                   *)
LEMMA WorkerLeavesMain ==
  ASSUME NEW i, Worker(i) \/ IsCancelled(i)
  PROVE  /\ UNCHANGED <<main, mhist, shape, desired>>
         /\ ~dead /\ wpc[i] # "gone"
         /\ \E to : wpc' = [wpc EXCEPT ![i] = to]
<1> USE DEF shared, greenstate, whist
<1>1. CASE WriteCurrent(i)
  BY <1>1 DEF WriteCurrent, Goes, GoesOn
<1>2. CASE Sleeps(i)
  BY <1>2 DEF Sleeps, Goes, GoesOn
<1>3. CASE Resumes(i)
  BY <1>3 DEF Resumes, Goes, GoesOn
<1>4. CASE StartsJob(i)
  BY <1>4 DEF StartsJob, TakesJob, Goes, GoesOn
<1>5. CASE ExpiresJob(i)
  BY <1>5 DEF ExpiresJob, TakesJob, Goes, GoesOn
<1>6. CASE \E op \in Ops : Yields(i, op)
  BY <1>6 DEF Yields, Goes, GoesOn
<1>7. CASE Returns(i)
  BY <1>7 DEF Returns, Goes, GoesOn
<1>8. CASE Completes(i)
  BY <1>8 DEF Completes, Goes, GoesOn
<1>9. CASE Exits(i)
  BY <1>9 DEF Exits, Goes, GoesOn
<1>10. CASE \E word \in ring[i] : Drains(i, word)
  BY <1>10 DEF Drains, Goes, GoesOn
<1>11. CASE Decides(i)
  BY <1>11 DEF Decides, Goes, GoesOn
<1>12. CASE IsCancelled(i)
  BY <1>12 DEF IsCancelled, Goes, GoesOn
<1> QED
  BY <1>1, <1>2, <1>3, <1>4, <1>5, <1>6, <1>7, <1>8,
     <1>9, <1>10, <1>11, <1>12 DEF Worker, Rest

LEMMA MainLeavesWorkers ==
  ASSUME Call \/ Proceed
  PROVE  UNCHANGED <<worker, whist, shape>> /\ ~dead
<1>1. CASE SbsGet
  BY <1>1 DEF SbsGet, MainGoes, MainIs, GoesOn
<1>2. CASE SbsGetFails
  BY <1>2 DEF SbsGetFails, MainGoes, MainIs, GoesOn
<1>3. CASE \E n \in 1..2 : SbsPush("rr", 0, n) \/ \E i \in Threads : SbsPush("direct", i, n)
  BY <1>3 DEF SbsPush, MainGoes, MainIs, GoesOn
<1>4. CASE (\E k \in 1..2 : CpsPop("popsome", k)) \/ CpsPop("popall", 2)
  BY <1>4 DEF CpsPop, MainGoes, MainIs, GoesOn
<1>5. CASE CpsAck
  BY <1>5 DEF CpsAck, MainGoes, MainIs, GoesOn
<1>6. CASE \E op \in DOMAIN Desire : Control(op)
  BY <1>6 DEF Control, MainGoes, MainIs, GoesOn
<1>7. CASE PushEnqueues
  BY <1>7 DEF PushEnqueues, MainIs, GoesOn
<1>8. CASE PushIsRefused
  BY <1>8 DEF PushIsRefused, MainIs, GoesOn
<1>9. CASE PopFinds
  BY <1>9 DEF PopFinds, MainIs, GoesOn
<1>10. CASE PopFindsNone
  BY <1>10 DEF PopFindsNone, MainIs, GoesOn
<1>11. CASE Tell
  BY <1>11 DEF Tell, MainGoes, MainIs, GoesOn
<1>12. CASE ControlReturns
  BY <1>12 DEF ControlReturns, MainIs, GoesOn
<1> QED
  BY <1>1, <1>2, <1>3, <1>4, <1>5, <1>6, <1>7, <1>8,
     <1>9, <1>10, <1>11, <1>12 DEF Call, Proceed

LEMMA ExceptTwice ==
  ASSUME NEW S, NEW T, NEW V, NEW f \in [S -> [T -> V]], NEW i, NEW x, NEW e \in V
  PROVE  [f EXCEPT ![i][x] = e] \in [S -> [T -> V]]
OBVIOUS

LEMMA WorkerKeepsQueues ==
  ASSUME Types, JobTypes, AllBegun, NEW i \in Threads, Worker(i) \/ IsCancelled(i)
  PROVE  JobTypes'
<1>1. UNCHANGED <<main, shape>>
  BY WorkerLeavesMain
<1>2. MainTypes'
  BY <1>1 DEF MainTypes, JobTypes, main, pool, mainlocal, shape, Threads, Given
<1>3. Given' = Given /\ Threads' = Threads /\ Greens' = Greens /\ PerThread' = PerThread
  BY <1>1 DEF main, pool, shape, Given, Threads, Greens
<1>4. SUFFICES QueueTypes'
  BY <1>2 DEF JobTypes
<1> USE DEF JobTypes, QueueTypes
<1> HIDE DEF MainTypes
<1>5. ASSUME UNCHANGED <<submission, completion, wjob, gjob>>
      PROVE  QueueTypes'
  BY <1>3, <1>5
<1>6. ASSUME TakesJob(i, "run") \/ TakesJob(i, "complete")
      PROVE  /\ Head(submission[i]) \in Given
             /\ wjob' \in [Threads -> {0} \cup Given]
             /\ submission' \in [Threads -> Seq(Given)]
             /\ \A t \in Threads : Len(submission'[t]) <= PerThread
  <2>1. submission[i] \in Seq(Given) /\ submission[i] # <<>>
        /\ wjob' = [wjob EXCEPT ![i] = Head(submission[i])]
        /\ submission' = [submission EXCEPT ![i] = Tail(submission[i])]
    BY <1>6 DEF TakesJob
  <2>2. Head(submission[i]) \in Given /\ Tail(submission[i]) \in Seq(Given)
        /\ Len(Tail(submission[i])) = Len(submission[i]) - 1
        /\ Len(submission[i]) \in Nat
    BY <2>1, HeadAndTail
  <2> HIDE DEF Given, Threads
  <2>3. wjob' \in [Threads -> {0} \cup Given]
    BY <2>1, <2>2
  <2>4. submission' \in [Threads -> Seq(Given)]
    BY <2>1, <2>2
  <2>5. \A t \in Threads : Len(submission'[t]) <= PerThread
    <3> TAKE t \in Threads
    <3>1. CASE t = i
      <4>1. PerThread \in Nat
        BY DEF MainTypes
      <4> QED BY <2>1, <2>2, <3>1, <4>1
    <3>2. CASE t # i
      BY <2>1, <3>2
    <3> QED BY <3>1, <3>2
  <2> QED BY <2>2, <2>3, <2>4, <2>5
<1>7. CASE WriteCurrent(i)
  BY <1>5, <1>7 DEF WriteCurrent, greenstate
<1>8. CASE Sleeps(i)
  BY <1>5, <1>8 DEF Sleeps, greenstate, shared
<1>9. CASE Resumes(i)
  BY <1>5, <1>9 DEF Resumes, shared
<1>10. CASE StartsJob(i)
  <2>1. TakesJob(i, "run") /\ UNCHANGED completion
    BY <1>10 DEF StartsJob
  <2>2. gjob' = gjob \/ gjob' = [gjob EXCEPT ![i][greens[i] + 1] = Head(submission[i])]
    BY <1>10 DEF StartsJob
  <2>3. gjob' \in [Threads -> [Greens -> {0} \cup Given]]
    <3>1. Head(submission[i]) \in {0} \cup Given
          /\ gjob \in [Threads -> [Greens -> {0} \cup Given]]
      BY <1>6, <2>1
    <3> HIDE DEF QueueTypes
    <3>2. [gjob EXCEPT ![i][greens[i] + 1] = Head(submission[i])]
            \in [Threads -> [Greens -> {0} \cup Given]]
      BY <3>1, ExceptTwice
    <3> QED BY <2>2, <3>1, <3>2
  <2> QED BY <1>3, <1>6, <2>1, <2>3
<1>11. CASE ExpiresJob(i)
  <2>1. TakesJob(i, "complete") /\ UNCHANGED <<completion, gjob>>
    BY <1>11 DEF ExpiresJob, greenstate
  <2> QED BY <1>3, <1>6, <2>1
<1>12. CASE \E op \in Ops : Yields(i, op)
  BY <1>5, <1>12 DEF Yields, shared
<1>13. CASE Returns(i)
  <2>1. UNCHANGED <<submission, completion, wjob>>
        /\ gjob' = [gjob EXCEPT ![i][running[i]] = 0]
    BY <1>13 DEF Returns
  <2>2. gjob' \in [Threads -> [Greens -> {0} \cup Given]]
    BY <2>1
  <2> QED BY <1>3, <2>1, <2>2
<1>14. CASE Completes(i)
  <2>1. UNCHANGED <<submission, wjob, gjob>>
    BY <1>14 DEF Completes, greenstate
  <2>2. CASE Len(completion[i]) = PerThread
    BY <1>5, <1>14, <2>1, <2>2 DEF Completes
  <2>3. CASE Len(completion[i]) # PerThread
    <3>1. completion' = [completion EXCEPT ![i] = Append(completion[i], wjob[i])]
      BY <1>14, <2>3 DEF Completes, Reports
    <3>2. wjob[i] \in Given
      BY <1>14 DEF Completes, Goes, AllBegun, Begun
    <3>3. /\ completion[i] \in Seq(Given) /\ Len(completion[i]) <= PerThread
          /\ PerThread \in Nat
      BY DEF MainTypes
    <3>4. /\ Append(completion[i], wjob[i]) \in Seq(Given)
          /\ Len(Append(completion[i], wjob[i])) <= PerThread
      BY <2>3, <3>2, <3>3, AppendIsSeq
    <3> HIDE DEF Given, Threads
    <3>5. completion' \in [Threads -> Seq(Given)]
      BY <3>1, <3>4
    <3>6. ASSUME NEW t \in Threads PROVE Len(completion'[t]) <= PerThread
      BY <3>1, <3>4
    <3> QED BY <1>3, <2>1, <3>5, <3>6
  <2> QED BY <2>2, <2>3
<1>15. CASE Exits(i)
  BY <1>5, <1>15 DEF Exits, greenstate
<1>16. CASE \E word \in ring[i] : Drains(i, word)
  BY <1>5, <1>16 DEF Drains, shared
<1>17. CASE Decides(i)
  BY <1>5, <1>17 DEF Decides, shared, greenstate
<1>18. CASE IsCancelled(i)
  BY <1>5, <1>18 DEF IsCancelled, shared, greenstate
<1> QED
  BY <1>7, <1>8, <1>9, <1>10, <1>11, <1>12, <1>13, <1>14,
     <1>15, <1>16, <1>17, <1>18 DEF Worker, Rest

-----------------------------------------------------------------------------
(* Green threads.                                                          *)
Timer(g) == greent_pack(g, TRUE, FALSE, FALSE)

LEMMA UnpackedThread ==
  ASSUME NEW word, NEW g, g = (word - (word % 8)) \div 8
  PROVE  greent_unpack(word).green_thread = g
BY Zenon DEF greent_unpack

LEMMA UnpackedTag ==
  ASSUME NEW word
  PROVE  greent_unpack(word).with_timeout = IsSet(word, 4)
BY Zenon DEF greent_unpack

(* What goes to the ring comes back: the tag tells the operation from its  *)
(* timeout, and the rest is the green thread (greent.c, greent_pack and    *)
(* greent_unpack).                                                         *)
LEMMA WordsTell ==
  ASSUME NEW g \in Nat
  PROVE  /\ Primary(g) \in Nat /\ Timer(g) \in Nat
         /\ Woken(Primary(g)) = <<g>>
         /\ Woken(Timer(g)) = <<>>
         /\ \A h \in Nat : Primary(g) # Timer(h) /\ (Primary(h) = Primary(g) => h = g)
<1>1. Primary(g) = 8 * g /\ Timer(g) = 8 * g + 4
  BY DEF Primary, Timer, greent_pack, Address, Bit
<1>2. \A h \in Nat : Primary(h) = 8 * h /\ Timer(h) = 8 * h + 4
  BY DEF Primary, Timer, greent_pack, Address, Bit
<1>3. greent_unpack(8 * g).green_thread = g /\ ~greent_unpack(8 * g).with_timeout
  <2>1. (8 * g) % 8 = 0 /\ (8 * g) \div 4 = 2 * g /\ (2 * g) % 2 = 0 /\ (8 * g) \div 8 = g
    OBVIOUS
  <2>2. g = (8 * g - ((8 * g) % 8)) \div 8
    BY <2>1
  <2>3. greent_unpack(8 * g).with_timeout = IsSet(8 * g, 4)
    BY UnpackedTag
  <2>4. ~IsSet(8 * g, 4)
    BY <2>1 DEF IsSet
  <2>5. greent_unpack(8 * g).green_thread = g
    BY <2>2, UnpackedThread
  <2> QED BY <2>3, <2>4, <2>5, Zenon
<1>4. greent_unpack(8 * g + 4).with_timeout
  <2>1. (8 * g + 4) \div 4 = 2 * g + 1 /\ (2 * g + 1) % 2 = 1
    OBVIOUS
  <2>2. IsSet(8 * g + 4, 4)
    BY <2>1 DEF IsSet
  <2>3. greent_unpack(8 * g + 4).with_timeout = IsSet(8 * g + 4, 4)
    BY UnpackedTag
  <2> QED BY <2>2, <2>3
<1> QED BY <1>1, <1>2, <1>3, <1>4 DEF Woken

LEMMA Submitted ==
  ASSUME NEW g \in Nat, NEW op \in Operations
  PROVE  /\ greent_do_submit(g, op) = <<>> /\ ToSet(greent_do_submit(g, op)) = {}
         \/ /\ greent_do_submit(g, op) # <<>>
            /\ Primary(g) \in ToSet(greent_do_submit(g, op))
            /\ ToSet(greent_do_submit(g, op)) \subseteq {Primary(g), Timer(g)}
<1>1. CASE op = "NOP"
  BY <1>1 DEF greent_do_submit, ToSet, Simple, Timed
<1>2. CASE op \in Simple
  <2>1. greent_do_submit(g, op) = <<Primary(g)>>
    BY <1>2 DEF greent_do_submit, Simple, Timed, Primary
  <2>2. ToSet(<<Primary(g)>>) = {Primary(g)}
    BY DEF ToSet
  <2> QED BY <2>1, <2>2
<1>3. CASE op \in Timed
  <2>1. greent_do_submit(g, op) = <<Primary(g), Timer(g)>>
    BY <1>3 DEF greent_do_submit, Simple, Timed, Primary, Timer
  <2>2. ToSet(<<Primary(g), Timer(g)>>) = {Primary(g), Timer(g)}
    BY DEF ToSet
  <2> QED BY <2>1, <2>2
<1> QED BY <1>1, <1>2, <1>3 DEF Operations

(* The green threads that are not done are in exactly one place each, and  *)
(* no others are in any: one may run, some are ready, once each, and the   *)
(* ring works for the rest.  It may still have the timeouts of any.        *)
Settled(run, rdy, words, given, over) ==
  /\ run # 0 => run \in (1..given) \ over /\ Primary(run) \notin words
  /\ \A k \in DOMAIN rdy :
       rdy[k] \in (1..given) \ over /\ rdy[k] # run /\ Primary(rdy[k]) \notin words
  /\ IsInjective(rdy)
  /\ \A word \in words : \E g \in 1..given :
       \/ word = Primary(g) /\ g \notin over
       \/ word = Timer(g)
  /\ \A g \in (1..given) \ over :
       run = g \/ (\E k \in DOMAIN rdy : rdy[k] = g) \/ Primary(g) \in words
  /\ over \subseteq 1..given

LEMMA SettledResume ==
  ASSUME NEW rdy \in Seq(Nat), rdy # <<>>, NEW words, NEW given \in Nat, NEW over,
         Settled(0, rdy, words, given, over)
  PROVE  Settled(Head(rdy), Tail(rdy), words, given, over) /\ Head(rdy) # 0
<1>1. /\ DOMAIN Tail(rdy) = 1..Len(rdy) - 1 /\ \A k \in 1..Len(rdy) - 1 : Tail(rdy)[k] = rdy[k + 1]
      /\ Head(rdy) = rdy[1] /\ DOMAIN rdy = 1..Len(rdy) /\ Len(rdy) \in Nat \ {0}
  BY HeadAndTail
<1>2. rdy[1] \in (1..given) \ over /\ Primary(rdy[1]) \notin words
  BY <1>1 DEF Settled
<1>3. \A k \in DOMAIN Tail(rdy) :
        /\ Tail(rdy)[k] \in (1..given) \ over /\ Tail(rdy)[k] # Head(rdy)
        /\ Primary(Tail(rdy)[k]) \notin words
  <2> TAKE k \in DOMAIN Tail(rdy)
  <2>1. k \in 1..Len(rdy) - 1 /\ k + 1 \in DOMAIN rdy /\ k + 1 # 1 /\ 1 \in DOMAIN rdy
    BY <1>1
  <2>2. Tail(rdy)[k] = rdy[k + 1]
    BY <1>1, <2>1
  <2>3. rdy[k + 1] # rdy[1]
    BY <2>1 DEF Settled, IsInjective
  <2> QED BY <1>1, <2>1, <2>2, <2>3 DEF Settled
<1>4. IsInjective(Tail(rdy))
  <2> SUFFICES ASSUME NEW a \in DOMAIN Tail(rdy), NEW b \in DOMAIN Tail(rdy),
                      Tail(rdy)[a] = Tail(rdy)[b]
               PROVE  a = b
    BY DEF IsInjective
  <2>1. \A k \in 1..Len(rdy) - 1 : k \in Nat /\ k + 1 \in 1..Len(rdy)
    BY <1>1
  <2>2. a \in Nat /\ b \in Nat /\ a + 1 \in DOMAIN rdy /\ b + 1 \in DOMAIN rdy
    BY <1>1, <2>1
  <2>3. rdy[a + 1] = rdy[b + 1]
    BY <1>1
  <2>4. a + 1 = b + 1
    BY <2>2, <2>3 DEF Settled, IsInjective
  <2> QED BY <2>2, <2>4
<1>5. ASSUME NEW g \in (1..given) \ over, Primary(g) \notin words, g # Head(rdy)
      PROVE  \E k \in DOMAIN Tail(rdy) : Tail(rdy)[k] = g
  <2>1. PICK k \in 1..Len(rdy) : rdy[k] = g
    BY <1>1, <1>5 DEF Settled
  <2>2. k - 1 \in 1..Len(rdy) - 1 /\ Tail(rdy)[k - 1] = g
    BY <1>1, <1>5, <2>1
  <2> QED BY <1>1, <2>2
<1> QED BY <1>1, <1>2, <1>3, <1>4, <1>5 DEF Settled

LEMMA SettledStart ==
  ASSUME NEW rdy \in Seq(Nat), NEW words, NEW given \in Nat, NEW over,
         Settled(0, rdy, words, given, over)
  PROVE  Settled(given + 1, rdy, words, given + 1, over)
<1>1. ASSUME NEW word \in words, word = Primary(given + 1)
      PROVE  FALSE
  <2>1. PICK g \in 1..given : word = Primary(g) \/ word = Timer(g)
    BY <1>1 DEF Settled
  <2>2. g \in Nat /\ given + 1 \in Nat /\ g # given + 1
    OBVIOUS
  <2>3. Primary(given + 1) # Timer(g)
    BY <2>2, WordsTell
  <2>4. Primary(g) # Primary(given + 1)
    BY <2>2, WordsTell
  <2> QED BY <1>1, <2>1, <2>3, <2>4
<1>2. Primary(given + 1) \notin words
  BY <1>1
<1>3. 1..given \subseteq 1..given + 1 /\ given + 1 \in 1..given + 1 /\ given + 1 \notin 1..given
      /\ given + 1 # 0
  OBVIOUS
<1>4. \A g \in 1..given + 1 : g \in 1..given \/ g = given + 1
  OBVIOUS
<1> HIDE DEF Primary
<1> QED BY <1>2, <1>3, <1>4 DEF Settled

LEMMA SettledWait ==
  ASSUME NEW run \in Nat \ {0}, NEW rdy, NEW words, NEW given \in Nat, NEW over,
         NEW new \in SUBSET {Primary(run), Timer(run)}, Primary(run) \in new,
         Settled(run, rdy, words, given, over)
  PROVE  Settled(0, rdy, words \cup new, given, over)
<1>1. run \in (1..given) \ over
  BY DEF Settled
<1>2. ASSUME NEW k \in DOMAIN rdy
      PROVE  rdy[k] \in (1..given) \ over /\ rdy[k] # 0 /\ Primary(rdy[k]) \notin words \cup new
  <2>1. rdy[k] \in (1..given) \ over /\ rdy[k] # run /\ Primary(rdy[k]) \notin words
    BY DEF Settled
  <2>2. Primary(rdy[k]) # Primary(run) /\ Primary(rdy[k]) # Timer(run)
    BY <1>1, <2>1, WordsTell
  <2> QED BY <2>1, <2>2
<1>3. \A word \in words \cup new : \E g \in 1..given :
        \/ word = Primary(g) /\ g \notin over
        \/ word = Timer(g)
  BY <1>1 DEF Settled
<1> QED BY <1>2, <1>3 DEF Settled

LEMMA SettledReturn ==
  ASSUME NEW run \in Nat \ {0}, NEW rdy, NEW words, NEW given \in Nat, NEW over,
         Settled(run, rdy, words, given, over)
  PROVE  Settled(0, rdy, words, given, over \cup {run})
<1>1. run \in (1..given) \ over /\ Primary(run) \notin words
  BY DEF Settled
<1>2. \A word \in words : \E g \in 1..given :
        \/ word = Primary(g) /\ g \notin over \cup {run}
        \/ word = Timer(g)
  <2> TAKE word \in words
  <2>1. PICK g \in 1..given : (word = Primary(g) /\ g \notin over) \/ word = Timer(g)
    BY DEF Settled
  <2>2. word = Primary(g) => g # run
    BY <1>1
  <2> QED BY <2>1, <2>2
<1> QED BY <1>1, <1>2 DEF Settled

LEMMA SettledWake ==
  ASSUME NEW run \in Nat, NEW rdy \in Seq(Nat), NEW words, NEW given \in Nat, NEW over,
         NEW word \in words, Settled(run, rdy, words, given, over)
  PROVE  Settled(run, rdy \o Woken(word), words \ {word}, given, over)
         /\ Woken(word) \in Seq(Nat)
<1>1. PICK g \in 1..given : (word = Primary(g) /\ g \notin over) \/ word = Timer(g)
  BY DEF Settled
<1>2. CASE word = Timer(g)
  <2>1. Woken(word) = <<>> /\ \A h \in Nat : word # Primary(h)
    BY <1>2, WordsTell
  <2>2. rdy \o Woken(word) = rdy
    BY <2>1
  <2>3. \A h \in 1..given : Primary(h) \in words => Primary(h) \in words \ {word}
    BY <2>1
  <2> QED BY <2>1, <2>2, <2>3 DEF Settled
<1>3. CASE word = Primary(g) /\ g \notin over
  <2>1. Woken(word) = <<g>> /\ \A h \in Nat : Primary(h) = word => h = g
    BY <1>3, WordsTell
  <2> DEFINE new == Append(rdy, g)
  <2>2. rdy \o Woken(word) = new
    BY <2>1
  <2>3. /\ DOMAIN new = 1..Len(rdy) + 1 /\ \A k \in 1..Len(rdy) : new[k] = rdy[k]
        /\ new[Len(rdy) + 1] = g /\ Len(rdy) \in Nat /\ DOMAIN rdy = 1..Len(rdy)
    BY AppendIsSeq
  <2> HIDE DEF new
  <2>4. \A k \in DOMAIN rdy : rdy[k] # g
    BY <1>3 DEF Settled
  <2>5. run # g
    BY <1>3 DEF Settled
  <2>6. \A k \in 1..Len(rdy) + 1 : k \in 1..Len(rdy) \/ k = Len(rdy) + 1
    BY <2>3
  <2>7. IsInjective(new)
    BY <2>3, <2>4, <2>6 DEF Settled, IsInjective
  <2>8. \A k \in DOMAIN new :
          /\ new[k] \in (1..given) \ over /\ new[k] # run
          /\ Primary(new[k]) \notin words \ {word}
    BY <1>3, <2>3, <2>5, <2>6 DEF Settled
  <2>9. ASSUME NEW h \in (1..given) \ over, run # h, Primary(h) \notin words \ {word}
        PROVE  \E k \in DOMAIN new : new[k] = h
    <3>1. CASE h = g
      BY <2>3, <3>1
    <3>2. CASE h # g
      <4>1. Primary(h) # word
        BY <2>1, <3>2
      <4>2. PICK k \in DOMAIN rdy : rdy[k] = h
        BY <2>9, <4>1 DEF Settled
      <4> QED BY <2>3, <4>2
    <3> QED BY <3>1, <3>2
  <2>10. Settled(run, new, words \ {word}, given, over)
    BY <2>7, <2>8, <2>9 DEF Settled
  <2>11. Woken(word) \in Seq(Nat)
    BY <2>1
  <2> QED BY <2>2, <2>10, <2>11
<1> QED BY <1>1, <1>2, <1>3

(* There are never more green threads ready than there are.                *)
LEMMA SettledFits ==
  ASSUME NEW run, NEW rdy \in Seq(Nat), NEW words, NEW given \in Nat, NEW over,
         Settled(run, rdy, words, given, over)
  PROVE  Len(rdy) <= given /\ rdy \in Seq(1..given)
<1>1. rdy \in Injection(1..Len(rdy), 1..given)
  BY DEF Settled, Injection
<1>2. Cardinality(1..Len(rdy)) <= Cardinality(1..given)
  BY <1>1, FS_Injection, FS_Interval
<1>3. Cardinality(1..Len(rdy)) = Len(rdy) /\ Cardinality(1..given) = given
  <2>1. Len(rdy) \in Nat
    OBVIOUS
  <2>2. \A n \in Nat : Cardinality(1..n) = IF 1 > n THEN 0 ELSE n - 1 + 1
    BY FS_Interval
  <2>3. \A n \in Nat : Cardinality(1..n) = n
    BY <2>2
  <2> QED BY <2>1, <2>3
<1>4. rdy \in Seq(1..given)
  BY <1>1 DEF Injection
<1> QED BY <1>2, <1>3, <1>4

Apart(i) ==
  /\ Settled(running[i], ready[i], ring[i], greens[i], done[i])
  /\ wpc[i] = "run" /\ ~dead => running[i] # 0
  /\ wpc[i] = "complete" => running[i] = 0
AllApart == \A i \in Threads : Apart(i)

GreenInv == GreenTypes /\ AllBegun /\ AllApart

(* A worker touches nothing of another.                                    *)
SameWorker(t) ==
  /\ submission'[t] = submission[t] /\ completion'[t] = completion[t]
  /\ current'[t] = current[t]
  /\ wpc'[t] = wpc[t] /\ wjob'[t] = wjob[t] /\ gjob'[t] = gjob[t]
  /\ running'[t] = running[t] /\ ready'[t] = ready[t] /\ ring'[t] = ring[t]
  /\ greens'[t] = greens[t] /\ done'[t] = done[t] /\ overlapped'[t] = overlapped[t]
  /\ ended'[t] = ended[t]

LEMMA WorkersAreApart ==
  ASSUME Types, QueueTypes, GreenTypes, NEW i \in Threads, Worker(i) \/ IsCancelled(i)
  PROVE  \A t \in Threads : t # i => SameWorker(t)
<1> SUFFICES ASSUME NEW t \in Threads, t # i
             PROVE  SameWorker(t)
  OBVIOUS
<1>0. /\ t \in DOMAIN submission /\ t \in DOMAIN completion /\ t \in DOMAIN current
      /\ t \in DOMAIN wpc /\ t \in DOMAIN wjob /\ t \in DOMAIN gjob /\ t \in DOMAIN running
      /\ t \in DOMAIN ready /\ t \in DOMAIN ring /\ t \in DOMAIN greens /\ t \in DOMAIN done
      /\ t \in DOMAIN overlapped /\ t \in DOMAIN ended
  BY DEF Types, QueueTypes, GreenTypes
<1> USE <1>0 DEF SameWorker, shared, greenstate, whist
<1>1. CASE WriteCurrent(i)
  BY <1>1 DEF WriteCurrent, Goes
<1>2. CASE Sleeps(i)
  BY <1>2 DEF Sleeps, Goes
<1>3. CASE Resumes(i)
  BY <1>3 DEF Resumes, Goes
<1>4. CASE StartsJob(i)
  BY <1>4 DEF StartsJob, TakesJob, Goes
<1>5. CASE ExpiresJob(i)
  BY <1>5 DEF ExpiresJob, TakesJob, Goes
<1>6. CASE \E op \in Ops : Yields(i, op)
  BY <1>6 DEF Yields, Goes
<1>7. CASE Returns(i)
  BY <1>7 DEF Returns, Goes
<1>8. CASE Completes(i)
  BY <1>8 DEF Completes, Reports, Goes
<1>9. CASE Exits(i)
  BY <1>9 DEF Exits, Goes
<1>10. CASE \E word \in ring[i] : Drains(i, word)
  BY <1>10 DEF Drains, Goes
<1>11. CASE Decides(i)
  BY <1>11 DEF Decides, Goes
<1>12. CASE IsCancelled(i)
  BY <1>12 DEF IsCancelled, Goes
<1> QED
  BY <1>1, <1>2, <1>3, <1>4, <1>5, <1>6, <1>7, <1>8,
     <1>9, <1>10, <1>11, <1>12 DEF Worker, Rest

(* What worker i leaves behind when it has moved.                          *)
Moved(i) == GreenTypes' /\ Begun(i)' /\ Apart(i)'

LEMMA WorkerKeepsGreens ==
  ASSUME Types, JobTypes, GreenInv, NEW i \in Threads, Worker(i) \/ IsCancelled(i)
  PROVE  GreenInv'
<1>1. UNCHANGED <<N, PerThread>> /\ Threads' = Threads /\ ~dead
  BY WorkerLeavesMain DEF shape, Threads
<1>2. \A t \in Threads : t # i => SameWorker(t)
  BY WorkersAreApart DEF JobTypes, GreenInv
<1>3. \A t \in Threads : t # i => Begun(t)' /\ Apart(t)'
  BY <1>1, <1>2 DEF SameWorker, GreenInv, AllBegun, AllApart, Begun, Apart
<1>4. SUFFICES Moved(i)
  BY <1>1, <1>3 DEF Moved, GreenInv, AllBegun, AllApart
<1>5. GreenTypes /\ Begun(i) /\ Apart(i)
  BY DEF GreenInv, AllBegun, AllApart
<1>6. /\ wpc \in [Threads -> {"drain", "ACTIVE", "PAUSED", "select", "sleep", "run",
                              "complete", "exit", "gone"}]
      /\ submission \in [Threads -> Seq(Given)] /\ wjob \in [Threads -> {0} \cup Given]
      /\ PerThread \in Nat \ {0} /\ 0 \notin Given /\ Given \subseteq Nat
  BY DEF Types, JobTypes, MainTypes, QueueTypes, Given
<1>7. /\ running[i] \in Nat /\ ready[i] \in Seq(Nat) /\ ring[i] \in SUBSET Nat
      /\ greens[i] \in 0..PerThread /\ done[i] \in SUBSET Nat /\ greens[i] \in Nat
      /\ Settled(running[i], ready[i], ring[i], greens[i], done[i])
  BY <1>1, <1>5, <1>6 DEF GreenTypes, Apart
<1> HIDE DEF Threads, Given
<1>8. ASSUME UNCHANGED <<wjob, greenstate, done, overlapped>>,
             \E to : to \notin {"run", "complete"} /\ wpc' = [wpc EXCEPT ![i] = to]
      PROVE  Moved(i)
  BY <1>1, <1>5, <1>6, <1>8 DEF Moved, GreenTypes, Begun, Apart, greenstate
<1>9. CASE WriteCurrent(i)
  <2>1. UNCHANGED <<wjob, greenstate, done, overlapped>>
    BY <1>9 DEF WriteCurrent, whist
  <2>2. \E to : to \notin {"run", "complete"} /\ wpc' = [wpc EXCEPT ![i] = to]
    BY <1>9 DEF WriteCurrent, Goes
  <2> QED BY <1>8, <2>1, <2>2
<1>10. CASE Sleeps(i)
  <2>1. UNCHANGED <<wjob, greenstate, done, overlapped>>
    BY <1>10 DEF Sleeps, whist
  <2>2. \E to : to \notin {"run", "complete"} /\ wpc' = [wpc EXCEPT ![i] = to]
    BY <1>10 DEF Sleeps, Goes
  <2> QED BY <1>8, <2>1, <2>2
<1>11. CASE Exits(i)
  <2>1. UNCHANGED <<wjob, greenstate, done, overlapped>>
    BY <1>11 DEF Exits, whist
  <2>2. \E to : to \notin {"run", "complete"} /\ wpc' = [wpc EXCEPT ![i] = to]
    BY <1>11 DEF Exits, Goes
  <2> QED BY <1>8, <2>1, <2>2
<1>12. CASE IsCancelled(i)
  <2>1. UNCHANGED <<wjob, greenstate, done, overlapped>>
    BY <1>12 DEF IsCancelled, whist
  <2>2. \E to : to \notin {"run", "complete"} /\ wpc' = [wpc EXCEPT ![i] = to]
    BY <1>12 DEF IsCancelled, Goes
  <2> QED BY <1>8, <2>1, <2>2
<1>13. CASE Decides(i)
  <2>1. AfterDesired(i) \in {"ACTIVE", "PAUSED", "exit", "select"}
    BY AfterDesiredIs
  <2>2. wpc' = [wpc EXCEPT ![i] = AfterDesired(i)] /\ UNCHANGED <<wjob, greenstate, whist>>
    BY <1>13 DEF Decides, Goes
  <2>3. \E to : to \notin {"run", "complete"} /\ wpc' = [wpc EXCEPT ![i] = to]
    BY <2>1, <2>2
  <2>4. UNCHANGED <<wjob, greenstate, done, overlapped>>
    BY <2>2 DEF whist
  <2> QED BY <1>8, <2>3, <2>4
<1>14. CASE Resumes(i)
  <2>1. wpc' = [wpc EXCEPT ![i] = "run"] /\ UNCHANGED <<wjob, greens, ring, done, overlapped>>
    BY <1>14 DEF Resumes, Goes, whist
  <2>2. CASE running[i] # 0 /\ UNCHANGED <<running, ready>>
    BY <1>1, <1>5, <1>6, <2>1, <2>2 DEF Moved, GreenTypes, Begun, Apart
  <2>3. CASE /\ running[i] = 0 /\ ready[i] # <<>>
             /\ running' = [running EXCEPT ![i] = Head(ready[i])]
             /\ ready' = [ready EXCEPT ![i] = Tail(@)]
    <3>1. Head(ready[i]) \in Nat /\ Tail(ready[i]) \in Seq(Nat)
      BY <1>7, <2>3, HeadAndTail
    <3>2. /\ Settled(Head(ready[i]), Tail(ready[i]), ring[i], greens[i], done[i])
          /\ Head(ready[i]) # 0
      BY <1>7, <2>3, SettledResume
    <3>3. running'[i] = Head(ready[i]) /\ ready'[i] = Tail(ready[i]) /\ wpc'[i] = "run"
      BY <1>5, <1>6, <2>1, <2>3 DEF GreenTypes
    <3>4. GreenTypes'
      BY <1>1, <1>5, <2>1, <2>3, <3>1 DEF GreenTypes
    <3>5. Apart(i)'
      BY <2>1, <3>2, <3>3 DEF Apart
    <3>6. Begun(i)'
      BY <1>5, <2>1, <2>3 DEF Begun
    <3> QED BY <3>4, <3>5, <3>6 DEF Moved
  <2> QED BY <1>14, <2>2, <2>3 DEF Resumes
<1>15. CASE StartsJob(i)
  <2>1. /\ TakesJob(i, "run") /\ UNCHANGED <<ready, ring, done>> /\ running[i] = 0
        /\ wpc' = [wpc EXCEPT ![i] = "run"] /\ wjob' = [wjob EXCEPT ![i] = Head(submission[i])]
        /\ overlapped' \in [Threads -> BOOLEAN]
    BY <1>5, <1>15 DEF StartsJob, TakesJob, Goes, GreenTypes
  <2>2. Head(submission[i]) \in Given /\ Head(submission[i]) # 0
    BY <1>6, <2>1, HeadAndTail DEF TakesJob
  <2>3. Begun(i)'
    BY <1>6, <2>1, <2>2 DEF Begun
  <2>4. CASE greens[i] + 1 > PerThread
    <3>1. dead' /\ UNCHANGED <<greens, running>>
      BY <1>15, <2>4 DEF StartsJob
    <3> QED BY <1>1, <1>5, <1>6, <2>1, <2>3, <3>1 DEF Moved, GreenTypes, Apart
  <2>5. CASE ~(greens[i] + 1 > PerThread)
    <3>1. /\ greens' = [greens EXCEPT ![i] = greens[i] + 1]
          /\ running' = [running EXCEPT ![i] = greens[i] + 1]
      BY <1>15, <2>5 DEF StartsJob
    <3>2. greens[i] + 1 \in 0..PerThread /\ greens[i] + 1 \in Nat /\ greens[i] + 1 # 0
      BY <1>6, <1>7, <2>5
    <3>3. Settled(greens[i] + 1, ready[i], ring[i], greens[i] + 1, done[i])
      BY <1>7, <2>1, SettledStart
    <3>4. running'[i] = greens[i] + 1 /\ greens'[i] = greens[i] + 1 /\ wpc'[i] = "run"
      BY <1>5, <1>6, <2>1, <3>1 DEF GreenTypes
    <3>5. GreenTypes'
      BY <1>1, <1>5, <2>1, <3>1, <3>2 DEF GreenTypes
    <3>6. Apart(i)'
      BY <2>1, <3>2, <3>3, <3>4 DEF Apart
    <3> QED BY <2>3, <3>5, <3>6 DEF Moved
  <2> QED BY <2>4, <2>5
<1>16. CASE ExpiresJob(i)
  <2>1. /\ TakesJob(i, "complete") /\ UNCHANGED <<greenstate, done>> /\ running[i] = 0
        /\ wpc' = [wpc EXCEPT ![i] = "complete"]
        /\ wjob' = [wjob EXCEPT ![i] = Head(submission[i])]
        /\ overlapped' \in [Threads -> BOOLEAN]
    BY <1>5, <1>16 DEF ExpiresJob, TakesJob, Goes, GreenTypes
  <2>2. Head(submission[i]) \in Given /\ Head(submission[i]) # 0
    BY <1>6, <2>1, HeadAndTail DEF TakesJob
  <2> QED BY <1>1, <1>5, <1>6, <2>1, <2>2 DEF Moved, GreenTypes, Begun, Apart, greenstate
<1>17. CASE \E op \in Ops : Yields(i, op)
  <2>1. PICK op \in Ops : Yields(i, op)
    BY <1>17
  <2> DEFINE run == running[i]
             new == ToSet(greent_do_submit(run, op))
  <2>2. /\ UNCHANGED <<wjob, ready, greens, done, overlapped>> /\ wpc[i] = "run"
        /\ wpc' = [wpc EXCEPT ![i] = "drain"]
        /\ ring' = [ring EXCEPT ![i] = ring[i] \cup new]
        /\ running' = [running EXCEPT ![i] = IF greent_do_submit(run, op) = <<>> THEN run ELSE 0]
    BY <2>1 DEF Yields, Goes
  <2>3. run \in Nat \ {0} /\ op \in Operations
    BY <1>1, <1>5, <1>7, <2>2, GtpoolrrAssumption DEF Apart
  <2>4. ring'[i] = ring[i] \cup new /\ wpc'[i] = "drain"
        /\ running'[i] = IF greent_do_submit(run, op) = <<>> THEN run ELSE 0
    BY <1>5, <1>6, <2>2 DEF GreenTypes
  <2>5. Begun(i)'
    BY <1>5, <2>2 DEF Begun
  <2>6. CASE greent_do_submit(run, op) = <<>> /\ new = {}
    <3>1. running' = running /\ ring' = ring
      BY <1>5, <2>2, <2>6 DEF GreenTypes
    <3> QED BY <1>1, <1>5, <2>2, <2>4, <2>5, <3>1 DEF Moved, GreenTypes, Apart
  <2>7. CASE /\ greent_do_submit(run, op) # <<>>
             /\ Primary(run) \in new /\ new \subseteq {Primary(run), Timer(run)}
    <3>1. Settled(0, ready[i], ring[i] \cup new, greens[i], done[i])
      BY <1>7, <2>3, <2>7, SettledWait
    <3> HIDE DEF new
    <3>2. ring[i] \cup new \in SUBSET Nat
      <4>1. Primary(run) \in Nat /\ Timer(run) \in Nat
        BY <2>3, WordsTell
      <4> QED BY <1>7, <2>7, <4>1
    <3>3. GreenTypes'
      BY <1>1, <1>5, <2>2, <2>7, <3>2 DEF GreenTypes
    <3>4. Apart(i)'
      BY <2>2, <2>4, <2>7, <3>1 DEF Apart
    <3> QED BY <2>5, <3>3, <3>4 DEF Moved
  <2> QED BY <2>3, <2>6, <2>7, Submitted
<1>18. CASE Returns(i)
  <2>1. /\ UNCHANGED <<wjob, ready, greens, ring, overlapped>> /\ wpc[i] = "run"
        /\ wpc' = [wpc EXCEPT ![i] = "complete"]
        /\ done' = [done EXCEPT ![i] = done[i] \cup {running[i]}]
        /\ running' = [running EXCEPT ![i] = 0]
    BY <1>18 DEF Returns, Goes
  <2>2. running[i] \in Nat \ {0}
    BY <1>1, <1>5, <1>7, <2>1 DEF Apart
  <2>3. Settled(0, ready[i], ring[i], greens[i], done[i] \cup {running[i]})
    BY <1>7, <2>2, SettledReturn
  <2>4. running'[i] = 0 /\ done'[i] = done[i] \cup {running[i]} /\ wpc'[i] = "complete"
    BY <1>5, <1>6, <2>1 DEF GreenTypes
  <2>5. GreenTypes'
    BY <1>1, <1>5, <1>7, <2>1, <2>2 DEF GreenTypes
  <2>6. Apart(i)'
    BY <2>1, <2>3, <2>4 DEF Apart
  <2>7. Begun(i)'
    BY <1>5, <2>1 DEF Begun
  <2> QED BY <2>5, <2>6, <2>7 DEF Moved
<1>19. CASE Completes(i)
  <2>1. UNCHANGED <<wjob, greenstate, done, overlapped>> /\ wpc' = [wpc EXCEPT ![i] = "drain"]
    BY <1>19 DEF Completes, Goes
  <2>2. \E to : to \notin {"run", "complete"} /\ wpc' = [wpc EXCEPT ![i] = to]
    BY <2>1
  <2> QED BY <1>8, <2>1, <2>2
<1>20. CASE \E word \in ring[i] : Drains(i, word)
  <2>1. PICK word \in ring[i] : Drains(i, word)
    BY <1>20
  <2>2. /\ UNCHANGED <<wjob, running, greens, done, overlapped>>
        /\ wpc' = [wpc EXCEPT ![i] = "drain"]
        /\ ring' = [ring EXCEPT ![i] = ring[i] \ {word}]
        /\ ready' = [ready EXCEPT ![i] = ready[i] \o Woken(word)]
    BY <2>1 DEF Drains, Goes, whist
  <2>3. /\ Settled(running[i], ready[i] \o Woken(word), ring[i] \ {word}, greens[i], done[i])
        /\ ready[i] \o Woken(word) \in Seq(Nat)
    <3>1. Woken(word) \in Seq(Nat)
      BY <1>7, SettledWake
    <3> QED BY <1>7, <3>1, SettledWake, SMTT(30)
  <2>4. ready'[i] = ready[i] \o Woken(word) /\ ring'[i] = ring[i] \ {word} /\ wpc'[i] = "drain"
    BY <1>5, <1>6, <2>2 DEF GreenTypes
  <2>5. GreenTypes'
    BY <1>1, <1>5, <1>7, <2>2, <2>3 DEF GreenTypes
  <2>6. Apart(i)'
    BY <2>2, <2>3, <2>4 DEF Apart
  <2>7. Begun(i)'
    BY <1>5, <2>2, <2>4 DEF Begun
  <2> QED BY <2>5, <2>6, <2>7 DEF Moved
<1> QED
  BY <1>9, <1>10, <1>11, <1>12, <1>13, <1>14, <1>15, <1>16,
     <1>17, <1>18, <1>19, <1>20 DEF Worker, Rest

LEMMA MainKeepsGreens ==
  ASSUME GreenInv, Call \/ Proceed
  PROVE  GreenInv'
<1>1. UNCHANGED <<worker, whist, shape>> /\ ~dead
  BY MainLeavesWorkers
<1> QED
  BY <1>1 DEF worker, greenstate, whist, shape, Threads, GreenInv, GreenTypes, AllBegun, Begun,
              AllApart, Apart

LEMMA ListsOfJobs ==
  ASSUME Types, JobTypes
  PROVE  /\ Given \subseteq Jobs /\ 0 \in Threads
         /\ free \in Seq(Jobs) /\ mine \in Seq(Jobs) /\ taken \in Seq(Jobs)
         /\ \A i \in Threads : submission[i] \in Seq(Jobs) /\ completion[i] \in Seq(Jobs)
         /\ \A i \in Threads : wjob[i] \in {0} \cup Jobs
<1>1. Given \subseteq Jobs
  <2>1. fresh \in 0..N * PerThread /\ N * PerThread \in Nat
    BY NumberOfJobs DEF Types, JobTypes, MainTypes
  <2> QED BY <2>1 DEF Given, Jobs
<1>2. Seq(Given) \subseteq Seq(Jobs)
  BY <1>1, SeqGrows
<1>3. 0 \in Threads
  BY DEF Types, Threads
<1> HIDE DEF Given, Threads, Jobs
<1> QED BY <1>1, <1>2, <1>3 DEF JobTypes, MainTypes, QueueTypes

(* A worker that has ended a job is about to report it, and the frames of  *)
(* its green threads that are not done hold jobs.                          *)
Ends(i) ==
  /\ ended[i] # 0 <=> wpc[i] = "complete"
  /\ \A g \in Live(i) : gjob[i][g] # 0
EndsInv ==
  /\ ended \in [Threads -> {0} \cup Jobs]
  /\ misreported \in BOOLEAN
  /\ ~dead => \A i \in Threads : Ends(i)

LEMMA RunningFrame ==
  ASSUME Types, JobTypes, GreenInv, EndsInv, ~dead, NEW i \in Threads, wpc[i] = "run"
  PROVE  running[i] \in Live(i) /\ running[i] \in Greens /\ gjob[i][running[i]] \in Jobs
<1>1. /\ running[i] # 0 /\ greens[i] \in 0..PerThread /\ PerThread \in Nat
      /\ Settled(running[i], ready[i], ring[i], greens[i], done[i])
  BY DEF GreenInv, GreenTypes, AllApart, Apart, JobTypes, MainTypes
<1>2. running[i] \in Live(i)
  BY <1>1 DEF Settled, Live
<1>3. running[i] \in Greens
  BY <1>1, <1>2 DEF Live, Greens
<1>4. gjob[i][running[i]] \in {0} \cup Given /\ gjob[i][running[i]] # 0
  BY <1>2, <1>3 DEF JobTypes, QueueTypes, EndsInv, Ends
<1>5. Given \subseteq Jobs
  BY NumberOfJobs DEF Types, JobTypes, MainTypes, Given, Jobs
<1> QED BY <1>2, <1>3, <1>4, <1>5

LEMMA WorkerEnds ==
  ASSUME Types, JobTypes, GreenInv, EndsInv, NEW i \in Threads, Worker(i) \/ IsCancelled(i)
  PROVE  EndsInv'
<1>1. /\ ~dead /\ Threads' = Threads /\ Jobs' = Jobs /\ \A t \in Threads : Ends(t)
      /\ ended \in [Threads -> {0} \cup Jobs] /\ misreported \in BOOLEAN /\ i \in DOMAIN wpc
      /\ 0 \notin Jobs
  BY WorkerLeavesMain DEF shape, Threads, Jobs, EndsInv, Types
<1>2. \A t \in Threads : t # i => Ends(t)'
  BY <1>1, WorkersAreApart DEF GreenInv, JobTypes, SameWorker, Ends, Live
<1> HIDE DEF Threads, Jobs
<1>3. ASSUME ended' \in [Threads -> {0} \cup Jobs], misreported' \in BOOLEAN, dead' \/ Ends(i)'
      PROVE  EndsInv'
  BY <1>1, <1>2, <1>3 DEF EndsInv
<1>4. ASSUME UNCHANGED <<gjob, greens, done, ended, misreported>>,
             wpc[i] # "complete", wpc'[i] # "complete"
      PROVE  EndsInv'
  BY <1>1, <1>3, <1>4 DEF Ends, Live
<1>5. CASE WriteCurrent(i)
  BY <1>1, <1>4, <1>5 DEF WriteCurrent, Goes, greenstate, whist
<1>6. CASE Sleeps(i)
  BY <1>1, <1>4, <1>6 DEF Sleeps, Goes, greenstate, whist
<1>7. CASE Resumes(i)
  BY <1>1, <1>4, <1>7 DEF Resumes, Goes, whist
<1>8. CASE \E op \in Ops : Yields(i, op)
  BY <1>1, <1>4, <1>8 DEF Yields, Goes
<1>9. CASE Exits(i)
  BY <1>1, <1>4, <1>9 DEF Exits, Goes, greenstate, whist
<1>10. CASE IsCancelled(i)
  BY <1>1, <1>4, <1>10 DEF IsCancelled, Goes, greenstate, whist
<1>11. CASE \E word \in ring[i] : Drains(i, word)
  BY <1>1, <1>4, <1>11 DEF Drains, Goes, whist
<1>12. CASE Decides(i)
  <2>1. /\ wpc'[i] = AfterDesired(i) /\ wpc[i] # "complete"
        /\ UNCHANGED <<gjob, greens, done, ended, misreported>>
    BY <1>1, <1>12 DEF Decides, Goes, greenstate, whist
  <2> QED BY <1>4, <2>1, AfterDesiredIs
<1>13. ASSUME NEW to, TakesJob(i, to)
       PROVE  Head(submission[i]) \in Jobs
  BY <1>13, ListsOfJobs, HeadAndTail DEF TakesJob
<1>14. CASE StartsJob(i)
  <2>1. TakesJob(i, "run") /\ wpc'[i] = "run" /\ UNCHANGED <<done, ended, misreported>>
        /\ wpc[i] = "select"
    BY <1>1, <1>14 DEF StartsJob, TakesJob, Goes
  <2>2. CASE greens[i] + 1 > PerThread
    <3>1. dead'
      BY <1>14, <2>2 DEF StartsJob
    <3> QED BY <1>1, <1>3, <2>1, <3>1
  <2>3. CASE ~(greens[i] + 1 > PerThread)
    <3>1. /\ greens' = [greens EXCEPT ![i] = greens[i] + 1]
          /\ gjob' = [gjob EXCEPT ![i][greens[i] + 1] = Head(submission[i])]
          /\ greens \in [Threads -> 0..PerThread] /\ PerThread \in Nat
          /\ gjob \in [Threads -> [Greens -> {0} \cup Given]]
      BY <1>14, <2>3 DEF StartsJob, GreenInv, GreenTypes, JobTypes, MainTypes, QueueTypes
    <3>2. greens'[i] = greens[i] + 1 /\ greens[i] \in Nat /\ greens[i] + 1 \in Greens
      BY <2>3, <3>1 DEF Greens
    <3>3. \A g \in Greens : gjob'[i][g] = IF g = greens[i] + 1 THEN Head(submission[i])
                                          ELSE gjob[i][g]
      BY <3>1, <3>2
    <3>4. \A g \in Live(i)' : g \in Greens /\ (g = greens[i] + 1 \/ g \in Live(i))
      <4>1. Live(i)' = (1..greens[i] + 1) \ done[i]
        BY <2>1, <3>2 DEF Live
      <4>2. \A g \in 1..greens[i] + 1 : g \in Greens /\ (g = greens[i] + 1 \/ g \in 1..greens[i])
        BY <3>1, <3>2 DEF Greens
      <4> QED BY <4>1, <4>2 DEF Live
    <3>5. \A g \in Live(i)' : gjob'[i][g] # 0
      BY <1>1, <1>13, <2>1, <3>3, <3>4 DEF Ends
    <3>6. ended[i] = 0
      BY <1>1, <2>1 DEF Ends
    <3> QED BY <1>1, <1>3, <2>1, <3>5, <3>6 DEF Ends
  <2> QED BY <2>2, <2>3
<1>15. CASE ExpiresJob(i)
  <2>1. /\ TakesJob(i, "complete") /\ wpc'[i] = "complete"
        /\ UNCHANGED <<done, misreported, greens, gjob>>
        /\ ended' = [ended EXCEPT ![i] = Head(submission[i])]
    BY <1>1, <1>15 DEF ExpiresJob, TakesJob, Goes, greenstate
  <2>2. Head(submission[i]) \in Jobs
    BY <1>13, <2>1
  <2>3. ended' \in [Threads -> {0} \cup Jobs] /\ ended'[i] # 0
    BY <1>1, <2>1, <2>2
  <2>4. Live(i)' = Live(i)
    BY <2>1 DEF Live
  <2> QED BY <1>1, <1>3, <2>1, <2>3, <2>4 DEF Ends
<1>16. CASE Returns(i)
  <2>1. /\ wpc'[i] = "complete" /\ wpc[i] = "run" /\ UNCHANGED <<misreported, greens>>
        /\ ended' = [ended EXCEPT ![i] = gjob[i][running[i]]]
        /\ gjob' = [gjob EXCEPT ![i][running[i]] = 0]
        /\ done' = [done EXCEPT ![i] = done[i] \cup {running[i]}]
        /\ done \in [Threads -> SUBSET Nat]
        /\ gjob \in [Threads -> [Greens -> {0} \cup Given]]
    BY <1>1, <1>16 DEF Returns, Goes, GreenInv, GreenTypes, JobTypes, QueueTypes
  <2>2. running[i] \in Live(i) /\ running[i] \in Greens /\ gjob[i][running[i]] \in Jobs
    BY <1>1, <2>1, RunningFrame
  <2>3. ended' \in [Threads -> {0} \cup Jobs] /\ ended'[i] # 0
    BY <1>1, <2>1, <2>2
  <2>4. done'[i] = done[i] \cup {running[i]}
    BY <2>1
  <2>5. \A g \in Live(i)' : g \in Live(i) /\ g # running[i]
    BY <2>1, <2>4 DEF Live
  <2>6. \A g : g # running[i] => gjob'[i][g] = gjob[i][g]
    BY <2>1
  <2> QED BY <1>1, <1>3, <2>1, <2>3, <2>5, <2>6 DEF Ends
<1>17. CASE Completes(i)
  <2>1. UNCHANGED <<greens, gjob, done>> /\ wpc'[i] = "drain"
    BY <1>1, <1>17 DEF Completes, Goes, greenstate
  <2>2. CASE dead' = TRUE /\ UNCHANGED <<completion, ended, misreported>>
    BY <1>1, <1>3, <2>2
  <2>3. CASE Reports(i)
    <3>1. /\ ended' = [ended EXCEPT ![i] = 0]
          /\ misreported' = (misreported \/ wjob[i] # ended[i])
      BY <2>3 DEF Reports
    <3>2. ended' \in [Threads -> {0} \cup Jobs] /\ ended'[i] = 0
      BY <1>1, <3>1
    <3>3. misreported' \in BOOLEAN
      BY <3>1
    <3>4. Live(i)' = Live(i)
      BY <2>1 DEF Live
    <3> QED BY <1>1, <1>3, <2>1, <3>2, <3>3, <3>4 DEF Ends
  <2> QED BY <1>17, <2>2, <2>3 DEF Completes
<1> QED
  BY <1>5, <1>6, <1>7, <1>8, <1>9, <1>10, <1>11, <1>12, <1>14, <1>15, <1>16, <1>17
     DEF Worker, Rest

LEMMA MainEnds ==
  ASSUME EndsInv, Call \/ Proceed
  PROVE  EndsInv'
<1>1. UNCHANGED <<worker, whist, shape>> /\ ~dead
  BY MainLeavesWorkers
<1> QED
  BY <1>1 DEF worker, greenstate, whist, shape, Threads, Jobs, Live, EndsInv, Ends

(* Main moves jobs between its lists and the queues.                       *)
LEMMA MainKeepsJobs ==
  ASSUME Types, JobTypes, Call \/ Proceed
  PROVE  JobTypes'
<1>1. UNCHANGED <<worker, N, PerThread>> /\ Threads' = Threads /\ Greens' = Greens
  BY MainLeavesWorkers DEF shape, Threads, Greens
<1>2. UNCHANGED <<wjob, gjob>>
  BY <1>1 DEF worker, greenstate
<1>3. /\ PerThread \in Nat \ {0} /\ fresh \in 0..N * PerThread /\ N \in Nat \ {0}
      /\ N * PerThread \in Nat \ {0} /\ Threads = 0..N-1 /\ 0 \in Threads /\ Threads \subseteq Nat
      /\ free \in Seq(Given) /\ mine \in Seq(Given) /\ taken \in Seq(Given)
      /\ mpc \in {"idle", "push", "pop", "control"}
      /\ rr \in Threads /\ left \in Nat /\ mi \in Nat
      /\ mpc \in {"push", "pop"} => mi \in Threads /\ left # 0
      /\ mpc = "push" => left <= Len(mine)
      /\ submission \in [Threads -> Seq(Given)] /\ completion \in [Threads -> Seq(Given)]
      /\ \A i \in Threads : Len(submission[i]) <= PerThread /\ Len(completion[i]) <= PerThread
      /\ wjob \in [Threads -> {0} \cup Given] /\ gjob \in [Threads -> [Greens -> {0} \cup Given]]
  BY NumberOfJobs DEF Types, JobTypes, MainTypes, QueueTypes, Threads
<1> HIDE DEF Threads, Greens
<1>4. ASSUME UNCHANGED <<submission, completion, fresh>>, MainTypes'
      PROVE  JobTypes'
  BY <1>1, <1>2, <1>3, <1>4 DEF JobTypes, QueueTypes, Given
<1>5. ASSUME UNCHANGED <<submission, completion, rr, pool>>, MainReturns
      PROVE  JobTypes'
  <2>1. MainTypes'
    BY <1>1, <1>3, <1>5 DEF MainTypes, MainReturns, pool, Given
  <2> QED BY <1>4, <1>5, <2>1 DEF pool
<1>6. CASE SbsGet
  <2>1. PICK j \in Jobs :
          /\ \/ free # <<>> /\ j = Head(free) /\ free' = Tail(free) /\ UNCHANGED fresh
             \/ free = <<>> /\ j = fresh + 1 /\ fresh' = j /\ UNCHANGED free
          /\ mine' = Append(mine, j)
    BY <1>6 DEF SbsGet
  <2>2. /\ UNCHANGED <<submission, completion, mi, left, rr, taken>> /\ mpc = "idle" /\ mpc' = "idle"
    BY <1>6 DEF SbsGet, MainGoes, MainIs, mainlocal
  <2>3. CASE free # <<>> /\ j = Head(free) /\ free' = Tail(free) /\ UNCHANGED fresh
    <3>1. j \in Given /\ Tail(free) \in Seq(Given) /\ Given' = Given
      BY <1>3, <2>3, HeadAndTail DEF Given
    <3>2. mine' \in Seq(Given)
      BY <1>3, <2>1, <3>1, AppendIsSeq
    <3>3. MainTypes'
      BY <1>1, <1>3, <2>2, <2>3, <3>1, <3>2 DEF MainTypes
    <3> QED BY <1>4, <2>2, <2>3, <3>3
  <2>4. CASE free = <<>> /\ j = fresh + 1 /\ fresh' = j /\ UNCHANGED free
    <3>1. fresh' \in 0..N * PerThread
      BY <1>3, <2>4 DEF Jobs
    <3>2. Given \subseteq Given' /\ j \in Given'
      BY <1>3, <2>4 DEF Given
    <3>3. Seq(Given) \subseteq Seq(Given')
      BY <3>2, SeqGrows
    <3>4. mine' \in Seq(Given')
      BY <1>3, <2>1, <3>2, <3>3, AppendIsSeq
    <3>5. MainTypes'
      BY <1>1, <1>3, <2>2, <2>4, <3>1, <3>3, <3>4 DEF MainTypes
    <3>6. QueueTypes'
      <4> HIDE DEF Given
      <4>1. submission' \in [Threads -> Seq(Given')] /\ completion' \in [Threads -> Seq(Given')]
        BY <1>3, <2>2, <3>3
      <4>2. wjob' \in [Threads -> {0} \cup Given']
        BY <1>2, <1>3, <3>2
      <4>3. gjob' \in [Threads -> [Greens -> {0} \cup Given']]
        BY <1>2, <1>3, <3>2
      <4> QED BY <1>1, <1>3, <2>2, <4>1, <4>2, <4>3 DEF QueueTypes
    <3> QED BY <3>5, <3>6 DEF JobTypes
  <2> QED BY <2>1, <2>3, <2>4
<1>7. CASE SbsGetFails
  <2>1. /\ UNCHANGED <<submission, completion, pool, rr>> /\ mpc = "idle" /\ mpc' = "idle"
        /\ UNCHANGED <<mi, left>>
    BY <1>7 DEF SbsGetFails, MainGoes, MainIs, mainlocal, shared
  <2>2. MainTypes'
    BY <1>1, <1>3, <2>1 DEF MainTypes, pool, Given
  <2> QED BY <1>4, <2>1, <2>2 DEF pool
<1>8. CASE \E n \in 1..2 : SbsPush("rr", 0, n) \/ \E i \in Threads : SbsPush("direct", i, n)
  <2>1. PICK n \in 1..2, i \in Threads, op \in {"rr", "direct"} : SbsPush(op, i, n)
    BY <1>3, <1>8
  <2>2. /\ UNCHANGED <<submission, completion, pool, rr>> /\ mpc' = "push" /\ mi' = i /\ left' = n
        /\ n <= Len(mine)
    BY <2>1 DEF SbsPush, MainGoes, shared
  <2>3. MainTypes'
    BY <1>1, <1>3, <2>2 DEF MainTypes, pool, Given
  <2> QED BY <1>4, <2>2, <2>3 DEF pool
<1>9. CASE (\E k \in 1..2 : CpsPop("popsome", k)) \/ CpsPop("popall", 2)
  <2>1. PICK k \in 1..2, op \in {"popsome", "popall"} : CpsPop(op, k)
    BY <1>9
  <2>2. UNCHANGED <<submission, completion, pool, rr>> /\ mpc' = "pop" /\ mi' = 0 /\ left' = k
    BY <2>1 DEF CpsPop, MainGoes, shared
  <2>3. MainTypes'
    BY <1>1, <1>3, <2>2 DEF MainTypes, pool, Given
  <2> QED BY <1>4, <2>2, <2>3 DEF pool
<1>10. CASE CpsAck
  <2> DEFINE back == ToSet(taken) \ ToSet(free)
  <2>1. /\ UNCHANGED <<submission, completion, fresh, mine, rr, mi, left>>
        /\ mpc = "idle" /\ mpc' = "idle"
        /\ taken' = <<>> /\ free' = SetToSeq(back) \o free
    BY <1>10 DEF CpsAck, MainGoes, MainIs, mainlocal, shared
  <2>2. IsFiniteSet(back) /\ back \subseteq Given
    BY <1>3, ToSetIsFinite, FS_Subset
  <2> HIDE DEF back
  <2>3. SetToSeq(back) \in Seq(Given)
    BY <2>2, SetToSeqIsList, SeqGrows
  <2>4. free' \in Seq(Given)
    BY <1>3, <2>1, <2>3
  <2>5. MainTypes'
    BY <1>1, <1>3, <2>1, <2>4 DEF MainTypes, Given
  <2> QED BY <1>4, <2>1, <2>5
<1>11. CASE \E op \in DOMAIN Desire : Control(op)
  <2>1. UNCHANGED <<submission, completion, pool, rr>> /\ mpc' = "control" /\ UNCHANGED left
    BY <1>11 DEF Control, MainGoes, shared
  <2>2. MainTypes'
    BY <1>1, <1>3, <2>1 DEF MainTypes, pool, Given
  <2> QED BY <1>4, <2>1, <2>2 DEF pool
<1>12. CASE PushEnqueues
  <2>1. /\ mpc = "push" /\ UNCHANGED <<completion, free, fresh, taken>>
        /\ HasRoom(PushTarget)
        /\ MainReturns \/ (left' = left - 1 /\ left # 1 /\ UNCHANGED <<mpc, mop, mi>>)
        /\ submission' = [submission EXCEPT ![PushTarget] = Append(@, Head(mine))]
        /\ mine' = Tail(mine)
        /\ rr' = rr \/ rr' = (rr + 1) % N
    BY <1>12 DEF PushEnqueues, MainIs
  <2>2. PushTarget \in Threads
    BY <1>3, <2>1 DEF PushTarget
  <2>3. rr' \in Threads
    <3>1. rr + 1 \in Nat
      BY <1>3
    <3>2. (rr + 1) % N \in Threads
      BY <1>3, <3>1, ModIsThread
    <3> QED BY <1>3, <2>1, <3>2
  <2>4. mine # <<>>
    BY <1>3, <2>1
  <2>5. /\ Head(mine) \in Given /\ Tail(mine) \in Seq(Given) /\ Len(Tail(mine)) = Len(mine) - 1
        /\ Len(mine) \in Nat
    BY <1>3, <2>4, HeadAndTail
  <2> DEFINE new == Append(submission[PushTarget], Head(mine))
  <2>6. new \in Seq(Given) /\ Len(new) <= PerThread
    <3>1. submission[PushTarget] \in Seq(Given) /\ Len(submission[PushTarget]) < PerThread
      BY <1>3, <2>1, <2>2 DEF HasRoom
    <3>2. new \in Seq(Given) /\ Len(new) = Len(submission[PushTarget]) + 1
          /\ Len(submission[PushTarget]) \in Nat
      BY <2>5, <3>1, AppendIsSeq
    <3> QED BY <1>3, <3>1, <3>2
  <2>7. submission' = [submission EXCEPT ![PushTarget] = new]
    BY <2>1
  <2> HIDE DEF new
  <2>8. Given' = Given
    BY <2>1 DEF Given
  <2>9. QueueTypes'
    <3>1. submission' \in [Threads -> Seq(Given)]
      BY <1>3, <2>6, <2>7
    <3>2. \A t \in Threads : Len(submission'[t]) <= PerThread
      BY <1>3, <2>6, <2>7
    <3> QED BY <1>1, <1>2, <1>3, <2>1, <2>8, <3>1, <3>2 DEF QueueTypes
  <2>10. mpc' \in {"push", "pop"} => mi' \in Threads /\ left' # 0 /\ left' <= Len(mine')
    <3>1. CASE MainReturns
      BY <3>1 DEF MainReturns
    <3>2. CASE left' = left - 1 /\ left # 1 /\ UNCHANGED <<mpc, mop, mi>>
      <4>1. left \in Nat /\ left # 0 /\ left <= Len(mine) /\ mi \in Threads
        BY <1>3, <2>1
      <4>2. left - 1 \in Nat \ {0} /\ left - 1 <= Len(mine) - 1
        BY <2>5, <3>2, <4>1
      <4>3. Len(mine') = Len(mine) - 1
        BY <2>1, <2>5
      <4> QED BY <3>2, <4>1, <4>2, <4>3
    <3> QED BY <2>1, <3>1, <3>2
  <2>11. mpc' \in {"idle", "push", "pop", "control"} /\ left' \in Nat
    BY <1>3, <2>1, SMTT(30) DEF MainReturns
  <2>12. MainTypes'
    BY <1>1, <1>3, <2>1, <2>3, <2>5, <2>8, <2>10, <2>11 DEF MainTypes
  <2> QED BY <2>9, <2>12 DEF JobTypes
<1>13. CASE PushIsRefused
  BY <1>5, <1>13 DEF PushIsRefused, shared
<1>14. CASE PopFinds
  <2>1. /\ mpc = "pop" /\ UNCHANGED <<submission, free, fresh, mine>>
        /\ completion[PopQueue] # <<>>
        /\ MainReturns \/ (left' = left - 1 /\ left # 1 /\ mi' = 0 /\ UNCHANGED <<mpc, mop>>)
        /\ taken' = Append(taken, Head(completion[PopQueue]))
        /\ completion' = [completion EXCEPT ![PopQueue] = Tail(@)]
        /\ rr' = (rr + mi) % N
    BY <1>14 DEF PopFinds, MainIs
  <2>2. PopQueue \in Threads /\ rr' \in Threads
    <3>1. mi + rr \in Nat /\ rr + mi \in Nat
      BY <1>3
    <3>2. (mi + rr) % N \in Threads /\ (rr + mi) % N \in Threads
      BY <1>3, <3>1, ModIsThread
    <3> QED BY <2>1, <3>2 DEF PopQueue
  <2> HIDE DEF PopQueue
  <2>3. completion[PopQueue] \in Seq(Given) /\ Len(completion[PopQueue]) <= PerThread
    BY <1>3, <2>2
  <2> DEFINE new == Tail(completion[PopQueue])
  <2>4. /\ Head(completion[PopQueue]) \in Given /\ new \in Seq(Given)
        /\ Len(new) <= PerThread
    <3>1. /\ Head(completion[PopQueue]) \in Given /\ new \in Seq(Given)
          /\ Len(new) = Len(completion[PopQueue]) - 1 /\ Len(completion[PopQueue]) \in Nat
      BY <2>1, <2>3, HeadAndTail
    <3> QED BY <1>3, <2>3, <3>1
  <2>5. taken' \in Seq(Given)
    BY <1>3, <2>1, <2>4, AppendIsSeq
  <2>6. completion' = [completion EXCEPT ![PopQueue] = new]
    BY <2>1
  <2> HIDE DEF new
  <2>7. Given' = Given
    BY <2>1 DEF Given
  <2>8. QueueTypes'
    <3>1. completion' \in [Threads -> Seq(Given)]
      BY <1>3, <2>4, <2>6
    <3>2. \A t \in Threads : Len(completion'[t]) <= PerThread
      BY <1>3, <2>4, <2>6
    <3> QED BY <1>1, <1>2, <1>3, <2>1, <2>7, <3>1, <3>2 DEF QueueTypes
  <2>9. mpc' \in {"push", "pop"} => mi' \in Threads /\ left' # 0
    BY <1>3, <2>1 DEF MainReturns
  <2>10. mpc' \in {"idle", "pop"} /\ left' \in Nat
    BY <1>3, <2>1 DEF MainReturns
  <2>11. MainTypes'
    BY <1>1, <1>3, <2>1, <2>2, <2>5, <2>7, <2>9, <2>10 DEF MainTypes
  <2> QED BY <2>8, <2>11 DEF JobTypes
<1>15. CASE PopFindsNone
  <2>1. /\ mpc = "pop" /\ UNCHANGED <<submission, completion, pool, rr>>
        /\ MainReturns \/ (mi' = (mi + 1) % N /\ UNCHANGED <<mpc, mop, left>>)
    BY <1>15 DEF PopFindsNone, MainIs, shared
  <2>2. CASE MainReturns
    BY <1>5, <2>1, <2>2
  <2>3. CASE mi' = (mi + 1) % N /\ UNCHANGED <<mpc, mop, left>>
    <3>1. mi' \in Threads
      <4>1. mi + 1 \in Nat
        BY <1>3
      <4> QED BY <1>3, <2>3, <4>1, ModIsThread
    <3>2. MainTypes'
      BY <1>1, <1>3, <2>1, <2>3, <3>1 DEF MainTypes, pool, Given
    <3> QED BY <1>4, <2>1, <3>2 DEF pool
  <2> QED BY <2>1, <2>2, <2>3
<1>16. CASE Tell
  <2>1. /\ UNCHANGED <<submission, completion, pool, rr>> /\ mpc' = "control" /\ UNCHANGED left
    BY <1>16 DEF Tell, MainGoes
  <2>2. MainTypes'
    BY <1>1, <1>3, <2>1 DEF MainTypes, pool, Given
  <2> QED BY <1>4, <2>1, <2>2 DEF pool
<1>17. CASE ControlReturns
  BY <1>5, <1>17 DEF ControlReturns, shared
<1> QED
  BY <1>6, <1>7, <1>8, <1>9, <1>10, <1>11, <1>12, <1>13,
     <1>14, <1>15, <1>16, <1>17 DEF Call, Proceed

-----------------------------------------------------------------------------
(* What ends the process.                                                  *)
LEMMA WorkerStepKills ==
  ASSUME Types, JobTypes, GreenInv, GreenInv', EndsInv,
         NEW i \in Threads, Worker(i) \/ IsCancelled(i)
  PROVE  OnlyLimitsKill'
<1>1. UNCHANGED <<N, PerThread>> /\ Threads' = Threads /\ ~dead
  BY WorkerLeavesMain DEF shape, Threads
<1>2. CASE StartsJob(i)
  <2>1. SUFFICES ASSUME dead' PROVE OnlyLimitsKill'
    BY DEF OnlyLimitsKill
  <2>2. /\ wpc' = [wpc EXCEPT ![i] = "run"] /\ running[i] = 0 /\ UNCHANGED <<running, greens>>
        /\ greens[i] + 1 > PerThread
    BY <1>1, <1>2, <2>1 DEF StartsJob, TakesJob, Goes
  <2>3. greens[i] = PerThread
    BY <2>2 DEF GreenInv, GreenTypes, JobTypes, MainTypes
  <2> QED BY <1>1, <2>2, <2>3 DEF OnlyLimitsKill, Types
<1>3. CASE Completes(i)
  <2>1. SUFFICES ASSUME dead' PROVE OnlyLimitsKill'
    BY DEF OnlyLimitsKill
  <2>2. /\ wpc' = [wpc EXCEPT ![i] = "drain"] /\ wpc[i] = "complete"
        /\ Len(completion[i]) = PerThread /\ UNCHANGED <<completion, ended>>
    BY <1>1, <1>3, <2>1 DEF Completes, Reports, Goes
  <2>3. ended[i] # 0
    BY <1>1, <2>2 DEF EndsInv, Ends
  <2> QED BY <1>1, <2>2, <2>3 DEF OnlyLimitsKill, Types
<1>4. CASE \E word \in ring[i] : Drains(i, word)
  <2>1. dead' = (Len(ready'[i]) > PerThread)
    BY <1>4 DEF Drains
  <2>2. /\ Settled(running'[i], ready'[i], ring'[i], greens'[i], done'[i])
        /\ ready'[i] \in Seq(Nat) /\ greens'[i] \in 0..PerThread /\ PerThread \in Nat
    BY <1>1 DEF GreenInv, GreenTypes, AllApart, Apart, JobTypes, MainTypes
  <2>3. Len(ready'[i]) <= greens'[i] /\ greens'[i] \in Nat
    BY <2>2, SettledFits
  <2>4. Len(ready'[i]) \in Nat
    BY <2>2
  <2>5. ~(Len(ready'[i]) > PerThread)
    BY <2>2, <2>3, <2>4
  <2>6. ~dead'
    BY <2>1, <2>5, Zenon
  <2> QED BY <2>6 DEF OnlyLimitsKill
<1>5. ASSUME UNCHANGED dead PROVE OnlyLimitsKill'
  BY <1>1, <1>5 DEF OnlyLimitsKill
<1>6. CASE WriteCurrent(i)
  BY <1>5, <1>6 DEF WriteCurrent
<1>7. CASE Sleeps(i)
  BY <1>5, <1>7 DEF Sleeps
<1>8. CASE Resumes(i)
  BY <1>5, <1>8 DEF Resumes
<1>9. CASE ExpiresJob(i)
  BY <1>5, <1>9 DEF ExpiresJob
<1>10. CASE \E op \in Ops : Yields(i, op)
  BY <1>5, <1>10 DEF Yields
<1>11. CASE Returns(i)
  BY <1>5, <1>11 DEF Returns
<1>12. CASE Exits(i)
  BY <1>5, <1>12 DEF Exits
<1>13. CASE Decides(i)
  BY <1>5, <1>13 DEF Decides
<1>14. CASE IsCancelled(i)
  BY <1>5, <1>14 DEF IsCancelled
<1> QED
  BY <1>2, <1>3, <1>4, <1>6, <1>7, <1>8, <1>9, <1>10, <1>11, <1>12,
     <1>13, <1>14 DEF Worker, Rest

LEMMA MainStepKills ==
  ASSUME Call \/ Proceed
  PROVE  OnlyLimitsKill'
<1>1. CASE SbsGetFails
  BY <1>1 DEF SbsGetFails, OnlyLimitsKill, MainGoes, MainIs, GoesOn, shape, pool
<1>2. ASSUME UNCHANGED dead PROVE OnlyLimitsKill'
  BY <1>2, MainLeavesWorkers DEF OnlyLimitsKill
<1>3. CASE SbsGet
  BY <1>2, <1>3 DEF SbsGet
<1>4. CASE \E n \in 1..2 : SbsPush("rr", 0, n) \/ \E i \in Threads : SbsPush("direct", i, n)
  BY <1>2, <1>4 DEF SbsPush
<1>5. CASE (\E k \in 1..2 : CpsPop("popsome", k)) \/ CpsPop("popall", 2)
  BY <1>2, <1>5 DEF CpsPop
<1>6. CASE CpsAck
  BY <1>2, <1>6 DEF CpsAck
<1>7. CASE \E op \in DOMAIN Desire : Control(op)
  BY <1>2, <1>7 DEF Control
<1>8. CASE PushEnqueues
  BY <1>2, <1>8 DEF PushEnqueues
<1>9. CASE PushIsRefused
  BY <1>2, <1>9 DEF PushIsRefused
<1>10. CASE PopFinds
  BY <1>2, <1>10 DEF PopFinds
<1>11. CASE PopFindsNone
  BY <1>2, <1>11 DEF PopFindsNone
<1>12. CASE Tell
  BY <1>2, <1>12 DEF Tell
<1>13. CASE ControlReturns
  BY <1>2, <1>13 DEF ControlReturns
<1> QED
  BY <1>1, <1>3, <1>4, <1>5, <1>6, <1>7, <1>8, <1>9, <1>10, <1>11, <1>12, <1>13
     DEF Call, Proceed

-----------------------------------------------------------------------------
(* Join.                                                                   *)

(* Until a call that ends the pool has returned, main is in that call as   *)
(* soon as a worker is told to end: nothing is pushed, and a worker that   *)
(* leaves because of join has found its queues empty.                      *)
Leaves(i) ==
  ~stopped =>
    /\ Over(desired[i]) => mpc = "control" /\ Desire[mop] = desired[i]
    /\ wpc[i] = "exit" => Over(desired[i])
    /\ current[i] = "JOINED" => desired[i] = "JOINED" /\ wpc[i] = "gone"
    /\ desired[i] = "JOINED" /\ (wpc[i] = "exit" \/ current[i] = "JOINED") =>
         submission[i] = <<>> /\ running[i] = 0 /\ ready[i] = <<>>
AllLeave == \A i \in Threads : Leaves(i)

LEMMA WorkerLeaves ==
  ASSUME Types, JobTypes, GreenInv, AllLeave, NEW i \in Threads, Worker(i) \/ IsCancelled(i)
  PROVE  AllLeave'
<1>1. UNCHANGED <<mpc, mop, desired, stopped>> /\ Threads' = Threads /\ wpc[i] # "gone"
  BY WorkerLeavesMain DEF main, mainlocal, shape, Threads
<1>2. \A t \in Threads : t # i => SameWorker(t)
  BY WorkersAreApart DEF JobTypes, GreenInv
<1>3. \A t \in Threads : t # i => Leaves(t)'
  BY <1>1, <1>2 DEF SameWorker, AllLeave, Leaves
<1>4. SUFFICES ASSUME ~stopped PROVE Leaves(i)'
  BY <1>1, <1>3 DEF AllLeave, Leaves
<1>5. /\ Over(desired[i]) => mpc = "control" /\ Desire[mop] = desired[i]
      /\ wpc[i] = "exit" => Over(desired[i])
      /\ current[i] # "JOINED"
      /\ desired[i] = "JOINED" /\ wpc[i] = "exit" =>
           submission[i] = <<>> /\ running[i] = 0 /\ ready[i] = <<>>
  BY <1>1, <1>4 DEF AllLeave, Leaves
<1>6. i \in DOMAIN wpc /\ i \in DOMAIN current
  BY DEF Types
<1>7. ASSUME wpc'[i] # "exit", current'[i] # "JOINED"
      PROVE  Leaves(i)'
  BY <1>1, <1>5, <1>7 DEF Leaves
<1>8. CASE WriteCurrent(i)
  BY <1>5, <1>6, <1>7, <1>8 DEF WriteCurrent, Goes
<1>9. CASE Sleeps(i)
  BY <1>5, <1>6, <1>7, <1>9 DEF Sleeps, Goes, shared
<1>10. CASE Resumes(i)
  BY <1>5, <1>6, <1>7, <1>10 DEF Resumes, Goes, shared
<1>11. CASE StartsJob(i)
  BY <1>5, <1>6, <1>7, <1>11 DEF StartsJob, TakesJob, Goes
<1>12. CASE ExpiresJob(i)
  BY <1>5, <1>6, <1>7, <1>12 DEF ExpiresJob, TakesJob, Goes
<1>13. CASE \E op \in Ops : Yields(i, op)
  BY <1>5, <1>6, <1>7, <1>13 DEF Yields, Goes, shared
<1>14. CASE Returns(i)
  BY <1>5, <1>6, <1>7, <1>14 DEF Returns, Goes
<1>15. CASE Completes(i)
  BY <1>5, <1>6, <1>7, <1>15 DEF Completes, Goes
<1>16. CASE \E word \in ring[i] : Drains(i, word)
  BY <1>5, <1>6, <1>7, <1>16 DEF Drains, Goes, shared
<1>17. CASE IsCancelled(i)
  BY <1>5, <1>6, <1>7, <1>17 DEF IsCancelled, Goes, shared
<1>18. CASE Exits(i)
  BY <1>1, <1>5, <1>6, <1>18 DEF Exits, Goes, Leaves, greenstate, Over
<1>19. CASE Decides(i)
  <2>1. wpc'[i] = AfterDesired(i) /\ UNCHANGED <<current, submission, running, ready>>
    BY <1>6, <1>19 DEF Decides, Goes, shared, greenstate
  <2>2. CASE AfterDesired(i) # "exit"
    BY <1>5, <1>7, <2>1, <2>2
  <2>3. CASE AfterDesired(i) = "exit"
    <3>1. desired[i] \in {"JOINED", "STOPPED", "CANCELLED"}
      BY <2>3 DEF AfterDesired, Types, States
    <3>2. desired[i] = "JOINED" => NothingLeft(i)
      BY <2>3 DEF AfterDesired
    <3> QED BY <1>1, <1>5, <2>1, <3>1, <3>2 DEF Leaves, NothingLeft, Over
  <2> QED BY <2>2, <2>3
<1> QED
  BY <1>8, <1>9, <1>10, <1>11, <1>12, <1>13, <1>14, <1>15, <1>16, <1>17, <1>18, <1>19
     DEF Worker, Rest

LEMMA MainHoldsBack ==
  ASSUME Types, CallsAreCalls, AllLeave, Call \/ Proceed
  PROVE  AllLeave'
<1>1. UNCHANGED <<wpc, running, ready>> /\ Threads' = Threads
  BY MainLeavesWorkers DEF worker, greenstate, shape, Threads
<1>2. ASSUME mpc # "control", UNCHANGED <<desired, current, stopped>>
      PROVE  AllLeave'
  BY <1>1, <1>2 DEF AllLeave, Leaves, Over
<1>3. CASE SbsGet
  BY <1>2, <1>3 DEF SbsGet, MainGoes, MainIs
<1>4. CASE SbsGetFails
  BY <1>2, <1>4 DEF SbsGetFails, MainGoes, MainIs, shared
<1>5. CASE \E n \in 1..2 : SbsPush("rr", 0, n) \/ \E i \in Threads : SbsPush("direct", i, n)
  BY <1>2, <1>5 DEF SbsPush, MainGoes, MainIs, shared
<1>6. CASE (\E k \in 1..2 : CpsPop("popsome", k)) \/ CpsPop("popall", 2)
  BY <1>2, <1>6 DEF CpsPop, MainGoes, MainIs, shared
<1>7. CASE CpsAck
  BY <1>2, <1>7 DEF CpsAck, MainGoes, MainIs, shared
<1>8. CASE \E op \in DOMAIN Desire : Control(op)
  BY <1>2, <1>8 DEF Control, MainGoes, MainIs, shared
<1>9. CASE PushEnqueues
  BY <1>2, <1>9 DEF PushEnqueues, MainIs
<1>10. CASE PushIsRefused
  BY <1>2, <1>10 DEF PushIsRefused, MainIs, shared
<1>11. CASE PopFinds
  BY <1>2, <1>11 DEF PopFinds, MainIs
<1>12. CASE PopFindsNone
  BY <1>2, <1>12 DEF PopFindsNone, MainIs, shared
<1>13. CASE Tell
  <2>1. /\ mpc = "control" /\ mpc' = "control" /\ UNCHANGED <<mop, stopped, submission>>
        /\ desired' = [desired EXCEPT ![mi] = Desire[mop]]
        /\ current' = current \/ current' = [current EXCEPT ![mi] = "CANCELLED"]
    BY <1>13 DEF Tell, MainGoes, MainIs
  <2>2. SUFFICES ASSUME ~stopped, NEW i \in Threads PROVE Leaves(i)'
    BY <1>1, <2>1 DEF AllLeave, Leaves
  <2>3. Leaves(i) /\ desired \in [Threads -> States] /\ current \in [Threads -> States]
    BY DEF AllLeave, Types
  <2>4. CASE Over(desired[i])
    <3>1. desired'[i] = desired[i]
      BY <2>1, <2>2, <2>3, <2>4 DEF Leaves
    <3>2. current'[i] = current[i] \/ current'[i] = "CANCELLED"
      BY <2>1, <2>3
    <3> QED BY <1>1, <2>1, <2>2, <2>3, <3>1, <3>2 DEF Leaves
  <2>5. CASE ~Over(desired[i])
    <3>1. wpc[i] # "exit" /\ current[i] # "JOINED"
      BY <2>2, <2>3, <2>5 DEF Leaves, Over
    <3>2. current'[i] # "JOINED"
      BY <2>1, <2>3, <3>1
    <3>3. desired'[i] = desired[i] \/ desired'[i] = Desire[mop]
      <4>1. CASE i = mi
        BY <2>1, <2>3, <4>1
      <4>2. CASE i # mi
        BY <2>1, <2>3, <4>2
      <4> QED BY <4>1, <4>2
    <3> QED BY <1>1, <2>1, <2>5, <3>1, <3>2, <3>3 DEF Leaves
  <2> QED BY <2>4, <2>5
<1>14. CASE ControlReturns
  <2>1. /\ mpc = "control" /\ UNCHANGED <<submission, desired, current>>
        /\ stopped' = (stopped \/ mop \in {"stop", "join", "cancel"})
    BY <1>14 DEF ControlReturns, MainIs, shared
  <2>2. CASE mop \in {"stop", "join", "cancel"}
    BY <2>1, <2>2 DEF AllLeave, Leaves
  <2>3. CASE mop \in {"pause", "resume"}
    <3>1. ~Over(Desire[mop])
      BY <2>3 DEF Desire, Over
    <3>2. \A i \in Threads : ~stopped => ~Over(desired[i])
      BY <3>1 DEF AllLeave, Leaves
    <3>3. stopped => stopped'
      BY <2>1, Zenon
    <3> QED BY <1>1, <2>1, <3>2, <3>3 DEF AllLeave, Leaves, Over
  <2> QED BY <2>1, <2>2, <2>3, DesireIs DEF CallsAreCalls
<1> QED
  BY <1>3, <1>4, <1>5, <1>6, <1>7, <1>8, <1>9, <1>10, <1>11, <1>12, <1>13, <1>14
     DEF Call, Proceed

-----------------------------------------------------------------------------
(* Where each job is, until a worker reports another than the one that has *)
(* ended: at one spot, which is a list of main, a queue, the green threads *)
(* of a worker, or the end of one.  A job that has no green thread, when   *)
(* all are in use, is lost, and the assertion fails.                       *)
Spot(place, i) == <<place, i>>
Spots ==
  ({"new", "lost", "free", "mine", "taken"} \X {0})
    \cup ({"submission", "green", "ended", "completion"} \X Threads)

On(s, j) == \E k \in DOMAIN s : s[k] = j
Holds(s, spot, at) == IsInjective(s) /\ \A j \in DOMAIN at : at[j] = spot <=> On(s, j)

Among(live, frame, j) == \E g \in live : frame[g] = j
Frames(live, frame, spot, at) ==
  /\ \A g, h \in live : frame[g] = frame[h] => g = h
  /\ \A j \in DOMAIN at : at[j] = spot <=> Among(live, frame, j)

IsEnd(j0, spot, at) == \A j \in DOMAIN at : at[j] = spot <=> j = j0

Placed(at) ==
  /\ at \in [Jobs -> Spots]
  /\ \A j \in Jobs : at[j] = Spot("new", 0) <=> j > fresh
  /\ \A j \in Jobs : at[j] = Spot("lost", 0) => dead
  /\ Holds(free, Spot("free", 0), at)
  /\ Holds(mine, Spot("mine", 0), at)
  /\ Holds(taken, Spot("taken", 0), at)
  /\ \A i \in Threads : Holds(submission[i], Spot("submission", i), at)
  /\ \A i \in Threads : Holds(completion[i], Spot("completion", i), at)
  /\ \A i \in Threads : Frames(Live(i), gjob[i], Spot("green", i), at)
  /\ \A i \in Threads : IsEnd(ended[i], Spot("ended", i), at)

(* The record of a job says whether it has ended, while main has it to     *)
(* push and from its end until main pops it.                               *)
Records == [expiration : BOOLEAN, ret : BOOLEAN, timeout : BOOLEAN]
Waits(spot) == spot = Spot("mine", 0) \/ \E i \in Threads : spot = Spot("submission", i)
IsOver(spot) == \E i \in Threads : spot = Spot("ended", i) \/ spot = Spot("completion", i)
Fits(j, at) ==
  /\ Waits(at[j]) => ~job[j].ret
  /\ IsOver(at[j]) => job[j].ret # job[j].timeout

Honest ==
  /\ job \in [Jobs -> Records]
  /\ \E at : Placed(at) /\ \A j \in Jobs : Fits(j, at)
HonestInv == ~misreported => Honest

(* What the job records become.                                            *)
LEMMA FilledIs ==
  ASSUME NEW j
  PROVE  Filled(j) \in Records /\ ~Filled(j).ret
<1>1. (j \in Expiring) \in BOOLEAN
  OBVIOUS
<1>2. \A b \in BOOLEAN : /\ [Blank EXCEPT !.expiration = b] \in Records
                         /\ ~[Blank EXCEPT !.expiration = b].ret
  BY DEF Blank, Records
<1>3. Filled(j) = [Blank EXCEPT !.expiration = (j \in Expiring)]
  BY Zenon DEF Filled
<1> QED BY <1>1, <1>2, <1>3, Zenon

LEMMA RecordReturns ==
  ASSUME job \in [Jobs -> Records], NEW j \in Jobs,
         job' = [job EXCEPT ![j].ret = TRUE, ![j].timeout = FALSE]
  PROVE  /\ job' \in [Jobs -> Records] /\ job'[j].ret # job'[j].timeout
         /\ \A h \in Jobs : h # j => job'[h] = job[h]
BY DEF Records

LEMMA RecordExpires ==
  ASSUME job \in [Jobs -> Records], NEW j \in Jobs, ~job[j].ret,
         job' = [job EXCEPT ![j].timeout = TRUE]
  PROVE  /\ job' \in [Jobs -> Records] /\ job'[j].ret # job'[j].timeout
         /\ \A h \in Jobs : h # j => job'[h] = job[h]
BY DEF Records

LEMMA RecordStarts ==
  ASSUME job \in [Jobs -> Records], NEW j \in Jobs,
         job' = [job EXCEPT ![j].timeout = FALSE]
  PROVE  /\ job' \in [Jobs -> Records]
         /\ \A h \in Jobs : h # j => job'[h] = job[h]
BY DEF Records

(* Spots and lists.                                                        *)
LEMMA SpotsDiffer ==
  ASSUME NEW p, NEW q, NEW i, NEW k
  PROVE  Spot(p, i) = Spot(q, k) <=> p = q /\ i = k
BY DEF Spot

LEMMA SpotsAre ==
  /\ \A p \in {"new", "lost", "free", "mine", "taken"} : Spot(p, 0) \in Spots
  /\ \A p \in {"submission", "green", "ended", "completion"} : \A i \in Threads :
       Spot(p, i) \in Spots
BY DEF Spot, Spots

(* Some jobs go from one spot to another: all else is where it was.        *)
Goers(at, at2, from, to) ==
  /\ at2 \in [Jobs -> Spots]
  /\ \A h \in Jobs : at2[h] = at[h] \/ (at[h] = from /\ at2[h] = to)
Elsewhere(from, to, at) ==
  /\ Spot("new", 0) \notin {from, to} => \A j \in Jobs : at[j] = Spot("new", 0) <=> j > fresh
  /\ Spot("lost", 0) # to => \A j \in Jobs : at[j] = Spot("lost", 0) => dead
  /\ Spot("free", 0) \notin {from, to} => Holds(free, Spot("free", 0), at)
  /\ Spot("mine", 0) \notin {from, to} => Holds(mine, Spot("mine", 0), at)
  /\ Spot("taken", 0) \notin {from, to} => Holds(taken, Spot("taken", 0), at)
  /\ \A t \in Threads : Spot("submission", t) \notin {from, to} =>
       Holds(submission[t], Spot("submission", t), at)
  /\ \A t \in Threads : Spot("completion", t) \notin {from, to} =>
       Holds(completion[t], Spot("completion", t), at)
  /\ \A t \in Threads : Spot("green", t) \notin {from, to} =>
       Frames(Live(t), gjob[t], Spot("green", t), at)
  /\ \A t \in Threads : Spot("ended", t) \notin {from, to} =>
       IsEnd(ended[t], Spot("ended", t), at)

LEMMA OthersStay ==
  ASSUME NEW at, NEW at2, NEW from, NEW to, Placed(at), Goers(at, at2, from, to)
  PROVE  Elsewhere(from, to, at2)
<1>1. DOMAIN at = Jobs /\ DOMAIN at2 = Jobs
  BY DEF Goers, Placed
<1>2. ASSUME NEW spot, spot \notin {from, to}
      PROVE  \A h \in Jobs : at2[h] = spot <=> at[h] = spot
  BY <1>2 DEF Goers
<1>3. ASSUME NEW s, NEW spot, spot \notin {from, to}, Holds(s, spot, at)
      PROVE  Holds(s, spot, at2)
  BY <1>1, <1>2, <1>3 DEF Holds
<1>4. ASSUME NEW live, NEW frame, NEW spot, spot \notin {from, to}, Frames(live, frame, spot, at)
      PROVE  Frames(live, frame, spot, at2)
  BY <1>1, <1>2, <1>4 DEF Frames
<1>5. ASSUME NEW j0, NEW spot, spot \notin {from, to}, IsEnd(j0, spot, at)
      PROVE  IsEnd(j0, spot, at2)
  BY <1>1, <1>2, <1>5 DEF IsEnd
<1>6. Spot("lost", 0) # to => \A j \in Jobs : at2[j] = Spot("lost", 0) => dead
  BY DEF Goers, Placed
<1> HIDE DEF Jobs, Threads
<1> QED BY <1>2, <1>3, <1>4, <1>5, <1>6 DEF Placed, Elsewhere

(* One job goes.                                                           *)
Moves(at, at2, j, to) ==
  /\ at \in [Jobs -> Spots] /\ at2 \in [Jobs -> Spots]
  /\ j \in Jobs /\ at2[j] = to
  /\ \A h \in Jobs : h # j => at2[h] = at[h]

LEMMA OneMoves ==
  ASSUME NEW at \in [Jobs -> Spots], NEW j \in Jobs, NEW to \in Spots
  PROVE  \E at2 : Moves(at, at2, j, to)
<1> HIDE DEF Jobs, Spots
<1>1. Moves(at, [at EXCEPT ![j] = to], j, to)
  BY DEF Moves
<1> QED BY <1>1

LEMMA MoverGoes ==
  ASSUME NEW at, NEW at2, NEW j, NEW to, Moves(at, at2, j, to)
  PROVE  Goers(at, at2, at[j], to)
<1> HIDE DEF Jobs, Spots
<1> QED BY DEF Moves, Goers

LEMMA TailHolds ==
  ASSUME NEW s \in Seq(Jobs), s # <<>>, NEW at, NEW at2, NEW from, NEW to, from # to,
         Holds(s, from, at), Moves(at, at2, Head(s), to)
  PROVE  at[Head(s)] = from /\ Holds(Tail(s), from, at2)
<1>0. /\ at \in [Jobs -> Spots] /\ at2 \in [Jobs -> Spots] /\ at2[Head(s)] = to
      /\ \A h \in Jobs : h # Head(s) => at2[h] = at[h]
  BY DEF Moves
<1> USE <1>0
<1>1. /\ DOMAIN Tail(s) = 1..Len(s) - 1 /\ \A k \in 1..Len(s) - 1 : Tail(s)[k] = s[k + 1]
      /\ Head(s) = s[1] /\ DOMAIN s = 1..Len(s) /\ Len(s) \in Nat \ {0} /\ Head(s) \in Jobs
  BY HeadAndTail
<1>2. 1 \in DOMAIN s
  BY <1>1
<1>3. at[Head(s)] = from
  BY <1>1, <1>2 DEF Holds, On
<1>4. \A k \in DOMAIN Tail(s) : k \in Nat /\ k + 1 \in DOMAIN s /\ k + 1 # 1 /\ Tail(s)[k] = s[k + 1]
  BY <1>1
<1>5. IsInjective(Tail(s))
  <2> SUFFICES ASSUME NEW a \in DOMAIN Tail(s), NEW b \in DOMAIN Tail(s), Tail(s)[a] = Tail(s)[b]
               PROVE  a = b
    BY DEF IsInjective
  <2>1. a + 1 = b + 1
    BY <1>4 DEF Holds, IsInjective
  <2> QED BY <1>4, <2>1
<1>6. \A h \in Jobs : On(Tail(s), h) <=> On(s, h) /\ h # Head(s)
  <2> TAKE h \in Jobs
  <2>1. ASSUME On(Tail(s), h) PROVE On(s, h) /\ h # Head(s)
    BY <1>1, <1>2, <1>4, <2>1 DEF On, Holds, IsInjective
  <2>2. ASSUME On(s, h), h # Head(s) PROVE On(Tail(s), h)
    <3>1. PICK k \in DOMAIN s : s[k] = h
      BY <2>2 DEF On
    <3>2. k # 1
      BY <1>1, <2>2, <3>1
    <3>3. k - 1 \in DOMAIN Tail(s) /\ (k - 1) + 1 = k
      BY <1>1, <3>1, <3>2
    <3>4. Tail(s)[k - 1] = h
      BY <1>4, <3>1, <3>3
    <3> QED BY <3>3, <3>4 DEF On
  <2> QED BY <2>1, <2>2
<1> HIDE DEF Jobs
<1>7. \A h \in Jobs : at2[h] = from <=> On(Tail(s), h)
  <2> TAKE h \in Jobs
  <2>1. CASE h = Head(s)
    BY <1>6, <2>1
  <2>2. CASE h # Head(s)
    BY <1>6, <2>2 DEF Holds
  <2> QED BY <2>1, <2>2
<1> QED BY <1>3, <1>5, <1>7 DEF Holds

LEMMA AppendHolds ==
  ASSUME NEW s \in Seq(Jobs), NEW at, NEW at2, NEW j, NEW to,
         Holds(s, to, at), at[j] # to, Moves(at, at2, j, to)
  PROVE  Holds(Append(s, j), to, at2)
<1>0. /\ at \in [Jobs -> Spots] /\ at2 \in [Jobs -> Spots] /\ j \in Jobs /\ at2[j] = to
      /\ \A h \in Jobs : h # j => at2[h] = at[h]
  BY DEF Moves
<1> USE <1>0
<1>1. /\ DOMAIN Append(s, j) = 1..Len(s) + 1 /\ \A k \in 1..Len(s) : Append(s, j)[k] = s[k]
      /\ Append(s, j)[Len(s) + 1] = j /\ Len(s) \in Nat /\ DOMAIN s = 1..Len(s)
  BY AppendIsSeq
<1>2. \A k \in DOMAIN s : s[k] \in Jobs /\ s[k] # j
  BY DEF Holds, On
<1>3. \A k \in 1..Len(s) + 1 : k \in 1..Len(s) \/ k = Len(s) + 1
  BY <1>1
<1>4. IsInjective(Append(s, j))
  BY <1>1, <1>2, <1>3 DEF Holds, IsInjective
<1>5. \A h \in Jobs : On(Append(s, j), h) <=> On(s, h) \/ h = j
  BY <1>1, <1>3 DEF On
<1> HIDE DEF Jobs
<1>6. \A h \in Jobs : at2[h] = to <=> On(Append(s, j), h)
  BY <1>5 DEF Holds
<1> QED BY <1>4, <1>6 DEF Holds

(* The records of all but j stay, and the one of j fits.                   *)
LEMMA OthersFit ==
  ASSUME NEW at, NEW at2, NEW j \in Jobs, Threads' = Threads, Jobs' = Jobs,
         \A h \in Jobs : Fits(h, at),
         \A h \in Jobs : h # j => at2[h] = at[h] /\ job'[h] = job[h],
         Waits(at2[j]) => ~job'[j].ret,
         IsOver(at2[j]) => job'[j].ret # job'[j].timeout
  PROVE  (\A h \in Jobs : Fits(h, at2))'
<1>1. \A spot : (Waits(spot)' <=> Waits(spot)) /\ (IsOver(spot)' <=> IsOver(spot))
  BY DEF Waits, IsOver
<1> HIDE DEF Jobs, Threads
<1>2. ASSUME NEW h \in Jobs PROVE Fits(h, at2)'
  <2>1. CASE h = j
    BY <1>1, <2>1 DEF Fits
  <2>2. CASE h # j
    BY <1>1, <2>2 DEF Fits
  <2> QED BY <2>1, <2>2
<1> QED BY <1>2

LEMMA SpotTells ==
  /\ \A i : ~Waits(Spot("green", i)) /\ ~IsOver(Spot("green", i))
  /\ \A i : ~Waits(Spot("lost", i)) /\ ~IsOver(Spot("lost", i))
  /\ \A i : ~Waits(Spot("taken", i)) /\ ~IsOver(Spot("taken", i))
  /\ \A i : ~Waits(Spot("free", i)) /\ ~IsOver(Spot("free", i))
  /\ Waits(Spot("mine", 0)) /\ ~IsOver(Spot("mine", 0))
  /\ \A i \in Threads : Waits(Spot("submission", i)) /\ ~IsOver(Spot("submission", i))
  /\ \A i \in Threads : ~Waits(Spot("ended", i)) /\ IsOver(Spot("ended", i))
  /\ \A i \in Threads : ~Waits(Spot("completion", i)) /\ IsOver(Spot("completion", i))
BY SpotsDiffer DEF Waits, IsOver

(* A step that moves no job and ends none.                                 *)
LEMMA NothingMoves ==
  ASSUME Honest, UNCHANGED <<job, submission, completion, gjob, greens, done, ended>>,
         UNCHANGED <<free, fresh, mine, taken, N, PerThread>>, dead => dead'
  PROVE  Honest'
<1>1. Threads' = Threads /\ Jobs' = Jobs /\ Spots' = Spots
  BY DEF Threads, Jobs, Spots
<1>2. \A t \in Threads : Live(t)' = Live(t)
  BY DEF Live
<1>3. PICK at : Placed(at) /\ \A j \in Jobs : Fits(j, at)
  BY DEF Honest
<1> HIDE DEF Jobs, Threads, Spots
<1>4. \A t \in Threads : Frames(Live(t)', gjob'[t], Spot("green", t), at)
  BY <1>2, <1>3 DEF Placed
<1>5. Placed(at)'
  BY <1>1, <1>3, <1>4 DEF Placed
<1>6. (\A j \in Jobs : Fits(j, at))'
  BY <1>1, <1>3 DEF Fits, Waits, IsOver
<1> QED BY <1>1, <1>3, <1>5, <1>6 DEF Honest

(* A green thread begins on a job, or returns from one.                    *)
LEMMA FrameBegins ==
  ASSUME NEW at, NEW at2, NEW j, NEW spot, Moves(at, at2, j, spot), at[j] # spot,
         NEW live, NEW frame, NEW frame2, NEW g, g \notin live, Frames(live, frame, spot, at),
         frame2[g] = j, \A h \in live : frame2[h] = frame[h] /\ frame[h] \in Jobs
  PROVE  Frames(live \cup {g}, frame2, spot, at2)
<1> HIDE DEF Jobs, Spots
<1> USE DEF Moves
<1>1. \A h \in live : frame2[h] # j
  BY DEF Frames, Among
<1>2. \A a, b \in live \cup {g} : frame2[a] = frame2[b] => a = b
  BY <1>1 DEF Frames
<1>3. \A h : Among(live \cup {g}, frame2, h) <=> Among(live, frame, h) \/ h = j
  BY DEF Among
<1>4. \A h \in Jobs : at2[h] = spot <=> Among(live \cup {g}, frame2, h)
  BY <1>3 DEF Frames
<1> QED BY <1>2, <1>4 DEF Frames

FramesStay(live, frame, frame2) == \A h \in live : frame2[h] = frame[h]

LEMMA FrameReturns ==
  ASSUME NEW at, NEW at2, NEW j, NEW to, NEW spot, Moves(at, at2, j, to), to # spot,
         NEW live, NEW frame, NEW frame2, NEW g \in live,
         Frames(live, frame, spot, at), frame[g] = j,
         FramesStay(live \ {g}, frame, frame2)
  PROVE  at[j] = spot /\ Frames(live \ {g}, frame2, spot, at2)
<1> HIDE DEF Jobs, Spots
<1> USE DEF Moves, FramesStay
<1>1. at[j] = spot
  BY DEF Frames, Among
<1>2. \A a, b \in live \ {g} : frame2[a] = frame2[b] => a = b
  BY DEF Frames
<1>3. \A h : Among(live \ {g}, frame2, h) <=> Among(live, frame, h) /\ h # j
  BY DEF Among, Frames
<1>4. \A h \in Jobs : at2[h] = spot <=> Among(live \ {g}, frame2, h)
  BY <1>3 DEF Frames
<1> QED BY <1>1, <1>2, <1>4 DEF Frames

LEMMA EndIs ==
  ASSUME NEW at, NEW at2, NEW j, NEW to, NEW spot, Moves(at, at2, j, to)
  PROVE  /\ IsEnd(0, spot, at) /\ to = spot => IsEnd(j, spot, at2)
         /\ IsEnd(j, spot, at) /\ to # spot => at[j] = spot /\ IsEnd(0, spot, at2)
<1>1. 0 \notin Jobs
  BY DEF Jobs
<1> HIDE DEF Jobs, Spots
<1> QED BY <1>1 DEF IsEnd, Moves

(* What else a worker's step leaves as it was.                             *)
Beside(i) ==
  /\ UNCHANGED <<N, PerThread, free, fresh, mine, taken>>
  /\ Threads' = Threads /\ Jobs' = Jobs /\ Spots' = Spots
  /\ ~dead
  /\ \A t \in Threads : t # i =>
       /\ submission'[t] = submission[t] /\ completion'[t] = completion[t]
       /\ Live(t)' = Live(t) /\ gjob'[t] = gjob[t] /\ ended'[t] = ended[t]

LEMMA WorkersBeside ==
  ASSUME Types, JobTypes, GreenInv, NEW i \in Threads, Worker(i) \/ IsCancelled(i)
  PROVE  Beside(i)
<1>1. /\ UNCHANGED <<N, PerThread, free, fresh, mine, taken>> /\ ~dead
      /\ Threads' = Threads /\ Jobs' = Jobs /\ Spots' = Spots
  BY WorkerLeavesMain DEF main, pool, shape, Threads, Jobs, Spots
<1>2. \A t \in Threads : t # i => SameWorker(t)
  BY WorkersAreApart DEF JobTypes, GreenInv
<1> QED BY <1>1, <1>2 DEF Beside, SameWorker, Live

(* The spots a worker's jobs go between, and what it has to keep there.    *)
Own(i, spot) ==
  \/ spot = Spot("lost", 0)
  \/ \E p \in {"submission", "green", "ended", "completion"} : spot = Spot(p, i)
Keeps(i, at) ==
  /\ Holds(submission[i], Spot("submission", i), at)
  /\ Holds(completion[i], Spot("completion", i), at)
  /\ Frames(Live(i), gjob[i], Spot("green", i), at)
  /\ IsEnd(ended[i], Spot("ended", i), at)
  /\ \A j \in DOMAIN at : at[j] = Spot("lost", 0) => dead

LEMMA WorkerPlaces ==
  ASSUME NEW i \in Threads, Beside(i), NEW at, at \in [Jobs -> Spots], NEW from, NEW to,
         Own(i, from), Own(i, to), Elsewhere(from, to, at), Keeps(i, at)'
  PROVE  Placed(at)'
<1> HIDE DEF Jobs, Threads, Spots, Live
<1>1. ASSUME NEW p \in {"new", "free", "mine", "taken"}
      PROVE  Spot(p, 0) \notin {from, to}
  BY SpotsDiffer DEF Own
<1>2. /\ \A j \in Jobs : at[j] = Spot("new", 0) <=> j > fresh'
      /\ Holds(free', Spot("free", 0), at)
      /\ Holds(mine', Spot("mine", 0), at)
      /\ Holds(taken', Spot("taken", 0), at)
  BY <1>1 DEF Elsewhere, Beside
<1>3. ASSUME NEW t \in Threads, t # i, NEW p \in {"submission", "green", "ended", "completion"}
      PROVE  Spot(p, t) \notin {from, to}
  BY <1>3, SpotsDiffer DEF Own
<1>4. ASSUME NEW t \in Threads
      PROVE  /\ Holds(submission'[t], Spot("submission", t), at)
             /\ Holds(completion'[t], Spot("completion", t), at)
             /\ Frames(Live(t)', gjob'[t], Spot("green", t), at)
             /\ IsEnd(ended'[t], Spot("ended", t), at)
  <2>1. CASE t = i
    BY <2>1 DEF Keeps
  <2>2. CASE t # i
    BY <1>3, <2>2 DEF Elsewhere, Beside
  <2> QED BY <2>1, <2>2
<1>5. \A j \in Jobs : at[j] = Spot("lost", 0) => dead'
  BY DEF Keeps
<1> QED BY <1>2, <1>4, <1>5 DEF Placed, Beside

(* A worker takes a job, to a spot of the worker's or, without a green     *)
(* thread for it, to none.                                                 *)
Taken(i, j, spot, at, at2) ==
  /\ at[j] = Spot("submission", i) /\ Moves(at, at2, j, spot)
  /\ Elsewhere(Spot("submission", i), spot, at2)
  /\ Holds(submission'[i], Spot("submission", i), at2)

LEMMA TakesPlaces ==
  ASSUME Types, JobTypes, NEW i \in Threads, NEW to, TakesJob(i, to), NEW at, Placed(at),
         NEW spot \in Spots, spot # Spot("submission", i)
  PROVE  \E at2 : Taken(i, Head(submission[i]), spot, at, at2)
<1>1. /\ submission[i] \in Seq(Jobs) /\ submission[i] # <<>>
      /\ submission' = [submission EXCEPT ![i] = Tail(submission[i])]
      /\ submission \in [Threads -> Seq(Given)]
  BY ListsOfJobs DEF TakesJob, JobTypes, QueueTypes
<1>2. Head(submission[i]) \in Jobs
  BY <1>1, HeadAndTail
<1>3. at \in [Jobs -> Spots]
  BY DEF Placed
<1> HIDE DEF Jobs, Threads, Spots
<1>4. PICK at2 : Moves(at, at2, Head(submission[i]), spot)
  BY <1>2, <1>3, OneMoves
<1>5. Goers(at, at2, at[Head(submission[i])], spot)
  BY <1>4, MoverGoes
<1>6. Holds(submission[i], Spot("submission", i), at)
  BY DEF Placed
<1>7. /\ at[Head(submission[i])] = Spot("submission", i)
      /\ Holds(Tail(submission[i]), Spot("submission", i), at2)
  BY <1>1, <1>4, <1>6, TailHolds
<1>8. Elsewhere(Spot("submission", i), spot, at2)
  BY <1>5, <1>7, OthersStay
<1>9. submission'[i] = Tail(submission[i])
  BY <1>1
<1> QED BY <1>4, <1>7, <1>8, <1>9 DEF Taken

LEMMA StartsHonest ==
  ASSUME Types, JobTypes, GreenInv, EndsInv, Honest, NEW i \in Threads, StartsJob(i), Beside(i)
  PROVE  Honest'
<1>1. PICK at : Placed(at) /\ \A h \in Jobs : Fits(h, at)
  BY DEF Honest
<1>2. PICK j : j = Head(submission[i])
  OBVIOUS
<1>3. /\ TakesJob(i, "run") /\ UNCHANGED <<completion, done, ended>>
      /\ job' = [job EXCEPT ![j].timeout = FALSE]
  BY <1>2 DEF StartsJob
<1>4. j \in Jobs
  BY <1>2, <1>3, ListsOfJobs, HeadAndTail DEF TakesJob
<1>5. job' \in [Jobs -> Records] /\ \A h \in Jobs : h # j => job'[h] = job[h]
  BY <1>3, <1>4, RecordStarts DEF Honest
<1> HIDE DEF Jobs, Threads, Spots, Live
<1>6. ASSUME NEW at2, NEW spot, Taken(i, j, spot, at, at2), ~Waits(spot), ~IsOver(spot),
             Own(i, spot), Keeps(i, at2)'
      PROVE  Honest'
  <2>1. at2 \in [Jobs -> Spots] /\ at2[j] = spot /\ \A h \in Jobs : h # j => at2[h] = at[h]
    BY <1>6 DEF Taken, Moves
  <2>2. (\A h \in Jobs : Fits(h, at2))'
    BY <1>1, <1>4, <1>5, <1>6, <2>1, OthersFit DEF Beside
  <2>3. Own(i, Spot("submission", i))
    BY DEF Own
  <2>4. Placed(at2)'
    BY <1>6, <2>1, <2>3, WorkerPlaces DEF Taken
  <2> QED BY <1>5, <2>2, <2>4 DEF Honest, Beside
<1>7. CASE greens[i] + 1 > PerThread
  <2>1. dead' /\ UNCHANGED <<greens, gjob>>
    BY <1>7 DEF StartsJob
  <2>2. PICK at2 : Taken(i, j, Spot("lost", 0), at, at2)
    <3>1. Spot("lost", 0) \in Spots /\ Spot("lost", 0) # Spot("submission", i)
      BY SpotsAre, SpotsDiffer
    <3> QED BY <1>1, <1>2, <1>3, <3>1, TakesPlaces
  <2>3. Live(i)' = Live(i)
    BY <1>3, <2>1 DEF Live
  <2>4. Keeps(i, at2)'
    BY <1>3, <2>1, <2>2, <2>3, SpotsDiffer DEF Keeps, Taken, Elsewhere
  <2>5. Own(i, Spot("lost", 0))
    BY DEF Own
  <2> QED BY <1>6, <2>2, <2>4, <2>5, SpotTells
<1>8. CASE ~(greens[i] + 1 > PerThread)
  <2>1. /\ greens' = [greens EXCEPT ![i] = greens[i] + 1] /\ UNCHANGED dead
        /\ gjob' = [gjob EXCEPT ![i][greens[i] + 1] = j]
        /\ greens \in [Threads -> 0..PerThread] /\ PerThread \in Nat
        /\ gjob \in [Threads -> [Greens -> {0} \cup Given]]
    BY <1>2, <1>8 DEF StartsJob, GreenInv, GreenTypes, JobTypes, MainTypes, QueueTypes
  <2>2. PICK at2 : Taken(i, j, Spot("green", i), at, at2)
    <3>1. Spot("green", i) \in Spots /\ Spot("green", i) # Spot("submission", i)
      BY SpotsAre, SpotsDiffer
    <3> QED BY <1>1, <1>2, <1>3, <3>1, TakesPlaces
  <2>3. Frames(Live(i)', gjob'[i], Spot("green", i), at2)
    <3>1. greens[i] \in Nat /\ greens[i] + 1 \in Greens /\ greens[i] <= PerThread
      BY <1>8, <2>1 DEF Greens
    <3>2. gjob'[i][greens[i] + 1] = j /\ \A g : g # greens[i] + 1 => gjob'[i][g] = gjob[i][g]
      BY <2>1, <3>1
    <3>3. greens[i] + 1 \notin Live(i) /\ Live(i)' = Live(i) \cup {greens[i] + 1}
      <4>1. done[i] \subseteq 1..greens[i]
        BY DEF GreenInv, AllApart, Apart, Settled
      <4>2. greens[i] + 1 \notin 1..greens[i] /\ 1..greens[i] + 1 = (1..greens[i]) \cup {greens[i] + 1}
        BY <3>1
      <4>3. greens'[i] = greens[i] + 1 /\ done'[i] = done[i]
        BY <1>3, <2>1
      <4> QED BY <4>1, <4>2, <4>3 DEF Live
    <3>4. \A g \in Live(i) : gjob[i][g] \in Jobs
      <4>1. \A g \in Live(i) : g \in Greens /\ gjob[i][g] # 0
        BY <2>1, <3>1 DEF Live, Greens, Beside, EndsInv, Ends
      <4> QED BY <2>1, <4>1, ListsOfJobs
    <3>5. /\ Frames(Live(i), gjob[i], Spot("green", i), at)
          /\ at[j] # Spot("green", i) /\ Moves(at, at2, j, Spot("green", i))
      BY <1>1, <2>2, SpotsDiffer DEF Placed, Taken
    <3>6. \A g \in Live(i) : gjob'[i][g] = gjob[i][g] /\ gjob[i][g] \in Jobs
      BY <3>2, <3>3, <3>4
    <3>7. Frames(Live(i) \cup {greens[i] + 1}, gjob'[i], Spot("green", i), at2)
      BY <3>2, <3>3, <3>5, <3>6, FrameBegins
    <3> QED BY <3>3, <3>7
  <2>4. Keeps(i, at2)'
    <3>1. \A h \in DOMAIN at2 : at2[h] # Spot("lost", 0)
      BY <2>2, SpotsDiffer DEF Taken, Elsewhere, Beside, Moves
    <3> QED BY <1>3, <2>2, <2>3, <3>1, SpotsDiffer DEF Keeps, Taken, Elsewhere
  <2>5. Own(i, Spot("green", i))
    BY DEF Own
  <2> QED BY <1>6, <2>2, <2>4, <2>5, SpotTells
<1> QED BY <1>7, <1>8

LEMMA ExpiresHonest ==
  ASSUME Types, JobTypes, GreenInv, EndsInv, Honest, NEW i \in Threads, ExpiresJob(i), Beside(i)
  PROVE  Honest'
<1>1. PICK at : Placed(at) /\ \A h \in Jobs : Fits(h, at)
  BY DEF Honest
<1>2. PICK j : j = Head(submission[i])
  OBVIOUS
<1>3. /\ TakesJob(i, "complete") /\ UNCHANGED <<completion, done, greens, gjob, dead>>
      /\ job' = [job EXCEPT ![j].timeout = TRUE] /\ wpc[i] = "select"
      /\ ended' = [ended EXCEPT ![i] = j]
  BY <1>2 DEF ExpiresJob, TakesJob, Goes, greenstate
<1>4. j \in Jobs
  BY <1>2, <1>3, ListsOfJobs, HeadAndTail DEF TakesJob
<1> HIDE DEF Jobs, Threads, Spots, Live
<1>5. PICK at2 : Taken(i, j, Spot("ended", i), at, at2)
  <2>1. Spot("ended", i) \in Spots /\ Spot("ended", i) # Spot("submission", i)
    BY SpotsAre, SpotsDiffer
  <2> QED BY <1>1, <1>2, <1>3, <2>1, TakesPlaces
<1>6. ~job[j].ret
  BY <1>1, <1>4, <1>5, SpotTells DEF Taken, Fits
<1>7. job' \in [Jobs -> Records] /\ job'[j].ret # job'[j].timeout
      /\ \A h \in Jobs : h # j => job'[h] = job[h]
  BY <1>3, <1>4, <1>6, RecordExpires DEF Honest
<1>8. /\ at2 \in [Jobs -> Spots] /\ at2[j] = Spot("ended", i)
      /\ \A h \in Jobs : h # j => at2[h] = at[h]
  BY <1>5 DEF Taken, Moves
<1>9. (\A h \in Jobs : Fits(h, at2))'
  BY <1>1, <1>4, <1>7, <1>8, OthersFit, SpotTells DEF Beside
<1>10. IsEnd(ended'[i], Spot("ended", i), at2)
  <2>1. ended'[i] = j /\ ended[i] = 0
    BY <1>3 DEF EndsInv, Ends, Beside
  <2>2. IsEnd(0, Spot("ended", i), at)
    BY <1>1, <2>1 DEF Placed
  <2> QED BY <1>5, <2>1, <2>2, EndIs DEF Taken
<1>11. Live(i)' = Live(i)
  BY <1>3 DEF Live
<1>12. Keeps(i, at2)'
  <2>1. \A h \in DOMAIN at2 : at2[h] # Spot("lost", 0)
    BY <1>5, SpotsDiffer DEF Taken, Elsewhere, Beside, Moves
  <2> QED BY <1>3, <1>5, <1>10, <1>11, <2>1, SpotsDiffer DEF Keeps, Taken, Elsewhere
<1>13. Own(i, Spot("submission", i)) /\ Own(i, Spot("ended", i))
  BY DEF Own
<1>14. Placed(at2)'
  BY <1>5, <1>8, <1>12, <1>13, WorkerPlaces DEF Taken
<1> QED BY <1>7, <1>9, <1>14 DEF Honest, Beside

(* The running green thread returns, and its job has ended.                *)
LEMMA ReturnsHonest ==
  ASSUME Types, JobTypes, GreenInv, EndsInv, Honest, NEW i \in Threads, Returns(i), Beside(i)
  PROVE  Honest'
<1>1. PICK at : Placed(at) /\ \A h \in Jobs : Fits(h, at)
  BY DEF Honest
<1>2. PICK r : r = running[i]
  OBVIOUS
<1>3. PICK j : j = gjob[i][r]
  OBVIOUS
<1>4. /\ UNCHANGED <<submission, completion, greens, dead>> /\ wpc[i] = "run"
      /\ job' = [job EXCEPT ![j].ret = TRUE, ![j].timeout = FALSE]
      /\ done' = [done EXCEPT ![i] = @ \cup {r}]
      /\ ended' = [ended EXCEPT ![i] = j]
      /\ gjob' = [gjob EXCEPT ![i][r] = 0]
  BY <1>2, <1>3 DEF Returns, Goes
<1>5. r \in Live(i) /\ r \in Greens /\ j \in Jobs
  BY <1>2, <1>3, <1>4, RunningFrame DEF Beside
<1>6. job' \in [Jobs -> Records] /\ job'[j].ret # job'[j].timeout
      /\ \A h \in Jobs : h # j => job'[h] = job[h]
  BY <1>4, <1>5, RecordReturns, ZenonT(30) DEF Honest
<1>7. Live(i)' = Live(i) \ {r}
  BY <1>4 DEF Live, GreenInv, GreenTypes
<1>8. FramesStay(Live(i) \ {r}, gjob[i], gjob'[i])
  BY <1>4 DEF JobTypes, QueueTypes, FramesStay
<1> HIDE DEF Jobs, Threads, Spots, Live
<1>9. Spot("ended", i) \in Spots /\ Spot("ended", i) # Spot("green", i)
  BY SpotsAre, SpotsDiffer
<1>10. PICK at2 : Moves(at, at2, j, Spot("ended", i))
  BY <1>1, <1>5, <1>9, OneMoves DEF Placed
<1>11. Frames(Live(i), gjob[i], Spot("green", i), at)
  BY <1>1 DEF Placed
<1>12. at[j] = Spot("green", i) /\ Frames(Live(i) \ {r}, gjob'[i], Spot("green", i), at2)
  <2>1. gjob[i][r] = j /\ r \in Live(i)
    BY <1>3, <1>5
  <2> QED BY <1>8, <1>9, <1>10, <1>11, <2>1, FrameReturns
<1>13. Elsewhere(Spot("green", i), Spot("ended", i), at2)
  BY <1>1, <1>10, <1>12, MoverGoes, OthersStay
<1>14. IsEnd(ended'[i], Spot("ended", i), at2)
  <2>1. ended'[i] = j /\ ended[i] = 0
    BY <1>4 DEF EndsInv, Ends, Beside
  <2>2. IsEnd(0, Spot("ended", i), at)
    BY <1>1, <2>1 DEF Placed
  <2> QED BY <1>10, <2>1, <2>2, EndIs
<1>15. /\ at2 \in [Jobs -> Spots] /\ at2[j] = Spot("ended", i)
       /\ \A h \in Jobs : h # j => at2[h] = at[h]
  BY <1>10 DEF Moves
<1>16. (\A h \in Jobs : Fits(h, at2))'
  BY <1>1, <1>5, <1>6, <1>15, OthersFit, SpotTells DEF Beside
<1>17. Keeps(i, at2)'
  <2>1. \A h \in DOMAIN at2 : at2[h] # Spot("lost", 0)
    BY <1>13, <1>15, SpotsDiffer DEF Elsewhere, Beside
  <2> QED BY <1>4, <1>7, <1>12, <1>13, <1>14, <2>1, SpotsDiffer DEF Keeps, Elsewhere
<1>18. Own(i, Spot("green", i)) /\ Own(i, Spot("ended", i))
  BY DEF Own
<1>19. Placed(at2)'
  BY <1>13, <1>15, <1>17, <1>18, WorkerPlaces
<1> QED BY <1>6, <1>16, <1>19 DEF Honest, Beside

(* The report of the job that has ended.                                   *)
LEMMA CompletesHonest ==
  ASSUME Types, JobTypes, GreenInv, EndsInv, Honest, ~misreported', NEW i \in Threads,
         Completes(i), Beside(i)
  PROVE  Honest'
<1>1. PICK at : Placed(at) /\ \A h \in Jobs : Fits(h, at)
  BY DEF Honest
<1>2. UNCHANGED <<job, submission, gjob, greens, done>> /\ wpc[i] = "complete"
  BY DEF Completes, Goes, greenstate
<1>3. CASE Len(completion[i]) = PerThread
  BY <1>2, <1>3, NothingMoves DEF Completes, Beside
<1>4. CASE Len(completion[i]) # PerThread
  <2>1. PICK j : j = wjob[i]
    OBVIOUS
  <2>2. /\ completion' = [completion EXCEPT ![i] = Append(completion[i], j)]
        /\ ended' = [ended EXCEPT ![i] = 0] /\ UNCHANGED dead /\ j = ended[i]
    BY <1>4, <2>1 DEF Completes, Reports
  <2>3. ended[i] # 0 /\ ended[i] \in {0} \cup Jobs /\ i \in DOMAIN ended
    BY <1>2 DEF EndsInv, Ends, Beside
  <2>4. j \in Jobs /\ completion[i] \in Seq(Jobs) /\ ended'[i] = 0
    BY <2>2, <2>3, ListsOfJobs
  <2>5. completion'[i] = Append(completion[i], j)
    BY <2>2 DEF JobTypes, QueueTypes
  <2>6. Live(i)' = Live(i)
    BY <1>2 DEF Live
  <2> HIDE DEF Jobs, Threads, Spots, Live
  <2>7. Spot("completion", i) \in Spots /\ Spot("completion", i) # Spot("ended", i)
    BY SpotsAre, SpotsDiffer
  <2>8. PICK at2 : Moves(at, at2, j, Spot("completion", i))
    BY <1>1, <2>4, <2>7, OneMoves DEF Placed
  <2>9. at[j] = Spot("ended", i) /\ IsEnd(0, Spot("ended", i), at2)
    <3>1. IsEnd(j, Spot("ended", i), at)
      BY <1>1, <2>2 DEF Placed
    <3> QED BY <2>7, <2>8, <3>1, EndIs
  <2>10. Elsewhere(Spot("ended", i), Spot("completion", i), at2)
    BY <1>1, <2>8, <2>9, MoverGoes, OthersStay
  <2>11. Holds(Append(completion[i], j), Spot("completion", i), at2)
    <3>1. Holds(completion[i], Spot("completion", i), at)
      BY <1>1 DEF Placed
    <3> QED BY <2>4, <2>7, <2>8, <2>9, <3>1, AppendHolds
  <2>12. /\ at2 \in [Jobs -> Spots] /\ at2[j] = Spot("completion", i)
         /\ \A h \in Jobs : h # j => at2[h] = at[h]
    BY <2>8 DEF Moves
  <2>13. job[j].ret # job[j].timeout
    BY <1>1, <2>4, <2>9, SpotTells DEF Fits
  <2>14. (\A h \in Jobs : Fits(h, at2))'
    BY <1>1, <1>2, <2>4, <2>12, <2>13, OthersFit, SpotTells DEF Beside
  <2>15. Keeps(i, at2)'
    <3>1. \A h \in DOMAIN at2 : at2[h] # Spot("lost", 0)
      BY <2>10, <2>12, SpotsDiffer DEF Elsewhere, Beside
    <3> QED BY <1>2, <2>4, <2>5, <2>6, <2>9, <2>10, <2>11, <3>1, SpotsDiffer DEF Keeps, Elsewhere
  <2>16. Own(i, Spot("ended", i)) /\ Own(i, Spot("completion", i))
    BY DEF Own
  <2>17. Placed(at2)'
    BY <2>10, <2>12, <2>15, <2>16, WorkerPlaces
  <2> QED BY <1>2, <2>14, <2>17 DEF Honest, Beside
<1> QED BY <1>3, <1>4

LEMMA WorkerIsHonest ==
  ASSUME Types, JobTypes, GreenInv, EndsInv, HonestInv, NEW i \in Threads,
         Worker(i) \/ IsCancelled(i)
  PROVE  HonestInv'
<1> SUFFICES ASSUME ~misreported'
             PROVE  Honest'
  BY DEF HonestInv
<1>1. Beside(i)
  BY WorkersBeside
<1>2. ASSUME UNCHANGED <<job, submission, completion, gjob, greens, done, ended, misreported>>
      PROVE  Honest'
  BY <1>1, <1>2, NothingMoves DEF Beside, HonestInv
<1>3. CASE WriteCurrent(i)
  BY <1>2, <1>3 DEF WriteCurrent, greenstate, whist
<1>4. CASE Sleeps(i)
  BY <1>2, <1>4 DEF Sleeps, greenstate, whist, shared
<1>5. CASE Resumes(i)
  BY <1>2, <1>5 DEF Resumes, whist, shared
<1>6. CASE StartsJob(i)
  <2>1. UNCHANGED misreported
    BY <1>6 DEF StartsJob
  <2> QED BY <1>1, <1>6, <2>1, StartsHonest DEF HonestInv
<1>7. CASE ExpiresJob(i)
  <2>1. UNCHANGED misreported
    BY <1>7 DEF ExpiresJob
  <2> QED BY <1>1, <1>7, <2>1, ExpiresHonest DEF HonestInv
<1>8. CASE \E op \in Ops : Yields(i, op)
  BY <1>2, <1>8 DEF Yields, shared
<1>9. CASE Returns(i)
  <2>1. UNCHANGED misreported
    BY <1>9 DEF Returns
  <2> QED BY <1>1, <1>9, <2>1, ReturnsHonest DEF HonestInv
<1>10. CASE Completes(i)
  <2>1. ~misreported
    BY <1>10 DEF Completes, Reports
  <2> QED BY <1>1, <1>10, <2>1, CompletesHonest DEF HonestInv
<1>11. CASE Exits(i)
  BY <1>2, <1>11 DEF Exits, greenstate, whist
<1>12. CASE \E word \in ring[i] : Drains(i, word)
  <2>1. PICK word \in ring[i] : Drains(i, word)
    BY <1>12
  <2> QED BY <1>2, <2>1 DEF Drains, shared, whist
<1>13. CASE Decides(i)
  BY <1>2, <1>13 DEF Decides, shared, greenstate, whist
<1>14. CASE IsCancelled(i)
  BY <1>2, <1>14 DEF IsCancelled, shared, greenstate, whist
<1> QED
  BY <1>3, <1>4, <1>5, <1>6, <1>7, <1>8, <1>9, <1>10, <1>11, <1>12, <1>13, <1>14
     DEF Worker, Rest

(* Main's steps: what they leave, and what main has to keep.               *)
Aside ==
  /\ UNCHANGED <<N, PerThread, gjob, greens, done, ended>>
  /\ Threads' = Threads /\ Jobs' = Jobs /\ Spots' = Spots /\ ~dead
MainsOwn(spot) ==
  \A t : spot # Spot("green", t) /\ spot # Spot("ended", t) /\ spot # Spot("lost", t)
MainKeeps(at) ==
  /\ \A j \in DOMAIN at : at[j] = Spot("new", 0) <=> j > fresh
  /\ Holds(free, Spot("free", 0), at)
  /\ Holds(mine, Spot("mine", 0), at)
  /\ Holds(taken, Spot("taken", 0), at)
  /\ \A i \in Threads : Holds(submission[i], Spot("submission", i), at)
  /\ \A i \in Threads : Holds(completion[i], Spot("completion", i), at)

LEMMA MainsAside ==
  ASSUME Call \/ Proceed
  PROVE  Aside
BY MainLeavesWorkers DEF Aside, worker, greenstate, whist, shape, Threads, Jobs, Spots

LEMMA MainPlaces ==
  ASSUME Aside, UNCHANGED dead, NEW at, at \in [Jobs -> Spots], NEW from, NEW to,
         MainsOwn(from), MainsOwn(to), Elsewhere(from, to, at), MainKeeps(at)'
  PROVE  Placed(at)'
<1>1. \A t \in Threads : Live(t)' = Live(t)
  BY DEF Live, Aside
<1> HIDE DEF Jobs, Threads, Spots, Live
<1>2. ASSUME NEW t \in Threads
      PROVE  /\ Frames(Live(t)', gjob'[t], Spot("green", t), at)
             /\ IsEnd(ended'[t], Spot("ended", t), at)
  <2>1. Spot("green", t) \notin {from, to} /\ Spot("ended", t) \notin {from, to}
    BY DEF MainsOwn
  <2>2. gjob' = gjob /\ ended' = ended
    BY DEF Aside
  <2> QED BY <1>1, <2>1, <2>2 DEF Elsewhere
<1>3. \A j \in Jobs : at[j] = Spot("lost", 0) => dead'
  BY DEF MainsOwn, Elsewhere
<1>4. MainKeeps(at)' /\ DOMAIN at = Jobs
  OBVIOUS
<1> QED BY <1>2, <1>3, <1>4 DEF Placed, MainKeeps, Aside

LEMMA GetIsHonest ==
  ASSUME Types, JobTypes, Honest, SbsGet, Aside
  PROVE  Honest'
<1>1. PICK at : Placed(at) /\ \A h \in Jobs : Fits(h, at)
  BY DEF Honest
<1>2. PICK j \in Jobs :
        /\ \/ free # <<>> /\ j = Head(free) /\ free' = Tail(free) /\ UNCHANGED fresh
           \/ free = <<>> /\ j = fresh + 1 /\ fresh' = j /\ UNCHANGED free
        /\ job' = [job EXCEPT ![j] = Filled(j)]
        /\ mine' = Append(mine, j)
  BY DEF SbsGet
<1>3. UNCHANGED <<submission, completion, taken, dead>>
  BY DEF SbsGet
<1>4. /\ job' \in [Jobs -> Records] /\ ~job'[j].ret
      /\ \A h \in Jobs : h # j => job'[h] = job[h]
  BY <1>2, FilledIs DEF Honest
<1>5. /\ fresh \in Nat /\ free \in Seq(Jobs) /\ mine \in Seq(Jobs) /\ \A h \in Jobs : h \in Nat
  BY ListsOfJobs, NumberOfJobs DEF Types, JobTypes, MainTypes, Jobs
<1> HIDE DEF Jobs, Threads, Spots, Live
<1>6. Spot("mine", 0) \in Spots /\ at \in [Jobs -> Spots]
  BY <1>1, SpotsAre DEF Placed
<1>7. PICK at2 : Moves(at, at2, j, Spot("mine", 0))
  BY <1>6, OneMoves
<1>8. /\ at2 \in [Jobs -> Spots] /\ at2[j] = Spot("mine", 0)
      /\ \A h \in Jobs : h # j => at2[h] = at[h]
  BY <1>7 DEF Moves
<1>9. (\A h \in Jobs : Fits(h, at2))'
  BY <1>1, <1>4, <1>8, OthersFit, SpotTells DEF Aside
<1>10. ASSUME at[j] # Spot("mine", 0)
       PROVE  Holds(mine', Spot("mine", 0), at2)
  <2>1. Holds(mine, Spot("mine", 0), at)
    BY <1>1 DEF Placed
  <2>2. Holds(Append(mine, j), Spot("mine", 0), at2)
    BY <1>5, <1>7, <1>10, <2>1, AppendHolds
  <2> QED BY <1>2, <2>2
<1>11. ASSUME MainsOwn(at[j]), MainKeeps(at2)'
       PROVE  Honest'
  <2>1. Elsewhere(at[j], Spot("mine", 0), at2)
    BY <1>1, <1>7, MoverGoes, OthersStay
  <2>2. MainsOwn(Spot("mine", 0))
    BY SpotsDiffer DEF MainsOwn
  <2>3. Placed(at2)'
    BY <1>3, <1>8, <1>11, <2>1, <2>2, MainPlaces
  <2> QED BY <1>4, <1>9, <2>3 DEF Honest, Aside
<1>12. CASE free # <<>> /\ j = Head(free) /\ free' = Tail(free) /\ UNCHANGED fresh
  <2>1. Holds(free, Spot("free", 0), at) /\ Spot("free", 0) # Spot("mine", 0)
    BY <1>1, SpotsDiffer DEF Placed
  <2>2. at[j] = Spot("free", 0) /\ Holds(Tail(free), Spot("free", 0), at2)
    BY <1>5, <1>7, <1>12, <2>1, TailHolds
  <2>3. Elsewhere(Spot("free", 0), Spot("mine", 0), at2)
    BY <1>1, <1>7, <2>2, MoverGoes, OthersStay
  <2>4. MainKeeps(at2)'
    BY <1>3, <1>8, <1>10, <1>12, <2>1, <2>2, <2>3, SpotsDiffer DEF MainKeeps, Elsewhere, Aside
  <2>5. MainsOwn(at[j])
    BY <2>2, SpotsDiffer DEF MainsOwn
  <2> QED BY <1>11, <2>4, <2>5
<1>13. CASE free = <<>> /\ j = fresh + 1 /\ fresh' = j /\ UNCHANGED free
  <2>1. at[j] = Spot("new", 0) /\ Spot("new", 0) # Spot("mine", 0)
    <3>1. j > fresh
      BY <1>5, <1>13
    <3> QED BY <1>1, <3>1, SpotsDiffer DEF Placed
  <2>2. Elsewhere(Spot("new", 0), Spot("mine", 0), at2)
    BY <1>1, <1>7, <2>1, MoverGoes, OthersStay
  <2>3. ASSUME NEW h \in Jobs PROVE at2[h] = Spot("new", 0) <=> h > fresh'
    <3>1. at[h] = Spot("new", 0) <=> h > fresh
      BY <1>1 DEF Placed
    <3>2. CASE h = j
      BY <1>5, <1>8, <1>13, <2>1, <3>2
    <3>3. CASE h # j
      <4>1. h > fresh <=> h > fresh'
        BY <1>5, <1>13, <3>3
      <4> QED BY <1>8, <3>1, <3>3, <4>1
    <3> QED BY <3>2, <3>3
  <2>4. MainKeeps(at2)'
    <3>1. /\ Holds(free, Spot("free", 0), at2) /\ Holds(taken, Spot("taken", 0), at2)
          /\ \A t \in Threads : /\ Holds(submission[t], Spot("submission", t), at2)
                              /\ Holds(completion[t], Spot("completion", t), at2)
      BY <2>2, SpotsDiffer DEF Elsewhere
    <3>2. free' = free /\ DOMAIN at2 = Jobs /\ Holds(mine', Spot("mine", 0), at2)
      BY <1>8, <1>10, <1>13, <2>1
    <3> QED BY <1>3, <2>3, <3>1, <3>2 DEF MainKeeps, Aside
  <2>5. MainsOwn(at[j])
    BY <2>1, SpotsDiffer DEF MainsOwn
  <2> QED BY <1>11, <2>4, <2>5
<1> QED BY <1>2, <1>12, <1>13

LEMMA PushIsHonest ==
  ASSUME Types, JobTypes, Honest, PushEnqueues, Aside
  PROVE  Honest'
<1>1. PICK at : Placed(at) /\ \A h \in Jobs : Fits(h, at)
  BY DEF Honest
<1>2. PICK i : i = PushTarget
  OBVIOUS
<1>3. PICK j : j = Head(mine)
  OBVIOUS
<1>4. /\ UNCHANGED <<completion, job, free, fresh, taken, dead>>
      /\ submission' = [submission EXCEPT ![i] = Append(submission[i], j)]
      /\ mine' = Tail(mine)
  BY <1>2, <1>3 DEF PushEnqueues
<1>5. /\ i \in Threads /\ mine \in Seq(Jobs) /\ mine # <<>>
      /\ submission[i] \in Seq(Jobs) /\ i \in DOMAIN submission
  <2>1. mpc = "push" /\ left # 0 /\ left \in Nat /\ left <= Len(mine)
        /\ mi \in Threads /\ rr \in Threads
    BY DEF PushEnqueues, MainIs, JobTypes, MainTypes
  <2>2. i \in Threads
    BY <1>2, <2>1 DEF PushTarget
  <2>3. mine # <<>>
    BY <2>1
  <2> QED BY <2>2, <2>3, ListsOfJobs DEF JobTypes, QueueTypes
<1>6. j \in Jobs
  BY <1>3, <1>5, HeadAndTail
<1> HIDE DEF Jobs, Threads, Spots, Live
<1>7. /\ Spot("submission", i) \in Spots /\ at \in [Jobs -> Spots]
      /\ Spot("mine", 0) # Spot("submission", i)
  BY <1>1, <1>5, SpotsAre, SpotsDiffer DEF Placed
<1>8. PICK at2 : Moves(at, at2, j, Spot("submission", i))
  BY <1>6, <1>7, OneMoves
<1>9. at[j] = Spot("mine", 0) /\ Holds(Tail(mine), Spot("mine", 0), at2)
  <2>1. Holds(mine, Spot("mine", 0), at)
    BY <1>1 DEF Placed
  <2> QED BY <1>3, <1>5, <1>7, <1>8, <2>1, TailHolds
<1>10. Holds(Append(submission[i], j), Spot("submission", i), at2)
  <2>1. Holds(submission[i], Spot("submission", i), at)
    BY <1>1, <1>5 DEF Placed
  <2> QED BY <1>5, <1>7, <1>8, <1>9, <2>1, AppendHolds
<1>11. Elsewhere(Spot("mine", 0), Spot("submission", i), at2)
  BY <1>1, <1>8, <1>9, MoverGoes, OthersStay
<1>12. /\ at2 \in [Jobs -> Spots] /\ at2[j] = Spot("submission", i)
       /\ \A h \in Jobs : h # j => at2[h] = at[h]
  BY <1>8 DEF Moves
<1>13. ~job[j].ret
  BY <1>1, <1>6, <1>9, SpotTells DEF Fits
<1>14. (\A h \in Jobs : Fits(h, at2))'
  BY <1>1, <1>4, <1>5, <1>6, <1>12, <1>13, OthersFit, SpotTells DEF Aside
<1>15. ASSUME NEW t \in Threads PROVE Holds(submission'[t], Spot("submission", t), at2)
  <2>1. CASE t = i
    BY <1>4, <1>5, <1>10, <2>1
  <2>2. CASE t # i
    <3>1. submission'[t] = submission[t]
      BY <1>4, <2>2
    <3> QED BY <1>11, <2>2, <3>1, SpotsDiffer DEF Elsewhere
  <2> QED BY <2>1, <2>2
<1>16. MainKeeps(at2)'
  BY <1>4, <1>9, <1>11, <1>12, <1>15, SpotsDiffer DEF MainKeeps, Elsewhere, Aside
<1>17. MainsOwn(Spot("mine", 0)) /\ MainsOwn(Spot("submission", i))
  BY SpotsDiffer DEF MainsOwn
<1>18. Placed(at2)'
  BY <1>4, <1>11, <1>12, <1>16, <1>17, MainPlaces
<1> QED BY <1>4, <1>14, <1>18 DEF Honest, Aside

LEMMA PopIsHonest ==
  ASSUME Types, JobTypes, Honest, PopFinds, Aside
  PROVE  Honest'
<1>1. PICK at : Placed(at) /\ \A h \in Jobs : Fits(h, at)
  BY DEF Honest
<1>2. PICK i : i = PopQueue
  OBVIOUS
<1>3. PICK j : j = Head(completion[i])
  OBVIOUS
<1>4. /\ UNCHANGED <<submission, job, free, fresh, mine, dead>> /\ completion[i] # <<>>
      /\ completion' = [completion EXCEPT ![i] = Tail(completion[i])]
      /\ taken' = Append(taken, j)
  BY <1>2, <1>3 DEF PopFinds
<1>5. /\ i \in Threads /\ taken \in Seq(Jobs) /\ completion[i] \in Seq(Jobs)
      /\ i \in DOMAIN completion
  <2>1. mpc = "pop" /\ mi \in Threads /\ rr \in Threads
    BY DEF PopFinds, MainIs, JobTypes, MainTypes
  <2>2. mi + rr \in Nat
    BY <2>1 DEF Types, Threads
  <2>3. i \in Threads
    BY <1>2, <2>2, ModIsThread DEF Types, PopQueue
  <2> QED BY <2>3, ListsOfJobs DEF JobTypes, QueueTypes
<1>6. j \in Jobs
  BY <1>3, <1>4, <1>5, HeadAndTail
<1> HIDE DEF Jobs, Threads, Spots, Live
<1>7. /\ Spot("taken", 0) \in Spots /\ at \in [Jobs -> Spots]
      /\ Spot("completion", i) # Spot("taken", 0)
  BY <1>1, SpotsAre, SpotsDiffer DEF Placed
<1>8. PICK at2 : Moves(at, at2, j, Spot("taken", 0))
  BY <1>6, <1>7, OneMoves
<1>9. at[j] = Spot("completion", i) /\ Holds(Tail(completion[i]), Spot("completion", i), at2)
  <2>1. Holds(completion[i], Spot("completion", i), at)
    BY <1>1, <1>5 DEF Placed
  <2> QED BY <1>3, <1>4, <1>5, <1>7, <1>8, <2>1, TailHolds
<1>10. Holds(Append(taken, j), Spot("taken", 0), at2)
  <2>1. Holds(taken, Spot("taken", 0), at)
    BY <1>1 DEF Placed
  <2> QED BY <1>5, <1>7, <1>8, <1>9, <2>1, AppendHolds
<1>11. Elsewhere(Spot("completion", i), Spot("taken", 0), at2)
  BY <1>1, <1>8, <1>9, MoverGoes, OthersStay
<1>12. /\ at2 \in [Jobs -> Spots] /\ at2[j] = Spot("taken", 0)
       /\ \A h \in Jobs : h # j => at2[h] = at[h]
  BY <1>8 DEF Moves
<1>13. (\A h \in Jobs : Fits(h, at2))'
  BY <1>1, <1>4, <1>6, <1>12, OthersFit, SpotTells DEF Aside
<1>14. ASSUME NEW t \in Threads PROVE Holds(completion'[t], Spot("completion", t), at2)
  <2>1. CASE t = i
    BY <1>4, <1>5, <1>9, <2>1
  <2>2. CASE t # i
    <3>1. completion'[t] = completion[t]
      BY <1>4, <2>2
    <3> QED BY <1>11, <2>2, <3>1, SpotsDiffer DEF Elsewhere
  <2> QED BY <2>1, <2>2
<1>15. MainKeeps(at2)'
  BY <1>4, <1>10, <1>11, <1>12, <1>14, SpotsDiffer DEF MainKeeps, Elsewhere, Aside
<1>16. MainsOwn(Spot("taken", 0)) /\ MainsOwn(Spot("completion", i))
  BY SpotsDiffer DEF MainsOwn
<1>17. Placed(at2)'
  BY <1>4, <1>11, <1>12, <1>15, <1>16, MainPlaces
<1> QED BY <1>4, <1>13, <1>17 DEF Honest, Aside

(* The jobs that go back are those popped, each once.                      *)
IsJoined(new, old, back) ==
  IsInjective(new) /\ \A h \in Jobs : On(new, h) <=> On(old, h) \/ h \in back

LEMMA AckedList ==
  ASSUME NEW acked, NEW old, NEW back,
         acked \in Seq(back), IsInjective(acked), \A h \in back : On(acked, h),
         old \in Seq(Jobs), IsInjective(old), back \subseteq Jobs, \A h \in back : ~On(old, h)
  PROVE  IsJoined(acked \o old, old, back)
<1> DEFINE new == acked \o old
<1>1. /\ DOMAIN acked = 1..Len(acked) /\ DOMAIN old = 1..Len(old)
      /\ Len(acked) \in Nat /\ Len(old) \in Nat
      /\ DOMAIN new = 1..Len(acked) + Len(old)
      /\ \A k \in 1..Len(acked) : new[k] = acked[k]
      /\ \A k \in 1..Len(old) : new[Len(acked) + k] = old[k]
  <2>1. acked \in Seq(Jobs)
    BY SeqGrows
  <2> QED BY <2>1
<1> HIDE DEF new
<1>2. \A k \in DOMAIN acked : acked[k] \in back
  OBVIOUS
<1>3. \A k \in DOMAIN new :
        \/ k \in DOMAIN acked /\ new[k] = acked[k]
        \/ k - Len(acked) \in DOMAIN old /\ new[k] = old[k - Len(acked)]
  <2> TAKE k \in DOMAIN new
  <2>1. CASE k <= Len(acked)
    BY <1>1, <2>1
  <2>2. CASE ~(k <= Len(acked))
    <3>1. k - Len(acked) \in 1..Len(old) /\ Len(acked) + (k - Len(acked)) = k
      BY <1>1, <2>2
    <3> QED BY <1>1, <3>1
  <2> QED BY <2>1, <2>2
<1>4. IsInjective(new)
  <2> SUFFICES ASSUME NEW a \in DOMAIN new, NEW b \in DOMAIN new, new[a] = new[b]
               PROVE  a = b
    BY DEF IsInjective
  <2>1. a \in Nat /\ b \in Nat
    BY <1>1
  <2>2. CASE a \in DOMAIN acked /\ new[a] = acked[a] /\ b \in DOMAIN acked /\ new[b] = acked[b]
    BY <2>2 DEF IsInjective
  <2>3. CASE /\ a - Len(acked) \in DOMAIN old /\ new[a] = old[a - Len(acked)]
             /\ b - Len(acked) \in DOMAIN old /\ new[b] = old[b - Len(acked)]
    <3>1. a - Len(acked) = b - Len(acked)
      BY <2>3 DEF IsInjective
    <3> QED BY <1>1, <2>1, <3>1
  <2> QED BY <1>2, <1>3, <2>2, <2>3 DEF On
<1>5. ASSUME NEW h \in Jobs, On(new, h)
      PROVE  On(old, h) \/ h \in back
  BY <1>2, <1>3, <1>5 DEF On
<1>6. ASSUME NEW h \in back
      PROVE  On(new, h)
  <2>1. PICK k \in DOMAIN acked : acked[k] = h
    BY DEF On
  <2>2. k \in DOMAIN new /\ new[k] = h
    BY <1>1, <2>1
  <2> QED BY <2>2 DEF On
<1>7. ASSUME NEW h \in Jobs, On(old, h)
      PROVE  On(new, h)
  <2>1. PICK k \in DOMAIN old : old[k] = h
    BY <1>7 DEF On
  <2>2. Len(acked) + k \in DOMAIN new /\ new[Len(acked) + k] = h
    BY <1>1, <2>1
  <2> QED BY <2>2 DEF On
<1>8. IsJoined(new, old, back)
  BY <1>4, <1>5, <1>6, <1>7 DEF IsJoined
<1> QED BY <1>8 DEF new

LEMMA AckIsHonest ==
  ASSUME Types, JobTypes, Honest, CpsAck, Aside
  PROVE  Honest'
<1>1. PICK at : Placed(at) /\ \A h \in Jobs : Fits(h, at)
  BY DEF Honest
<1>2. PICK back : back = ToSet(taken) \ ToSet(free)
  OBVIOUS
<1>3. PICK acked : acked = SetToSeq(back)
  OBVIOUS
<1>4. /\ UNCHANGED <<submission, completion, job, fresh, mine, dead>>
      /\ taken' = <<>> /\ free' = acked \o free
  BY <1>2, <1>3 DEF CpsAck, shared
<1>5. free \in Seq(Jobs) /\ taken \in Seq(Jobs)
  BY ListsOfJobs
<1>6. IsFiniteSet(back) /\ back \subseteq Jobs
  BY <1>2, <1>5, ToSetIsFinite, FS_Subset
<1>7. acked \in Seq(back) /\ IsInjective(acked) /\ \A h \in back : On(acked, h)
  BY <1>3, <1>6, SetToSeqIsList DEF On
<1> HIDE DEF Jobs, Threads, Spots, Live
<1>8. /\ at \in [Jobs -> Spots]
      /\ Holds(taken, Spot("taken", 0), at) /\ Holds(free, Spot("free", 0), at)
  BY <1>1 DEF Placed
<1>9. \A h \in Jobs : h \in back <=> at[h] = Spot("taken", 0)
  <2>1. \A h \in Jobs : (h \in ToSet(taken) <=> On(taken, h)) /\ (h \in ToSet(free) <=> On(free, h))
    BY DEF ToSet, On
  <2> QED BY <1>2, <1>8, <2>1, SpotsDiffer DEF Holds
<1>10. IsInjective(free') /\ \A h \in Jobs : On(free', h) <=> On(free, h) \/ h \in back
  <2>1. \A h \in back : ~On(free, h)
    BY <1>6, <1>8, <1>9, SpotsDiffer DEF Holds
  <2>2. IsInjective(free)
    BY <1>8 DEF Holds
  <2>3. IsJoined(acked \o free, free, back)
    BY <1>5, <1>6, <1>7, <2>1, <2>2, AckedList
  <2> QED BY <1>4, <2>3 DEF IsJoined
<1>11. PICK at2 : /\ Goers(at, at2, Spot("taken", 0), Spot("free", 0))
                  /\ \A h \in Jobs : at2[h] # Spot("taken", 0)
  <2> DEFINE new == [h \in Jobs |-> IF at[h] = Spot("taken", 0) THEN Spot("free", 0) ELSE at[h]]
  <2>1. Spot("free", 0) \in Spots /\ Spot("free", 0) # Spot("taken", 0)
    BY SpotsAre, SpotsDiffer
  <2>2. new \in [Jobs -> Spots]
    BY <1>8, <2>1
  <2>3. \A h \in Jobs : new[h] = IF at[h] = Spot("taken", 0) THEN Spot("free", 0) ELSE at[h]
    OBVIOUS
  <2> HIDE DEF new
  <2>4. Goers(at, new, Spot("taken", 0), Spot("free", 0)) /\ \A h \in Jobs : new[h] # Spot("taken", 0)
    BY <2>1, <2>2, <2>3 DEF Goers
  <2> QED BY <2>4
<1>12. at2 \in [Jobs -> Spots]
       /\ \A h \in Jobs : at2[h] = at[h] \/ (at[h] = Spot("taken", 0) /\ at2[h] = Spot("free", 0))
  BY <1>11 DEF Goers
<1>13. Elsewhere(Spot("taken", 0), Spot("free", 0), at2)
  BY <1>1, <1>11, OthersStay
<1>14. Holds(free', Spot("free", 0), at2)
  <2>1. ASSUME NEW h \in Jobs PROVE at2[h] = Spot("free", 0) <=> On(free', h)
    <3>1. at[h] = Spot("free", 0) <=> On(free, h)
      BY <1>8 DEF Holds
    <3>2. On(free', h) <=> On(free, h) \/ at[h] = Spot("taken", 0)
      BY <1>9, <1>10
    <3> QED BY <1>11, <1>12, <3>1, <3>2
  <2>2. DOMAIN at2 = Jobs
    BY <1>12
  <2> QED BY <1>10, <2>1, <2>2 DEF Holds
<1>15. Holds(taken', Spot("taken", 0), at2)
  BY <1>4, <1>11, <1>12 DEF Holds, On, IsInjective
<1>16. MainKeeps(at2)'
  BY <1>4, <1>12, <1>13, <1>14, <1>15, SpotsDiffer DEF MainKeeps, Elsewhere, Aside
<1>17. MainsOwn(Spot("taken", 0)) /\ MainsOwn(Spot("free", 0))
  BY SpotsDiffer DEF MainsOwn
<1>18. Placed(at2)'
  BY <1>4, <1>12, <1>13, <1>16, <1>17, MainPlaces
<1>19. ASSUME NEW h \in Jobs PROVE Fits(h, at2)'
  <2>1. \A spot : (Waits(spot)' <=> Waits(spot)) /\ (IsOver(spot)' <=> IsOver(spot))
    BY DEF Waits, IsOver, Aside
  <2>2. CASE at2[h] = at[h]
    BY <1>1, <1>4, <2>1, <2>2 DEF Fits
  <2>3. CASE at2[h] = Spot("free", 0)
    BY <2>1, <2>3, SpotTells DEF Fits
  <2> QED BY <1>12, <2>2, <2>3
<1> QED BY <1>4, <1>18, <1>19 DEF Honest, Aside

LEMMA MainIsHonest ==
  ASSUME Types, JobTypes, HonestInv, Call \/ Proceed
  PROVE  HonestInv'
<1>1. UNCHANGED misreported
  BY MainLeavesWorkers DEF whist
<1> SUFFICES ASSUME Honest
             PROVE  Honest'
  BY <1>1 DEF HonestInv
<1>2. Aside
  BY MainsAside
<1>3. ASSUME UNCHANGED <<submission, completion, job>>, UNCHANGED pool
      PROVE  Honest'
  BY <1>2, <1>3, NothingMoves DEF Aside, pool
<1>4. CASE SbsGet
  BY <1>2, <1>4, GetIsHonest
<1>5. CASE PushEnqueues
  BY <1>2, <1>5, PushIsHonest
<1>6. CASE PopFinds
  BY <1>2, <1>6, PopIsHonest
<1>7. CASE CpsAck
  BY <1>2, <1>7, AckIsHonest
<1>8. CASE SbsGetFails
  BY <1>3, <1>8 DEF SbsGetFails, shared
<1>9. CASE \E n \in 1..2 : SbsPush("rr", 0, n) \/ \E i \in Threads : SbsPush("direct", i, n)
  BY <1>3, <1>9 DEF SbsPush, shared
<1>10. CASE (\E k \in 1..2 : CpsPop("popsome", k)) \/ CpsPop("popall", 2)
  BY <1>3, <1>10 DEF CpsPop, shared
<1>11. CASE \E op \in DOMAIN Desire : Control(op)
  BY <1>3, <1>11 DEF Control, shared
<1>12. CASE PushIsRefused
  BY <1>3, <1>12 DEF PushIsRefused, shared
<1>13. CASE PopFindsNone
  BY <1>3, <1>13 DEF PopFindsNone, shared
<1>14. CASE Tell
  BY <1>3, <1>14 DEF Tell
<1>15. CASE ControlReturns
  BY <1>3, <1>15 DEF ControlReturns, shared
<1> QED
  BY <1>4, <1>5, <1>6, <1>7, <1>8, <1>9, <1>10, <1>11, <1>12, <1>13, <1>14, <1>15
     DEF Call, Proceed

-----------------------------------------------------------------------------
(* While no worker begins a job before its last one ended, the local job is*)
(* that of its one green thread, and the one it reports.                   *)
NoneOverlapped == \A i \in Threads : ~overlapped[i]
OneByOne(i) ==
  /\ \A g, h \in Live(i) : g = h
  /\ \A g \in Live(i) : gjob[i][g] = wjob[i]
  /\ wpc[i] = "complete" => Live(i) = {} /\ ended[i] = wjob[i]
SerialInv == NoneOverlapped => ~misreported /\ \A i \in Threads : OneByOne(i)

LEMMA WorkerIsSerial ==
  ASSUME Types, JobTypes, GreenInv, EndsInv, SerialInv, NEW i \in Threads,
         Worker(i) \/ IsCancelled(i)
  PROVE  SerialInv'
<1>1. Threads' = Threads /\ ~dead
  BY WorkerLeavesMain DEF shape, Threads
<1>2. \A t \in Threads : t # i => SameWorker(t)
  BY WorkersAreApart DEF JobTypes, GreenInv
<1>3. \A t \in Threads : t # i /\ OneByOne(t) => OneByOne(t)'
  BY <1>2 DEF SameWorker, OneByOne, Live
<1>4. /\ wpc \in [Threads -> {"drain", "ACTIVE", "PAUSED", "select", "sleep", "run",
                              "complete", "exit", "gone"}]
      /\ wjob \in [Threads -> {0} \cup Given] /\ i \in DOMAIN ended
      /\ gjob \in [Threads -> [Greens -> {0} \cup Given]]
      /\ greens \in [Threads -> 0..PerThread] /\ done \in [Threads -> SUBSET Nat]
      /\ overlapped \in [Threads -> BOOLEAN] /\ PerThread \in Nat
  BY DEF Types, JobTypes, QueueTypes, MainTypes, GreenInv, GreenTypes
<1> HIDE DEF Threads, Given, Greens
<1>5. SUFFICES ASSUME NoneOverlapped'
               PROVE  ~misreported' /\ OneByOne(i)' /\ NoneOverlapped
  BY <1>1, <1>3 DEF SerialInv
<1>6. ASSUME NoneOverlapped
      PROVE  ~misreported /\ OneByOne(i)
  BY <1>6 DEF SerialInv
<1>7. ASSUME overlapped' = overlapped
      PROVE  NoneOverlapped
  BY <1>1, <1>5, <1>7 DEF NoneOverlapped
<1>8. ASSUME UNCHANGED <<wjob, gjob, greens, done, misreported, overlapped>>,
             \E to : to # "complete" /\ wpc' = [wpc EXCEPT ![i] = to]
      PROVE  ~misreported' /\ OneByOne(i)' /\ NoneOverlapped
  <2>1. NoneOverlapped /\ ~misreported /\ OneByOne(i)
    BY <1>6, <1>7, <1>8
  <2>2. Live(i)' = Live(i) /\ wpc'[i] # "complete"
    BY <1>4, <1>8 DEF Live
  <2> QED BY <1>8, <2>1, <2>2 DEF OneByOne
<1>9. ASSUME NEW to, TakesJob(i, to)
      PROVE  NoneOverlapped /\ Live(i) = {} /\ wjob'[i] = Head(submission[i])
  <2>1. /\ overlapped' = [overlapped EXCEPT ![i] = overlapped[i] \/ Live(i) # {}]
        /\ wjob' = [wjob EXCEPT ![i] = Head(submission[i])]
    BY <1>9 DEF TakesJob
  <2>2. \A t \in Threads : ~overlapped'[t]
    BY <1>1, <1>5 DEF NoneOverlapped
  <2>3. overlapped'[i] = (overlapped[i] \/ Live(i) # {})
    BY <1>4, <2>1
  <2>4. ~overlapped[i] /\ Live(i) = {}
    BY <2>2, <2>3
  <2>5. \A t \in Threads : t # i => overlapped'[t] = overlapped[t]
    BY <1>4, <2>1
  <2> QED BY <1>4, <2>1, <2>2, <2>4, <2>5 DEF NoneOverlapped
<1>10. CASE WriteCurrent(i)
  <2>1. UNCHANGED <<wjob, gjob, greens, done, misreported, overlapped>>
    BY <1>10 DEF WriteCurrent, whist, greenstate
  <2>2. \E to : to # "complete" /\ wpc' = [wpc EXCEPT ![i] = to]
    BY <1>10 DEF WriteCurrent, Goes
  <2> QED BY <1>8, <2>1, <2>2
<1>11. CASE Sleeps(i)
  <2>1. UNCHANGED <<wjob, gjob, greens, done, misreported, overlapped>>
    BY <1>11 DEF Sleeps, whist, greenstate
  <2>2. \E to : to # "complete" /\ wpc' = [wpc EXCEPT ![i] = to]
    BY <1>11 DEF Sleeps, Goes
  <2> QED BY <1>8, <2>1, <2>2
<1>12. CASE Resumes(i)
  <2>1. UNCHANGED <<wjob, gjob, greens, done, misreported, overlapped>>
    BY <1>12 DEF Resumes, whist
  <2>2. \E to : to # "complete" /\ wpc' = [wpc EXCEPT ![i] = to]
    BY <1>12 DEF Resumes, Goes
  <2> QED BY <1>8, <2>1, <2>2
<1>13. CASE Exits(i)
  <2>1. UNCHANGED <<wjob, gjob, greens, done, misreported, overlapped>>
    BY <1>13 DEF Exits, whist, greenstate
  <2>2. \E to : to # "complete" /\ wpc' = [wpc EXCEPT ![i] = to]
    BY <1>13 DEF Exits, Goes
  <2> QED BY <1>8, <2>1, <2>2
<1>14. CASE IsCancelled(i)
  <2>1. UNCHANGED <<wjob, gjob, greens, done, misreported, overlapped>>
    BY <1>14 DEF IsCancelled, whist, greenstate
  <2>2. \E to : to # "complete" /\ wpc' = [wpc EXCEPT ![i] = to]
    BY <1>14 DEF IsCancelled, Goes
  <2> QED BY <1>8, <2>1, <2>2
<1>15. CASE Decides(i)
  <2>1. UNCHANGED <<wjob, gjob, greens, done, misreported, overlapped>>
    BY <1>15 DEF Decides, whist, greenstate
  <2>2. \E to : to # "complete" /\ wpc' = [wpc EXCEPT ![i] = to]
    <3>1. AfterDesired(i) # "complete"
      BY AfterDesiredIs
    <3> QED BY <1>15, <3>1 DEF Decides, Goes
  <2> QED BY <1>8, <2>1, <2>2
<1>16. CASE \E op \in Ops : Yields(i, op)
  <2>1. UNCHANGED <<wjob, gjob, greens, done, misreported, overlapped>>
    BY <1>16 DEF Yields
  <2>2. \E to : to # "complete" /\ wpc' = [wpc EXCEPT ![i] = to]
    BY <1>16 DEF Yields, Goes
  <2> QED BY <1>8, <2>1, <2>2
<1>17. CASE \E word \in ring[i] : Drains(i, word)
  <2>1. UNCHANGED <<wjob, gjob, greens, done, misreported, overlapped>>
    BY <1>17 DEF Drains, whist
  <2>2. \E to : to # "complete" /\ wpc' = [wpc EXCEPT ![i] = to]
    BY <1>17 DEF Drains, Goes
  <2> QED BY <1>8, <2>1, <2>2
<1>18. CASE StartsJob(i)
  <2>1. TakesJob(i, "run") /\ UNCHANGED <<done, misreported>> /\ wpc' = [wpc EXCEPT ![i] = "run"]
    BY <1>18 DEF StartsJob, TakesJob, Goes
  <2>2. NoneOverlapped /\ ~misreported' /\ Live(i) = {} /\ wjob'[i] = Head(submission[i])
        /\ wpc'[i] = "run"
    BY <1>4, <1>6, <1>9, <2>1
  <2>3. CASE greens[i] + 1 > PerThread
    <3>1. UNCHANGED <<greens, gjob>>
      BY <1>18, <2>3 DEF StartsJob
    <3>2. Live(i)' = {}
      BY <2>1, <2>2, <3>1 DEF Live
    <3> QED BY <2>2, <3>2 DEF OneByOne
  <2>4. CASE ~(greens[i] + 1 > PerThread)
    <3>1. /\ greens' = [greens EXCEPT ![i] = greens[i] + 1]
          /\ gjob' = [gjob EXCEPT ![i][greens[i] + 1] = Head(submission[i])]
      BY <1>18, <2>4 DEF StartsJob
    <3>2. greens[i] \in Nat /\ greens[i] + 1 \in Greens
      BY <1>4, <2>4 DEF Greens
    <3>3. greens'[i] = greens[i] + 1 /\ gjob'[i][greens[i] + 1] = Head(submission[i])
      BY <1>4, <3>1, <3>2
    <3>4. 1..greens[i] + 1 = (1..greens[i]) \cup {greens[i] + 1}
      BY <3>2
    <3>5. Live(i)' \subseteq {greens[i] + 1}
      BY <2>1, <2>2, <3>3, <3>4 DEF Live
    <3> QED BY <2>2, <3>3, <3>5 DEF OneByOne
  <2> QED BY <2>3, <2>4
<1>19. CASE ExpiresJob(i)
  <2>1. /\ TakesJob(i, "complete") /\ UNCHANGED <<greens, done, misreported>>
        /\ ended' = [ended EXCEPT ![i] = Head(submission[i])]
    BY <1>19 DEF ExpiresJob, greenstate
  <2>2. NoneOverlapped /\ ~misreported' /\ Live(i) = {} /\ wjob'[i] = Head(submission[i])
    BY <1>6, <1>9, <2>1
  <2>3. Live(i)' = {} /\ ended'[i] = Head(submission[i])
    BY <1>4, <2>1, <2>2 DEF Live
  <2> QED BY <2>2, <2>3 DEF OneByOne
<1>20. CASE Returns(i)
  <2>1. /\ UNCHANGED <<wjob, greens, misreported, overlapped>> /\ wpc[i] = "run"
        /\ done' = [done EXCEPT ![i] = done[i] \cup {running[i]}]
        /\ ended' = [ended EXCEPT ![i] = gjob[i][running[i]]]
    BY <1>20 DEF Returns, Goes
  <2>2. NoneOverlapped /\ ~misreported /\ OneByOne(i)
    BY <1>6, <1>7, <2>1
  <2>3. running[i] \in Live(i)
    BY <1>1, <2>1, RunningFrame
  <2>4. ended'[i] = wjob[i]
    BY <1>4, <2>1, <2>2, <2>3 DEF OneByOne
  <2>5. Live(i)' = {}
    <3>1. Live(i)' = Live(i) \ {running[i]}
      BY <1>4, <2>1 DEF Live
    <3> QED BY <2>2, <2>3, <3>1 DEF OneByOne
  <2> QED BY <2>1, <2>2, <2>4, <2>5 DEF OneByOne
<1>21. CASE Completes(i)
  <2>1. UNCHANGED <<wjob, gjob, greens, done, overlapped>> /\ wpc[i] = "complete"
        /\ wpc' = [wpc EXCEPT ![i] = "drain"]
    BY <1>21 DEF Completes, Goes, greenstate
  <2>2. NoneOverlapped /\ ~misreported /\ OneByOne(i)
    BY <1>6, <1>7, <2>1
  <2>3. ~misreported'
    BY <1>21, <2>1, <2>2 DEF Completes, Reports, OneByOne
  <2>4. Live(i)' = Live(i) /\ wpc'[i] = "drain"
    BY <1>4, <2>1 DEF Live
  <2> QED BY <2>1, <2>2, <2>3, <2>4 DEF OneByOne
<1> QED
  BY <1>10, <1>11, <1>12, <1>13, <1>14, <1>15, <1>16, <1>17, <1>18, <1>19, <1>20, <1>21
     DEF Worker, Rest

LEMMA MainIsSerial ==
  ASSUME SerialInv, Call \/ Proceed
  PROVE  SerialInv'
<1>1. UNCHANGED <<worker, whist, shape>>
  BY MainLeavesWorkers
<1> QED
  BY <1>1 DEF worker, greenstate, whist, shape, Threads, Live, SerialInv, NoneOverlapped, OneByOne

-----------------------------------------------------------------------------
(* Together they are inductive.                                            *)
Inv ==
  /\ Types /\ JobTypes /\ GreenInv /\ EndsInv
  /\ OnlyLimitsKill /\ QuietInv /\ AllLeave /\ HonestInv /\ SerialInv

LEMMA NoJobYet ==
  ASSUME Init, Types
  PROVE  Honest
<1>1. /\ fresh = 0 /\ free = <<>> /\ mine = <<>> /\ taken = <<>>
      /\ \A i \in Threads : /\ submission[i] = <<>> /\ completion[i] = <<>>
                            /\ Live(i) = {} /\ ended[i] = 0
      /\ job = [j \in Jobs |-> Blank] /\ \A j \in Jobs : j > 0 /\ j # 0
  BY DEF Init, Threads, Live, Jobs
<1>2. job \in [Jobs -> Records]
  BY <1>1 DEF Records, Blank
<1> HIDE DEF Jobs, Threads, Spots, Live
<1> DEFINE at == [j \in Jobs |-> Spot("new", 0)]
<1>3. at \in [Jobs -> Spots] /\ \A j \in Jobs : at[j] = Spot("new", 0)
  BY SpotsAre
<1> HIDE DEF at
<1>4. \A spot : spot # Spot("new", 0) =>
        /\ Holds(<<>>, spot, at)
        /\ \A frame : Frames({}, frame, spot, at)
        /\ IsEnd(0, spot, at)
  BY <1>1, <1>3 DEF Holds, On, IsInjective, Frames, Among, IsEnd
<1>5. Placed(at)
  <2>1. /\ \A j \in Jobs : at[j] = Spot("new", 0) <=> j > fresh
        /\ \A j \in Jobs : at[j] = Spot("lost", 0) => dead
    BY <1>1, <1>3, SpotsDiffer
  <2>2. \A p : p # "new" => \A i : Spot(p, i) # Spot("new", 0)
    BY SpotsDiffer
  <2> QED BY <1>1, <1>3, <1>4, <2>1, <2>2, ZenonT(30) DEF Placed
<1>6. \A j \in Jobs : Fits(j, at)
  BY <1>3, SpotsDiffer DEF Fits, Waits, IsOver
<1> QED BY <1>2, <1>5, <1>6 DEF Honest

LEMMA InitHolds ==
  ASSUME Init
  PROVE  Inv
<1>1. Types
  BY GtpoolrrAssumption DEF Init, Types, Threads, States
<1>2. EndsInv
  <2>1. ended = [i \in Threads |-> 0] /\ misreported = FALSE
        /\ \A i \in Threads : wpc[i] # "complete" /\ Live(i) = {}
    BY DEF Init, Live, Threads
  <2> QED BY <2>1 DEF EndsInv, Ends
<1>3. QuietInv
  BY DEF Init, QuietInv, FinalIsGone, PassedIsFinal, CancelKills, CallsAreCalls,
         StoppedIsQuiet, Threads, Over
<1>4. JobTypes
  <2>1. N \in Nat \ {0} /\ PerThread \in Nat \ {0} /\ 0 \in Threads
    BY <1>1, GtpoolrrAssumption DEF Init, Types, Threads
  <2>2. N * PerThread \in Nat \ {0}
    BY <2>1, NumberOfJobs
  <2>3. MainTypes
    BY <2>1, <2>2 DEF Init, MainTypes
  <2>4. QueueTypes
    BY <2>1 DEF Init, QueueTypes
  <2> QED BY <2>3, <2>4 DEF JobTypes
<1>5. GreenInv
  <2>1. GreenTypes
    BY <1>4 DEF Init, GreenTypes, JobTypes, MainTypes
  <2>2. AllBegun
    BY DEF Init, AllBegun, Begun
  <2>3. Settled(0, <<>>, {}, 0, {})
    BY DEF Settled, IsInjective
  <2>4. AllApart
    BY <2>3 DEF Init, AllApart, Apart
  <2> QED BY <2>1, <2>2, <2>4 DEF GreenInv
<1>6. OnlyLimitsKill
  BY DEF Init, OnlyLimitsKill
<1>7. AllLeave
  BY DEF Init, AllLeave, Leaves, Over
<1>8. HonestInv
  BY <1>1, NoJobYet DEF HonestInv
<1>9. SerialInv
  <2>1. misreported = FALSE /\ \A i \in Threads : wpc[i] # "complete" /\ Live(i) = {}
    BY DEF Init, Live, Threads
  <2> QED BY <2>1 DEF SerialInv, OneByOne
<1> QED BY <1>1, <1>2, <1>3, <1>4, <1>5, <1>6, <1>7, <1>8, <1>9 DEF Inv

LEMMA StepKeeps ==
  ASSUME Inv, [Next]_vars
  PROVE  Inv'
<1>1. /\ Types /\ JobTypes /\ GreenInv /\ EndsInv
      /\ OnlyLimitsKill /\ QuietInv /\ AllLeave /\ HonestInv /\ SerialInv
  BY DEF Inv
<1>2. CASE Call \/ Proceed
  <2>1. Types'
    BY <1>1, <1>2, MainKeepsTypes DEF QuietInv
  <2>2. JobTypes'
    BY <1>1, <1>2, MainKeepsJobs
  <2>3. GreenInv'
    BY <1>1, <1>2, MainKeepsGreens
  <2>4. EndsInv'
    BY <1>1, <1>2, MainEnds
  <2>5. OnlyLimitsKill'
    BY <1>2, MainStepKills
  <2>6. QuietInv'
    BY <1>1, <1>2, MainWaits
  <2>7. AllLeave'
    BY <1>1, <1>2, MainHoldsBack DEF QuietInv
  <2>8. HonestInv'
    BY <1>1, <1>2, MainIsHonest
  <2>9. SerialInv'
    BY <1>1, <1>2, MainIsSerial
  <2> QED BY <2>1, <2>2, <2>3, <2>4, <2>5, <2>6, <2>7, <2>8, <2>9 DEF Inv
<1>3. ASSUME NEW i \in Threads, Worker(i) \/ IsCancelled(i)
      PROVE  Inv'
  <2>1. Types'
    BY <1>1, <1>3, WorkerKeepsTypes
  <2>2. JobTypes'
    BY <1>1, <1>3, WorkerKeepsQueues DEF GreenInv
  <2>3. GreenInv'
    BY <1>1, <1>3, WorkerKeepsGreens
  <2>4. EndsInv'
    BY <1>1, <1>3, WorkerEnds
  <2>5. OnlyLimitsKill'
    BY <1>1, <1>3, <2>3, WorkerStepKills
  <2>6. QuietInv'
    BY <1>1, <1>3, WorkerLeavesCalls
  <2>7. AllLeave'
    BY <1>1, <1>3, WorkerLeaves
  <2>8. HonestInv'
    BY <1>1, <1>3, WorkerIsHonest
  <2>9. SerialInv'
    BY <1>1, <1>3, WorkerIsSerial
  <2> QED BY <2>1, <2>2, <2>3, <2>4, <2>5, <2>6, <2>7, <2>8, <2>9 DEF Inv
<1>4. CASE UNCHANGED vars
  <2> USE <1>4 DEF vars, worker, shape, shared, greenstate, pool, mainlocal, main, whist
  <2>1. Types'
    BY <1>1 DEF Types, Threads
  <2>2. MainTypes' /\ QueueTypes'
    BY <1>1 DEF JobTypes, MainTypes, QueueTypes, Threads, Greens, Given
  <2>3. GreenTypes' /\ AllBegun' /\ AllApart'
    BY <1>1 DEF GreenInv, GreenTypes, AllBegun, Begun, AllApart, Apart, Threads
  <2>4. EndsInv'
    BY <1>1 DEF EndsInv, Ends, Live, Threads, Jobs
  <2>5. OnlyLimitsKill'
    BY <1>1 DEF OnlyLimitsKill, Threads
  <2>6. QuietInv'
    BY <1>1 DEF QuietInv, FinalIsGone, PassedIsFinal, CancelKills, CallsAreCalls,
                StoppedIsQuiet, Threads
  <2>7. AllLeave'
    BY <1>1 DEF AllLeave, Leaves, Threads
  <2>8. HonestInv'
    BY <1>1, NothingMoves DEF HonestInv
  <2>9. SerialInv'
    BY <1>1 DEF SerialInv, NoneOverlapped, OneByOne, Live, Threads
  <2> QED BY <2>1, <2>2, <2>3, <2>4, <2>5, <2>6, <2>7, <2>8, <2>9 DEF Inv, JobTypes, GreenInv
<1> QED BY <1>2, <1>3, <1>4 DEF Next

LEMMA InvHolds == Spec => []Inv
<1>1. Init => Inv
  BY InitHolds
<1>2. Inv /\ [Next]_vars => Inv'
  BY StepKeeps
<1> QED BY <1>1, <1>2, PTL DEF Spec

-----------------------------------------------------------------------------
(* What the runs check follows.                                            *)
LEMMA TypesAreOK ==
  ASSUME Inv
  PROVE  TypeOK
<1>1. Types /\ MainTypes /\ QueueTypes /\ GreenTypes /\ AllApart
  BY DEF Inv, JobTypes, GreenInv
<1>2. N \in Nat \ {0} /\ PerThread \in Nat \ {0} /\ fresh \in 0..N * PerThread
  BY <1>1 DEF Types, MainTypes
<1>3. N * PerThread \in Nat
  BY <1>2, NumberOfJobs
<1>4. Given \subseteq Jobs
  BY <1>2, <1>3 DEF Given, Jobs
<1>5. Seq(Given) \subseteq Seq(Jobs)
  BY <1>4, SeqGrows
<1>6. ASSUME NEW i \in Threads
      PROVE  /\ running[i] \in 0..greens[i]
             /\ ready[i] \in Seq(1..greens[i])
  <2>1. Settled(running[i], ready[i], ring[i], greens[i], done[i])
    BY <1>1 DEF AllApart, Apart
  <2>2. running[i] \in Nat /\ ready[i] \in Seq(Nat) /\ greens[i] \in Nat
    BY <1>1 DEF GreenTypes
  <2>3. ready[i] \in Seq(1..greens[i])
    BY <2>1, <2>2, SettledFits
  <2>4. running[i] \in 0..greens[i]
    BY <2>1, <2>2 DEF Settled
  <2> QED BY <2>3, <2>4
<1>7. ASSUME NEW i \in Threads
      PROVE  /\ submission[i] \in Seq(Jobs) /\ Len(submission[i]) <= PerThread
             /\ completion[i] \in Seq(Jobs) /\ Len(completion[i]) <= PerThread
             /\ wjob[i] \in Jobs \cup {0}
             /\ gjob[i] \in [Greens -> Jobs \cup {0}]
  BY <1>1, <1>4, <1>5 DEF QueueTypes
<1>8. ASSUME NEW i \in Threads
      PROVE  /\ {desired[i], current[i]} \subseteq States
             /\ wpc[i] \in {"drain", "ACTIVE", "PAUSED", "select", "sleep", "run",
                            "complete", "exit", "gone"}
             /\ greens[i] \in 0..PerThread
  BY <1>1 DEF Types, GreenTypes
<1>9. ToSet(free) \cup ToSet(mine) \cup ToSet(taken) \subseteq 1..fresh
  <2>1. free \in Seq(Given) /\ mine \in Seq(Given) /\ taken \in Seq(Given)
    BY <1>1 DEF MainTypes
  <2>2. ToSet(free) \subseteq Given /\ ToSet(mine) \subseteq Given /\ ToSet(taken) \subseteq Given
    BY <2>1, ToSetIsFinite
  <2> QED BY <2>2 DEF Given
<1>10. /\ mpc \in {"idle", "push", "pop", "control"}
       /\ mi \in 0..N /\ rr \in Threads /\ left \in Nat
       /\ mpc \in {"push", "pop"} => mi \in Threads /\ left # 0
       /\ mpc = "push" => left <= Len(mine)
  BY <1>1 DEF Types, MainTypes
<1> QED BY <1>2, <1>6, <1>7, <1>8, <1>9, <1>10 DEF TypeOK

(* How often a green thread is on a list on which no other is.             *)
LEMMA TimesOnList ==
  ASSUME NEW s, IsInjective(s), NEW x
  PROVE  Times(x, s) = IF \E k \in DOMAIN s : s[k] = x THEN 1 ELSE 0
<1>1. CASE \E k \in DOMAIN s : s[k] = x
  <2>1. PICK k \in DOMAIN s : s[k] = x
    BY <1>1
  <2>2. {l \in DOMAIN s : s[l] = x} = {k}
    BY <2>1 DEF IsInjective
  <2>3. Cardinality({k}) = 1
    BY FS_Singleton
  <2> QED BY <1>1, <2>2, <2>3 DEF Times
<1>2. CASE ~\E k \in DOMAIN s : s[k] = x
  <2>1. {l \in DOMAIN s : s[l] = x} = {}
    BY <1>2
  <2>2. Cardinality({}) = 0
    BY FS_EmptySet
  <2> QED BY <1>2, <2>1, <2>2 DEF Times
<1> QED BY <1>1, <1>2

LEMMA SettledPlaces ==
  ASSUME NEW i \in Threads, NEW g \in Nat \ {0}, GreenTypes, Apart(i)
  PROVE  Places(i, g) = IF g \in Live(i) THEN 1 ELSE 0
<1>1. Settled(running[i], ready[i], ring[i], greens[i], done[i])
  BY DEF Apart
<1>2. running[i] \in Nat /\ greens[i] \in Nat /\ ring[i] \in SUBSET Nat
  BY DEF GreenTypes
<1>3. Times(g, ready[i]) = IF \E k \in DOMAIN ready[i] : ready[i][k] = g THEN 1 ELSE 0
  BY <1>1, TimesOnList DEF Settled
<1>4. Live(i) = (1..greens[i]) \ done[i]
  BY DEF Live
<1>5. CASE g \in Live(i)
  <2>1. running[i] = g \/ (\E k \in DOMAIN ready[i] : ready[i][k] = g) \/ Primary(g) \in ring[i]
    BY <1>1, <1>4, <1>5 DEF Settled
  <2>2. running[i] = g => ~(\E k \in DOMAIN ready[i] : ready[i][k] = g) /\ Primary(g) \notin ring[i]
    BY <1>1 DEF Settled
  <2>3. (\E k \in DOMAIN ready[i] : ready[i][k] = g) => Primary(g) \notin ring[i]
    BY <1>1 DEF Settled
  <2> QED BY <1>3, <1>5, <2>1, <2>2, <2>3 DEF Places
<1>6. CASE g \notin Live(i)
  <2>1. running[i] # g /\ ~(\E k \in DOMAIN ready[i] : ready[i][k] = g)
    BY <1>1, <1>4, <1>6 DEF Settled
  <2>2. Primary(g) \notin ring[i]
    <3>1. ASSUME Primary(g) \in ring[i] PROVE FALSE
      <4>1. PICK h \in 1..greens[i] : \/ Primary(g) = Primary(h) /\ h \notin done[i]
                                      \/ Primary(g) = Timer(h)
        BY <1>1, <3>1 DEF Settled
      <4>2. g \in Nat /\ h \in Nat
        BY <1>2
      <4>3. Primary(g) # Timer(h)
        BY <4>2, WordsTell, Zenon
      <4>4. Primary(h) = Primary(g) => h = g
        BY <4>2, WordsTell, Zenon
      <4> QED BY <1>4, <1>6, <4>1, <4>3, <4>4
    <3> QED BY <3>1
  <2> QED BY <1>3, <1>6, <2>1, <2>2 DEF Places
<1> QED BY <1>5, <1>6

(* Job j is in a place, of a thread or of main, at k.                      *)
Sits(place, i, k, j) ==
  \/ place = "free" /\ i = 0 /\ k \in At(free, j)
  \/ place = "mine" /\ i = 0 /\ k \in At(mine, j)
  \/ place = "taken" /\ i = 0 /\ k \in At(taken, j)
  \/ place = "submission" /\ i \in Threads /\ k \in At(submission[i], j)
  \/ place = "completion" /\ i \in Threads /\ k \in At(completion[i], j)
  \/ place = "green" /\ i \in Threads /\ k \in Live(i) /\ gjob[i][k] = j
  \/ place = "ended" /\ i \in Threads /\ ended[i] = j /\ k = 0

LEMMA PlacesAre ==
  ASSUME NEW j
  PROVE  \A x : x \in JobPlaces(j) <=>
           \E place, i, k : x = <<place, i, k>> /\ Sits(place, i, k, j)
<1> DEFINE list(place, s) == {place} \X {0} \X At(s, j)
           queue(place, i, s) == {place} \X {i} \X At(s, j)
           frame(i) == {"green"} \X {i} \X {g \in Live(i) : gjob[i][g] = j}
           end == {"ended"} \X {i \in Threads : ended[i] = j} \X {0}
<1>1. \A x : x \in JobPlaces(j) <=>
        \/ x \in list("free", free) \/ x \in list("mine", mine) \/ x \in list("taken", taken)
        \/ \E i \in Threads : x \in queue("submission", i, submission[i])
        \/ \E i \in Threads : x \in queue("completion", i, completion[i])
        \/ \E i \in Threads : x \in frame(i)
        \/ x \in end
  <2> HIDE DEF Threads, Live, At
  <2>1. JobPlaces(j) = list("free", free) \cup list("mine", mine) \cup list("taken", taken)
                         \cup (UNION {queue("submission", i, submission[i]) : i \in Threads})
                         \cup (UNION {queue("completion", i, completion[i]) : i \in Threads})
                         \cup (UNION {frame(i) : i \in Threads}) \cup end
    BY Zenon DEF JobPlaces
  <2> HIDE DEF list, queue, frame, end
  <2> QED BY <2>1
<1> HIDE DEF Threads, Live, At
<1>2. \A x, place, s : x \in list(place, s) <=> \E k : x = <<place, 0, k>> /\ k \in At(s, j)
  OBVIOUS
<1>3. \A x, place, i, s :
        x \in queue(place, i, s) <=> \E k : x = <<place, i, k>> /\ k \in At(s, j)
  OBVIOUS
<1>4. \A x, i : x \in frame(i) <=>
        \E k : x = <<"green", i, k>> /\ k \in Live(i) /\ gjob[i][k] = j
  OBVIOUS
<1>5. \A x : x \in end <=> \E i \in Threads : x = <<"ended", i, 0>> /\ ended[i] = j
  OBVIOUS
<1> HIDE DEF list, queue, frame, end
<1>6. ASSUME NEW x \in JobPlaces(j)
      PROVE  \E place, i, k : x = <<place, i, k>> /\ Sits(place, i, k, j)
  <2>1. ASSUME NEW place, NEW i, NEW k, x = <<place, i, k>>, Sits(place, i, k, j)
        PROVE  \E place2, i2, k2 : x = <<place2, i2, k2>> /\ Sits(place2, i2, k2, j)
    BY <2>1
  <2>2. CASE x \in list("free", free)
    BY <1>2, <2>1, <2>2 DEF Sits
  <2>3. CASE x \in list("mine", mine)
    BY <1>2, <2>1, <2>3 DEF Sits
  <2>4. CASE x \in list("taken", taken)
    BY <1>2, <2>1, <2>4 DEF Sits
  <2>5. CASE \E i \in Threads : x \in queue("submission", i, submission[i])
    BY <1>3, <2>1, <2>5 DEF Sits
  <2>6. CASE \E i \in Threads : x \in queue("completion", i, completion[i])
    BY <1>3, <2>1, <2>6 DEF Sits
  <2>7. CASE \E i \in Threads : x \in frame(i)
    BY <1>4, <2>1, <2>7 DEF Sits
  <2>8. CASE x \in end
    BY <1>5, <2>1, <2>8 DEF Sits
  <2> QED BY <1>1, <2>2, <2>3, <2>4, <2>5, <2>6, <2>7, <2>8
<1>7. ASSUME NEW place, NEW i, NEW k, Sits(place, i, k, j)
      PROVE  <<place, i, k>> \in JobPlaces(j)
  <2>1. CASE place \in {"free", "mine", "taken"}
    BY <1>1, <1>2, <1>7, <2>1 DEF Sits
  <2>2. CASE place \in {"submission", "completion"}
    BY <1>1, <1>3, <1>7, <2>2 DEF Sits
  <2>3. CASE place = "green"
    BY <1>1, <1>4, <1>7, <2>3 DEF Sits
  <2>4. CASE place = "ended"
    BY <1>1, <1>5, <1>7, <2>4 DEF Sits
  <2> QED BY <1>7, <2>1, <2>2, <2>3, <2>4 DEF Sits
<1> QED BY <1>6, <1>7

LEMMA SitsAtSpot ==
  ASSUME NEW at, Placed(at), NEW j \in Jobs
  PROVE  /\ \A place, i, k : Sits(place, i, k, j) => at[j] = Spot(place, i)
         /\ \A place, i, k, l : Sits(place, i, k, j) /\ Sits(place, i, l, j) => k = l
         /\ \A place, i : at[j] = Spot(place, i) /\ place \notin {"new", "lost"} =>
              \E k : Sits(place, i, k, j)
<1>1. at \in [Jobs -> Spots] /\ DOMAIN at = Jobs
  BY DEF Placed
<1>2. \A s, spot : Holds(s, spot, at) =>
        /\ at[j] = spot <=> \E k : k \in At(s, j)
        /\ \A k, l : k \in At(s, j) /\ l \in At(s, j) => k = l
  BY <1>1 DEF Holds, On, At, IsInjective
<1>3. \A live, frame, spot : Frames(live, frame, spot, at) =>
        /\ at[j] = spot <=> \E k : k \in live /\ frame[k] = j
        /\ \A k, l \in live : frame[k] = j /\ frame[l] = j => k = l
  BY <1>1 DEF Frames, Among
<1>4. \A j0, spot : IsEnd(j0, spot, at) => (at[j] = spot <=> j = j0)
  BY <1>1 DEF IsEnd
<1> HIDE DEF Jobs, Threads, Live, At
<1>5. ASSUME NEW place, NEW i, NEW k, Sits(place, i, k, j)
      PROVE  at[j] = Spot(place, i) /\ \A l : Sits(place, i, l, j) => k = l
  <2>1. CASE place \in {"free", "mine", "taken"}
    BY <1>2, <1>5, <2>1 DEF Sits, Placed
  <2>2. CASE place \in {"submission", "completion"}
    BY <1>2, <1>5, <2>2 DEF Sits, Placed
  <2>3. CASE place = "green"
    BY <1>3, <1>5, <2>3 DEF Sits, Placed
  <2>4. CASE place = "ended"
    BY <1>4, <1>5, <2>4 DEF Sits, Placed
  <2> QED BY <1>5, <2>1, <2>2, <2>3, <2>4 DEF Sits
<1>6. ASSUME NEW place, NEW i, at[j] = Spot(place, i), place \notin {"new", "lost"}
      PROVE  \E k : Sits(place, i, k, j)
  <2>1. \/ place \in {"free", "mine", "taken"} /\ i = 0
        \/ place \in {"submission", "green", "ended", "completion"} /\ i \in Threads
    BY <1>1, <1>6 DEF Spot, Spots
  <2>2. CASE place \in {"free", "mine", "taken"} /\ i = 0
    BY <1>2, <1>6, <2>2 DEF Sits, Placed
  <2>3. CASE place \in {"submission", "completion"} /\ i \in Threads
    BY <1>2, <1>6, <2>3 DEF Sits, Placed
  <2>4. CASE place = "green" /\ i \in Threads
    BY <1>3, <1>6, <2>4 DEF Sits, Placed
  <2>5. CASE place = "ended" /\ i \in Threads
    BY <1>4, <1>6, <2>5 DEF Sits, Placed
  <2> QED BY <2>1, <2>2, <2>3, <2>4, <2>5
<1> QED BY <1>5, <1>6

LEMMA SitsOnce ==
  ASSUME NEW at, Placed(at), NEW j \in Jobs, at[j] # Spot("new", 0), at[j] # Spot("lost", 0)
  PROVE  \E x : JobPlaces(j) = {x}
<1>1. PICK place, i : at[j] = Spot(place, i) /\ place \notin {"new", "lost"}
  BY DEF Placed, Spot, Spots
<1> HIDE DEF Jobs
<1>2. PICK k : Sits(place, i, k, j)
  BY <1>1, SitsAtSpot
<1>3. ASSUME NEW p, NEW t, NEW l, Sits(p, t, l, j)
      PROVE  p = place /\ t = i /\ l = k
  <2>1. p = place /\ t = i
    BY <1>1, <1>3, SitsAtSpot, SpotsDiffer
  <2> QED BY <1>2, <1>3, <2>1, SitsAtSpot
<1>4. \A x : x \in JobPlaces(j) <=> x = <<place, i, k>>
  BY <1>2, <1>3, PlacesAre
<1>5. JobPlaces(j) = {<<place, i, k>>}
  BY <1>4
<1> QED BY <1>5

LEMMA SitsNowhere ==
  ASSUME NEW at, Placed(at), NEW j \in Jobs, at[j] = Spot("new", 0)
  PROVE  JobPlaces(j) = {}
<1> HIDE DEF Jobs
<1>1. ASSUME NEW p, NEW t, NEW l, Sits(p, t, l, j)
      PROVE  FALSE
  <2>1. p = "new"
    BY <1>1, SitsAtSpot, SpotsDiffer
  <2> QED BY <1>1, <2>1 DEF Sits
<1>2. \A x : x \notin JobPlaces(j)
  BY <1>1, PlacesAre
<1> QED BY <1>2

(* For every pool, whichever threads fail to start, whatever the bounds:   *)
(* queues hold no more jobs than there are places, of jobs the pool has    *)
(* given out, and the ready list only green threads that were allocated    *)
(* (the enqueues of gtpoolrr_worker 125-231 and sbs_push, and the indices  *)
(* of the round robin).                                                    *)
THEOREM TypesHold == Spec => []TypeOK
<1>1. Inv => TypeOK
  BY TypesAreOK
<1> QED BY <1>1, InvHolds, PTL

(* A green thread that is not done is in exactly one place, one that is    *)
(* done in none: no completion, of an operation or of the timeout beside   *)
(* it, makes the worker resume a thread twice or after its end             *)
(* (gtpoolrr_worker 125-141, greent_do_submit 303-328).                    *)
THEOREM GreenThreadsHaveOnePlace == Spec => []OnePlace
<1>1. Inv => OnePlace
  <2>1. SUFFICES ASSUME Inv, NEW i \in Threads, NEW g \in Greens
                 PROVE  Places(i, g) = IF g \in Live(i) THEN 1 ELSE 0
    BY DEF OnePlace
  <2>2. GreenTypes /\ Apart(i) /\ g \in Nat \ {0}
    BY <2>1 DEF Inv, GreenInv, AllApart, Greens
  <2> QED BY <2>2, SettledPlaces
<1> QED BY <1>1, InvHolds, PTL

(* An assertion fails only at a limit of the pool: the queue of ready      *)
(* threads never overflows (gtpoolrr_worker 130-139, 184-231).             *)
THEOREM AssertionsAreLimits == Spec => []OnlyLimitsKill
<1>1. Inv => OnlyLimitsKill
  BY DEF Inv
<1> QED BY <1>1, InvHolds, PTL

(* A worker that leaves because of join leaves nothing it could run; but   *)
(* the jobs whose green threads wait for the ring it does leave undone     *)
(* (gtpoolrr_worker 154-164), which gtpoolrr.h (52, 176) says it does not. *)
THEOREM JoinedWorkersAreIdle == Spec => []JoinLeavesOnlyIO
<1>1. Inv => JoinLeavesOnlyIO
  <2>1. SUFFICES ASSUME Inv, NEW i \in Threads, ~stopped, current[i] = "JOINED"
                 PROVE  submission[i] = <<>> /\ \A g \in Live(i) : Primary(g) \in ring[i]
    BY DEF JoinLeavesOnlyIO
  <2>2. submission[i] = <<>> /\ running[i] = 0 /\ ready[i] = <<>>
    BY <2>1 DEF Inv, AllLeave, Leaves
  <2>3. greens[i] \in Nat /\ Settled(running[i], ready[i], ring[i], greens[i], done[i])
    BY <2>1 DEF Inv, GreenInv, GreenTypes, AllApart, Apart
  <2>4. \A g \in Live(i) : Primary(g) \in ring[i]
    BY <2>2, <2>3 DEF Settled, Live
  <2> QED BY <2>2, <2>4
<1> QED BY <1>1, InvHolds, PTL

(* As long as no worker began a job before it had ended its last one, what *)
(* main finds in a completion queue has returned or has timed out, and not *)
(* both: the local job of the worker is then the one that ended            *)
(* (gtpoolrr_worker 184-231, gtpoolrr_job_run).                            *)
THEOREM ResultsAreHonest == Spec => []HonestUnlessOverlapped
<1>1. Inv => HonestUnlessOverlapped
  <2>1. SUFFICES ASSUME Inv, NoneOverlapped, NEW i \in Threads, NEW k \in DOMAIN completion[i]
                 PROVE  job[completion[i][k]].ret # job[completion[i][k]].timeout
    BY DEF HonestUnlessOverlapped, NoneOverlapped
  <2>2. PICK at : Placed(at) /\ \A j \in Jobs : Fits(j, at)
    BY <2>1 DEF Inv, SerialInv, HonestInv, Honest
  <2>3. completion[i] \in Seq(Jobs)
    BY <2>1, ListsOfJobs DEF Inv
  <2> HIDE DEF Jobs, Threads
  <2>4. completion[i][k] \in Jobs
    BY <2>1, <2>3
  <2>5. at[completion[i][k]] = Spot("completion", i)
    BY <2>1, <2>2, <2>4 DEF Placed, Holds, On
  <2> QED BY <2>1, <2>2, <2>4, <2>5, SpotTells DEF Fits
<1> QED BY <1>1, InvHolds, PTL

(* For every pool and course of calls: until an assertion fails, or a      *)
(* worker reports another job than the one that ended, each job that was   *)
(* given out is in exactly one place, and no other is in any: a list of    *)
(* main, a queue, the stack of a green thread, or ended and about to be    *)
(* reported (gtpoolrr_worker 184-231, sbs_get to cps_ack).                    *)
THEOREM JobsAreInOnePlace == Spec => []JobsInOnePlace
<1>1. Inv => JobsInOnePlace
  <2>1. SUFFICES ASSUME Inv, ~dead, ~misreported, NEW j \in Jobs
                 PROVE  Cardinality(JobPlaces(j)) = IF j <= fresh THEN 1 ELSE 0
    BY DEF JobsInOnePlace
  <2>2. PICK at : Placed(at)
    BY <2>1 DEF Inv, HonestInv, Honest
  <2> HIDE DEF Jobs
  <2>3. fresh \in Nat /\ j \in Nat
    BY <2>1, NumberOfJobs DEF Inv, Types, JobTypes, MainTypes, Jobs
  <2>4. CASE j <= fresh
    <3>1. at[j] # Spot("new", 0) /\ at[j] # Spot("lost", 0)
      BY <2>1, <2>2, <2>3, <2>4 DEF Placed
    <3>2. PICK x : JobPlaces(j) = {x}
      BY <2>1, <2>2, <3>1, SitsOnce
    <3> QED BY <2>4, <3>2, FS_Singleton
  <2>5. CASE ~(j <= fresh)
    <3>1. at[j] = Spot("new", 0)
      BY <2>1, <2>2, <2>3, <2>5 DEF Placed
    <3>2. JobPlaces(j) = {}
      BY <2>1, <2>2, <3>1, SitsNowhere
    <3> QED BY <2>5, <3>2, FS_EmptySet
  <2> QED BY <2>4, <2>5
<1> QED BY <1>1, InvHolds, PTL

(* And when stop_safe or join has returned every worker has left, unless   *)
(* stop_unsafe was called (gtpoolrr_stop_safe 508-524, the destructor      *)
(* 66-75): the states cross without a lock, but main waits for one that    *)
(* only a worker that leaves writes.                                       *)
THEOREM StoppedPoolIsQuiet == Spec => []StoppedIsQuiet
<1>1. Inv => StoppedIsQuiet
  BY DEF Inv, QuietInv
<1> QED BY <1>1, InvHolds, PTL
=============================================================================
