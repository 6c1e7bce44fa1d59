------------------------------- MODULE Tpoolrr ------------------------------
(***************************************************************************)
(* Tpoolrr (src/src/tpoolrr.c): a pool of worker threads that one main     *)
(* thread feeds round robin.  Each worker has a submission queue that main *)
(* fills and the worker empties, a completion queue the other way round,   *)
(* and a mutex and condition variable that guard its desired and current   *)
(* state and on which it sleeps.                                           *)
(*                                                                         *)
(* The queues are Aqueues: each has one producer and one consumer, so by   *)
(* AqueueProofs!RingImplementsFifo a queue is a sequence here and each of  *)
(* its calls is one step.  Everything two threads can see in between is a  *)
(* step of its own: taking a mutex, what is done under it, cond_signal     *)
(* outside it, pthread_join, and every single queue a scan looks at.       *)
(* (tpoolrr_stop_unsafe, which cancels threads, is not modelled.)          *)
(***************************************************************************)
EXTENDS Integers, Sequences, FiniteSets

CONSTANTS
  N,            (* threads_total                                           *)
  Cap,          (* jobs_per_thread, the capacity of every queue            *)
  MaxJobs,      (* bound: how many jobs main adds in all                   *)
  MaxControl,   (* bound: how many pause, resume, stop, join calls main    *)
                (* makes in all                                            *)
  Expiring      (* the jobs added with an expiration time                  *)

ASSUME TpoolrrAssumption ==
  /\ N \in Nat \ {0}
  /\ Cap \in Nat \ {0}
  /\ MaxJobs \in Nat
  /\ MaxControl \in Nat
  /\ Expiring \subseteq 1..MaxJobs

VARIABLES
  (* Shared between main and the worker of each index.                     *)
  submission,   (* job_submission_queues                                   *)
  completion,   (* job_completion_queues                                   *)
  desired,      (* desired_states                                          *)
  current,      (* current_states                                          *)
  mutex,        (* who holds condition_mutexes[i]                          *)
  (* Each worker.                                                          *)
  wpc,          (* where it is                                             *)
  wjob,         (* its local job, which keeps the last one (0: none yet)   *)
  (* The main thread.                                                      *)
  mpc,          (* where it is                                             *)
  mop,          (* the call in progress                                    *)
  mi,           (* its loop index                                          *)
  left,         (* how many jobs it still has to add or to pop             *)
  tries,        (* attempts left for the job being added (jobs_addall)     *)
  mret,         (* what the last call returned                             *)
  rr,           (* rr_index                                                *)
  stopped,      (* pool->stopped                                           *)
  (* History.                                                              *)
  added,        (* jobs 1..added have been enqueued                        *)
  runs,         (* how often the function of a job was started             *)
  dropped,      (* results refused by a full completion queue              *)
  popped,       (* results main has taken out                              *)
  targets,      (* the threads the call in progress has given jobs to      *)
  late,         (* jobs a thread started since it was told to hold off     *)
  calls         (* pause, resume, stop and join calls made                 *)

shared == <<submission, completion, desired, current, mutex>>
worker == <<wpc, wjob>>
main == <<mpc, mop, mi, left, tries, mret, rr, stopped>>
history == <<added, runs, dropped, popped, targets, late, calls>>
vars == <<shared, worker, main, history>>

Threads == 0..N-1
Jobs == 1..MaxJobs
Result == [job : Jobs, flags : {0, 1}]

NoResult == "none"

Init ==
  /\ submission = [i \in Threads |-> <<>>]
  /\ completion = [i \in Threads |-> <<>>]
  /\ desired = [i \in Threads |-> "ACTIVE"]
  /\ current = [i \in Threads |-> "ACTIVE"]
  /\ mutex = [i \in Threads |-> "free"]
  /\ wpc = [i \in Threads |-> "lock"]
  /\ wjob = [i \in Threads |-> 0]
  /\ mpc = "idle" /\ mop = "none" /\ mi = 0 /\ left = 0 /\ tries = 0
  /\ mret = NoResult /\ rr = 0 /\ stopped = FALSE
  /\ added = 0
  /\ runs = [j \in Jobs |-> 0]
  /\ dropped = {} /\ popped = {} /\ targets = {}
  /\ late = [i \in Threads |-> 0]
  /\ calls = 0

-----------------------------------------------------------------------------
(* A worker (tpoolrr_worker).                                              *)

WorkerGoes(i, to) == wpc' = [wpc EXCEPT ![i] = to]

WorkerLock(i) ==
  /\ wpc[i] = "lock"
  /\ mutex[i] = "free"
  /\ mutex' = [mutex EXCEPT ![i] = "worker"]
  /\ WorkerGoes(i, "check")
  /\ UNCHANGED <<submission, completion, desired, current, wjob, main, history>>

(* Under the mutex: act on the desired state.  to is where the worker goes *)
(* next; it keeps the mutex only on its way to pthread_cond_wait.          *)
(* Mutant: the mutex is given back before pthread_cond_wait, not by it.    *)
DecideAndUnlock(i, state, to) ==
  /\ wpc[i] = "check"
  /\ current' = [current EXCEPT ![i] = state]
  /\ mutex' = [mutex EXCEPT ![i] = "free"]
  /\ WorkerGoes(i, to)
  /\ UNCHANGED <<submission, completion, desired, wjob, main, history>>

Decide(i, state, to) ==
  /\ wpc[i] = "check"
  /\ current' = [current EXCEPT ![i] = state]
  /\ mutex' = IF to = "wait" THEN mutex ELSE [mutex EXCEPT ![i] = "free"]
  /\ WorkerGoes(i, to)
  /\ UNCHANGED <<submission, completion, desired, wjob, main, history>>

(* Mutant: the desired state is not looked at.                             *)
WorkerTakesJobAnyway(i) ==
  /\ submission[i] # <<>>
  /\ Decide(i, "ACTIVE", "dequeue")

WorkerTakesJob(i) ==
  /\ desired[i] \in {"ACTIVE", "JOINED"}
  /\ submission[i] # <<>>
  /\ Decide(i, "ACTIVE", "dequeue")

(* Mutant: the worker waits without a look at its queue.                   *)
WorkerWaitsBlindly(i) ==
  /\ desired[i] = "ACTIVE"
  /\ Decide(i, "PAUSED", "wait")

WorkerHasNothing(i) ==
  /\ desired[i] = "ACTIVE"
  /\ submission[i] = <<>>
  /\ Decide(i, "PAUSED", "wait")

WorkerPauses(i) ==
  /\ desired[i] = "PAUSED"
  /\ Decide(i, "PAUSED", "wait")

(* Mutant: a JOINED thread leaves without looking at its queue.            *)
WorkerExitsAtOnce(i) ==
  /\ desired[i] \in {"JOINED", "STOPPED"}
  /\ Decide(i, desired[i], "exited")

WorkerExits(i) ==
  /\ \/ desired[i] = "JOINED" /\ submission[i] = <<>>
     \/ desired[i] = "STOPPED"
  /\ Decide(i, desired[i], "exited")

(* pthread_cond_wait: release the mutex and sleep, as one step.            *)
WorkerSleeps(i) ==
  /\ wpc[i] = "wait"
  /\ mutex' = [mutex EXCEPT ![i] = "free"]
  /\ WorkerGoes(i, "asleep")
  /\ UNCHANGED <<submission, completion, desired, current, wjob, main, history>>

(* POSIX lets a wait end without a signal.                                 *)
SpuriousWakeup(i) ==
  /\ wpc[i] = "asleep"
  /\ WorkerGoes(i, "woken")
  /\ UNCHANGED <<shared, wjob, main, history>>

(* pthread_cond_wait takes the mutex again, the worker gives it back and   *)
(* starts over.                                                            *)
WorkerWakes(i) ==
  /\ wpc[i] = "woken"
  /\ mutex[i] = "free"
  /\ WorkerGoes(i, "lock")
  /\ UNCHANGED <<shared, wjob, main, history>>

(* Mutant: the newest job first.                                           *)
WorkerDequeuesNewest(i) ==
  /\ wpc[i] = "dequeue"
  /\ wjob' = [wjob EXCEPT ![i] = submission[i][Len(submission[i])]]
  /\ submission' = [submission EXCEPT ![i] = SubSeq(@, 1, Len(@) - 1)]
  /\ WorkerGoes(i, "start")
  /\ UNCHANGED <<completion, desired, current, mutex, main, history>>

(* aqueue_dequeue; had it failed, the worker would go on with the job of   *)
(* the round before.                                                       *)
WorkerDequeues(i) ==
  /\ wpc[i] = "dequeue"
  /\ wjob' = [wjob EXCEPT ![i] =
                IF submission[i] = <<>> THEN @ ELSE Head(submission[i])]
  /\ submission' = [submission EXCEPT ![i] = IF @ = <<>> THEN @ ELSE Tail(@)]
  /\ WorkerGoes(i, "start")
  /\ UNCHANGED <<completion, desired, current, mutex, main, history>>

Holding == {"PAUSED", "STOPPED"}
HoldsOff(i) == desired[i] \in Holding

(* job.function is called: the job has no expiration, or not passed it.    *)
WorkerStartsJob(i) ==
  /\ wpc[i] = "start"
  /\ runs' = [runs EXCEPT ![wjob[i]] = @ + 1]
  /\ late' = [late EXCEPT ![i] = IF HoldsOff(i) THEN @ + 1 ELSE @]
  /\ WorkerGoes(i, "running")
  /\ UNCHANGED <<shared, wjob, main, added, dropped, popped, targets, calls>>

(* aqueue_enqueue on the completion queue; when it is full the result is   *)
(* gone.                                                                   *)
Complete(i, flags) ==
  LET result == [job |-> wjob[i], flags |-> flags]
  IN  /\ IF Len(completion[i]) = Cap
         THEN dropped' = dropped \cup {result} /\ UNCHANGED completion
         ELSE /\ completion' = [completion EXCEPT ![i] = Append(@, result)]
              /\ UNCHANGED dropped
      /\ WorkerGoes(i, "lock")
      /\ UNCHANGED <<submission, desired, current, mutex, wjob, main, added,
                     runs, popped, targets, late, calls>>

(* Mutant: the flag is forgotten.                                          *)
WorkerExpiresJobSilently(i) ==
  /\ wpc[i] = "start"
  /\ wjob[i] \in Expiring
  /\ Complete(i, 0)

WorkerExpiresJob(i) ==
  /\ wpc[i] = "start"
  /\ wjob[i] \in Expiring
  /\ Complete(i, 1)

WorkerFinishesJob(i) ==
  /\ wpc[i] = "running"
  /\ Complete(i, 0)

Worker(i) ==
  \/ WorkerLock(i)
  \/ WorkerTakesJob(i)
  \/ WorkerHasNothing(i)
  \/ WorkerPauses(i)
  \/ WorkerExits(i)
  \/ WorkerSleeps(i)
  \/ WorkerWakes(i)
  \/ WorkerDequeues(i)
  \/ WorkerStartsJob(i)
  \/ WorkerExpiresJob(i)
  \/ WorkerFinishesJob(i)

-----------------------------------------------------------------------------
(* The main thread.                                                        *)

(* Mutant: the signal is forgotten.                                        *)
SignalNobody(i) == UNCHANGED wpc

(* pthread_cond_signal.                                                    *)
Signal(i) == wpc' = IF wpc[i] = "asleep" THEN [wpc EXCEPT ![i] = "woken"]
                                         ELSE wpc

Return(res) ==
  /\ mpc' = "idle" /\ mop' = "none"
  /\ mret' = res
  /\ mi' = 0 /\ left' = 0 /\ tries' = 0

MainLocks(i, to) ==
  /\ mutex[i] = "free"
  /\ mutex' = [mutex EXCEPT ![i] = "main"]
  /\ mpc' = to
  /\ UNCHANGED <<submission, completion, desired, current, worker, mop, mi,
                 left, tries, mret, rr, stopped, history>>

(* The thread of round k of a round-robin scan.                            *)
NextInTurn(k) == (k + rr) % N

(* ---- tpoolrr_jobs_add, tpoolrr_jobs_addall, tpoolrr_jobs_assign -------- *)

SubmissionsEmpty ==
  LET room[i \in 0..N] ==
        IF i = 0 THEN 0 ELSE room[i - 1] + (Cap - Len(submission[i - 1]))
  IN  room[N]

(* How many attempts each job of a call gets.                              *)
Attempts(op) == IF op = "addall" THEN 3 ELSE 1

AddCall(op, n) ==
  /\ mpc = "idle"
  /\ added + n <= MaxJobs
  /\ mpc' = "scan" /\ mop' = op /\ mi' = 0 /\ left' = n
  /\ tries' = Attempts(op)
  /\ mret' = NoResult
  /\ UNCHANGED <<shared, worker, rr, stopped, history>>

JobsAdd == AddCall("add", 1)

JobsAddall == \E n \in 1..MaxJobs : AddCall("addall", n)

(* jobs_assign gives up only when no thread at all has room (each round of *)
(* its check loop asks for the total); otherwise it adds the job N times.  *)
(* Workers only make room, so the lengths it reads one by one are full     *)
(* together exactly when they all were at the first of them.               *)
JobsAssign ==
  /\ SubmissionsEmpty # 0
  /\ AddCall("assign", N)

JobsAssignBusy ==
  /\ mpc = "idle"
  /\ SubmissionsEmpty = 0
  /\ Return("EBUSY")
  /\ UNCHANGED <<shared, worker, rr, stopped, history>>

HasRoom(i) == Len(submission[i]) # Cap

(* One round of the scan: the loop runs from 0 to threads_total inclusive. *)
AddSkipsFull ==
  /\ mpc = "scan"
  /\ mi <= N
  /\ ~HasRoom(NextInTurn(mi))
  /\ mi' = mi + 1
  /\ UNCHANGED <<shared, worker, mpc, mop, left, tries, mret, rr, stopped,
                 history>>

AddEnqueues ==
  LET i == NextInTurn(mi)
  IN  /\ mpc = "scan"
      /\ mi <= N
      /\ HasRoom(i)
      /\ submission' = [submission EXCEPT ![i] = Append(@, added + 1)]
      /\ added' = added + 1
      /\ targets' = targets \cup {i}
      /\ mpc' = "addlock"
      /\ UNCHANGED <<completion, desired, current, mutex, worker, mop, mi, left,
                     tries, mret, rr, stopped, runs, dropped, popped, late,
                     calls>>

AddLocks ==
  /\ mpc = "addlock"
  /\ MainLocks(NextInTurn(mi), "addsignal")

(* Signal, unlock, and go on with the next job of the call if any.         *)
AddSignals ==
  LET i == NextInTurn(mi)
  IN  /\ mpc = "addsignal"
      /\ Signal(i)
      /\ mutex' = [mutex EXCEPT ![i] = "free"]
      /\ rr' = rr + 1
      /\ IF left = 1
         THEN Return("ok") /\ targets' = {}
         ELSE /\ mpc' = "scan" /\ mi' = 0 /\ left' = left - 1
              /\ tries' = Attempts(mop)
              /\ UNCHANGED <<mop, mret, targets>>
      /\ UNCHANGED <<submission, completion, desired, current, wjob, stopped,
                     added, runs, dropped, popped, late, calls>>

(* Every queue was full: try again after a sleep, return EBUSY, or, in     *)
(* jobs_assign, fail the assertion that the job was added.                 *)
AddBusy ==
  /\ mpc = "scan"
  /\ mi > N
  /\ \/ /\ mop = "assign"
        /\ mpc' = "aborted"
        /\ UNCHANGED <<mop, mi, left, tries, mret, targets>>
     \/ /\ tries > 1
        /\ mi' = 0 /\ tries' = tries - 1
        /\ UNCHANGED <<mpc, mop, left, mret, targets>>
     \/ /\ mop # "assign" /\ tries = 1
        /\ Return("EBUSY")
        /\ targets' = {}
  /\ UNCHANGED <<shared, worker, rr, stopped, added, runs, dropped, popped,
                 late, calls>>

(* ---- tpoolrr_pause, resume, stop_safe, join, deinit -------------------- *)

Desire == [pause |-> "PAUSED", resume |-> "ACTIVE", stop |-> "STOPPED",
           deinit |-> "STOPPED", join |-> "JOINED"]

(* Any of these but deinit may be called again, on a stopped pool too.     *)
ControlCall(op) ==
  /\ mpc = "idle"
  /\ calls < MaxControl
  /\ op = "deinit" => ~stopped
  /\ mpc' = "ctl" /\ mop' = op /\ mi' = 0 /\ mret' = NoResult
  /\ calls' = calls + 1
  /\ UNCHANGED <<shared, worker, left, tries, rr, stopped, added, runs,
                 dropped, popped, targets, late>>

ControlLocks ==
  /\ mpc = "ctl"
  /\ mi < N
  /\ MainLocks(mi, "ctlset")

(* Mutant: a thread that is PAUSED, that is asleep, counts as finished.     *)
FinishedOrPaused == {"JOINED", "STOPPED", "CANCELLED", "PAUSED"}

Finished == {"JOINED", "STOPPED", "CANCELLED"}

Tell(i) ==
  /\ desired' = [desired EXCEPT ![i] = Desire[mop]]
  /\ late' = [late EXCEPT ![i] = IF HoldsOff(i) /\ Desire[mop] \in Holding
                                    THEN @ ELSE 0]
  /\ mutex' = [mutex EXCEPT ![i] = "free"]

(* pause and resume signal before they unlock.                             *)
PauseOrResumeThread ==
  /\ mpc = "ctlset"
  /\ mop \in {"pause", "resume"}
  /\ Tell(mi)
  /\ Signal(mi)
  /\ mpc' = "ctl" /\ mi' = mi + 1
  /\ UNCHANGED <<submission, completion, current, wjob, mop, left, tries, mret,
                 rr, stopped, added, runs, dropped, popped, targets, calls>>

(* stop_safe and join unlock, then signal and join the thread unless its   *)
(* state said it was finished.                                             *)
EndThread ==
  /\ mpc = "ctlset"
  /\ mop \in {"stop", "join", "deinit"}
  /\ Tell(mi)
  /\ IF current[mi] \in Finished
     THEN mpc' = "ctl" /\ mi' = mi + 1
     ELSE mpc' = "ctlsignal" /\ UNCHANGED mi
  /\ UNCHANGED <<submission, completion, current, worker, mop, left, tries,
                 mret, rr, stopped, added, runs, dropped, popped, targets,
                 calls>>

(* Mutant: the thread is joined without being woken.                       *)
EndSignalsNobody ==
  /\ mpc = "ctlsignal"
  /\ mpc' = "ctljoin"
  /\ UNCHANGED <<shared, worker, mop, mi, left, tries, mret, rr, stopped, history>>

EndSignals ==
  /\ mpc = "ctlsignal"
  /\ Signal(mi)
  /\ mpc' = "ctljoin"
  /\ UNCHANGED <<shared, wjob, mop, mi, left, tries, mret, rr, stopped, history>>

EndJoins ==
  /\ mpc = "ctljoin"
  /\ wpc[mi] = "exited"
  /\ mpc' = "ctl" /\ mi' = mi + 1
  /\ UNCHANGED <<shared, worker, mop, left, tries, mret, rr, stopped, history>>

ControlReturns ==
  /\ mpc = "ctl"
  /\ mi = N
  /\ stopped' = (stopped \/ mop \in {"stop", "join", "deinit"})
  /\ IF mop = "deinit"
     THEN mpc' = "gone" /\ UNCHANGED <<mop, mi, left, tries, mret>>
     ELSE Return("ok")
  /\ UNCHANGED <<shared, worker, rr, history>>

(* deinit calls stop_safe only on a pool that is not stopped.  Then the    *)
(* pool is gone: its mutexes and condition variables are destroyed and its *)
(* memory is the caller's again.                                           *)
DeinitStopped ==
  /\ mpc = "idle"
  /\ stopped
  /\ mpc' = "gone"
  /\ UNCHANGED <<shared, worker, mop, mi, left, tries, mret, rr, stopped, history>>

(* ---- tpoolrr_completions_pop, popsome, popall -------------------------- *)

PopCall(op, n) ==
  /\ mpc = "idle"
  /\ mpc' = "pop" /\ mop' = op /\ mi' = 0 /\ left' = n /\ mret' = NoResult
  /\ UNCHANGED <<shared, worker, tries, rr, stopped, history>>

CompletionsPop == PopCall("pop", 1)

CompletionsPopall == \E n \in 1..MaxJobs : PopCall("popall", n)

(* popsome is asked for at most one result of each thread: it uses at_most *)
(* as the number of queues and has no other bound.                         *)
CompletionsPopsome == \E n \in 1..N : PopCall("popsome", n)

PopQueue == IF mop = "popsome" THEN mi ELSE NextInTurn(mi)

(* Mutant: the result is looked at and left in the queue.                  *)
TakeFront(i) ==
  /\ popped' = popped \cup {Head(completion[i])}
  /\ UNCHANGED <<shared, worker, stopped, added, runs, dropped, targets, late,
                 calls>>

Take(i) ==
  /\ completion' = [completion EXCEPT ![i] = Tail(@)]
  /\ popped' = popped \cup {Head(completion[i])}
  /\ UNCHANGED <<submission, desired, current, mutex, worker, stopped, added,
                 runs, dropped, targets, late, calls>>

(* pop and popall: a result is found, rr moves to its thread.              *)
PopFinds ==
  /\ mpc = "pop"
  /\ mop \in {"pop", "popall"}
  /\ mi < N
  /\ completion[PopQueue] # <<>>
  /\ Take(PopQueue)
  /\ rr' = (rr + mi) % N
  /\ IF left = 1
     THEN Return("ok")
     ELSE mi' = 0 /\ left' = left - 1 /\ UNCHANGED <<mpc, mop, tries, mret>>

PopSkipsEmpty ==
  /\ mpc = "pop"
  /\ mop \in {"pop", "popall"}
  /\ mi < N
  /\ completion[PopQueue] = <<>>
  /\ mi' = mi + 1
  /\ UNCHANGED <<shared, worker, mpc, mop, left, tries, mret, rr, stopped,
                 history>>

(* Mutant: the scan does not start over.                                   *)
PopFindsNoneAgain ==
  /\ mpc = "pop"
  /\ mop \in {"pop", "popall"}
  /\ mi = N
  /\ IF mop = "pop"
     THEN Return("EBUSY")
     ELSE UNCHANGED <<mi, mpc, mop, left, tries, mret>>
  /\ UNCHANGED <<shared, worker, rr, stopped, history>>

(* No queue had one: pop is busy, popall sleeps and starts over.           *)
PopFindsNone ==
  /\ mpc = "pop"
  /\ mop \in {"pop", "popall"}
  /\ mi = N
  /\ IF mop = "pop"
     THEN Return("EBUSY")
     ELSE mi' = 0 /\ UNCHANGED <<mpc, mop, left, tries, mret>>
  /\ UNCHANGED <<shared, worker, rr, stopped, history>>

(* popsome takes one result of each of the first n queues; the first empty *)
(* one ends the call.                                                      *)
PopsomeTakes ==
  /\ mpc = "pop"
  /\ mop = "popsome"
  /\ completion[PopQueue] # <<>>
  /\ Take(PopQueue)
  /\ IF left = 1
     THEN Return("ok")
     ELSE mi' = mi + 1 /\ left' = left - 1 /\ UNCHANGED <<mpc, mop, tries, mret>>
  /\ UNCHANGED rr

PopsomeEnds ==
  /\ mpc = "pop"
  /\ mop = "popsome"
  /\ completion[PopQueue] = <<>>
  /\ Return("ENODATA")
  /\ UNCHANGED <<shared, worker, rr, stopped, history>>

-----------------------------------------------------------------------------
(* Main's decision to make a call, and the progress of a call.             *)
Call ==
  \/ JobsAdd
  \/ JobsAddall
  \/ JobsAssign
  \/ JobsAssignBusy
  \/ \E op \in DOMAIN Desire : ControlCall(op)
  \/ DeinitStopped
  \/ CompletionsPop
  \/ CompletionsPopall
  \/ CompletionsPopsome

Proceed ==
  \/ AddSkipsFull
  \/ AddEnqueues
  \/ AddLocks
  \/ AddSignals
  \/ AddBusy
  \/ ControlLocks
  \/ PauseOrResumeThread
  \/ EndThread
  \/ EndSignals
  \/ EndJoins
  \/ ControlReturns
  \/ PopFinds
  \/ PopSkipsEmpty
  \/ PopFindsNone
  \/ PopsomeTakes
  \/ PopsomeEnds

Next ==
  \/ Call
  \/ Proceed
  \/ \E i \in Threads : Worker(i) \/ SpuriousWakeup(i)

Spec == Init /\ [][Next]_vars

(* Every worker keeps running (and job functions return), and main sees a  *)
(* call it has started through.  A worker that keeps waking for no reason  *)
(* takes its mutex again and again; the strong fairness says that main,    *)
(* waiting for that mutex, gets it some time that it is free.  Whether     *)
(* main makes a call is up to it.                                          *)
FairSpec ==
  /\ Spec
  /\ WF_vars(Proceed)
  /\ SF_vars(AddLocks \/ ControlLocks)
  /\ \A i \in Threads : WF_vars(Worker(i))

-----------------------------------------------------------------------------
(* Properties.                                                             *)

QueueTypes ==
  /\ submission \in [Threads -> Seq(Jobs)]
  /\ completion \in [Threads -> Seq(Result)]
  /\ \A i \in Threads : Len(submission[i]) <= Cap /\ Len(completion[i]) <= Cap

ThreadTypes ==
  /\ desired \in [Threads -> {"ACTIVE", "PAUSED", "JOINED", "STOPPED"}]
  /\ current \in [Threads -> {"ACTIVE", "PAUSED", "JOINED", "STOPPED"}]
  /\ mutex \in [Threads -> {"free", "worker", "main"}]
  /\ wpc \in [Threads -> {"lock", "check", "wait", "asleep", "woken",
                          "dequeue", "start", "running", "exited"}]
  /\ wjob \in [Threads -> 0..MaxJobs]

MainTypes ==
  /\ mpc \in {"idle", "scan", "addlock", "addsignal", "ctl", "ctlset",
              "ctlsignal", "ctljoin", "pop", "gone", "aborted"}
  /\ mop \in {"none", "add", "addall", "assign", "pop", "popall", "popsome"}
             \cup DOMAIN Desire
  /\ mret \in {NoResult, "ok", "EBUSY", "ENODATA"}
  /\ mi \in 0..N+1
  /\ tries \in 0..3
  /\ left \in 0..(IF N <= MaxJobs THEN MaxJobs ELSE N)
  /\ rr \in Nat
  /\ stopped \in BOOLEAN

HistoryTypes ==
  /\ added \in 0..MaxJobs
  /\ runs \in [Jobs -> Nat]
  /\ dropped \subseteq Result /\ popped \subseteq Result
  /\ targets \subseteq Threads
  /\ late \in [Threads -> Nat]

TypeOK ==
  /\ QueueTypes
  /\ ThreadTypes
  /\ MainTypes
  /\ HistoryTypes

InHand(i) == wpc[i] \in {"start", "running"}

(* Every place a job is at, as the job it was added as or as its result.   *)
Places(j) ==
  {<<"queued", p[1], p[2]>> : p \in
     {q \in Threads \X (1..Cap) : /\ q[2] <= Len(submission[q[1]])
                                  /\ submission[q[1]][q[2]] = j}}
  \cup {<<"in hand", i, 0>> : i \in {t \in Threads : InHand(t) /\ wjob[t] = j}}
  \cup {<<"completed", p[1], p[2]>> : p \in
     {q \in Threads \X (1..Cap) : /\ q[2] <= Len(completion[q[1]])
                                  /\ completion[q[1]][q[2]].job = j}}
  \cup {<<"dropped", r.flags, 0>> : r \in {d \in dropped : d.job = j}}
  \cup {<<"popped", r.flags, 0>> : r \in {d \in popped : d.job = j}}

(* A job that was added is always in exactly one place: no interleaving of *)
(* main's scans with the workers loses one, runs one's leftover again or   *)
(* reports one twice (_tpoolrr_jobs_add, tpoolrr_worker 434-465,           *)
(* tpoolrr_completions_pop and popsome).                                   *)
Conservation ==
  \A j \in Jobs : Cardinality(Places(j)) = IF j <= added THEN 1 ELSE 0

(* A result says truthfully whether the job's function ran, and no job's   *)
(* function is started twice (tpoolrr_worker 443-461).                     *)
HonestResults ==
  /\ \A r \in popped \cup dropped : runs[r.job] = 1 - r.flags
  /\ \A i \in Threads :
       /\ \A k \in 1..Len(completion[i]) :
            runs[completion[i][k].job] = 1 - completion[i][k].flags
       /\ \A k \in 1..Len(submission[i]) : runs[submission[i][k]] = 0
       /\ wpc[i] = "start" => runs[wjob[i]] = 0
       /\ wpc[i] = "running" => runs[wjob[i]] = 1

(* The jobs of one thread, from its oldest unclaimed result to its newest  *)
(* queued job, are in the order they were added in.                        *)
ThreadOrder ==
  \A i \in Threads :
    LET results == [k \in 1..Len(completion[i]) |-> completion[i][k].job]
        hand == IF InHand(i) THEN <<wjob[i]>> ELSE <<>>
        line == results \o hand \o submission[i]
    IN  \A k \in 1..Len(line) - 1 : line[k] < line[k + 1]

(* A worker that left its check to take a job finds one: nobody else       *)
(* empties its queue (tpoolrr_worker 382-383, 434).                        *)
NeverEmptyHanded ==
  \A i \in Threads : wpc[i] = "dequeue" => submission[i] # <<>>

(* What threads_active and threads_inactive read under the mutex is true:  *)
(* a thread whose state is not ACTIVE is not taking, running or reporting  *)
(* a job, and one whose state is final has left its loop for good.         *)
InactiveIsIdle ==
  \A i \in Threads :
    /\ wpc[i] = "dequeue" \/ InHand(i) => current[i] = "ACTIVE"
    /\ current[i] \in Finished <=> wpc[i] = "exited"

(* No wakeup is lost: a worker sleeps, or is committed to, while it has a  *)
(* job it should run or an order to end only if main is on its way to      *)
(* signal it, and main signals after the worker is in the wait             *)
(* (_tpoolrr_jobs_add 638-651, stop_safe and join 855-868).                *)
SleepIsJustified ==
  \A i \in Threads : wpc[i] \in {"wait", "asleep"} =>
    /\ desired[i] = "ACTIVE" =>
         \/ submission[i] = <<>>
         \/ mpc \in {"addlock", "addsignal"} /\ NextInTurn(mi) = i
    /\ desired[i] \in {"JOINED", "STOPPED"} => mpc = "ctlsignal" /\ mi = i

(* After pause or stop_safe has set a thread's desired state, the thread   *)
(* starts one more job at most: the one whose queue it had already checked.*)
AtMostOneLateStart == \A i \in Threads : late[i] <= 1

(* Once stop_safe, join or deinit has returned, no worker is left that     *)
(* could touch the pool, so its memory can go.                             *)
StoppedIsQuiet ==
  stopped => \A i \in Threads : wpc[i] = "exited" /\ mutex[i] # "worker"

(* A mutex that guards the states of a thread has one holder, and each     *)
(* believes so.                                                            *)
MutexHeld ==
  \A i \in Threads :
    /\ mutex[i] = "worker" <=> wpc[i] \in {"check", "wait"}
    /\ mutex[i] = "main" <=> \/ mpc = "addsignal" /\ NextInTurn(mi) = i
                             \/ mpc = "ctlset" /\ mi = i

(* What makes the safety properties inductive.  The locals of main fit the *)
(* place it is at: an index it is about to use is a thread's, and the jobs *)
(* it still has to add are within the bound.                               *)
Adding == mpc \in {"scan", "addlock", "addsignal"}
Controlling == mpc \in {"ctl", "ctlset", "ctlsignal", "ctljoin"}
Ending == {"stop", "join", "deinit"}

LocalsFit ==
  /\ Adding =>
       /\ mop \in {"add", "addall", "assign"}
       /\ left >= 1 /\ tries >= 1
       /\ added + left <= IF mpc = "scan" THEN MaxJobs ELSE MaxJobs + 1
       /\ mpc # "scan" => mi <= N
  /\ Controlling =>
       /\ mop \in DOMAIN Desire
       /\ mi <= N
       /\ mpc # "ctl" => mi < N
       /\ mpc \in {"ctlsignal", "ctljoin"} => mop \in Ending
  /\ mpc = "pop" =>
       /\ mop \in {"pop", "popall", "popsome"}
       /\ left >= 1
       /\ mi <= N
       /\ mop = "popsome" => mi + left <= N

(* The threads that an ending call has passed have left their loops.       *)
EndedSoFar ==
  Controlling /\ mop \in Ending =>
    \A i \in Threads : i < mi => wpc[i] = "exited"

(* A thread that join waits for leaves with its queue empty.               *)
JoinFits ==
  mpc \in {"ctlsignal", "ctljoin"} /\ mop = "join" =>
    /\ desired[mi] = "JOINED"
    /\ wpc[mi] = "exited" => submission[mi] = <<>>

(* A worker on its way to run a job holds one, has started none against    *)
(* orders, and does not go to sleep against an order to end.               *)
WorkerFits ==
  \A i \in Threads :
    /\ InHand(i) => wjob[i] \in Jobs
    /\ ~HoldsOff(i) \/ wpc[i] \in {"dequeue", "start"} => late[i] = 0
    /\ desired[i] \in {"JOINED", "STOPPED"} => wpc[i] # "wait"

(* The inductive invariant.                                                *)
PoolInv ==
  /\ TypeOK
  /\ LocalsFit
  /\ WorkerFits
  /\ MutexHeld
  /\ NeverEmptyHanded
  /\ InactiveIsIdle
  /\ SleepIsJustified
  /\ AtMostOneLateStart
  /\ EndedSoFar
  /\ JoinFits
  /\ StoppedIsQuiet

(* When join gets a thread back, that thread has run all its jobs.         *)
JoinRunsAll == [][EndJoins /\ mop = "join" => submission[mi] = <<>>]_vars

(* When jobs_assign reports success, every thread has been given the job   *)
(* (tpoolrr.h, "Add job to every single thread").                          *)
AssignCoversAllThreads ==
  [][AddSignals /\ mop = "assign" /\ left = 1 => targets = Threads]_vars

(* A thread that has jobs and may run them does not leave them lying.      *)
WorkGetsDone ==
  \A i \in Threads :
    /\ submission[i] # <<>>
    /\ desired[i] \in {"ACTIVE", "JOINED"}
    /\ ~stopped
    ~> \/ submission[i] = <<>>
       \/ desired[i] \in {"PAUSED", "STOPPED"}

(* Every call but popall comes back; stop_safe, join and deinit do so      *)
(* although they wait for threads that may be asleep or paused.            *)
CallsReturn ==
  mpc \in {"scan", "addlock", "addsignal", "ctl", "ctlset", "ctlsignal",
          "ctljoin", "pop"} /\ mop # "popall"
  ~> mpc \in {"idle", "gone", "aborted"}

(* popall comes back when as many results as it waits for are still to     *)
(* come and the pool is neither stopped nor paused, unless a full          *)
(* completion queue has swallowed one of them.                             *)
PopallReturns ==
  /\ mpc = "pop" /\ mop = "popall" /\ ~stopped
  /\ left <= added - Cardinality(popped \cup dropped)
  /\ \A i \in Threads : desired[i] = "ACTIVE"
  ~> mpc = "idle" \/ dropped # {}
=============================================================================
