------------------------------ MODULE Gtpoolrr ------------------------------
(***************************************************************************)
(* Gtpoolrr (src/src/gtpoolrr.c): a pool of worker threads each of which   *)
(* runs its jobs as green threads (Greent) that wait for io_uring while    *)
(* others run.  Main and the workers share only the Aqueues, which are     *)
(* sequences here (AqueueProofs!RingImplementsFifo), the job records, and  *)
(* the desired and current states, which nothing guards but that they are  *)
(* atomic.                                                                 *)
(*                                                                         *)
(* A worker's steps: drain the completions of its ring, read the desired   *)
(* state, write the current one, choose a green thread or a job, run it    *)
(* until it yields or returns, report.  The local job of the worker lives  *)
(* in its own stack frame, which the switch between green threads does not *)
(* save: it is the job dequeued last.                                      *)
(***************************************************************************)
EXTENDS Greent, FiniteSets, SequencesExt

CONSTANTS
  Pools,       (* the pools to look at: thread_count, jobs_per_thread, and *)
               (* the threads whose io_uring_queue_init fails              *)
  Ops,         (* the operations jobs ask for                              *)
  MaxOps,      (* bound: how many of them one green thread asks for        *)
  MaxPushes,   (* bound: how many jobs main pushes in all                  *)
  MaxControl,  (* bound: pause, resume, stop and join calls in all         *)
  Expiring,    (* the jobs main gives an expiration time                   *)
  CancelToo    (* whether main may call stop_unsafe                        *)

ASSUME GtpoolrrAssumption ==
  /\ Pools \subseteq (Nat \ {0}) \X (Nat \ {0}) \X SUBSET Nat
  /\ Ops \subseteq Operations
  /\ {MaxOps, MaxPushes, MaxControl} \subseteq Nat
  /\ CancelToo \in BOOLEAN

VARIABLES
  N,           (* threads_total                                            *)
  PerThread,   (* jobs_per_thread: capacity of each queue, and green       *)
               (* threads of each worker                                   *)
  unborn,      (* the threads whose io_uring_queue_init fails              *)
  (* Shared between main and the workers.                                  *)
  submission, completion,  (* the queues of each thread                    *)
  desired, current,        (* the states of each thread                    *)
  job,                     (* the job records                              *)
  (* Each worker.                                                          *)
  wpc,         (* where it is                                              *)
  wjob,        (* its local job (0: none yet)                              *)
  running,     (* its running_thread (0: NULL)                             *)
  ready,       (* its ready_threads                                        *)
  greens,      (* green threads 1..greens[i] are allocated                 *)
  gjob,        (* the job in the stack frame of each green thread          *)
  ring,        (* requests the kernel works on; two equal ones can only be *)
               (* timeouts, which make no difference                       *)
  (* Main.                                                                 *)
  mpc, mop, mi, (* where it is, in which call, at which thread             *)
  left,        (* how many jobs the call still has to push or to pop       *)
  rr,          (* rr_index, which is only read modulo threads_total        *)
  free,        (* the free list of pool->jobs, most recent first           *)
  fresh,       (* jobs of that pool that were allocated at least once      *)
  mine,        (* jobs main has and has not pushed                         *)
  taken,       (* jobs main has popped and not acknowledged                *)
  stopped,     (* pool->stopped                                            *)
  killed,      (* the threads pthread_cancel was called for                *)
  dead,        (* an assertion failed or NULL was written through          *)
  (* History.                                                              *)
  asked,       (* operations each green thread has asked for               *)
  done,        (* green threads whose function has returned                *)
  ended,       (* the job each worker has ended and not reported (0: none) *)
  misreported, (* whether a worker reported another job than the one ended *)
  overlapped,  (* whether a worker began a job before its last one ended   *)
  pushes, controls

shared == <<submission, completion, desired, current, job>>
shape == <<N, PerThread, unborn>>
greenstate == <<running, ready, greens, gjob, ring>>
worker == <<wpc, wjob, greenstate>>
pool == <<free, fresh, mine, taken>>
mainlocal == <<mpc, mop, mi, left>>
main == <<mainlocal, rr, pool, stopped, killed>>
whist == <<asked, done, ended, misreported, overlapped>>
mhist == <<pushes, controls>>
vars == <<shape, shared, worker, main, dead, whist, mhist>>

Threads == 0..N-1
Jobs == 1..N * PerThread
Greens == 1..PerThread
Blank == [expiration |-> FALSE, ret |-> FALSE, timeout |-> FALSE]

Init ==
  /\ \E p \in Pools :
       /\ N = p[1] /\ PerThread = p[2] /\ unborn = p[3]
       /\ wpc = [i \in Threads |-> IF i \in unborn THEN "gone" ELSE "drain"]
  /\ submission = [i \in Threads |-> <<>>]
  /\ completion = [i \in Threads |-> <<>>]
  /\ desired = [i \in Threads |-> "ACTIVE"]
  /\ current = [i \in Threads |-> "ACTIVE"]
  /\ job = [j \in Jobs |-> Blank]
  /\ wjob = [i \in Threads |-> 0]
  /\ running = [i \in Threads |-> 0]
  /\ ready = [i \in Threads |-> <<>>]
  /\ greens = [i \in Threads |-> 0]
  /\ gjob = [i \in Threads |-> [g \in Greens |-> 0]]
  /\ ring = [i \in Threads |-> {}]
  /\ mpc = "idle" /\ mop = "none" /\ mi = 0 /\ left = 0
  /\ rr = 0 /\ free = <<>> /\ fresh = 0 /\ mine = <<>> /\ taken = <<>>
  /\ stopped = FALSE /\ killed = {} /\ dead = FALSE
  /\ asked = [i \in Threads |-> [g \in Greens |-> 0]]
  /\ done = [i \in Threads |-> {}]
  /\ ended = [i \in Threads |-> 0]
  /\ misreported = FALSE
  /\ overlapped = [i \in Threads |-> FALSE]
  /\ pushes = 0 /\ controls = 0

-----------------------------------------------------------------------------
(* A worker (gtpoolrr_worker).  One whose io_uring_queue_init fails is     *)
(* gone from the start, in the state ACTIVE.                               *)

(* A failed assertion ends the process.                                    *)
GoesOn == ~dead /\ UNCHANGED shape

Goes(i, from, to) == GoesOn /\ wpc[i] = from /\ wpc' = [wpc EXCEPT ![i] = to]

(* What the ring has posted: the completion of a timeout is passed over,   *)
(* that of an operation, a timed one that was cut short among them, makes  *)
(* its green thread ready.                                                 *)
(* Mutant: both do.                                                        *)
WokenByAny(word) == <<greent_unpack(word).green_thread>>

Woken(word) ==
  IF greent_unpack(word).with_timeout THEN <<>> ELSE <<greent_unpack(word).green_thread>>

(* Mutant: a joined thread looks at its queue only.                        *)
NothingQueued(i) == submission[i] = <<>>

NothingLeft(i) ==
  /\ running[i] = 0
  /\ submission[i] = <<>>
  /\ ready[i] = <<>>

(* The top of the loop: the completions there are, which the kernel posts  *)
(* in any order and while the worker looks at them.                        *)
Drains(i, word) ==
  /\ word \in ring[i]
  /\ \E from \in {"drain", "sleep"} : Goes(i, from, "drain")
  /\ ring' = [ring EXCEPT ![i] = @ \ {word}]
  /\ ready' = [ready EXCEPT ![i] = @ \o Woken(word)]
  /\ dead' = (Len(ready'[i]) > PerThread)
  /\ UNCHANGED <<shared, wjob, running, greens, gjob, main, whist, mhist>>

(* When it finds no more it reads the desired state.  ACTIVE and PAUSED    *)
(* are written to current in a step of their own.                          *)
AfterDesired(i) ==
  CASE desired[i] \in {"ACTIVE", "PAUSED"} -> desired[i]
    [] desired[i] = "JOINED" -> IF NothingLeft(i) THEN "exit" ELSE "select"
    [] desired[i] \in {"STOPPED", "CANCELLED"} -> "exit"

Decides(i) ==
  /\ \E from \in {"drain", "sleep"} : Goes(i, from, AfterDesired(i))
  /\ UNCHANGED <<shared, wjob, greenstate, main, dead, whist, mhist>>

WriteCurrent(i) ==
  /\ \/ Goes(i, "ACTIVE", "select")
     \/ Goes(i, "PAUSED", "sleep")
  /\ current' = [current EXCEPT ![i] = wpc[i]]
  /\ UNCHANGED <<submission, completion, desired, job>>
  /\ UNCHANGED <<wjob, greenstate, main, dead, whist, mhist>>

(* usleep is where a cancelled thread may end.                             *)
Sleeps(i) ==
  /\ Goes(i, "select", "sleep")
  /\ running[i] = 0 /\ ready[i] = <<>> /\ submission[i] = <<>>
  /\ UNCHANGED <<shared, wjob, greenstate, main, dead, whist, mhist>>

(* The thread that yielded with NOP goes on, else the first ready one.     *)
Resumes(i) ==
  /\ Goes(i, "select", "run")
  /\ \/ running[i] # 0 /\ UNCHANGED <<running, ready>>
     \/ /\ running[i] = 0 /\ ready[i] # <<>>
        /\ running' = [running EXCEPT ![i] = Head(ready[i])]
        /\ ready' = [ready EXCEPT ![i] = Tail(@)]
  /\ UNCHANGED <<shared, wjob, greens, gjob, ring>>
  /\ UNCHANGED <<main, dead, whist, mhist>>

Live(i) == (1..greens[i]) \ done[i]

TakesJob(i, to) ==
  /\ Goes(i, "select", to)
  /\ running[i] = 0 /\ ready[i] = <<>> /\ submission[i] # <<>>
  /\ wjob' = [wjob EXCEPT ![i] = Head(submission[i])]
  /\ submission' = [submission EXCEPT ![i] = Tail(@)]
  /\ overlapped' = [overlapped EXCEPT ![i] = @ \/ Live(i) # {}]

(* A job without expiration, or not yet expired, gets a green thread.      *)
(* They are never given back; without one the assertion fails.             *)
StartsJob(i) ==
  LET g == greens[i] + 1
  IN /\ TakesJob(i, "run")
     /\ job' = [job EXCEPT ![Head(submission[i])].timeout = FALSE]
     /\ IF g > PerThread
        THEN /\ dead' = TRUE
             /\ UNCHANGED <<greens, running, gjob>>
        ELSE /\ greens' = [greens EXCEPT ![i] = g]
             /\ running' = [running EXCEPT ![i] = g]
             /\ gjob' = [gjob EXCEPT ![i][g] = Head(submission[i])]
             /\ UNCHANGED dead
     /\ UNCHANGED <<completion, desired, current, ready, ring, main, mhist>>
     /\ UNCHANGED <<asked, done, ended, misreported>>

(* Mutant: the flag of the timeout is not set.                             *)
ExpiresJobSilently(i) ==
  /\ TakesJob(i, "complete")
  /\ job[Head(submission[i])].expiration
  /\ ended' = [ended EXCEPT ![i] = Head(submission[i])]
  /\ UNCHANGED <<completion, desired, current, job, greenstate, main, dead>>
  /\ UNCHANGED <<asked, done, misreported, mhist>>

ExpiresJob(i) ==
  /\ TakesJob(i, "complete")
  /\ job[Head(submission[i])].expiration
  /\ job' = [job EXCEPT ![Head(submission[i])].timeout = TRUE]
  /\ ended' = [ended EXCEPT ![i] = Head(submission[i])]
  /\ UNCHANGED <<completion, desired, current, greenstate, main, dead>>
  /\ UNCHANGED <<asked, done, misreported, mhist>>

(* The function runs until it asks for an operation.                       *)
(* Mutant: it waits for the ring though it asked for none.                 *)
YieldsToRing(i, op) ==
  LET g == running[i]
  IN /\ Goes(i, "run", "drain")
     /\ asked[i][g] < MaxOps
     /\ asked' = [asked EXCEPT ![i][g] = @ + 1]
     /\ ring' = [ring EXCEPT ![i] = @ \cup ToSet(greent_do_submit(g, op))]
     /\ running' = [running EXCEPT ![i] = 0]
     /\ UNCHANGED <<shared, wjob, ready, greens, gjob, main, dead>>
     /\ UNCHANGED <<done, ended, misreported, overlapped, mhist>>

Yields(i, op) ==
  LET g == running[i]
  IN /\ Goes(i, "run", "drain")
     /\ asked[i][g] < MaxOps
     /\ asked' = [asked EXCEPT ![i][g] = @ + 1]
     /\ ring' = [ring EXCEPT ![i] = @ \cup ToSet(greent_do_submit(g, op))]
     /\ running' = [running EXCEPT ![i] = IF greent_do_submit(g, op) = <<>> THEN g ELSE 0]
     /\ UNCHANGED <<shared, wjob, ready, greens, gjob, main, dead>>
     /\ UNCHANGED <<done, ended, misreported, overlapped, mhist>>

(* The function returns, into gtpoolrr_job_run and from there to the loop; *)
(* its stack frame is gone.                                                *)
Returns(i) ==
  /\ Goes(i, "run", "complete")
  /\ job' = [job EXCEPT ![gjob[i][running[i]]].ret = TRUE,
                        ![gjob[i][running[i]]].timeout = FALSE]
  /\ done' = [done EXCEPT ![i] = @ \cup {running[i]}]
  /\ ended' = [ended EXCEPT ![i] = gjob[i][running[i]]]
  /\ running' = [running EXCEPT ![i] = 0]
  /\ gjob' = [gjob EXCEPT ![i][running[i]] = 0]
  /\ asked' = [asked EXCEPT ![i][running[i]] = 0]
  /\ UNCHANGED <<submission, completion, desired, current, wjob, ready, greens>>
  /\ UNCHANGED <<ring, main, dead, misreported, overlapped, mhist>>

(* What is reported is the local job.                                      *)
Reports(i) ==
  /\ completion' = [completion EXCEPT ![i] = Append(@, wjob[i])]
  /\ misreported' = (misreported \/ wjob[i] # ended[i])
  /\ ended' = [ended EXCEPT ![i] = 0]

(* Mutant: a full queue is passed over.                                    *)
CompletesIfRoom(i) ==
  /\ Goes(i, "complete", "drain")
  /\ IF Len(completion[i]) = PerThread
     THEN ended' = [ended EXCEPT ![i] = 0] /\ UNCHANGED <<completion, misreported>>
     ELSE Reports(i)
  /\ UNCHANGED <<submission, desired, current, job, wjob, greenstate, main, dead>>
  /\ UNCHANGED <<asked, done, overlapped, mhist>>

Completes(i) ==
  /\ Goes(i, "complete", "drain")
  /\ IF Len(completion[i]) = PerThread
     THEN dead' = TRUE /\ UNCHANGED <<completion, ended, misreported>>
     ELSE Reports(i) /\ UNCHANGED dead
  /\ UNCHANGED <<submission, desired, current, job, wjob, greenstate, main>>
  /\ UNCHANGED <<asked, done, overlapped, mhist>>

(* The thread-specific destructor copies the desired state.                *)
(* Mutant: it is not set up.                                               *)
ExitsSilently(i) ==
  /\ Goes(i, "exit", "gone")
  /\ UNCHANGED <<shared, wjob, greenstate, main, dead, whist, mhist>>

Exits(i) ==
  /\ Goes(i, "exit", "gone")
  /\ current' = [current EXCEPT ![i] = desired[i]]
  /\ UNCHANGED <<submission, completion, desired, job, wjob, greenstate>>
  /\ UNCHANGED <<main, dead, whist, mhist>>

(* A cancelled thread ends at the next call that looks for it: usleep,     *)
(* what its job calls, or close on the way out.                            *)
IsCancelled(i) ==
  /\ i \in killed
  /\ \E from \in {"sleep", "run", "exit"} : Goes(i, from, "gone")
  /\ UNCHANGED <<shared, wjob, greenstate, main, dead, whist, mhist>>

Rest(i) ==
  \/ Decides(i) \/ WriteCurrent(i) \/ Sleeps(i) \/ Resumes(i) \/ StartsJob(i)
  \/ ExpiresJob(i) \/ (\E op \in Ops : Yields(i, op)) \/ Returns(i) \/ Completes(i) \/ Exits(i)

Worker(i) == Rest(i) \/ \E word \in ring[i] : Drains(i, word)

-----------------------------------------------------------------------------
(* Main.                                                                   *)

MainIs(at) == GoesOn /\ mpc = at
MainGoes(from, to) == MainIs(from) /\ mpc' = to

(* The sbs_set calls: of what they set the worker looks at the expiration. *)
Filled(j) == [Blank EXCEPT !.expiration = (j \in Expiring)]

(* sbs_get and the sbs_set calls: the most recent free job, else a fresh   *)
(* one, is cleared and filled in.                                          *)
SbsGet ==
  /\ MainGoes("idle", "idle")
  /\ Len(mine) < MaxPushes - pushes
  /\ \E j \in Jobs :
       /\ \/ free # <<>> /\ j = Head(free) /\ free' = Tail(free) /\ UNCHANGED fresh
          \/ free = <<>> /\ j = fresh + 1 /\ fresh' = j /\ UNCHANGED free
       /\ job' = [job EXCEPT ![j] = Filled(j)]
       /\ mine' = Append(mine, j)
  /\ UNCHANGED <<submission, completion, desired, current, worker, mainlocal, rr>>
  /\ UNCHANGED <<taken, stopped, killed, dead, whist, mhist>>

(* From an empty pool sbs_get gets NULL and clears what is there.          *)
SbsGetFails ==
  /\ MainGoes("idle", "idle")
  /\ free = <<>> /\ fresh = N * PerThread
  /\ dead' = TRUE
  /\ UNCHANGED <<shared, worker, mainlocal, rr, pool, stopped, killed, whist, mhist>>

(* sbs_push and sbs_pushall, round robin or to one thread.                 *)
SbsPush(op, i, n) ==
  /\ MainGoes("idle", "push")
  /\ n <= Len(mine)
  /\ mop' = op /\ mi' = i /\ left' = n
  /\ UNCHANGED <<shared, worker, rr, pool, stopped, killed, dead, whist, mhist>>

PushTarget == IF mop = "rr" THEN rr ELSE mi

(* Back to idle the locals of a call are gone.                             *)
MainReturns == mpc' = "idle" /\ mop' = "none" /\ mi' = 0 /\ left' = 0

(* Mutant: one job too many.                                               *)
HasRoomForOneMore(i) == Len(submission[i]) <= PerThread
HasRoom(i) == Len(submission[i]) < PerThread

PushEnqueues ==
  /\ MainIs("push")
  /\ HasRoom(PushTarget)
  /\ IF left = 1 THEN MainReturns ELSE left' = left - 1 /\ UNCHANGED <<mpc, mop, mi>>
  /\ submission' = [submission EXCEPT ![PushTarget] = Append(@, Head(mine))]
  /\ mine' = Tail(mine)
  /\ rr' = IF mop = "rr" THEN (rr + 1) % N ELSE rr
  /\ pushes' = pushes + 1
  /\ UNCHANGED <<completion, desired, current, job, worker, free>>
  /\ UNCHANGED <<fresh, taken, stopped, killed, dead, whist, controls>>

(* The first full queue ends the call, whatever room the others have.      *)
PushIsRefused ==
  /\ MainIs("push")
  /\ ~HasRoom(PushTarget)
  /\ MainReturns
  /\ UNCHANGED <<shared, worker, rr, pool, stopped, killed, dead, whist, mhist>>

(* cps_pop, popsome and popall: one look at each queue per result.  pop is *)
(* popsome of one.                                                         *)
CpsPop(op, k) ==
  /\ MainGoes("idle", "pop")
  /\ mop' = op /\ mi' = 0 /\ left' = k
  /\ UNCHANGED <<shared, worker, rr, pool, stopped, killed, dead, whist, mhist>>

PopQueue == (mi + rr) % N

PopFinds ==
  /\ MainIs("pop")
  /\ completion[PopQueue] # <<>>
  /\ IF left = 1 THEN MainReturns
     ELSE left' = left - 1 /\ mi' = 0 /\ UNCHANGED <<mpc, mop>>
  /\ taken' = Append(taken, Head(completion[PopQueue]))
  /\ completion' = [completion EXCEPT ![PopQueue] = Tail(@)]
  /\ rr' = (rr + mi) % N
  /\ UNCHANGED <<submission, desired, current, job, worker, free>>
  /\ UNCHANGED <<fresh, mine, stopped, killed, dead, whist, mhist>>

(* After the last queue popall sleeps and starts over, the others return   *)
(* EBUSY.                                                                  *)
PopFindsNone ==
  /\ MainIs("pop")
  /\ completion[PopQueue] = <<>>
  /\ IF mi = N - 1 /\ mop # "popall" THEN MainReturns
     ELSE mi' = (mi + 1) % N /\ UNCHANGED <<mpc, mop, left>>
  /\ UNCHANGED <<shared, worker, rr, pool, stopped, killed, dead, whist, mhist>>

(* cps_ack of all that was popped.  A job that was popped twice is         *)
(* acknowledged once.                                                      *)
CpsAck ==
  /\ MainGoes("idle", "idle")
  /\ taken # <<>>
  /\ free' = SetToSeq(ToSet(taken) \ ToSet(free)) \o free
  /\ taken' = <<>>
  /\ UNCHANGED <<shared, worker, mainlocal, rr, fresh, mine, stopped, killed>>
  /\ UNCHANGED <<dead, whist, mhist>>

Desire ==
  [pause |-> "PAUSED", resume |-> "ACTIVE", stop |-> "STOPPED", join |-> "JOINED",
   cancel |-> "CANCELLED"]

(* Bound: stop_unsafe, after which little is promised, is the only one of  *)
(* these calls in its run.                                                 *)
Control(op) ==
  /\ op = "cancel" => CancelToo /\ controls = 0
  /\ controls < MaxControl
  /\ MainGoes("idle", "control")
  /\ mop' = op /\ mi' = 0
  /\ controls' = IF op = "cancel" THEN MaxControl ELSE controls + 1
  /\ UNCHANGED <<shared, worker, left, rr, pool, stopped, killed>>
  /\ UNCHANGED <<dead, whist, pushes>>

(* Thread mi is told.  stop_safe and join go on to the next when its       *)
(* current state is final, and repeat this until then.                     *)
(* Mutant: they do not wait.                                               *)
Over(state) == state \in {"STOPPED", "CANCELLED", "JOINED"}

TellAndGo ==
  /\ MainGoes("control", "control")
  /\ mi < N
  /\ desired' = [desired EXCEPT ![mi] = Desire[mop]]
  /\ current' = IF mop = "cancel" THEN [current EXCEPT ![mi] = "CANCELLED"] ELSE current
  /\ killed' = IF mop = "cancel" THEN killed \cup {mi} ELSE killed
  /\ mi' = mi + 1
  /\ UNCHANGED <<submission, completion, job, worker, mop, left, rr, pool>>
  /\ UNCHANGED <<stopped, dead, whist, mhist>>

Tell ==
  /\ MainGoes("control", "control")
  /\ mi < N
  /\ desired' = [desired EXCEPT ![mi] = Desire[mop]]
  /\ current' = IF mop = "cancel" THEN [current EXCEPT ![mi] = "CANCELLED"] ELSE current
  /\ killed' = IF mop = "cancel" THEN killed \cup {mi} ELSE killed
  /\ mi' = IF mop \in {"stop", "join"} /\ ~Over(current[mi]) THEN mi ELSE mi + 1
  /\ UNCHANGED <<submission, completion, job, worker, mop, left, rr, pool>>
  /\ UNCHANGED <<stopped, dead, whist, mhist>>

ControlReturns ==
  /\ MainIs("control") /\ mi = N
  /\ MainReturns
  /\ stopped' = (stopped \/ mop \in {"stop", "join", "cancel"})
  /\ UNCHANGED <<shared, worker, rr, pool, killed, dead, whist, mhist>>

Call ==
  \/ SbsGet
  \/ SbsGetFails
  \/ \E n \in 1..2 : SbsPush("rr", 0, n) \/ \E i \in Threads : SbsPush("direct", i, n)
  \/ \E k \in 1..2 : CpsPop("popsome", k)
  \/ CpsPop("popall", 2)
  \/ CpsAck
  \/ \E op \in DOMAIN Desire : Control(op)

Proceed ==
  \/ PushEnqueues \/ PushIsRefused
  \/ PopFinds \/ PopFindsNone
  \/ Tell \/ ControlReturns

Next ==
  \/ Call
  \/ Proceed
  \/ \E i \in Threads : Worker(i) \/ IsCancelled(i)

Spec == Init /\ [][Next]_vars

(* Threads are scheduled, requests complete sooner or later, and main goes *)
(* through with a call it has begun.                                       *)
(* The first worker of a pool always starts, and alone in the pools looked *)
(* at here.                                                                *)
FairSpec ==
  /\ Spec
  /\ WF_vars(Proceed)
  /\ \A i \in {0} :
       /\ WF_vars(Rest(i))
       /\ SF_vars(\E word \in ring[i] : Drains(i, word))

-----------------------------------------------------------------------------
(* Properties.                                                             *)

States == {"ACTIVE", "PAUSED", "JOINED", "STOPPED", "CANCELLED"}

TypeOK ==
  /\ \A i \in Threads :
       /\ submission[i] \in Seq(Jobs) /\ Len(submission[i]) <= PerThread
       /\ completion[i] \in Seq(Jobs) /\ Len(completion[i]) <= PerThread
       /\ {desired[i], current[i]} \subseteq States
       /\ wpc[i] \in {"drain", "ACTIVE", "PAUSED", "select", "sleep", "run",
                      "complete", "exit", "gone"}
       /\ wjob[i] \in Jobs \cup {0}
       /\ running[i] \in 0..greens[i]
       /\ greens[i] \in 0..PerThread
       /\ ready[i] \in Seq(1..greens[i])
       /\ gjob[i] \in [Greens -> Jobs \cup {0}]
  /\ mpc \in {"idle", "push", "pop", "control"}
  /\ mi \in 0..N /\ rr \in Threads /\ left \in Nat
  /\ mpc \in {"push", "pop"} => mi \in Threads /\ left # 0
  /\ mpc = "push" => left <= Len(mine)
  /\ fresh \in 0..N * PerThread
  /\ ToSet(free) \cup ToSet(mine) \cup ToSet(taken) \subseteq 1..fresh

(* A green thread that is not done is in exactly one place: it runs, it is *)
(* ready, or the ring has its operation.  So it is never resumed twice, and*)
(* never before its own operation is complete, whatever becomes of the     *)
(* timeout beside it (gtpoolrr_worker 125-141, greent_do_submit 303-328).  *)
Primary(g) == greent_pack(g, FALSE, FALSE, FALSE)
Times(x, s) == Cardinality({k \in DOMAIN s : s[k] = x})
Places(i, g) ==
  (IF running[i] = g THEN 1 ELSE 0) + Times(g, ready[i])
    + (IF Primary(g) \in ring[i] THEN 1 ELSE 0)
OnePlace ==
  \A i \in Threads, g \in Greens : Places(i, g) = IF g \in Live(i) THEN 1 ELSE 0

(* Where job j is: in a list of main or in a queue, in the stack frame of a*)
(* green thread that is not done, or ended and about to be reported.       *)
At(s, j) == {k \in DOMAIN s : s[k] = j}
JobPlaces(j) ==
  ({"free"} \X {0} \X At(free, j))
    \cup ({"mine"} \X {0} \X At(mine, j))
    \cup ({"taken"} \X {0} \X At(taken, j))
    \cup (UNION {{"submission"} \X {i} \X At(submission[i], j) : i \in Threads})
    \cup (UNION {{"completion"} \X {i} \X At(completion[i], j) : i \in Threads})
    \cup (UNION {{"green"} \X {i} \X {g \in Live(i) : gjob[i][g] = j} : i \in Threads})
    \cup ({"ended"} \X {i \in Threads : ended[i] = j} \X {0})

(* Until a worker reports another job than the one that ended, every job   *)
(* that was given out is in exactly one place: none is lost, reported or   *)
(* given out twice, however the green threads of a worker, the workers and *)
(* main go on (gtpoolrr_worker 184-231, sbs_get to cps_ack).  After the    *)
(* first wrong report one job is reported twice and the other never; that  *)
(* there is such a report is what CompletedHasRun shows.                   *)
JobsInOnePlace ==
  ~dead /\ ~misreported =>
    \A j \in Jobs : Cardinality(JobPlaces(j)) = IF j <= fresh THEN 1 ELSE 0

(* While no job of any worker began before the worker's last one ended,    *)
(* each result is that of a job which has returned or has timed out.  (With*)
(* two jobs under way it is not: see CompletedHasRun.  One job is then     *)
(* reported twice and the other never, and main gives the first out again  *)
(* while another worker has it.)                                           *)
HonestUnlessOverlapped ==
  (\A i \in Threads : ~overlapped[i]) =>
    \A i \in Threads : \A k \in DOMAIN completion[i] :
      job[completion[i][k]].ret # job[completion[i][k]].timeout

(* Get one completed job back: what cps_pop would return has returned from *)
(* its function, or has timed out (gtpoolrr.h:270).                        *)
CompletedHasRun ==
  \A i \in Threads : \A k \in DOMAIN completion[i] :
    job[completion[i][k]].ret \/ job[completion[i][k]].timeout

(* A worker that leaves because of join leaves no job in its queue and no  *)
(* green thread that could run (gtpoolrr_worker 154-164).  It does leave   *)
(* the green threads whose operation the ring still has, and their jobs:   *)
(* the test of 157-159 does not ask for them.  So join keeps this, and not *)
(* what gtpoolrr.h says of it: "Wait for thread pool to finish all jobs"   *)
(* (176), "perform all its current assigned jobs" (52).                    *)
JoinLeavesOnlyIO ==
  \A i \in Threads :
    ~stopped /\ current[i] = "JOINED" =>
      /\ submission[i] = <<>>
      /\ \A g \in Live(i) : Primary(g) \in ring[i]

(* When stop_safe or join has returned no worker touches the pool, unless  *)
(* stop_unsafe was called before (gtpoolrr_stop_safe 508-524, the          *)
(* destructor 66-75).                                                      *)
StoppedIsQuiet ==
  stopped /\ killed = {} => \A i \in Threads : wpc[i] = "gone"

(* The assertions fail, and sbs_get writes through NULL, only when a limit *)
(* of the pool was passed: a worker was given more jobs than it has green  *)
(* threads, its results were left in a full queue, or all the jobs of the  *)
(* pool are out.  The queue of ready threads does not overflow.            *)
OnlyLimitsKill ==
  dead =>
    \/ \E i \in Threads :
         wpc[i] = "run" /\ running[i] = 0 /\ greens[i] = PerThread
    \/ \E i \in Threads :
         wpc[i] = "drain" /\ ended[i] # 0 /\ Len(completion[i]) = PerThread
    \/ fresh = N * PerThread /\ free = <<>>

Broken == dead \/ killed # {} \/ unborn # {}

(* What was pushed gets done, in whatever order, unless a worker is told   *)
(* to hold off or to end, which resume does not undo (gtpoolrr_worker      *)
(* 119-232).                                                               *)
AllDone == \A i \in Threads : submission[i] = <<>> /\ Live(i) = {}
HeldOff == stopped \/ \E i \in Threads : desired[i] # "ACTIVE"
WorkGetsDone == ~AllDone ~> (AllDone \/ HeldOff \/ Broken)

(* stop_safe and join come back, though green threads wait for operations, *)
(* when every worker has started and stop_unsafe was not used.             *)
EndsReturn == mop \in {"stop", "join"} ~> (mop = "none" \/ Broken)
=============================================================================
