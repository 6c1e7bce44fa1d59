# A verification project for dert

dert is a C library of data structures and of the concurrency primitives
that two thread pools are built from.  This directory holds TLA+ models of the
library, the TLC runs that check them, and TLAPS proofs for every value of the
constants.

1. [The system](#1-the-system): inventory
2. [Modules](#2-modules): what is modelled, and how it corresponds to the code
3. [Runs](#3-runs): what TLC checks, bounds, fairness
4. [Proofs](#4-proofs)
5. [Where the code and what is said about it differ](#5-findings)
6. [Not modelled](#6-not-modelled)
7. [Plan](#7-plan)

## 1. The system

### Concurrent core

| Component | State | Operations | Interacts with | What is hard | What must hold |
|---|---|---|---|---|---|
| **Aqueue** `aqueue.c` | ring `elems`, private `front` and `back`, atomic `len` | enqueue, dequeue, front, front_direct, enqueue_some, dequeue_some, init, deinit | one producer thread, one consumer thread; both pools | one side acts on a `len` that the other changes; runs that wrap; indices left unwrapped by the `_some` calls; len published after the copy | linearizable bounded queue, no slot read while written |
| **Tpoolrr** `tpoolrr.c` | per thread: submission and completion Aqueue, desired and current state, mutex, condition variable; `rr_index`, `stopped` | jobs_add, addall, assign; pause, resume, stop_safe, stop_unsafe, join, deinit; completions_pop, popsome, popall; counting calls; the worker loop | Aqueue, pthreads, the user's job functions | signal against wait; state read before the unlock and used after it; full queues; control calls while jobs run; calls on a pool that is already stopped | no job lost, repeated or misreported; no lost wakeup; a stopped pool is quiet; calls come back |
| **Fmutex** `fmutex.c` | atomic word `locked` | lock, unlock, init, deinit | `futex(2)`; Fsemaphore | unlock between the failed swap and FUTEX_WAIT; EINTR, EAGAIN, spurious wakeups | one owner; no lost wakeup |
| **Fsemaphore** `fsemaphore.c` | atomic `counter`, `max`, an Fmutex | wait, post, reset, exhaust, init(v), deinit(v) | Fmutex, `futex(2)` | post between a waiter's unlock and its FUTEX_WAIT; one post, many waiters; interrupted waiters | counter within 0..max, no lost post |
| **Mpscqueue** `mpscqueue.c` | ring, `front`, `back`, atomic `len`, a producer mutex | enqueue, dequeue, front | many producers, one consumer | room found by one producer and used by another; every path must give the mutex back | linearizable bounded queue, enqueue returns |
| **Gtpoolrr** `gtpoolrr.c` | per thread: submission and completion Aqueue, desired and current state, a pool of green threads, a queue of ready ones, an io_uring; a pool of job records; `rr_index`, `stopped` | sbs_get and sbs_set, sbs_push (round robin or to one thread), pushall; cps_pop, popsome, popall, cps_ack; pause, resume, stop_safe, stop_unsafe, join; the worker loop | Aqueue, Vpool, Vqueue, Greent, io_uring | jobs that yield in the middle and complete out of order; exits while I/O is in flight; pools that run out; states that nothing but their atomicity guards | a green thread runs once per completed operation; every job that ends is reported once, as itself; a stopped pool is quiet |
| **Greent** `greent.c`, `greent_asm.S` | registers, stack and request of a green thread | root, yield, resume, the do_* operations, submit, pack and unpack of the ring's user data | Gtpoolrr, io_uring | an operation and its timeout come back as two completions | a thread is resumed once per operation |

### Sequential structures

They keep no lock and are used by one thread at a time.

| Component | State | Operations | What is hard | What must hold |
|---|---|---|---|---|
| **Vpool** | chunks of elements, a stack of returned ones threaded through the elements | alloc, dealloc, guided_extend; growth of the DYNAMIC kind | growth swaps the headers of chunks while elements are in use | an element has one user; none is lost |
| **Vqueue** | a ring of fixed size, indices that may be left unwrapped | enqueue, dequeue, several at once, front, back, each enqueue with or without overwriting | a batch longer than the room or than the ring | a bounded queue that drops its oldest |
| **Vht** | open-addressed table of keys and values | set, get, del, double, iterate | deletion leaves a hole in a probe sequence; growth rehashes; an iterator keeps an offset | a finite map |
| **Vdll** | nodes linked in two directions, a cursor with a position, no pointer to either end | insert, grow, delete, shrink, seek, get, set | runs in the middle and past the end; memory that runs out in the middle of an insertion | a sequence |
| **Varray** | a block, a capacity, a length | resize, realloc, get, set | three numbers that change in different ways | what get accepts is in the block |
| **Varena** | top and bottom of the frame in use; records of the frames below in the arena itself | claim, disclaim, alloc | sizes that wrap; records beside user data | blocks and records lie apart |
| **Vstack** | a stack of fixed size | push, pop, top | | last in, first out |
| **Tree** `tree_T.c` and its **iterators** | a binary search tree with parent links, nodes from an array; an iterator is the next node and no stack | insert, delete, update, their `_many` forms, lookup, lookup_range; walks in preorder, in-order, postorder and breadth-first | a deletion moves subtrees; iterators find their way by links alone | ordered, links agree, a multiset; each walk its order |
| **Fqueue** | bytes between a read and a write cursor | enqueue, dequeue, exchange, fold_down, fenqueue, fdequeue, rewinds | short reads and writes; only folding reclaims room | bytes leave in the order they came in |
| **Tbuf** | two halves of one memory and their fill | swap, writes by the users | offsets and fills must swap together | each goes on where it was left |
| **tld, cstring, pointerarith, shorttype** | none | helpers on strings and pointers | | |
| **Vslab** | only declared (`header/vslab.h`, `header/vslab_priv.h`) | | | |

### How the pieces meet in a pool

In *Tpoolrr*, main enqueues a job on the submission queue of a thread, takes
that thread's mutex, signals its condition variable and unlocks.  The worker,
under the same mutex, looks at its desired state and at the length of its queue;
it sleeps, leaves, or unlocks and then takes a job, runs it and enqueues the
result on its completion queue, which only main empties.  Pause, resume, stop
and join only write the desired state and signal.  Nothing else is shared: the
correctness of the pool rests on Aqueue being a queue when its two ends run
concurrently and on the order of enqueue, lock, signal against length, wait.

In *Gtpoolrr* there is no mutex: the worker polls.  Each round it drains the
completions of its ring into its ready queue, reads its desired state, and
resumes a green thread or starts a job in a new one.  A job that asks for an
operation is put aside until its completion is drained.  Stop and join poll the
current state, which a destructor of the thread writes last.

## 2. Modules

| Module | Models | Depends on |
|---|---|---|
| `Fifo` | the promise of a bounded queue with one step per call | |
| `Aqueue` | `aqueue.c`, implements `Fifo` | `Fifo` |
| `Mpscqueue` | `mpscqueue.c`, implements `Fifo` | `Fifo` |
| `Tpoolrr` | `tpoolrr.c` | queues abstracted, see below |
| `Fmutex` | `fmutex.c` | |
| `Fsemaphore` | `fsemaphore.c` | `Fmutex` |
| `Greent` | the tagged words and requests of `greent.c` | |
| `Gtpoolrr` | `gtpoolrr.c` with its green threads and rings | `Greent`; queues abstracted |
| `Vpool`, `Vqueue`, `Vstack`, `Vht`, `Vdll`, `Varray`, `Varena`, `Fqueue`, `Tbuf`, `Tree` | the file of the same name (`tree_T.c`) | `Null` |
| `TreeIterator` | `tree_iterator*.c` | `Tree` |
| `Null` | the null pointer they share | |
| `AqueueProofs`, `MpscqueueProofs`, `TpoolrrProofs`, `FmutexProofs`, `FsemaphoreProofs`, `GtpoolrrProofs`, `TreeProofs` | theorems about the module of that name (`TreeProofs`: about `TreeIterator` too) | that module |
| `StructuresProofs` | theorems about `Tbuf`, `Vstack`, `Vpool`, `Fqueue`, `Varena`, `Varray`, `Vqueue`, `Vdll` and `Vht` | those |

`MC*.tla` gives the constants their values for TLC; `MCStructures` puts the
sequential structures side by side.  Operators whose comment begins with
*Mutant* are not part of a model: each is a deliberately wrong form of the
operator after it, and substituting it must make a property fail.  They show
that the properties can fail.

**What a step is.** In the concurrent modules a step is what another thread can
tell apart: an atomic load, an atomic update, a copy, a system call, taking a
mutex, or a whole critical section when everything it touches is guarded.  In
the sequential modules a step is a call.

**History variables** (`added`, `runs`, `popped`, `ended`, `misreported`, `overlapped`,
`vht_map`, `varena_held` and their like) record what happened.  They are read by
properties and bounds only and never decide what the modelled code does, with
one exception: some structures stop being used once the history says that the
code has done what the documented excuse of a property names (section 5), since
nothing is promised after that.

**Aqueue.** A call is a load of `len`, a copy that also moves the caller's own
index, and a change of `len`.  `EnqueueLoad` and `EnqueueSomeLoad` are the load
with the checks after it, `EnqueueCopy` the two `memcpy`s (`CopyIn` is written
by slot: the run goes to the end of `elems` and continues at slot 0),
`EnqueuePublish` the `fetch_add`.  The consumer mirrors it.  `Advance` keeps a
detail of the code: the single calls wrap their index, the `_some` calls do not.
Refinement: `F!queue` is `Queued`, the `len` slots that start where the
consumer's unreleased elements start, so enqueue takes effect with the
`fetch_add`, dequeue with the `fetch_sub`.

**Tpoolrr.** `wpc[i]` is where worker `i` is and `mpc` where main is.

| `wpc` | in `tpoolrr_worker` |
|---|---|
| `lock`, `check` | before and after `pthread_mutex_lock` (374); `Decide` is the switch on the desired state with the write of the current one |
| `wait`, `asleep`, `woken` | committed to `pthread_cond_wait`, in it, and taking the mutex again |
| `dequeue`, `start`, `running` | past the unlock; with a job, before its function; in its function |
| `exited` | out of the loop |

Main is `idle` or inside one call `mop`: `scan`, `addlock`, `addsignal` in
`_tpoolrr_jobs_add`; `ctl`, `ctlset`, `ctlsignal`, `ctljoin` in the control
calls, once per thread; `pop` in the completion calls.  Each round of a
scan is a step, because the queues move under it.  Two details are kept as they
are: the add scan runs from 0 to `threads_total` *inclusive*, and `popsome` uses
`at_most` as the number of queues.  `gone` is after `deinit`, `aborted` is the
failed assertion in `jobs_assign`.

The queues of both pools are sequences with atomic calls.  That is what
`AqueueProofs!RingImplementsFifo` buys: a ring that refines `Fifo` may be
replaced by it, since each queue of a pool has one producer and one consumer.

**Fmutex, Fsemaphore.** Each atomic instruction and each futex call is a step.
`expected` is the local variable of `fmutex_lock`; that it survives a failed swap
is the point of a finding.  `Fsemaphore` takes `Fmutex` as it is, on its own
variables, as `M`.  Since that mutex does not exclude (section 5), the history
variable `excluded` records whether it ever had two owners, and `interrupted`
whether a waiter has left `fmutex_lock` with `EINTR`.  Two parts of
`SemaphoreInv` are about the semaphore's own logic: `CounterInBounds` assumes
that the mutex excluded, `NoLostPost` also that no waiter was interrupted.
Between the test and the update of the counter there is a step, so that the
interleaving can happen.  `FUTEX_WAIT` may end without a wake, and, if
`Signals`, with `EINTR`.

**Mpscqueue.** As Aqueue, with `holder` for the producer mutex.  The way out of
a full queue leaves `holder` as it is, as the code does.

**Gtpoolrr.** `wpc[i]` follows the loop of `gtpoolrr_worker`:

| `wpc` | in `gtpoolrr_worker` |
|---|---|
| `drain` | the top of the loop: `Drains` takes one of the completions the kernel may have posted, in any order, and appends its green thread to `ready`, again and again; `Decides` ends that and reads the desired state |
| `ACTIVE`, `PAUSED` | that state was read and is about to be written to the current one |
| `select` | `Resumes` the thread that yielded with NOP or the first ready one, `StartsJob`, `ExpiresJob`, or `Sleeps` |
| `sleep` | in `usleep` |
| `run` | in a green thread, until it `Yields` an operation or `Returns` |
| `complete` | about to enqueue on the completion queue |
| `exit`, `gone` | leaving, and after the destructor has written the current state |

A green thread is a number, its address a multiple of 8; `greent_pack` and
`greent_unpack` put the three tag bits in and take them out, so that a wrong tag
would show.  `ring[i]` are the requests the kernel works on; a timed operation
is two of them.  `wjob[i]` is the *local* variable of the worker loop.  It lives
in the frame of the worker, not of a green thread, and is what `Completes`
reports; `gjob[i][g]` is the job in the frame of green thread `g`, which
`Returns` writes the result to.  That they may differ is a finding.  Main is
`idle` or in a `push`, `pop` or `control` call with its loop indices.  `unborn`
are the threads whose `io_uring_queue_init` fails: they are `gone` with the
current state ACTIVE.  `dead` is a failed assertion or a write through NULL,
after which nothing happens; `killed` are the threads cancelled by
`stop_unsafe`.

**The structures.** Each has a variable that is `NULL` or a record of the fields
of its `struct`, and an action for each call that changes it.  Calls that change
nothing are operators (`tree_lookup`, `vht_get_direct`, `VqueueFront`,
`vqueue_back_direct`) that the properties use.  What the elements hold is left
out where no property could tell: a node of Vdll is its own contents, Varray is
its three numbers.  Loops are folds or recursive functions.  Memory is modelled
where it is the point: Vpool's chunks and the stack of free elements, the
records Varena keeps among user data, Vdll's allocations that may fail at any
node.  Where the code follows a null pointer or uses freed memory the state says
so (`crashed`, `freed`, `stuck`) and the structure is not used any more.

## 3. Runs

| Run | Instance | Shows |
|---|---|---|
| `aqueue` | 3 slots, batches up to 2, two elements | every interleaving keeps `IInv` and refines `Fifo` |
| `tpoolrr` | 2 workers, queues of 1, 3 jobs of which one may expire, 1 control call | the inductive invariant `PoolInv`; a job is at one place (`Conservation`); `HonestResults`; `JoinRunsAll` |
| `tpoolrr_live` | 1 worker, queues of 2, 3 jobs, 2 control calls | `ThreadOrder`, `SleepIsJustified`, `AtMostOneLateStart`, `StoppedIsQuiet`; work gets done, calls return, `popall` returns unless a result was dropped |
| `fmutex` | 3 threads with signals | no lost wakeup and a locked word has an owner (`MutexInv`); `SomeoneGetsIt` |
| `fsemaphore` | 3 threads, max 2, start 1, with signals | no lost post, counter in bounds (`SemaphoreInv`) |
| `mpscqueue` | 2 producers, 2 slots, 2 elements | `ProducersInv`, refines `Fifo` |
| `gtpoolrr` | 1 worker with 2 green threads, and 2 workers of which one never starts; NOP, READ and READ with a timeout; 2 pushes, 2 control calls | a green thread is at one place; a job is at one place, until a worker reports another than the one that ended; honest reports while jobs do not overlap; what join and stop leave; which limits kill; work gets done and ends return |
| `structures` | one structure at a time, see below | for each, the property of its module |
| `tpoolrr_assign`, `fmutex_exclusion`, `mpscqueue_returns`, `gtpoolrr_reports` | small instances | violations, section 5 |

**Bounds, and why they are enough.**

- Aqueue: capacity 3 with batches of 2 gives full, empty, partial and wrapping
  runs with every offset.  `IndexBound` caps the indices that the `_some` calls
  leave unwrapped; in the code the bound is 2^64, where a wrap of `size_t`
  would move the index unless the capacity is a power of two.  A `_some` call is
  not started past the bound.  The proofs are for every bound.
- Tpoolrr: `MaxJobs` caps the jobs ever added, `MaxControl` the control calls.
  With queues of one job, two jobs fill a submission queue with one in hand and
  three overflow a completion queue.  Two workers suffice for everything that
  goes through the round-robin index.  The second run has two control calls,
  every pair of pause, resume, stop, join, deinit, on a stopped pool too, and
  one worker, since the calls of main treat threads one after the other and no
  worker waits for another; its queues hold two, since order cannot fail with
  one.  A job is its number in the order of submission; of the data only expiry
  matters, which is a set: a job in `Expiring` may or may not have expired when
  it is looked at.
- Fmutex, Fsemaphore: three threads are an owner, a sleeper and one in between.
  `Width` (2^64 in the code) is 4, enough for a counter that wraps below 0 to be
  told from one within its bounds.
- Gtpoolrr: `MaxPushes` caps the jobs pushed, `MaxOps` the operations one green
  thread asks for, `MaxControl` the control calls.  Two jobs on one worker are
  what it takes to overlap, to be ready at once, to complete out of order, and
  to use up its green threads when `PerThread` is one.  With two operations a
  green thread is put aside again while the timeout of its first one is still in
  the ring.  `MCPools` has a pool whose second thread is `unborn`, for the calls
  that wait for it.  `stop_unsafe`, after which little is promised, is the only
  control call of its behaviour, of which `Control` tells.
- structures: `turn` names the one structure in use, so that the run is the sum
  of the state spaces and not their product.  Vpool: up to 4 elements in up to
  four chunks, so growth and several extensions while elements of older chunks
  are free or held.  Vqueue: rings of 2
  and 3, batches up to 4, which is longer than either, and a word of 6 values so
  that indices wrap there too.  Vht: three keys, two of which start at the same
  slot with the same step and one that crosses them; a table of 4 that grows to
  16 with the keys in it.  A growth that finds no memory does not happen within
  these bounds.  Vdll: four nodes, positions up
  to 3, which is past the end of every shorter list.  Varena: room for four
  records, words of 32 values with sizes near the largest.  Fqueue: buffers of 3
  bytes, an input of 4.  Tree: 5 nodes, three values of which 0 is also what a
  zeroed node holds, sorted batches of 2 and 5.
- `CHECK_DEADLOCK FALSE` in the runs of the pools because a pool after `deinit`
  (Tpoolrr) or after a failed assertion (Gtpoolrr) stops by design, and in
  `structures` because a stuck iterator does.  All other runs check for deadlock.

**Fairness.** In *Tpoolrr* worker steps are weakly fair: the scheduler runs
threads, and job functions return.  Main's progress inside a call is weakly
fair; that main makes a call is not assumed.  Main taking a worker's mutex has
strong fairness: a worker that wakes spuriously for ever takes and frees its
mutex infinitely often, and a mutex that let main starve against it would be a
defect of the platform, not of this code.  Spurious wakeups are never fair, so
nothing may rely on them.  In *Fmutex* an owner eventually unlocks; locking is
not assumed.  In *Gtpoolrr* the steps of the worker that started are weakly fair,
and so is main inside a call.  `Drains` of something that the ring holds is
strongly fair: operations complete sooner or later (a timed one at the latest by
its timeout), and the worker comes to the top of its loop again and again.

**Liveness.** `PopallReturns` is conditional on no result having been dropped:
the pool drops a result when a completion queue is full, with a log line only
(tpoolrr.c 461-465), and then `popall` may poll for ever.  `WorkGetsDone` and
`EndsReturn` of Gtpoolrr are conditional on no assertion having failed, no
thread having been cancelled and every worker having started.  The bound
`MaxOps` hides one kind of starvation: a job that yields with NOP for ever is
resumed at once, before any other green thread and before any submission.

## 4. Proofs

Every theorem is for all values of the constants that satisfy the named
assumption of its module, and of what the theorem itself assumes.

| Module | Theorem | States |
|---|---|---|
| `AqueueProofs` | `InvariantHolds` | `Spec => []IInv` |
| | `TypeCorrect`, `RingCorrect` | its halves `TypeOK` and `RingInv` |
| | `NeverOverwrites` | `Spec => []NoOverwrite` |
| | `RingImplementsFifo` | `Spec => ImplementsFifo` |
| `TpoolrrProofs` | `PoolCorrect` | `Spec => []PoolInv` |
| | `PoolTypeCorrect`, `PoolMutexHeld`, `WorkersFindJobs`, `StatesAreHonest` | `TypeOK`, `MutexHeld`, `NeverEmptyHanded`, `InactiveIsIdle` |
| | `NoWakeupIsLost`, `LateStartsBounded`, `StoppedPoolIsQuiet` | `SleepIsJustified`, `AtMostOneLateStart`, `StoppedIsQuiet` |
| | `JoinLeavesNothing` | `Spec => JoinRunsAll` |
| | `JobsAreConserved`, `ResultsAreHonest`, `ThreadsKeepOrder` | `Conservation`, `HonestResults`, `ThreadOrder` |
| `FmutexProofs` | `MutexCorrect`, `LockedByOwner`, `WakeupsArrive` | `MutexInv`, and its parts `LockedHasOwner`, `NoLostWakeup` |
| `FsemaphoreProofs` | `SemaphoreCorrect` | `Spec => []SemaphoreInv`, for a finite `Thread` and `Val <= Max` |
| `MpscqueueProofs` | `ProducersCorrect`, `NothingOverwritten` | `ProducersInv`, `NoOverwrite` |
| | `MpscImplementsFifo` | `Spec => ImplementsFifo` |
| `GtpoolrrProofs` | `TypesHold`, `GreenThreadsHaveOnePlace`, `AssertionsAreLimits` | `TypeOK`, `OnePlace`, `OnlyLimitsKill` |
| | `JobsAreInOnePlace`, `ResultsAreHonest` | `JobsInOnePlace`, `HonestUnlessOverlapped` |
| | `StoppedPoolIsQuiet`, `JoinedWorkersAreIdle` | `StoppedIsQuiet`, `JoinLeavesOnlyIO` |
| `StructuresProofs` | `TbufWritersGoOn` | `TbufSpec => []TbufGoesOn`, if `NULL` is no buffer |
| | `VstackIsLifo` | `VstackSpec => []VstackLifo`, if there is something to push and `NULL` is no stack |
| | `VpoolIsSound` | `VpoolSpec => []VpoolOneUser` |
| | `FqueueKeepsOrder` | `FqueueSpec => []FqueueConserves`, if `NULL` is no pair of queues |
| | `VarenaLiesApart` | `VarenaSpec => []VarenaApart`, if `NULL` is no arena |
| | `VarrayStaysInBounds` | `VarraySpec => []VarrayInBounds`, if `NULL` is no array |
| | `VqueueKeepsPromise` | `VqueueSpec => VqueuePromise` |
| | `VdllStaysLinked`, `VdllMovesNoOther` | `VdllSpec => []VdllLinked`, `VdllSpec => VdllEdits` |
| | `VhtStaysMap`, `VhtIteratesAll` | `VhtSpec => []VhtIsMap`, `VhtSpec => VhtIterationCovers`, if `NULL` is neither a table nor an iterator |
| `TreeProofs` | `TreeStaysWhole` | `TreeSpec => []TreeHolds` |
| | `TreeIteratesThrough` | `TreeIteratorSpec => []TreeIterates` |

**Aqueue.** The inductive invariant is `IInv == TypeOK /\ RingInv`.  `TypeOK` alone
is not inductive: `len <= Cap` holds at a publish only because the room the
producer found cannot shrink (`RoomKept`), and `len >= 0` at a release only because
the data the consumer found cannot go (`DataKept`).  `NoOverwrite` follows from
`IndicesAgree`: the producer's slots begin where the queued ones end, and
together they are at most `Cap`, so they are distinct slots of one lap
(`SlotInjective`).  The refinement also needs `SlotsFilled` and `CopyIsFront`:
what a publish makes visible is what was copied in, and what a release hands
over is still the front.  The lemmas about slots (`WrapAdvance`, `SlotOfSlot`,
`SlotBackForth`, `CopyInAt`) are about the arithmetic of one ring lap; the one on
remainders is what makes an unwrapped index harmless below the bound.

**Mpscqueue.** The same argument with one more part, `HolderAgrees`: who is
between its lock and its unlock is the holder, so the room a producer found is
still there when it copies.  A producer that kept the mutex only makes the
others wait, which no safety property minds.

**Tpoolrr.** `PoolInv` is the conjunction of the properties listed and of four
facts that make them inductive.  `LocalsFit`: the loop index of a call is a
thread's wherever it is used.  `WorkerFits`: a worker that has been told to end is
not committed to the wait, which is why a signal sent after the unlock (868, 942)
still finds it asleep or not going to sleep at all; and a worker between its check
and the start of its job has started none against orders.  `EndedSoFar`: an ending
call leaves only exited threads behind its index, the step from one thread to
`StoppedIsQuiet`.  `JoinFits`: the thread that join waits for leaves by the
`JOINED` exit, which looks at the queue.  The properties depend on each other:
`SleepIsJustified` needs `MutexHeld` when main signals (a worker between its look
at the queue and its sleep holds the mutex, so main does not), and
`InactiveIsIdle` when an ending call passes over a thread by its current state
alone.  The proof has one lemma for each action, and under it a step for each
part the action can disturb.

For the jobs the proof goes on from `PoolInv` with `JobsInv`.  `OrderInv`: the jobs of
a thread lie along its submission queue, its hand and its completion queue in
increasing order.  `PlacesInv`: a job is with one thread, or out (handed over or
dropped) and then with none and once only, and the jobs that are somewhere are
the ones that were added.  `NotYetRun`: a job that was not added was not run.
`HonestResults` then needs that a result in a completion queue is that of the
job beside it, which is preserved because `NeverEmptyHanded` makes the worker's
job the one it dequeued.

**Fmutex.** `MutexInv` is inductive as it stands.  Mutual exclusion is not among
it, since it does not hold; what is proved is what remains true with several
owners: only an owner resets the word, and a thread that sleeps beside a free
word is about to be woken.

**Fsemaphore.** `NoLostPost` says that nobody sleeps beside units while nobody is
about to wake him, and a post wakes only one.  It is made inductive by
`WakersSuffice`, which counts: the units of the counter are no more than the
threads that are awake and on their way to take one, and the wakes that the
holder of the mutex still owes; unless nobody sleeps.  `HoldersOwn` places the
holder of the mutex, and `CounterAgrees` relates the local decision of the
holder to the counter, as long as the mutex excluded.  The count is over a set
of threads, which must be finite.

**Gtpoolrr.** The state is a product of parts that hardly look at each other, and
so is the invariant `Inv`; each part has a lemma for the steps of a worker and one
for those of main.

- `EndsInv`: a worker has a job that has ended and is not reported exactly when it is
  at `complete`.
- `GreenInv`: the green threads of a worker that are not done are shared out
  between `running`, the ready list and the ring.  `Settled` says it of the values
  (who runs, who is ready, which words are in the ring, who is done), so that one
  lemma about values serves every action that moves a green thread.  A timeout
  that is still in the ring after its operation completed is why a word in the
  ring need not stand for a live green thread.  That no tag is mistaken is
  `WordsTell`.  `OnePlace` follows, and `OnlyLimitsKill`, as a ready list without
  repetition of threads the worker has is no longer than there are such threads.
- `QuietInv`, for `StoppedIsQuiet`.  `FinalIsGone`: without `stop_unsafe` a current
  state is final only after the destructor has written it.  `PassedIsFinal`: a
  stop or join that has passed thread *i* saw it final, and it is so still.
  `CancelKills` and `CallsAreCalls` are what is known of a call in its middle.
- `AllLeave`, for `JoinLeavesOnlyIO`: a worker leaves for `JOINED` only from a look at
  a ready list and a submission queue that are empty, with nobody running; what
  is left of its green threads is then in the ring, by `GreenInv`.
- `HonestInv`: until a worker reports another job than the one that ended
  (`misreported`), there is a function `at` from jobs to spots (`Placed`): each list
  and queue holds, without repetition, the jobs of its spot, the green threads of
  a worker that are not done run those of theirs, each another one, and a job that
  has ended is the only one of its spot.  `JobsInOnePlace`, which counts places,
  follows: one spot has one place for a job.  It could not be kept by itself, as a
  step about one list has to leave the count of every other alone.  `HonestInv` also
  says what the record of a job tells at each spot (`Fits`).
- `SerialInv`: while no worker began a job before its last one ended, a worker has at
  most one green thread, which runs the job of the worker's local variable
  (`OneByOne`), so that no report is of another.  With `HonestInv` this is
  `HonestUnlessOverlapped`.  The condition is that *no worker* overlapped, and not
  only the one whose queue is looked at: a job that is reported twice by one
  worker is given out again by main while the first report is still on its way
  through another.  A property that excused one worker at a time would be false.

**Structures.** Each property is strengthened with the types and with what is left
of the histories while there is no container.  Where a theorem assumes that the
value `NULL` is not itself a container it is because the logic cannot tell that by
itself.

- Vpool: for any number of chunks of any size.
- Fqueue: each byte of the reading queue is one more than the byte before it, and
  the cursors and the hand split the run from what was written to what was read;
  folding moves the run to the start of the buffer.
- Varena: there are numbers `ends[0] <= ... <= ends[m]` such that frame *k* lies from
  `ends[k-1]` to `ends[k]`, with its record at the upper end, and the blocks of
  a frame tile it from the bottom to its top (`VarenaTiled`, `VarenaFrames`).  A
  claim appends a number and a disclaim drops one.
- Varray: an array is within its capacity and its capacity is its block's, until
  the block is freed.
- Vqueue: `front` and `back` may have gone on beyond the capacity and round a
  `size_t`, and may differ in their laps; the invariant says only that `back` is
  `front + len` modulo the capacity.  Every call is then about slots (`VqueueSlot`),
  of which at most `cap` in a row are distinct.  The lemmas on remainders
  (`RemainderIsUnique` to `RemainderOfLess`) hold for every divisor.  Where a
  capacity does not divide the number of values of a `size_t`, an index that wraps
  there would lose its slot; the module's assumption leaves that out, as 2^64
  elements would have to go by, with no call for a single element among them.

**Vdll.** The invariant is that there is a sequence *s* of nodes whose links are the
list's (`VdllIs(d, s)`), or a null pointer was followed.  `VdllLinked` is not
inductive by itself: it speaks of the one sequence that a walk from the first
node finds, and a step is about positions in the middle.  Linking a node in or
out changes *s* by one place (`VdllChainPut`, `VdllChainTake`).  The loops are recursive
functions on an interval; that they are runs of their steps, and what holds
after *n* of these, is by `SetInduction`, induction over the numbers of a set, which
follows from the well-foundedness of `<`.  `VdllIsRun` is kept by every one of
these steps: what is in the longer sequence and not in the shorter is one run.
New nodes stay on one side of the cursor (`VdllLinksIs`).  While nodes are taken out
the run grows from the cursor back to the start and from there on (`VdllUnlinksIs`),
which is why a deletion ends at its position and does not begin there.  `VdllContentsAre` says that the walk finds *s*.

**Vht.** `VhtAsMap(t, map)`: every entry lies where the search for its key ends and
has the value of the map, and every key of the map has an entry.  What a search
finds follows at once (`VhtGets`); that calls keep it is about probe sequences.
Arithmetic first: a product of an odd number is a multiple of 2^n only if the other
factor is (`VhtSpreads`), so that cap steps of an odd length come to every slot once
(`VhtProbesDiffer`, `VhtProbesReach`).  This is the reason why the code makes the
step odd and the capacity a power of two (any from 2 to 16 to begin with, 16 in the
code), and it is used twice: a table that is
not full has a slot for every key (`VhtHasRoom`), and the salted walk of `vht_double`
passes no entry over.  Then paths: `VhtPath(t, key, x, i)` says that the search for
*key* ends at *x* after *i* steps, over slots that hold other keys.  A key put where
its own search ended makes no slot of another path empty (`VhtPutOthers`), and a
deletion that cuts nothing off empties a slot of none (`VhtWithoutAsMap`).  Growth is
a run of such puts (`VhtCarryKeeps`), each entry of the new table coming from one
of the old, so that the new `len` is at most the old one also when keys stand
twice in the old table (`VhtDoubleShape`).  Hence a set that grows finds room, and
the load of a quarter is inductive (`VhtLoad`).  For the iterator: a key that was
there all the time and lies below the offset was given (`VhtGave`), as entries do
not move unless the table grows.

**Tree.** `TreeHolds` looks at a tree from its root, and cannot be inductive: of nodes
that are not in the tree, and of links by which two subtrees would meet, it
says nothing.  `TreeInv` says that, while nothing went wrong, there is a *D* that
gives each node the nodes that hang at it (`TreeForest`: itself and, apart from
each other, what hangs at its children; of two nodes one hangs at the other, or they
share nothing), with smaller values to the left and the others to the right
(`TreeSorted`), that a node outside the tree has no links, that a child has its
parent as its parent, or itself (`TreeIs`), and that each value is held as often
as nodes below the root have it (`TreeHas`).  *D* is not in the model; each
operation is shown to leave another *D* behind.

- Links first, values after.  A subtree cut off at a node (`TreeCut`) and hung on at
  another that has room there (`TreeJoin`) makes a forest of a forest; left and
  right are alike, so each lemma is proved once.  A new leaf is such a join.
- An insertion goes down to a node with room on the side where the value belongs
  (`TreeParentFor`), and every node above agrees with that side (`TreeInserts`).
- A deletion of a node with two children puts the right one in its place with the
  left one as its left child; what hung there before goes below the rightmost end
  of the left one, where all its values are larger (`TreeRolled`).  Other nodes are
  replaced by the child they have (`TreeMovesTwo`, `TreeMovesOne`, `TreeUnlinksRoot`, `TreeUnlinksBelow`).
  `TreeSpot` says where the node is; the cases of `tree_reorder_move` in which it
  finds that out again from values and links are shown to agree with it, and the
  one in which it does not is the write through a null pointer of §5.
- The calls that take an array are runs of steps, by `SetInduction`.  That a batch
  of at most four values is put in as a permutation of it (`TreePositionsSmall`,
  `TreePicksAll`) is why `holds` counts right; for five or more sorted ones it is not
  so, which is the excuse.
- What the property says of walks and lookups: `TreeInduction`, from the leaves up,
  by the number of nodes that hang below.  The walk in order lists each node of *D*
  at the root once (`TreeWalkIs`), so its length is its cardinality and the values
  counted along it are those of the nodes (`TreeListedCounts`).  A lookup by range
  follows one link from each node, to the side where the range lies, and ends at the
  last node in the range on that way (`TreeLastOnIs`), which is the smallest, the
  largest or the first (`TreeRangeLast`).

**TreeIterator.** What an iterator hands out next is found by the links around one
node, and what `TreeIterates` says is about the walk of the whole tree.  Between the
two stands a list in which each node is followed by the one that the iterator goes to
(`TreePath`), and the inductive invariant (`TreeIteratorIs`) places the iterator in it.

- `TreeClimbIs`: the climb from a left child stays there, and that from a right child
  is that of its parent.  With it `TreePreWalk`, `TreeInWalk` and `TreePostWalk` show,
  from the leaves up by `TreeInduction`, that what hangs at a node is walked as such a
  list, and where the list ends: in preorder at a leaf whose climb is that of the node,
  or which sticks; in order at a node without a right child and with the same climb.
- `TreePreSteps`, `TreePostSteps`: a call goes to the next in the list, so that an
  iterator that began with the *j*-th node has handed out a run from there on
  (`TreeExactly`), all of it when it ends.  In preorder *j* is the first; in postorder
  `tree_iterator_init` goes only left, which can be past nodes, and is the first where
  every node has two children or none (`TreeFirstIs`).
- In order a call goes to a later node of the list (`TreeInSteps`), so that the order
  is kept (`TreeInLine`), and to the next one where every node has two children or none
  (`TreeInForked`).
- Breadth-first, the nodes handed out and those in the queue are one list without
  repetition (`TreeFan`), which has the children of every node handed out, side by side
  and in the order of their parents.  A list of different nodes is no longer than
  `max_nodes` (`TreeDistinctFit`), so that the queue always has room: the early end that
  `bfs_next` has for a full one is never taken.  With an empty queue the list is closed
  under children, and so is the whole tree (`TreeFanWhole`).

The proofs about the pools are about models in which a queue call is one step;
`RingImplementsFifo` is why those are models of the code.

**Only model-checked**: all liveness, for which the prover has no rules.

## 5. Findings

Each is a run that TLC ends with a counterexample.

1. `tpoolrr_assign`: `jobs_assign` is documented to give the job to every
   thread and to refuse when one of them has no room.  Its check asks
   for the free places of the whole pool.  With one thread full it gives two
   copies to the other and reports success.
2. `fmutex_exclusion`: a failed compare-and-swap leaves 1 in `expected`; the
   retry swaps 1 for 1 and a second thread owns the mutex.  (In Fsemaphore two
   waiters may then take the same last unit, and the counter wraps.)
3. `mpscqueue_returns`: an enqueue on a full queue returns with the mutex locked.
4. `gtpoolrr_reports`: with two jobs under way on one worker, the first to return
   is reported as the one that was taken last, which may still be running.

Met while modelling, without a run of their own.  Where a property would fail by
one of them it excuses exactly that case, or states what the code does instead of
what the header says, and its comment tells which.

- Tpoolrr: the assertion of `jobs_assign` (756) fails when the pool has room for
  some copies but not for all.  `popsome` compares with EBUSY where an empty
  queue is ENODATA (1060) and gives up at the first empty queue; it uses
  `at_most` as the number of queues (1050).
- Fmutex, Fsemaphore: `fmutex.h` says that `fmutex_unlock` fails on a mutex that is
  not locked; the code returns 0.  A woken waiter that leaves with EINTR takes
  the wakeup with it (fsemaphore.c 159).
- Gtpoolrr: `gtpoolrr.h` has join "Wait for thread pool to finish all jobs" (176), and a
  JOINED thread "perform all its current assigned jobs" (52).  A worker leaves for
  `JOINED` when nobody runs and its ready list and submission queue are empty
  (gtpoolrr.c 157-159), whatever its green threads wait for: join may return with
  jobs in the middle of an operation, which never end and are never reported.
  `JoinLeavesOnlyIO` states this much and no more.  Green threads are never given back, so that the assertion of 213
  fails at the job after the first `jobs_per_thread` of a worker; that of 231
  fails when the completion queue is full.  `sbs_get` clears the record before it
  looks whether it got one (612).  A round-robin push ends at the first full
  queue (405).  A job that yields with NOP only starves the others.  A worker
  whose `io_uring_queue_init` fails returns with its state ACTIVE (103), and stop
  and join poll for ever.  A worker may write ACTIVE over the CANCELLED that
  `stop_unsafe` wrote (536).  Resume after an end starts nobody.
- Vpool: the header's account of `vpool_full` (vpool.h 90) is not what it
  returns.  A chunk extended before it is full leaves the rest of it unused.
- Varena: `varena_frame_used` and `varena_frame_unused` are documented to count "across
  the whole arena" (varena.h 64-72, the same words as for `varena_arena_used` and
  `varena_arena_unused`); the code (76-93) counts the current frame only, so that
  with nested frames the two differ.  No property is about either.  A huge size, or
  an allocation with no frame, wraps and passes the test (170).
- Varray: `varray_resize` "does not reallocate memory" (varray.h 59), but beyond the
  capacity it calls `varray_realloc` (varray.c 111-112).  The length is then not the
  one asked for: `varray_grow` adds to `stored` what the *capacity* lacks (147, 162), so
  that an array of length 1 and capacity 3 resized to 5 has length 3.  A reallocation
  to a larger size adds to the length as well, and one to nothing frees the block
  and keeps the pointer (182).
- Tbuf: `tbuf.h` (24, 31) wants `A_len` and `B_len` below `cap`, "otherwise buffer
  overflow".  Nothing in the code checks it, the users of a buffer set these
  fields themselves, and a full buffer does not overflow; the model lets a buffer
  fill up to `cap`.
- Vht: a deletion cuts off the keys that had stepped over the slot (265).
- Tree: `num_nodes` is the "Current number of alive children in tree" (tree_T.h 43)
  and `tree_reap` is to put a node "back into the pool of unused nodes" (147), but
  `tree_reap` only clears it (tree_T.c 683-692) and nothing lowers `num_nodes`: it is
  the number ever harvested, and after `max_nodes` insertions the tree is full
  whatever was deleted.  A deletion may make a node its own parent (558-559); the deletion of a
  right child that has only a left one follows the null pointer beside that child
  (570-571) and crashes; the comment on
  `tree_update` (418) promises more than its delete and insert give, since
  deleted nodes do not return; a sorted batch of five or more goes in at wrong
  positions (241).  The preorder iterator does not return at a left child whose
  parent has no right one, and the in-order one passes over nodes of some
  shapes (93).
- Fqueue: a short `fread` loses bytes (208); `fdequeue` writes from the start of
  the buffer and forgets what it did not write (235).
- Vdll edits other elements than its header says.  `vdll_insert` is to shift the
  element at `pos` to after the new ones (vdll.h 73); the code puts them after it
  (vdll.c 252-257).  `vdll_delete` is to delete `pos` to `pos + num - 1` (76); the cursor
  goes back after each node (291-302), so that it deletes the run that *ends* at
  `pos`, or the first `num` of the list if there are fewer up to there.  `vdll_grow` is to
  add after the final element (79); it adds before it (242-250).  `vdll_shrink` is to
  remove the last ones (82); it deletes `num` at position `cap - num`, and these are the
  last ones only when `num` is 1 or all there are.  `VdllEdits` states where the code
  edits.  The undoing of an insertion that ran out of memory removes elements beside
  the new ones (233).

## 6. Not modelled

- Tpoolrr: `stop_unsafe` (cancellation at any point of a worker that may hold
  its mutex), the user handler, the counting calls (no state change), failures of
  pthread calls.
- Destruction of Aqueue, Mpscqueue, Fmutex, Fsemaphore and Gtpoolrr, which takes
  for granted that nobody uses them any more; and the memory layout computed by
  `fsemaphore_initv`.
- Gtpoolrr: the handler of users, tags, functions and arguments of jobs.  Greent:
  the switch of registers and stacks, which is assembly and is the change of
  control between steps here; the arguments of operations.  The kernel's side of
  io_uring is external: any request it holds may complete at any time.
- Memory order weaker than sequential consistency: the release and acquire pairs
  of the code order the copies against `len`; a step is atomic here.
- Tree: `tree_reorder_ror`, which nothing calls, and printing.  Edits of a tree
  under an iterator, about which the headers promise nothing.
- What comes after an excuse: a hash table after a cut keeps its length only
  (`vht_cut`), a file queue after a short transfer (`fqueue_odd`), an arena after
  a wrapped size (`varena_wild`), a tree after one of the cases above
  (`excused`), an array after it was freed.
- tld, cstring, pointerarith and shorttype, helpers on C strings, pointers and
  type names without a state of their own; Vslab, which has no implementation.

## 7. Plan

Done: the concurrent core and both pools, all sequential structures, and proofs
of every safety property.  What would come next, the most useful first:

1. `Tpoolrr`: `stop_unsafe`, with cancellation at each call that looks for it.
2. Edits of a tree under each kind of iterator.
