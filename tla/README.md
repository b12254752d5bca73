# A verification of the kernel's synchronisation core

The repository holds a Zephyr 3.7 tree (`zephyr-3.7-branch/`) and a number of
vendored applications beside it. Its own core is the kernel,
`zephyr-3.7-branch/kernel/`, whose C files are the subject here: how threads
are scheduled, block and wake, the objects they block on, the work queues, and
the timeout list with the Arm architected timer that drives it. Paths below are relative
to `kernel/` unless they say otherwise.

## 1. Inventory

| Component | State | Operations | What is hard |
|---|---|---|---|
| pending layer: `sched.c`, `include/priority_q.h`, `include/wait_q.h`, `include/kthread.h` | a sorted wait queue per object; per thread `pended_on`, timeout, `swap_retval`, priority, suspended/dead | pend, unpend the first, ready, time out, suspend, resume, abort, set a priority | a wakeup is several sections under `_sched_spinlock`, with gaps another CPU's timeout handler, abort or suspend falls into |
| semaphore: `sem.c` | count, limit, wait queue | init, give, take, reset | lost units, lost wakeups, count at its limit |
| mutex: `mutex.c` | owner, lock count, the owner's own priority | init, lock, unlock | priority inheritance that follows waiters as they come and go; hand-over against timeout |
| condition variable: `condvar.c` | wait queue | init, wait, signal, broadcast | release-and-wait must be atomic to signallers; the relock ignores its result |
| work queues: `work.c`, `system_work_q.c` | flags of each item and queue, pending lists, pending cancels, delayed items | submit, schedule, reschedule, flush, cancel (sync or not), drain, unplug, start, the queue thread's loop | items resubmitted while they run, cancelled while queued, flushed while delayed; threads waiting for handlers |
| message queue: `msg_q.c` | ring buffer, one wait queue for readers and writers | init, put, get, peek, peek_at, purge | wrap-around; a waiter taken for the wrong kind; messages out of order |
| timeouts: `timeout.c`, `drivers/timer/arm_arch_timer.c` | a list of deltas, `curr_tick`, `announce_remaining`; the driver's `last_tick` and compare registers | add, abort, announce, timer interrupt | lock dropped around each handler; two CPUs announcing; deltas corrected at each change |
| scheduler: `sched.c`, `ipi.c`, `cpu_mask.c`, `include/kswap.h`, `include/kthread.h` | run queue, current thread of each CPU, `ready_q.cache`, `metairq_preempted`, `swap_ok`, thread states, pending IPIs | start, yield, block, wake, sleep, wakeup, priority and CPU mask, sched_lock, suspend, resume, abort, join, the scheduler IPI, interrupt exit, the context switch | a thread leaves a CPU in several steps; a running thread is halted by a flag and an IPI; the choice made at one moment is used at another |
| time slicing: `timeslicing.c` (and `timer.c`, which in this tree is a second copy of it; there is no k_timer) | slice timeouts and expired flags of the CPUs | set, reset, expire | re-arming at each change of thread |
| events: `events.c` | event bits, wait queue, `no_wake_on_timeout` | post, set, set_masked, clear, wait, wait_all | threads are collected first and woken later |
| polling: `poll.c` | each object's list of poll events, pollers, triggered work | k_poll, raise, reset, k_work_poll_submit, k_work_poll_cancel, notifications by objects | registration one by one while events arrive; the lock dropped between two clears |
| stack, queue, slab: `stack.c`, `queue.c`, `mem_slab.c` | a store of items, a wait queue | push, pop; append, prepend, insert, append_list, get, remove, unique_append, cancel_wait; alloc, free | an item handed to a thread that is timing out; list walks without the lock |
| mailbox: `mailbox.c` | queues of senders and receivers, descriptors | put, async_put, get, data_get | rendezvous by name; the sender sleeps on no queue until the receiver disposes of the message |
| heap: `kheap.c`, `lib/heap/heap.c` | blocks in use, wait queue | alloc, realloc, free | every free wakes everybody, who try again with what is left of their timeouts |
| futex: `futex.c` | a value in user memory, wait queue | wait, wake | the value is read outside the lock |
| pipe: `pipes.c` | ring, waiting readers and writers with partial transfers | put, get, flush, buffer_flush, cleanup | one call moves bytes among a ring and several threads |
| user mode, memory domains, MMU, object cores, statistics, boot | | | not modelled: permission tables, hardware state, sequential set-up |

How they interact. Every blocking object calls `z_pend_curr()` under its own
spinlock, which is released once the thread is queued, and
`z_unpend_first_thread()`, `arch_thread_return_value_set()` and
`z_ready_thread()` to wake it. The object's lock covers these three calls;
`_sched_spinlock` covers each alone. The timeout list calls back
`z_thread_timeout()` (and `work_timeout()`) without any lock, after it has
unlinked the timeout, so such a callback can be late for what it was armed
for. A condition variable calls the mutex while it holds its own lock. On one
CPU a spinlock masks interrupts, so a section under an object's lock is not
interleaved with anything; on several it is interleaved with whatever does not
take that lock. The constant `SMP` selects between the two, and much of what
this project shows is about the difference.

What makes each part correct: no unit, message, wakeup or tick is lost or
counted twice; queues and thread states agree; waiters are served in priority
order; a mutex excludes and its owner has the priority it should have; a
handler is not reentered; flush, cancel and drain mean what `kernel.h` says;
no timeout fires early and the hardware is always programmed; timed calls
and flushes come to an end; a thread is in one place, the highest ready thread
gets a CPU, a cooperative one keeps it and equals share it; an item passed on
has one owner at every moment. `PROJECT.json` lists under
`hazards` where in the code each of these is at risk.

## 2. Modules

| Module | Models | Composition |
|---|---|---|
| `Priq` | the sorted list of threads that wait queues and the run queue use (`priority_q.h`) | extended by `Pend` and `Sched` |
| `Pend` | the pending layer | extended by every object |
| `KSem` | `sem.c` | extends `Pend`; refines `SemAbs` |
| `SemAbs` | what a semaphore promises: available units, sets of waiting, granted, refused and dead threads | |
| `KMutex` | `mutex.c` | extends `Pend` |
| `KCondvar` | `condvar.c` | extends `KMutex`, whose actions its own call |
| `MsgQ` | `msg_q.c` | extends `Pend`; refines `MsgQAbs` |
| `MsgQAbs` | a bounded FIFO channel with blocking readers and writers | |
| `WorkQ` | `work.c` | stands alone: its semaphores are used once |
| `Timeouts` | `timeout.c` and the tickless driver | stands alone |
| `Sched` | `sched.c`, `ipi.c`, `timeslicing.c`, `kswap.h`, `cpu_mask.c` | extends `Priq`: the scheduler proper, where the objects' modules let any runnable thread run |
| `KEvent` | `events.c` | extends `Pend` |
| `Poll` | `poll.c` | extends `Pend` |
| `HandOver` | what objects that pass an item to a waiting thread share | extends `Pend` |
| `KStack`, `KQueue`, `MemSlab`, `Mailbox`, `KHeap`, `KFutex`, `KPipe` | the C files of these names | extend `HandOver` |
| `Objects` | one of the eight kinds of object above (these and `Poll`) in use, and what they promise alike | extends them all |
| `PendProofs` | lemmas about the pending layer | extends `Pend` |
| `KSemProofs`, `KCondvarProofs` (with the mutexes), `MsgQProofs`, `KEventProofs`, `ObjectsProofs` | theorems | extend `PendProofs` and the module they name |
| `WorkQProofs`, `SchedProofs` (with the timeout list) | theorems | extend `WorkQ`; `Sched` and `Timeouts` |
| `MC*` | symmetry sets and small constant functions for TLC | extend the module they name |

**Pend.** One action is one section under `_sched_spinlock`. `firing` is the
thread whose timeout `sys_clock_announce()` has unlinked and whose handler has
not run; `suspending` is the target of a `k_thread_suspend()` that has aborted
the timeout and not yet taken the lock. Time is abstracted: an armed timeout
may expire at any moment. The scheduler's choice is abstracted too: any
runnable thread may run, which includes every choice it makes. The wait queue
is the sorted list of `CONFIG_WAITQ_DUMB`. A thread is changed from outside
(`Victims`: suspended, resumed, aborted; `NewPrios`: priority set) whenever the
code allows.

**KSem, KMutex, KCondvar, MsgQ.** `sec` (`csec` for the condition variable) is
the section in progress under the object's spinlock: what it is, which thread
it is waking and how far it has come ("unpended", "set"). A wakeup is three
actions: `...Unpend`, the store of the return value, and `...Ready`. On one
CPU `Others` disables everything else while a section is in progress. A call
that blocks is two actions, `...Pend` and `...Return`. Gives, resets, signals
and broadcasts may come from anywhere, interrupts included, so they have no
thread. Mutexes are locked and unlocked only by threads that run; threads may
unlock only what they own (`-EPERM` and `-EINVAL` change nothing). The mutex's
`base` and `held`, the semaphore's `cancelled`, the condition variable's
`signalled` are history the code does not have: properties need them. User
code that deadlocks or aborts an owner is allowed, so the mutex and condition
variable runs do not check for deadlock.

**WorkQ.** One lock protects everything, so an action is an API call or a step
of a queue's thread: take, sleep, done. A client that flushes stands also for
the flusher item in its `k_work_sync`. Handlers submit, schedule and cancel
(`Contexts` tells whether a call comes from a queue's own thread, which a
draining queue accepts); they do not flush, cancel synchronously or drain. A
delayable item's timeout is armed, unlinked (`firing`), then handled. A delay of
K_FOREVER sets DELAYED and links nothing (`timeout.c:114-116`); `endless` is the
history of it, `skipped` of a flush that found DELAYED and submitted nothing.

**Timeouts.** `now` is the hardware counter, `lastTick` what the driver has
reported. The interrupt is: read the counter and set `last_tick` (`TimerIsr`),
enter `sys_clock_announce()` and go to the first due timeout (`Announce`), and
after each handler go to the next (`HandlerDone`); handlers and other CPUs add
and abort in between. `deadline`, `due` and `armed` are history. Cycles are not
modelled, ticks are.

**Sched.** The record `s` is what `_sched_spinlock` protects and an action is
one section under it; the operators on `s` translate the kernel's functions
(`next_up`, `update_cache`, `ready_thread`, `halt_thread`...) and keep their
names. What happens outside the lock is separate: `leaving` is a thread whose
context is still being saved, `holder` a CPU that spins for it, `ipi` an
interrupt sent and not yet taken, `pc` where a call or handler continues after
it has dropped the lock. `SMP` selects the build: with the cache and the running
thread in the queue, or without. An application makes the calls of one of the
sets in `Workloads`, so that each run covers many combinations without their
full product. `owed` is history.

**KEvent.** A post is three rounds as in the code: the walk that collects
threads, the stores, the wake-ups, with timeouts in between. A thread may wait
for another object meanwhile (`PendElsewhere`), which is what a late post could
end by mistake.

**HandOver and its objects.** `sec` is a hand-over in progress, `data` the
item put in a thread's `swap_data`, `held` what the application has. `KQueue`
models the linked list by its words (`head`, `tail`, each item's `next`), since
two of its calls walk it without the lock; `WalkAlone` says whether callers keep
others off meanwhile. `k_queue_append_list()` unpends the next waiter before it
looks whether an item is left (`queue.c:336`); `ListsCover` says that callers never
append fewer items than threads wait, and `NoneStranded` that nobody is left
unpended and not ready. `KHeap` has the heap of `lib/heap` by its layout, blocks of
whole units: a block shrinks in place, grows into free units behind it, or moves
(`heap.c:402-477`), and which free place is taken is left open. A timeout is what
`sys_timepoint_timeout()` leaves of it; `passed` is the history of who waited when
a `k_heap_realloc()` last gave units back. In `KPipe` a
transfer is one action: the pipe's lock covers it and a thread that times out
takes that lock before it looks at what it has. Bytes are numbered, so that
order and loss show. `Mailbox` gives asynchronous messages the dummy threads
they have in the code.

**Poll.** A poller (thread or triggered work) registers and clears its events
one section each; `handling` is an object that has become ready and has not yet
told its pollers; `sig` is a notification in progress; `evReady` is the events that
were marked ready, which a cancelled one is not. `CancelEarly` says whether a wait may
be cancelled (`k_queue_cancel_wait()`) while its thread is still registering.

## 3. Runs

Passing runs:

| Run | Configuration | States | What it shows |
|---|---|---|---|
| `sem_up` | 2 threads, 2 priorities, limit 2, one CPU, one thread suspended and aborted at will | 20,882 | the semaphore implements `SemAbs`; no waiter beside an available unit; the head of the queue has the highest priority; a take with an armed timeout returns |
| `mutex_smp` | 3 threads, 3 priorities, ceiling, nesting 2, several CPUs | 918,385 | mutual exclusion; wait queue and thread states agree; no waiter outranks the owner; an owner of nothing has its own priority |
| `condvar_up` | 3 threads, mutex nested twice | 1,744,604 | no signal falls between release and wait; a wait ends by a signal or its timeout only, a signalled thread sees 0, and the wait returns owning the mutex |
| `work_plain` | 3 items, 2 queues, 2 clients that flush, cancel and drain | 42,224 | handlers are not reentered; no thread sleeps on work; a flush waits for every run it should; a cancelled item is idle |
| `work_delay` | a plain and a delayable item, 2 queues, a client that flushes and cancels | 27,071 | a flush submits what is scheduled (but with K_FOREVER); every flush returns |
| `msgq_up` | 2 threads, ring of 2, 2 messages | 274,621 | the queue implements `MsgQAbs` |
| `timeouts_up` | 3 timeouts, 1 CPU, relative 0..2, absolute 0 and 3 | 567,005 | the deltas describe the deadlines they were added with; no timeout is early; the timer is programmed in time |
| `sched_up` | a metaIRQ, a cooperative and 2 preemptible threads, 7 workloads | 138,780 | a cooperative thread keeps its CPU; a metaIRQ thread gives it back to the thread it took it from; equals share it by time slices |
| `sched_smp` | 3 preemptible threads, 2 CPUs, IPIs optimised and cascading, 7 workloads | 774,709 | a thread is in one place; a CPU that runs an outranked thread has been told; who asks for a halt is released; spinning interrupts do not wait for each other |
| `events_smp` | 2 threads, 2 bits, several CPUs | 64,062 | no satisfied thread is left waiting; a success meets the condition of its own wait; `no_wake_on_timeout` does not outlive its post |
| `objects_up` | 3 threads, 3 items or 2 polled objects and a triggered work, a dummy thread, heap of 3, pipes of 0 and 2, one kind at a time | 1,997,086 | one owner for every item, descriptor and byte; nobody waits for what is there, nor unpended and forgotten; the list is well formed; no registration is left behind and no ready object is missed; success is real; a mailbox sender sleeps as long as its receiver has the message; a pipe keeps order |

Other invariants the modules define, many of which section 4 proves, hold under
the same configurations: `NoneStranded` and `ForeverNeverTimesOut` (`KSemUP`),
`TypeOK`, `NoWaiterOnFreeMutex` and `RunnableIsFree` (`KMutexSMP`),
`NewOwnerOutranksWaiters` and `FailedLockOwnsNothing` (`KMutexSMP` with one CPU),
`CondTypeOK` (`KCondvarUP`), `WTypeOK`, `QueuedOnce`, `CancelingIsRunning` and
`PluggedStaysEmpty` (`WorkQPlain`), `AddedOnce` (`WorkQDelay`), `MTypeOK`,
`RingConsistent`, `WaitersMatchFill` and `PeekAtRight` (`MsgQ`), `TTypeOK`,
`TicksConserved` and `SameTickFifo` (`TimeoutsUP`; the second also with 2 CPUs),
`SchedTypeOK`, `RunqIsReady` and `SpinIsShort` (`SchedUP`, `SchedSMP`),
`BlocksCounted` (`ObjectsUP`). `PollSMP.cfg` (`MCPoll`) checks polling by threads
on several CPUs.

Why the bounds are enough to be of use. Two waiters give every order of arrival
and expiry, one of them being woken while the other waits; three make the
inheritance interesting, since one owns, one times out and one remains, and put
an insertion in the middle of a queue. Limit 2 separates "at the limit" from
"above zero". A ring of two wraps at once. Two messages tell order apart. Two
queues let an item be submitted to one while it runs on another. Three
timeouts give equal deadlines, a middle removal and an addition from a handler;
`MaxTick` 4 lets an announcement cover several deadlines. Two CPUs are enough for
one to halt, poke or overtake the other; the comment at `sched.c:425-430` speaks
of cycles of three, which are not covered. Each workload of `MCSched` puts
together calls that share state. Two polled objects give a first and a second
registration with an event in between; two bits tell any from all; a heap of three
units lets a block of one move, leave a hole and join it with a free unit; pipe requests
of 1, 2 and 3 bytes with minima 0 and 1 against buffers of 0 and 2 give direct,
buffered, wrapped and partial transfers; four bytes (`MaxByte`) pass the ring
twice. Symmetry is used only
where no property or constant distinguishes the permuted values and no
liveness is checked. Each property is paired in `PROJECT.json` with a mutant of
the code that it rejects.

Fairness. `KSem!Fairness`: a section in progress ends, timeout handlers run and
a runnable thread is run again and again (strong fairness, because on one CPU
interrupts and sections disable it for moments); an armed timeout expires,
strongly too, because the list is ordered by deadline and others cannot
overtake it for ever. `WFairSpec`: queue threads run, handlers return, threads
whose semaphore was given wake; strongly, for the same reason. Handlers that
return are the user's obligation. Nothing is assumed of gives, submissions,
priorities or cancels. The code's scheduler is strict-priority, so "a runnable
thread runs" assumes that higher ones block at times. `TFairSpec`: an interrupt
that is raised runs to its end. `Sched!FairSpec`: the timer interrupt comes again
and again and fires a slice timeout that stays due (strongly: masked interrupts
disable both for moments), and an interrupt handler comes to its end (weakly);
nothing is assumed of threads.

### Where code and documentation disagree

One run shows a disagreement (`PROJECT.json`, findings):

* `work_cancel_twice`: `finalize_cancel_locked()` leaves its loop after the
  first match (`work.c:86`). Of two threads in `k_work_cancel_sync()` for the
  same running item, the second waits for ever.

Further instances that TLC refutes in the same way. The first column names a
configuration and what to change in it: `SMP` is SMP = TRUE, "no victims"
Victims = {}, words such as "start, sleep" the one set of `Workloads` and a kind
the one member of `Kinds`; the property replaces those of the configuration (and
SYMMETRY goes when it is temporal).

| Instance | Property | What happens |
|---|---|---|
| `KSemUP`: SMP, no victims | `GiveReachesTaker` | several CPUs: `k_sem_give()` unpends the waiter, then stores its return value; a timeout handler whose timeout was unlinked just before readies the thread in between and its take returns -EAGAIN (`sem.c:108`); `kernel.h:3197-3198` says the semaphore is given |
| `TimeoutsUP`: 2 CPUs, Delays = {}, AbsTicks = {1, 2, 3} | `NeverEarly` | several CPUs: `announce_remaining` is 0 while the handler of a second timeout of the last tick runs, so another CPU's announcement starts a loop of its own, both spend the same ticks and an absolute timeout fires before its time (`timeout.c:259`; `doc/kernel/services/timing/clocks.rst:133-135`) |
| `KSemUP`: NewPrios = {1, 2} | `HeadHasHighestPriority` | a change of priority does not move a waiter in the queue (`sched.c:729`); `doc/kernel/services/synchronization/semaphores.rst:37-38` promises the highest priority |
| `KSemUP` | `ResumedThreadRuns` | a thread suspended while it pends stays pended when it is resumed, without its timeout (`sched.c:542`); `kernel.h:964-965` says it returns from the blocked call |
| `KSemUP`: SMP, no victims | `ForeverNeverTimesOut` | several CPUs: a handler late for its own wait ends the thread's next one |
| `KMutexSMP`: one CPU, 2 mutexes, 4 threads, MaxNest = 1 | `NewOwnerOutranksWaiters` | two mutexes: a waiter that inherits a priority is not moved in its queue; compare the comment at `mutex.c:273-275` |
| `KMutexSMP`: one CPU, 2 mutexes, MaxNest = 1 | `OwnerNotOutranked`, `PriorityRestored` | two mutexes: unlocking one restores the priority from before it was locked although a waiter of the other outranks that; and one that is locked with an inherited priority restores the inherited one |
| `KMutexSMP`: one CPU, NewPrios = {1, 2, 3} | `OwnerNotOutranked`, `PriorityRestored` | `k_thread_priority_set()` on an owner or a waiter ignores the mutex, and the unlock undoes it |
| `KMutexSMP` | `FailedLockOwnsNothing` | several CPUs: the lost give, for a mutex: owned by a thread whose lock returned -EAGAIN |
| `KCondvarUP`: SMP | `WaitReturnsOwning` | several CPUs: the handler of the wait's timeout ends the K_FOREVER relock; the wait returns without the mutex |
| `KCondvarUP` | `WaitReleasesMutex` | a mutex locked twice is released once and stays owned during the wait |
| `WorkQDelay`: SMP, Works = {d1}, one queue | `AddedOnce` | several CPUs: `work_timeout()` takes the DELAYED flag of a newer schedule for its own; `timeout.c:122` asserts the opposite |
| `WorkQDelay`: SMP, Works = {d1}, one queue | `FlushSubmitsScheduled` | several CPUs: a flush of an item whose timeout is unlinked and not handled clears DELAYED and submits nothing |
| `WorkQDelay` | `FlushSubmitsForever` | an item scheduled with K_FOREVER is DELAYED without a timeout (`work.c:574-577`, `timeout.c:114-116`), so the flush has none to abort, clears DELAYED and submits nothing (`work.c:587-588`, `732`); `kernel.h:3723` says that what is scheduled is submitted |
| `TimeoutsUP`: 2 CPUs, Delays = {0, 1}, AbsTicks = {} | `NeverEarly` | several CPUs: `elapsed()` is 0 while another CPU announces, so a relative timeout starts from a clock that is behind |
| `SchedSMP`: start, sleep, wakeup | `OnePlace` | several CPUs: `k_wakeup()` readies a sleeper whose timeout is unlinked and not handled; when it runs, `z_thread_timeout()` queues it although it runs |
| `SchedSMP`: start, slice, prio | `OnePlace` | several CPUs: the end of a slice flags the running thread as queued without queuing it (`sched.c:137`); a priority change from another CPU takes the flag at its word and queues it (`sched.c:706`) |
| `SchedSMP`: start, isr, isr_suspend, resume | `OnePlace` | several CPUs: a thread suspended by an interrupt on its own CPU is still the current one until that interrupt ends; a resume from another CPU queues it meanwhile |
| `SchedSMP`: start, suspend, sleep, resume | `OnePlace` | several CPUs: as with `k_wakeup()`: `k_thread_resume()` readies a sleeper whose timeout is unlinked and not handled |
| `SchedSMP`: start, prio, slice_set, sleep | `OnePlace` | several CPUs: as with the end of a slice, after `k_sched_time_slice_set()` |
| `SchedSMP`: start, isr, isr_suspend, wakeup, prio | `OnePlace` | several CPUs: `k_wakeup()` flags a thread as queued that an interrupt on its own CPU has suspended; a priority change takes the flag at its word |
| `SchedSMP`: start, suspend, resume, abort, isr, isr_abort | `OnePlace` | several CPUs: an interrupt that aborts another CPU's thread first carries out the suspension asked of the thread it interrupted (`sched.c:433`), which stays the current one; a resume queues it meanwhile |
| `SchedSMP`: start, sleep, suspend | `HaltersAreReleased` | several CPUs: the target sleeps before the IPI comes; it is then suspended already, `halt_thread()` does nothing (`sched.c:1239`) and the thread that asked stays in `halt_queue` |
| `SchedSMP`: start, abort, suspend | `HaltersAreReleased` | several CPUs: the target of an abort suspends itself first; `halt_thread()` clears the request to abort, and the aborter waits |
| `SchedSMP`: start, isr, isr_suspend, abort | `HaltersAreReleased` | several CPUs: as before, with the suspension by an interrupt on the CPU of the thread that is to abort |
| `SchedSMP`: start, isr, isr_suspend, sleep | `HaltSpinsEnd` | several CPUs: as with `k_sleep()` above: the target is suspended already when the IPI comes, so nobody clears the request, and the interrupt that asked spins on a thread that does not run |
| `SchedSMP`: start, exit, join | `JoinedIsGone` | several CPUs: `halt_thread()` readies the joiner before the dead thread has left its CPU |
| `SchedSMP`: start, yield, block, mask | `CascadeSettles` | pinned threads: the thread that is displaced by a start on the calling CPU goes back to the queue and no CPU that could run it is told, with `CONFIG_SCHED_IPI_CASCADE` set |
| `SchedSMP`: start, lock, block; StartPrio <- MetaCoopPreempt, NumMetaIrq = 1 | `MetaIrqReturns` | several CPUs: a metaIRQ thread that displaces a thread which holds the scheduler lock does not return to it when a better thread has become ready |
| `SchedUP`: start, isr, lock, prio | `CoopKeepsCpu` | one CPU: a thread that holds the scheduler lock lowers its own priority; the cache is updated with `preempt_ok` (`sched.c:727`) and the next interrupt switches |
| `SchedUP`: start, abort, join | `PreemptionNotLost` | one CPU: `k_thread_abort()` of a thread that does not run readies its joiner and does not reschedule (`sched.c:491`) |
| `SchedUP`: start, block, lock, slice | `NobodyHogs` | one CPU: a thread that comes back from a metaIRQ thread with the scheduler locked gets no slice, and `k_sched_unlock()` does not give it one |
| `ObjectsUP`: queue, WalkAlone = FALSE | `OneOwner` | `k_queue_remove()` walks without the lock; an interrupt gets the item under it (`queue.c:447`) |
| `ObjectsUP`: queue, ListsCover = FALSE | `NobodyWaitsInVain` | one CPU: two threads wait and one item is appended as a list; `k_queue_append_list()` unpends the second thread, ends its loop for want of an item (`queue.c:336`) and readies it never |
| `ObjectsUP`: queue, or slab; SMP, no victims | `OneOwner` | several CPUs: the lost give, for an item of a list and for a block |
| `ObjectsUP`: poll, CancelEarly = TRUE | `SuccessIsReal` | one CPU: `k_queue_cancel_wait()` from an interrupt while the thread registers its other events; `signal_poller()` leaves a thread that does not pend alone (`poll.c:256-258`), and `k_poll()` returns 0 for the cleared `is_polling` (`poll.c:299-305`); `kernel.h:1899-1900` and `5831-5835` promise -EINTR |
| `PollSMP`: one CPU, no victims | `NotificationUseful` | a notification goes to the first poller in the list although that one has timed out, and the next one sleeps on |
| `PollSMP`: one CPU | `DeadIsUnlinked` | a thread aborted in `k_poll()` leaves its events in the objects' lists |
| `PollSMP`: Polls <- WorkPolls | `NoRegistrationLeft` | several CPUs: a triggered work submitted again while its earlier submission is being cleared |
| `PollSMP`: one CPU, Polls <- WorkPolls, CancelNested = TRUE | `NoRegistrationLeft` | a cancel by an interrupt that comes before the handler of an unlinked timeout: the handler submits a work that was cancelled |
| `ObjectsUP`: mbox, SMP | `SenderHasReceiver` | several CPUs: the receiver is readied before the sender pends (`mailbox.c:247`), disposes of the message, and its wake-up of the sender is lost |
| `ObjectsUP`: mbox, MboxResume = TRUE | `SenderHasReceiver` | a sender suspended and resumed while its receiver has the message |
| `ObjectsUP`: mbox, NewPrios = {1} | `SenderHasReceiver`, `SuccessIsReal` | one CPU: the sender of a message that `k_mbox_get()` has taken sleeps in no queue (`mailbox.c:441`) and passes for ready; `k_thread_priority_set()` puts it in the run queue (`sched.c:704-709`) while its receiver has the message |
| `ObjectsUP`: heap | `HeapNobodyPassed` | `k_heap_realloc()` that shrinks a block, or moves it to grow (`heap.c:470-477`), wakes nobody (`kheap.c:165`), although what it gives back may serve a thread that waits |
| `ObjectsUP`: futex | `FutexNobodyMissed` | the value is compared before the lock is taken (`futex.c:94`), so a store and a wake in between are missed; compare `kernel.h:2175-2176` |
| `ObjectsUP`: pipe | `MinimumSuffices` | a waiting reader that has its minimum sleeps until it has all or its timeout ends (`pipes.c:346`); `kernel.h:5012-5016` |
| `ObjectsUP`: pipe | `WritersHaveBytes` | a waiting writer whose last bytes a read moves into the buffer is not woken (`pipes.c:636`, unlike 604-611); `kernel.h:4991` |

Some of the last ones are matters of taste: nothing in the documentation promises
the property. They are listed because the property is what one would rely on,
and because they mark where the passing runs stop.

## 4. Theorems

For every set of threads, priorities, mutexes, queues, items or timeouts, every
ring size, limit and initial state the assumptions allow. "Any" means on one CPU
and on several. A theorem with a hypothesis has it because TLC refutes the
property without it (the instances of section 3).

| Theorem | States | Holds for | From |
|---|---|---|---|
| **KSemProofs** | | | |
| `SemTypeCorrect` | `TypeOK`: the count never passes the limit | any | `SemInv` |
| `SemQueueMatches` | queue and `pended_on` agree; whatever can run waits for nothing | any | `SemInv` |
| `SemNoLostWakeup` | nobody waits while the count is positive | any | `SemInv` |
| `SemHeadHasHighestPriority` | the head of the queue has the highest priority of its waiters | `NewPrios = {}` | `SemOrdered` |
| `SemImplementsAbs` | `Spec` refines `SemAbs` | one CPU | `SemInv`, `OneCpuInv` |
| **KCondvarProofs**: the mutex | | | |
| `MutexTypeCorrect`, `MutexQueueMatches` | as for the semaphore | any | `MutexInv` |
| `MutexExcludes` | `MutualExclusion` | any | `MutexInv` |
| `MutexNoLostWakeup` | nobody waits for a free mutex | any | `MutexInv` |
| `MutexFailedLockOwnsNothing` | a thread whose lock ends with -EAGAIN does not own the mutex | one CPU | `MutexInv` and `LateOwnsNothing` |
| `MutexPriorityRestored` | a thread that owns nothing has its own priority | one mutex, `NewPrios = {}` | `PrioInv` |
| `MutexOwnerNotOutranked` | no waiter outranks the owner, up to the ceiling | the same | `PrioInv` |
| `MutexNewOwnerOutranks` | the thread an unlock wakes outranks the waiters it leaves | the same | `PrioInv` |
| **KCondvarProofs**: the condition variable | | | |
| `CondReleaseAndWaitAtomic` | no signal between the release of the mutex and the wait | any | `LockInv` |
| `CondUnblockedBySignal` | only a signal ends a `K_FOREVER` wait, and a signalled thread sees 0 | one CPU | `CondInv` |
| `CondWaitReturnsOwning` | a wait returns with the mutex (an action property) | one CPU | `CondInv` |
| `CondKeepsExclusion` | the mutex still excludes when condition variables lock and unlock it | one CPU | `CondInv` |
| **WorkQProofs** | | | |
| `WorkNotReentrant` | no two queue threads run one item | any | `WorkInv` |
| `WorkQueuedOnce` | an item is linked at most once, in one queue, and its flag says so | any | `WorkInv` |
| `WorkCancelingIsRunning` | CANCELING is set only while the item runs | any | `WorkInv` |
| `WorkNoLostNotification` | no queue thread sleeps while something is linked in its list or a drain waits for it | any | `WorkInv` |
| `WorkPluggedStaysEmpty` | a plugged queue accepts nothing once drained | any | `WorkInv` |
| `WorkFlushWaitsForRuns` | a flush returns after the run in progress and the one queued | any | `WorkInv` |
| `WorkCancelledIsIdle` | a synchronous cancel returns when the item is idle (an action property) | any | `WorkInv` |
| `WorkFlushSubmits`, `WorkAddedOnce` | a flush submits what is scheduled, unless with K_FOREVER; no timeout is added twice | one CPU | `DelayOK` |
| **MsgQProofs** | | | |
| `MsgRingConsistent` | read and write positions and `used_msgs` agree | any | `MsgInv` |
| `MsgWaitersMatchFill` | readers wait only beside an empty ring, writers only beside a full one | any | `MsgInv` |
| `MsgPeekAtRight` | `k_msgq_peek_at()` addresses the message it names | any | `MsgInv` |
| `MsgImplementsAbs` | `MSpec` refines the bounded FIFO channel `MsgQAbs` | one CPU | `MsgInv`, `OneCpuInv` |
| **KEventProofs** | | | |
| `EventSatisfiedAreWoken` | no thread is left waiting whose condition the events meet | any | `EventInv` |
| `EventSuccessMeetsCondition` | a wait that succeeds has events that meet its own condition | any | `EventInv` |
| `EventTimeoutHeeded` | `no_wake_on_timeout` does not outlive its post | any | `EventInv` |
| **ObjectsProofs**: polling alone | | | |
| `PollNoRegistrationLeft` | who has left `k_poll()`, and a work that was submitted, has no event in a list | `WorksAreSafe` | `PollInv` |
| `PollReadyIsNoticed` | nobody who alone polls an object sleeps while it is ready | `WorksAreSafe` | `PollInv` |
| `PollSuccessHasEvent` | `k_poll()` returns 0 only with an event that was marked ready, not cancelled | `WorksAreSafe`, `~CancelEarly` | `PollInv` |
| **ObjectsProofs**: any choice of objects | | | |
| `ObjectsOneOwner` | items, blocks and message descriptors are in one place each | `AllSafe`, no pipe | `ListInv`, `QueueInv`, `MboxInv` |
| `ObjectsNobodyWaitsInVain` | nobody waits for what is there, and nobody is stranded | `AllSafe`, no pipe, `ListsCover` for queues | the same, `StrandOK`, `QueueStrandOK` and `HeapInv` |
| `ObjectsSuccessIsReal` | success of a poll, futex wait, synchronous send or receive means what it says | `AllSafe`, `~CancelEarly` for polls | `PollInv`, `FutexInv`, `MboxInv`, `MboxGotOK` |
| `ObjectsSenderHasReceiver` | a sender sleeps until its one receiver has disposed of the message, for ever if that receiver was aborted | `AllSafe` | `MboxInv` |
| `ObjectsQueueWellFormed` | the links of a queue lead from head to tail | `AllSafe` | `QueueInv` |
| `ObjectsNoRegistrationLeft`, `ObjectsReadyIsNoticed` | as for polling alone | `AllSafe` | `PollInv` |
| `ObjectsBlocksCounted` | `num_used` and the free list of a slab agree | `AllSafe` | `ListInv` |
| **SchedProofs**: the timeout list | | | |
| `TimeoutDeadlinesKept` | the deltas of the list add up to the deadlines the timeouts were added with | any | `TimeoutInv` |
| `TimeoutWakeupProgrammed` | while no CPU is in the timer interrupt, the compare register of one is not after the first deadline | any | `TimeoutInv` |
| `TimeoutNeverEarly` | no handler runs before its time (an action property) | one CPU | `TimeoutInv`, `OneCpuOK` |
| **SchedProofs**: the scheduler | | | |
| `SchedOnePlace` | a thread runs on one CPU or is linked once in the run queue, and on SMP never both | one CPU; on several `CallsAreSafe` | `SchedInv` |
| `SchedHaltersReleased` | who waits for a halt waits for a thread that runs and still carries the request | several CPUs; `CallsAreSafe`, `HaltsAreSafe` | `HaltInv` |
| `SchedSpinsEnd` | interrupts that halt each other's threads do not spin for each other | two CPUs; `CallsAreSafe`, `HaltsAreSafe` | `HaltInv`, `SpinInv` |

Most of these state a property that a run checks. `MutexNoLostWakeup`,
`MutexNewOwnerOutranks`, `MutexFailedLockOwnsNothing`, `WorkQueuedOnce`,
`WorkCancelingIsRunning`, `WorkPluggedStaysEmpty`, `WorkAddedOnce`,
`PollSuccessHasEvent`, `ObjectsBlocksCounted` and the first
three of `MsgQProofs` state invariants the modules define besides; TLC finds no
violation of these under the configurations section 3 names.

**The pending layer** (`PendProofs`). Every action of `Pend` preserves `PendInv`
(types, `QueueMatchesState`, `RunnableIsFree`, the dead are in no queue), and so
does every step by which an object queues or wakes a thread; the proofs of the
objects cite those lemmas. The central ones are `PriqAddFacts` (sorted insertion
adds one element and keeps the others), `DequeueKeepsMatch` (removing one
occurrence keeps the agreement) and the lemmas that both keep a queue in
priority order.

**Semaphore.** `SemInv == TypeOK /\ PendInv /\ NoWaiterWhileAvailable`. The last is
not inductive alone: a timeout or an abort changes the queue by way of
`pendedOn`, and only `QueueMatchesState` says that this removes the thread and
nothing else, while `RunnableIsFree` says that a thread about to pend is in no
queue. The refinement needs besides (`OneCpuInv`) that a thread that pends has
-EAGAIN as its return value, that a section that wakes a thread has taken it out
of its queue, and that before the store its value is still -EAGAIN. Then the
three steps of a wakeup map to one abstract grant (at the unpend) and two
stutters.

**Mutex.** Exclusion needs to know what an unlock in progress is doing: from the
restored priority to the hand-over the unlocker is still the owner and its count
is 1 (`UnlockOK`), whoever waits is in `k_mutex_lock()` (`WaitersAreCallers`), and
a lock that will return 0 owns the mutex (`GrantedOwns`). Inheritance
(`PrioInv`) holds for one mutex and priorities nobody sets: the queue is in
priority order, only the owner's priority differs from its own, and the mutex
knows the owner's. With two mutexes, or `k_thread_priority_set()` on an owner,
`owner_orig_prio` is not the priority to go back to.

**Condition variable.** `CondInv` contains `MutexInv`, says in which part of the
call each thread is, and for each thread that has not returned why not: it is
queued, a signal is waking it, it is dead, or it may return (`WaitState`,
`RelockState`).

**Work queues.** `WorkInv` ties each item's flags to the lists and to what the
queue threads run, in both directions (`QueuedOK`, `RunningOK`); flushers are
linked once and only while their client waits (`FlushersOK`); `OwedOK` counts the
runs a flush still waits for, which are the one in progress and the one ahead of
its flusher. `DelayOK`, for one CPU, says that an item is DELAYED exactly while its timeout
is linked or being handled, or its last delay was K_FOREVER.

**Message queue.** A message is for a moment in no place: `k_msgq_get()` has taken
it out of the ring and not yet filled the place with that of a waiting writer.
`RoomForMoving` keeps its place free and `InHand` tells who may wait meanwhile. The refinement maps the ring to a
sequence; `RingAppend` and `RingTail` say that storing at the write position
appends and advancing the read position drops the head, for every ring size.

**Events.** `CollectedStays` says that a thread the walk has collected stays
queued with what it asked for until the wake-ups, unless it is aborted, which is
what makes collecting first and waking later safe; `NoneLeft` that those not
collected are not satisfied.

**Polling.** `PollInv` says of each poller up to which of its events it is
registered (`Upto`), by where it is in `k_poll()`, and of each linked event that
its poller is still in the call; a thread that sleeps while `is_polling` is still set
has none of its objects ready that nobody is about to tell it of (`NoticeOK`). The
properties need all of it at once: an event that is unlinked by the signaller
between two events that the poller clears must not be looked for again, and a
notification in progress (`SigOK`) has an event that was unlinked already.
`WorksAreSafe` (`~SMP` and no cancel nested in a timeout handler, or no triggered
works) excludes the two orders of section 3 in which a work is submitted twice;
threads that poll are covered on any number of CPUs. `SuccessOK` holds for `~CancelEarly`:
a thread that finds `is_polling` cleared, or was woken with 0, has an event in `evReady` or
about to be marked (`HasEvent`).

**Objects that hand over.** `HandOK` says of the wait in progress what `SemInv` says
of the semaphore: who waits has been given nothing and who was given something
returns 0. `PlacesOK(S)` divides the items among the application, the store `S`, a
hand-over in progress and the threads. For a stack or a slab the store is a
sequence (`ListInv`). For a queue it is what the links spell: `QueueIs(s)` says
that `head`, `tail` and each `next` are those of the sequence `s`, and `QueueInv`
that some such `s` exists; each operation is shown to be an insertion into or a
removal from `s`, also in the middle and with the appended list half moved
(`AppendListOK`) or a walk under way (`WalkOK`). `QueueWellFormed` counts hops, so
`HopsAlongList` says that following `next` i times from the head is `s[i]`.
That nobody is stranded is not inductive either: `StrandOK` adds that a timeout is
armed only while its thread pends here and is not at once linked and being handled,
so that a handler cannot be left over to unpend somebody else's wait. For
`k_queue_append_list()`, `QueueStrandOK` says that when the last item was handed out
nobody waits any more, and that with one item left at most one thread does: on one
CPU nobody joins the queue while the call is in its loop.

**Heap and futex.** `HeapWaitersOK` states that nobody waits whose request fits,
except while a free is waking the waiters one by one, and except those who waited when
a `k_heap_realloc()` gave units back. It is preserved because what fits when more units
are in use fits when fewer are (`HeapLessRoom`, for any layout): an allocation or a block
that grows in place only adds units (`HeapAllocatedFacts`), any other resize counts
everybody who waits as passed over. `FutexWoken` says that a return value of 0 was stored
by a wake.

**Mailbox.** `MboxInv` ties the message of a sender to the receiver that has it, in
both directions: for each caller which call it is in and what its message record
says (`MboxCallOK`, `MboxMessageOK`), for the put or get in progress how far the
match has come (`MboxPutOK`, `MboxGetOK`), for each dummy thread where its
descriptor is (`DescriptorOK`), and that no queued sender matches a waiting
receiver (`NoneMissed`). Without the last, a receiver that does not find its message
could wait beside it; without the others, the sender a dispose wakes need not be
the one that sleeps. `MboxGotOK` adds what a receiver has got: a message that was sent,
whose sender is still in its call, and that suits the receiver, from the match to the
dispose.

**Composition.** `ObjectsInv` says that the object in use satisfies its own invariant
and that the others are as they were made. `AllSafe` asks of each member of `Kinds`
what section 3 shows it to need: one CPU for stacks, slabs, queues and mailboxes,
callers that keep others off a walk (`WalkAlone`), no resumed mailbox sender and no
change of priority with mailboxes, `WorksAreSafe`. `ListsCover` and `~CancelEarly` are
hypotheses of the one theorem each that needs them. `ObjectsUP.cfg` satisfies all of
it.

**Timeouts.** `Chained` states the meaning of the list without a sum: the first
deadline is `curr_tick` plus the first delta, each next one the one before it
plus its delta. It is therefore preserved by local steps, and `DeadlinesKept`
follows from it. `RemainingHandled` says that ticks left in `announce_remaining`
belong to a CPU that is in its loop; without it an interrupt that adds to them and
leaves would leave the timer unprogrammed.

**Scheduler.** `SchedInv` says of the record `s` that `_THREAD_QUEUED` and the list
agree, but for a thread that runs on SMP and is flagged without being linked
(`RunqOK`); that no thread is the current one of two CPUs (`CurOK`); and on SMP that
what runs is not linked, does not pend and has no timeout (`RunningOK`), and that
whatever has a timeout or is in a wait queue may not run (`FlagsOK`). The kernel's
functions break this for the thread they are working on: `z_swap()` pends the
running thread before it leaves its CPU. So `RecOK(a, x)` exempts the CPU `x` that is
inside the scheduler, each function has a lemma that says for which `x` it needs and
gives it, and between two actions `x` is the CPU that spins for a context to be saved
(`holder`). What a CPU that spins is about to switch to is in no queue (`HolderOK`).
A call that has dropped the lock says what it will do next (`CallsOK`); a timeout
that was unlinked belongs to a thread that still sleeps (`FiringOK`). `halt_thread()`
empties the queues of joiners and halters in a loop: `UnpendAll` is a recursive
function, and that every turn keeps `RecOK` is shown from the first turn at which it
would fail. On one CPU nothing is assumed. On several, `CallsAreSafe` asks that an
application does not combine `k_sleep()` with `k_wakeup()` or `k_thread_resume()`,
`k_thread_priority_set()` with time slices or `k_wakeup()`, and `k_thread_resume()`
with a suspend or an abort from an interrupt: of each of these TLC finds a behaviour
in which a thread is in two places (section 3).

Halting a thread that runs elsewhere takes several steps: the request is a flag, the
IPI serves it, and between the two the target may sleep, be aborted as well or be
interrupted. `HaltInv` says that a request is a flag of a thread that runs and is not
yet suspended or dead; that whoever is in a thread's `halt_queue` asked for a
suspension which is still flagged, and whoever is in its `join_queue` because it
aborted it, for an abort; and that the thread a CPU spins to switch away from carries
no request, since nobody would serve it. Every function of the scheduler but
`halt_thread()` and the request itself leaves the requests and their waiters alone
(`Tame`), so each action is one lemma about what it does to `s`; `halt_thread()` clears
the requests and empties both queues. `HaltsAreSafe` asks that an application which
suspends threads that may run on another CPU does not also let threads abort each
other or sleep. For `HaltSpinsEnd`, `SpinInv` adds that an interrupt that spins is not
over and does not spin for its own thread, and that two do not spin for each other's;
the step that could break it is the second request, and `thread_halt_spin()` serves the
first one before it spins, under the same lock. `TwoCPUs` is the comment's own limit:
"but not complex ones involving cycles of 3+ threads" (`sched.c:427`).

The models' recursive functions (the walk of the list, the collection of
threads) are reasoned about from their defining equation, at the one index a
step is about. Where a fact about all of a list is needed, the proof takes a
smallest index at which it fails.

Assumptions: those the modules declare (`PendAssumption`, `SemAssumption`,
`MutexAssumption`, `CondAssumption`, `MsgQAssumption`, `WorkAssumption`,
`EventAssumption`, `TimeoutsAssumption`, `PollAssumption`, `HandOverAssumption`
and those of its objects: finite threads, integer priorities,
positive limits and sizes, distinct `None`), which TLC evaluates on each run.

Only model-checked:

* liveness (`TimedTakeReturns`, `FlushReturns`, `NobodyHogs` and the like), which
  needs fairness and ENABLED;
* the scheduler's choices: `MetaIrqReturns`, `PreemptionNotLost`, `CoopKeepsCpu`;
* the pipe: `StreamInOrder` and its part of `OneOwner` and `NobodyWaitsInVain` speak
  of sums and concatenations over the waiting threads, which need induction over
  the queue at every step;
* `TicksConserved` on several CPUs and `SameTickFifo`: they sum over CPUs and
  speak of the order in which timeouts were added;
* `NoneStranded` and `ForeverNeverTimesOut` of the semaphore.

## 5. Not modelled

* In the modelled files: deadlines (`k_thread_deadline_set`), per-thread time
  slices, `k_thread_join()` with a timeout, the allocation and cleanup of buffers
  (`k_msgq_alloc_init`, `k_stack_cleanup`...), `k_poll()` with K_NO_WAIT, the
  statistics of slabs, timepoints except where the heap uses them, 32-bit tick
  reads; of the heap, requests of 0 bytes (`k_heap_realloc(h, p, 0, ...)` frees and
  retries), alignment beyond a unit, and the bound on the search of a free list
  (`CONFIG_SYS_HEAP_ALLOC_LOOPS`), which may fail to find a block that is there.
* Poll events of an object are modelled in `Poll`, with the object reduced to a
  condition; the objects' own modules leave the call out.
* The objects' modules let any runnable thread run instead of composing them
  with `Sched`: that includes every choice the scheduler makes, and what an
  object promises must not depend on it.
* User-mode verification functions, tracing, object cores, statistics, boot,
  MMU, `smp.c`'s start of a CPU.
* The red-black and multi-queue wait queues (`CONFIG_WAITQ_SCALABLE`).
* `sched.c:536` is a comment whose opening `/*` is missing in this tree; it is
  read as the comment it was.
* Everything outside the kernel. The repository has some five million lines in
  fifteen thousand files; nearly all of them are third-party trees (drivers,
  subsystems, boards and samples of Zephyr, OpenSSL, U-Boot, metaRTC,
  YOLOv5-Lite, sherpa-onnx and so on), each a project of its own and none using
  this kernel. The share of the repository's lines that the map covers is
  therefore close to nothing, while of the kernel's C files that have a protocol
  it covers about half of all lines, comments, user-mode wrappers and tracing
  included.

## 6. Plan

Done, in this order: the pending layer and the semaphore with their proofs;
mutex; condition variable; work queues; message queue; timeout list; scheduler
with time slicing and IPIs; events; polling; stack, queue and slab; mailbox, heap,
futex and pipe; their composition;
the theorems about mutex, condition variable, work queues, message queue (with
its refinement), events, timeouts, polling, the composed objects, the run queue and halting.

Next:

1. Theorems about what is only model-checked: `NoneStranded` of the semaphore;
   the pipe; `PreemptionNotLost` of `Sched` on one CPU.
2. An abstract stack, queue and slab (a bag with waiting threads) that `HandOver`'s
   objects refine, as `MsgQ` refines `MsgQAbs`.
3. Per-thread slices, deadlines and the timeout of a join in `Sched`.
