-------------------------------- MODULE Sched --------------------------------
(***************************************************************************)
(* The scheduler: the run queue, the choice of the next thread, the        *)
(* context switch, preemption, IPIs, time slices, halting and joining      *)
(* (kernel/sched.c, ipi.c, timeslicing.c, include/kswap.h, cpu_mask.c).    *)
(*                                                                         *)
(* SMP = FALSE is the uniprocessor build: the running thread stays in the  *)
(* run queue and ready_q.cache names the thread to run next.  SMP = TRUE   *)
(* is CONFIG_SMP: the running thread is out of the queue, next_up() is     *)
(* called at the switch itself, and other CPUs are told with an IPI.       *)
(*                                                                         *)
(* One action is one section under _sched_spinlock, and the record s is    *)
(* what that lock protects.  The operators on a record translate the       *)
(* kernel's functions; the actions are its calls and interrupts.           *)
(***************************************************************************)
EXTENDS Integers, FiniteSets, Priq

CONSTANTS Threads, CPUs,
          SMP,          \* CONFIG_SMP
          StartPrio,    \* the priority each thread is created with
          IdlePrio,     \* K_IDLE_PRIO
          HighestPrio,  \* K_HIGHEST_THREAD_PRIO
          NumMetaIrq,   \* CONFIG_NUM_METAIRQ_PRIORITIES
          IpiOptimize,  \* CONFIG_IPI_OPTIMIZE
          IpiCascade,   \* CONFIG_SCHED_IPI_CASCADE
          SliceMaxPrio, \* slice_max_prio
          Workloads,    \* sets of kernel calls: an application makes the
                        \* calls of one of them
          NewPrios,     \* priorities k_thread_priority_set may give
          PrioTargets,  \* threads whose priority may be set
          Masks,        \* CPU masks k_thread_cpu_mask_*() may give
          MaxLock,      \* bound: nesting of k_sched_lock()
          Idle, Dummy, None

ASSUME SchedAssumption ==
  /\ IsFiniteSet(Threads) /\ IsFiniteSet(CPUs) /\ CPUs # {}
  /\ SMP \in BOOLEAN /\ IpiOptimize \in BOOLEAN /\ IpiCascade \in BOOLEAN
  /\ ~SMP => Cardinality(CPUs) = 1
  /\ StartPrio \in [Threads -> Int] /\ NewPrios \subseteq Int
  /\ \A t \in Threads : StartPrio[t] < IdlePrio
  /\ \A p \in NewPrios : p < IdlePrio
  /\ PrioTargets \subseteq Threads
  /\ Masks \subseteq SUBSET CPUs
  /\ MaxLock \in Nat /\ NumMetaIrq \in Nat
  /\ {Idle, Dummy, None} \cap (Threads \cup CPUs) = {}
  /\ Threads \cap CPUs = {}

VARIABLES s,        \* the record described by SchedTypeOK
          leaving,  \* the thread a CPU is switching away from: its
                    \* switch_handle is still NULL
          holder,   \* a CPU that spins, holding the lock, for the
                    \* switch_handle of the thread it wants to run
          pc,       \* what a thread or an interrupt handler does next
          ipi,      \* an IPI has been sent to the CPU
          ops,      \* the calls of this application
          owed      \* history: the non-preemptible thread a metaIRQ thread
                    \* has displaced on the CPU

kernelVars == <<s, leaving, holder, pc, ipi>>
vars == <<kernelVars, ops, owed>>

Obj == <<"obj", None>>                      \* some kernel object
Waits == {Obj} \cup ({"join", "halt"} \X Threads)
Flags == {"prestart", "pending", "suspended", "dead", "aborting", "suspending"}

Run == [op |-> "run", th |-> None]
At(o, t) == [op |-> o, th |-> t]
NoHolder == [cpu |-> None, th |-> None, isr |-> FALSE]

SchedTypeOK ==
  /\ s.prio \in [Threads -> Int]
  /\ s.locked \in [Threads -> 0..MaxLock]     \* base.sched_locked
  /\ s.flags \in [Threads -> SUBSET Flags]    \* base.thread_state
  /\ s.queued \in [Threads -> BOOLEAN]        \* _THREAD_QUEUED
  /\ s.mask \in [Threads -> SUBSET CPUs]      \* base.cpu_mask
  /\ s.timeout \in [Threads -> BOOLEAN]       \* base.timeout is linked
  /\ s.runq \in Seq(Threads)
  /\ s.waitq \in [Waits -> Seq(Threads)]
  /\ s.cur \in [CPUs -> Threads \cup {Idle, Dummy}]
  /\ s.isr \in [CPUs -> BOOLEAN]              \* nested != 0
  /\ s.cache \in Threads \cup {Idle, Dummy}   \* ready_q.cache
  /\ s.swapOk \in [CPUs -> BOOLEAN]
  /\ s.mirqp \in [CPUs -> Threads \cup {None}] \* metairq_preempted
  /\ s.slicing \in BOOLEAN                    \* slice_ticks != 0
  /\ s.sliceOn \in [CPUs -> BOOLEAN]          \* slice_timeouts[] linked
  /\ s.sliceExp \in [CPUs -> BOOLEAN]         \* slice_expired[]
  /\ s.pendingIpi \in SUBSET CPUs
  /\ leaving \in [CPUs -> Threads \cup {None}]
  /\ ipi \in [CPUs -> BOOLEAN]

-----------------------------------------------------------------------------
(* kthread.h *)
PrioOf(a, t) == IF t \in Threads THEN a.prio[t] ELSE IdlePrio
Queued(a, t) == t \in Threads /\ a.queued[t]
Preemptible(a, t) == t \in Threads => a.prio[t] >= 0 /\ a.locked[t] = 0
MetaIrq(a, t) == t \in Threads /\ a.prio[t] - HighestPrio < NumMetaIrq

Prevented(a, t) ==
  \/ t = Dummy
  \/ t \in Threads /\ a.flags[t] \cap {"pending", "prestart", "dead", "suspended"} # {}

Ready(a, t) == ~Prevented(a, t) /\ ~a.timeout[t]
Halting(a, t) == t \in Threads /\ a.flags[t] \cap {"aborting", "suspending"} # {}

\* Mutant of ShouldPreempt: nobody is protected from preemption.
ShouldPreemptAny(a, c, t, ok) == TRUE

ShouldPreempt(a, c, t, ok) ==
  ok \/ Prevented(a, a.cur[c]) \/ Preemptible(a, a.cur[c]) \/ MetaIrq(a, t)

Elsewhere(a, c, t) == SMP /\ \E d \in CPUs \ {c} : a.cur[d] = t

(* The run queue.  On SMP the running thread carries _THREAD_QUEUED when   *)
(* it has yielded, and enters the list only at the context switch.         *)
\* Mutant of ShouldQueue: the running thread is queued like any other.
ShouldQueueAlways(a, c, t) == TRUE

ShouldQueue(a, c, t) == ~SMP \/ t # a.cur[c]

QueueThread(a, c, t) ==
  [a EXCEPT !.queued[t] = TRUE,
            !.runq = IF ShouldQueue(a, c, t) THEN PriqAdd(@, t, a.prio) ELSE @,
            !.swapOk[c] = @ \/ (SMP /\ t = a.cur[c])]

DequeueThread(a, c, t) ==
  [a EXCEPT !.queued[t] = FALSE,
            !.runq = IF ShouldQueue(a, c, t) THEN RemoveFirst(@, t) ELSE @]

(* z_priq_dumb_best, or z_priq_dumb_mask_best with CPU masks *)
RunqBest(a, c) ==
  LET fit == {i \in 1..Len(a.runq) : c \in a.mask[a.runq[i]]}
  IN  IF fit = {} THEN None ELSE a.runq[Min(fit)]

(* timeslicing.c *)
Sliceable(a, t) ==
  /\ t \in Threads
  /\ Preemptible(a, t) /\ a.slicing /\ a.prio[t] >= SliceMaxPrio
  /\ ~Prevented(a, t)

ResetSlice(a, c, t) ==
  [a EXCEPT !.sliceOn[c] = Sliceable(a, t), !.sliceExp[c] = FALSE]

(* ipi.c *)
FlagIpi(a, m) ==
  [a EXCEPT !.pendingIpi = @ \cup (IF Cardinality(CPUs) > 1 THEN m ELSE {})]

\* Mutant of IpiMask: only CPUs that idle are poked.
IpiMaskIdle(a, c, t) == {d \in CPUs \ {c} : a.cur[d] = Idle}

IpiMask(a, c, t) ==
  IF ~IpiOptimize THEN CPUs
  ELSE {d \in CPUs \ {c} :
          /\ d \in a.mask[t]
          /\ \/ PrioOf(a, a.cur[d]) > a.prio[t] /\ Preemptible(a, a.cur[d])
             \/ MetaIrq(a, t)}

-----------------------------------------------------------------------------
(* The metaIRQ part of next_up: back to the cooperative thread that a      *)
(* metaIRQ preempted, unless another metaIRQ is first.                     *)
\* Mutant of BackFromMetaIrq: whatever has the highest priority now.
BackFromMetaIrqNot(a, c, n) == [th |-> n, mirqp |-> a.mirqp[c]]

BackFromMetaIrq(a, c, n) ==
  IF a.mirqp[c] = None \/ MetaIrq(a, n) THEN [th |-> n, mirqp |-> a.mirqp[c]]
  ELSE IF Prevented(a, a.mirqp[c]) THEN [th |-> n, mirqp |-> None]
  ELSE [th |-> a.mirqp[c], mirqp |-> a.mirqp[c]]

Picked(a, c, f) ==
  [st |-> [a EXCEPT !.mirqp[c] = f.mirqp], th |-> IF f.th = None THEN Idle ELSE f.th]

Pick(a, c) == Picked(a, c, BackFromMetaIrq(a, c, RunqBest(a, c)))

UpdateMetaIrq(a, c, t) ==
  LET me == a.cur[c]
  IN  [a EXCEPT !.mirqp[c] =
         IF MetaIrq(a, t) /\ ~MetaIrq(a, me) /\ ~Preemptible(a, me) THEN me
         ELSE IF ~MetaIrq(a, t) /\ t # Idle THEN None ELSE @]

Cache(a, c, t, ok) ==
  IF ShouldPreempt(a, c, t, ok)
  THEN [UpdateMetaIrq(IF t # a.cur[c] THEN ResetSlice(a, c, t) ELSE a, c, t)
          EXCEPT !.cache = t]
  ELSE [a EXCEPT !.cache = a.cur[c]]

CachePick(n, c, ok) == Cache(n.st, c, n.th, ok)

UpdateCache(a, c, ok) ==
  IF SMP THEN [a EXCEPT !.swapOk[c] = ok] ELSE CachePick(Pick(a, c), c, ok)

FlagReady(a, c, t) == FlagIpi(a, IpiMask(a, c, t))

ReadyThread(a, c, t) ==
  IF a.queued[t] \/ ~Ready(a, t) THEN a
  ELSE FlagReady(UpdateCache(QueueThread(a, c, t), c, FALSE), c, t)

(* z_ready_thread and z_ready_thread_locked *)
ReadyUnlessActive(a, c, t) == IF Elsewhere(a, c, t) THEN a ELSE ReadyThread(a, c, t)

Unqueue(a, c, t) == IF Queued(a, t) THEN DequeueThread(a, c, t) ELSE a

MoveToEnd(a, c, t) ==
  UpdateCache(QueueThread(Unqueue(a, c, t), c, t), c, t = a.cur[c])

\* Mutant of TimeSlice: the slice is renewed and the thread stays first.
TimeSliceStay(a, c) ==
  IF a.sliceExp[c] /\ Sliceable(a, a.cur[c]) THEN ResetSlice(a, c, a.cur[c]) ELSE a

TimeSlice(a, c) ==
  IF a.sliceExp[c] /\ Sliceable(a, a.cur[c])
  THEN ResetSlice(MoveToEnd(a, c, a.cur[c]), c, a.cur[c]) ELSE a

(* unready_thread, then the thread is marked pending and queued *)
UnreadyThread(a, c, t) == UpdateCache(Unqueue(a, c, t), c, t = a.cur[c])

AddToWaitq(a, c, t, w) ==
  [UnreadyThread(a, c, t) EXCEPT !.flags[t] = @ \cup {"pending"},
                                 !.waitq[w] = PriqAdd(@, t, a.prio)]

Unpend(a, t) ==
  [a EXCEPT !.flags[t] = @ \ {"pending"},
            !.waitq = [w \in Waits |-> RemoveFirst(@[w], t)]]

WakeOne(a, c, t) == ReadyThread([Unpend(a, t) EXCEPT !.timeout[t] = FALSE], c, t)

UnpendAll(a, c, w) ==
  LET walk[n \in 0..Len(a.waitq[w])] ==
        IF n = 0 THEN a ELSE WakeOne(walk[n - 1], c, a.waitq[w][n])
  IN  walk[Len(a.waitq[w])]

(* halt_thread.  An interrupt that aborts the thread it interrupted leaves *)
(* _thread_dummy in its place.                                             *)
Leave(a, c, t, new) ==
  IF new # "dead" THEN a
  ELSE UnpendAll([Unpend(a, t) EXCEPT !.timeout[t] = FALSE], c, <<"join", t>>)

ReleaseHalters(a, c, t) == IF SMP THEN UnpendAll(a, c, <<"halt", t>>) ELSE a

HaltThread(a, c, t, new) ==
  IF new \in a.flags[t] THEN a
  ELSE [UpdateCache(
          ReleaseHalters(
            Leave(Unqueue([a EXCEPT !.flags[t] = @ \cup {new}], c, t), c, t, new),
            c, t),
          c, TRUE)
          EXCEPT !.flags[t] = @ \ {"aborting", "suspending"},
                 !.cur[c] = IF new = "dead" /\ @ = t /\ a.isr[c] THEN Dummy ELSE @]

\* Mutant of HaltCurrent: a CPU does not look whether its own thread was
\* told to halt.
HaltCurrentNot(a, c) == a

HaltCurrent(a, c) ==
  IF ~Halting(a, a.cur[c]) THEN a
  ELSE HaltThread(a, c, a.cur[c],
                  IF "aborting" \in a.flags[a.cur[c]] THEN "dead" ELSE "suspended")

(* next_up on SMP: a running thread that was told to halt halts here, and  *)
(* the best queued thread n is weighed against the running one.            *)
Weigh(a, c, n) ==
  LET me == a.cur[c]
  IN  IF /\ ~Prevented(a, me)
         /\ \/ PrioOf(a, me) < PrioOf(a, n)
            \/ PrioOf(a, me) = PrioOf(a, n) /\ ~a.swapOk[c]
            \/ ~ShouldPreempt(a, c, n, a.swapOk[c])
      THEN me ELSE n

Requeue(a, c, new) ==
  LET me == a.cur[c]
  IN  IF new # me /\ ~Prevented(a, me) /\ me # Idle /\ ~Queued(a, me)
      THEN QueueThread(a, c, me) ELSE a

Exchange(a, c, new) ==
  [st |-> [Unqueue(Requeue(a, c, new), c, new) EXCEPT !.swapOk[c] = FALSE],
   th |-> new]

WeighPick(n, c) == Exchange(n.st, c, Weigh(n.st, c, n.th))

NextUp(a, c) == WeighPick(Pick(HaltCurrent(a, c), c), c)

-----------------------------------------------------------------------------
(* The history of metaIRQ preemptions: a thread that may not be preempted  *)
(* is owed the CPU when a metaIRQ thread takes it, until it gets it back   *)
(* or can no longer run.                                                   *)
Displaced(c) ==
  /\ s.cur[c] \in Threads /\ ~MetaIrq(s, s.cur[c])
  /\ ~Preemptible(s, s.cur[c])
  /\ MetaIrq(s', s'.cur[c])

Owed(c) ==
  LET d == IF Displaced(c) THEN s.cur[c] ELSE owed[c]
  IN  IF d = None \/ Prevented(s', d) \/ (\E e \in CPUs : s'.cur[e] = d) THEN None ELSE d

History == owed' = [c \in CPUs |-> Owed(c)] /\ UNCHANGED ops

(* signal_pending_ipi *)
Signalled(a, c, i) == [d \in CPUs |-> i[d] \/ (d \in a.pendingIpi /\ d # c)]

Send(c, a, i) == s' = [a EXCEPT !.pendingIpi = {}] /\ ipi' = Signalled(a, c, i)

(* What every call that ends without a context switch does. *)
NoSwitch(c, a, i) ==
  /\ Send(c, a, i)
  /\ UNCHANGED <<leaving, holder>>
  /\ History

(* A thread can be switched to once its context has been saved. *)
Saved(a, t) == t \in Threads => \A d \in CPUs : leaving[d] # t /\ a.cur[d] # t

(* The outgoing thread goes back to the run queue if it is still runnable. *)
PutBack(a, c, t, old, fromIsr) ==
  LET poke == /\ fromIsr /\ IpiCascade /\ t \in Threads
              /\ a.mask[t] # CPUs /\ a.mask[old] # {c}
  IN  IF ~Queued(a, old) THEN a
      ELSE [FlagIpi(a, IF poke THEN IpiMask(a, c, old) ELSE {})
              EXCEPT !.runq = PriqAdd(@, old, a.prio)]

(* The switch, once the incoming thread is saved: the outgoing thread goes *)
(* back to the run queue if it is still runnable.  From z_swap() its own   *)
(* context is saved later, by arch_switch(), without the lock; at the end  *)
(* of an interrupt it may already be.                                      *)
FinishSwitch(c, a, t, i, fromIsr) ==
  LET out == IF a.cur[c] \in Threads THEN a.cur[c] ELSE None
  IN  /\ Send(c, PutBack(ResetSlice([a EXCEPT !.swapOk[c] = FALSE, !.cur[c] = t], c, t),
                         c, t, a.cur[c], fromIsr), i)
      /\ \E l \in (IF fromIsr THEN {None, out} ELSE {out}) : leaving' = [leaving EXCEPT ![c] = l]
      /\ holder' = NoHolder
      /\ History

(* z_sched_switch_spin: wait, holding the lock, for a thread not yet saved. *)
SwitchTo(c, a, t, i, fromIsr) ==
  IF Saved(a, t) THEN FinishSwitch(c, a, t, i, fromIsr)
  ELSE /\ s' = a /\ ipi' = i /\ leaving' = leaving
       /\ holder' = [cpu |-> c, th |-> t, isr |-> fromIsr]
       /\ History

(* z_swap *)
SwapFrom(c, me, n, i) ==
  IF n.th = me THEN NoSwitch(c, n.st, i) ELSE SwitchTo(c, n.st, n.th, i, FALSE)

Swap(c, a, i) ==
  IF ~SMP THEN NoSwitch(c, [a EXCEPT !.cur[c] = a.cache], i)
  ELSE SwapFrom(c, a.cur[c], NextUp(a, c), i)

(* z_reschedule.  In an interrupt it only signals; the switch comes when   *)
(* the interrupt ends.                                                     *)
Reschedule(c, a) ==
  LET b == IF SMP THEN [a EXCEPT !.swapOk[c] = FALSE] ELSE a
  IN  IF ~a.isr[c] /\ (SMP \/ a.cache # a.cur[c])
      THEN Swap(c, b, ipi) ELSE NoSwitch(c, b, ipi)

(* A section that ends with k_spin_unlock() and nothing else. *)
Unlock(a) == s' = a /\ UNCHANGED <<leaving, holder, ipi>> /\ History

-----------------------------------------------------------------------------
(* The caller on a CPU: an interrupt handler or the running thread. *)
Ctx(c) == IF s.isr[c] THEN c ELSE s.cur[c]

Free(c) == holder = NoHolder /\ leaving[c] = None

Calls(c, op) ==
  /\ op \in ops
  /\ Free(c)
  /\ Ctx(c) \in Threads \cup CPUs
  /\ pc[Ctx(c)] = Run

ThreadCalls(c, op) == Calls(c, op) /\ ~s.isr[c]

Goto(c, where) == pc' = [pc EXCEPT ![Ctx(c)] = where]

Init ==
  \E m \in Threads, c0 \in CPUs :
    /\ ops \in Workloads
    /\ owed = [c \in CPUs |-> None]
    /\ s = [prio |-> StartPrio,
            locked |-> [t \in Threads |-> 0],
            flags |-> [t \in Threads |-> IF t = m THEN {} ELSE {"prestart"}],
            queued |-> [t \in Threads |-> ~SMP /\ t = m],
            mask |-> [t \in Threads |-> CPUs],
            timeout |-> [t \in Threads |-> FALSE],
            runq |-> IF SMP THEN <<>> ELSE <<m>>,
            waitq |-> [w \in Waits |-> <<>>],
            cur |-> [c \in CPUs |-> IF c = c0 THEN m ELSE Idle],
            isr |-> [c \in CPUs |-> FALSE],
            cache |-> m,
            swapOk |-> [c \in CPUs |-> FALSE],
            mirqp |-> [c \in CPUs |-> None],
            slicing |-> "slice" \in ops,
            sliceOn |-> [c \in CPUs |-> "slice" \in ops /\ c = c0 /\
                                         StartPrio[m] >= SliceMaxPrio /\ StartPrio[m] >= 0],
            sliceExp |-> [c \in CPUs |-> FALSE],
            pendingIpi |-> {}]
    /\ leaving = [c \in CPUs |-> None]
    /\ holder = NoHolder
    /\ pc = [x \in Threads \cup CPUs |-> Run]
    /\ ipi = [c \in CPUs |-> FALSE]

(* k_thread_start: z_sched_start *)
Start(c, u) ==
  /\ Calls(c, "start")
  /\ "prestart" \in s.flags[u]
  /\ Reschedule(c, ReadyThread([s EXCEPT !.flags[u] = @ \ {"prestart"}], c, u))
  /\ UNCHANGED pc

(* k_yield *)
Yield(c) ==
  /\ ThreadCalls(c, "yield")
  /\ LET t == s.cur[c]
         a == IF ~SMP \/ s.queued[t] THEN DequeueThread(s, c, t) ELSE s
     IN  Swap(c, UpdateCache(QueueThread(a, c, t), c, TRUE), ipi)
  /\ UNCHANGED pc

(* z_pend_curr on some kernel object *)
Block(c) ==
  /\ ThreadCalls(c, "block")
  /\ Swap(c, AddToWaitq(s, c, s.cur[c], Obj), ipi)
  /\ UNCHANGED pc

(* The object wakes its first waiter: z_unpend_first_thread, then          *)
(* z_ready_thread, then z_reschedule.                                      *)
WakeFirst(c) ==
  /\ Calls(c, "block")
  /\ s.waitq[Obj] # <<>>
  /\ LET u == Head(s.waitq[Obj])
     IN  Reschedule(c, ReadyUnlessActive([Unpend(s, u) EXCEPT !.timeout[u] = FALSE], c, u))
  /\ UNCHANGED pc

(* k_sleep for a finite time: z_tick_sleep *)
Sleep(c) ==
  /\ ThreadCalls(c, "sleep")
  /\ LET t == s.cur[c]
         a == UnreadyThread(s, c, t)
     IN  Swap(c, [a EXCEPT !.timeout[t] = TRUE,
                           !.flags[t] = @ \cup {"suspended"}], ipi)
  /\ UNCHANGED pc

(* k_wakeup reads the thread's state and aborts its timeout before it      *)
(* takes the lock.                                                         *)
WakeupBegin(c, u) ==
  /\ Calls(c, "wakeup")
  /\ "pending" \notin s.flags[u]
  /\ s.timeout[u] \/ (s.flags[u] = {"suspended"} /\ ~s.queued[u])
  /\ Unlock([s EXCEPT !.timeout[u] = FALSE])
  /\ Goto(c, At("wakeup", u))

Wakeup(c) ==
  /\ Free(c) /\ Ctx(c) \in Threads \cup CPUs /\ pc[Ctx(c)].op = "wakeup"
  /\ LET u == pc[Ctx(c)].th
         a == ReadyUnlessActive([s EXCEPT !.flags[u] = @ \ {"suspended"}], c, u)
     IN  IF s.isr[c] THEN Unlock(a) ELSE Reschedule(c, a)
  /\ Goto(c, Run)

(* k_thread_priority_set: z_thread_prio_set under the lock, then           *)
(* z_reschedule_unlocked.                                                  *)
PrioSet(c, u, p) ==
  /\ ThreadCalls(c, "prio")
  /\ IF ~Ready(s, u) THEN Unlock([s EXCEPT !.prio[u] = p]) /\ UNCHANGED pc
     ELSE /\ IF ~SMP \/ s.queued[u]
             THEN LET b == QueueThread([DequeueThread(s, c, u) EXCEPT !.prio[u] = p], c, u)
                      d == IF s.prio[u] > p THEN FlagReady(b, c, u) ELSE b
                  IN  Unlock(UpdateCache(d, c, TRUE))
             ELSE LET a == [s EXCEPT !.prio[u] = p]
                      on == {d \in CPUs \ {c} : s.cur[d] = u}
                      b == IF s.prio[u] < p THEN FlagIpi(a, on) ELSE a
                  IN  Unlock(UpdateCache(b, c, TRUE))
          /\ IF SMP \/ s.locked[s.cur[c]] = 0
             THEN Goto(c, At("resched", None)) ELSE UNCHANGED pc

ReschedUnlocked(c) ==
  /\ Free(c) /\ Ctx(c) \in Threads /\ pc[Ctx(c)].op = "resched"
  /\ Reschedule(c, s)
  /\ Goto(c, Run)

SchedLock(c) ==
  /\ ThreadCalls(c, "lock")
  /\ s.locked[s.cur[c]] < MaxLock
  /\ Unlock([s EXCEPT !.locked[s.cur[c]] = @ + 1])
  /\ UNCHANGED pc

SchedUnlock(c) ==
  /\ ThreadCalls(c, "lock")
  /\ s.locked[s.cur[c]] > 0
  /\ Unlock(UpdateCache([s EXCEPT !.locked[s.cur[c]] = @ - 1], c, FALSE))
  /\ Goto(c, At("resched", None))

(* k_sched_time_slice_set *)
TimeSliceSet(c, on) ==
  /\ ThreadCalls(c, "slice_set")
  /\ Unlock(ResetSlice([s EXCEPT !.slicing = on], c, s.cur[c]))
  /\ UNCHANGED pc

(* cpu_mask_mod *)
CpuMaskMod(c, u, m) ==
  /\ ThreadCalls(c, "mask")
  /\ Prevented(s, u)
  /\ Unlock([s EXCEPT !.mask[u] = m])
  /\ UNCHANGED pc

-----------------------------------------------------------------------------
(* z_thread_halt.  A target that runs on another CPU is flagged and poked; *)
(* the caller waits on its queue, or spins if it is an interrupt.          *)
HaltOther(c, u, kind) ==
  LET me == Ctx(c)
      flag == IF kind = "dead" THEN "aborting" ELSE "suspending"
      w == <<IF kind = "dead" THEN "join" ELSE "halt", u>>
      a == [s EXCEPT !.flags[u] = @ \cup {flag}]
      i == [d \in CPUs |-> ipi[d] \/ s.cur[d] = u]
  IN  IF s.isr[c]
      THEN /\ s' = HaltCurrent(a, c) /\ ipi' = i /\ UNCHANGED <<leaving, holder>> /\ History
           /\ Goto(c, At("spin", u))
      ELSE /\ Swap(c, AddToWaitq(a, c, me, w), i)
           /\ Goto(c, At(IF kind = "dead" THEN "abort" ELSE "halt", u))

HaltHere(c, u, kind) ==
  LET a == HaltThread(s, c, u, kind)
  IN  /\ IF u = s.cur[c] /\ ~s.isr[c] THEN Swap(c, a, ipi) ELSE Unlock(a)
      /\ Goto(c, Run)

ThreadHalt(c, u, kind) ==
  IF Elsewhere(s, c, u) THEN HaltOther(c, u, kind) ELSE HaltHere(c, u, kind)

(* k_thread_suspend: the timeout is aborted before the lock is taken. *)
SuspendBegin(c, u) ==
  /\ \/ ThreadCalls(c, "suspend")
     \/ Calls(c, "isr_suspend") /\ s.isr[c]
  /\ s.flags[u] \cap {"dead", "prestart"} = {}
  /\ Unlock([s EXCEPT !.timeout[u] = FALSE])
  /\ Goto(c, At("suspend", u))

Suspend(c) ==
  /\ Free(c) /\ Ctx(c) \in Threads \cup CPUs /\ pc[Ctx(c)].op = "suspend"
  /\ LET u == pc[Ctx(c)].th
     IN  IF "suspended" \in s.flags[u] THEN Unlock(s) /\ Goto(c, Run)
         ELSE ThreadHalt(c, u, "suspended")

(* k_thread_resume *)
Resume(c, u) ==
  /\ Calls(c, "resume")
  /\ "suspended" \in s.flags[u]
  /\ Reschedule(c, ReadyThread([s EXCEPT !.flags[u] = @ \ {"suspended"}], c, u))
  /\ UNCHANGED pc

(* k_thread_abort, and the end of a thread's entry function *)
Abort(c, u) ==
  /\ \/ ThreadCalls(c, "abort")
     \/ ThreadCalls(c, "exit") /\ u = s.cur[c]
     \/ Calls(c, "isr_abort") /\ s.isr[c]
  /\ "dead" \notin s.flags[u]
  /\ ThreadHalt(c, u, "dead")

(* k_thread_join: with a dead target it spins until the target's context   *)
(* is saved; otherwise it waits on the target's join queue.                *)
Join(c, u) ==
  /\ ThreadCalls(c, "join")
  /\ LET t == s.cur[c]
     IN  IF "dead" \in s.flags[u]
         THEN Saved(s, u) /\ Unlock(s) /\ Goto(c, At("join", u))
         ELSE /\ u # t
              /\ \A i \in 1..Len(s.waitq[<<"join", t>>]) : s.waitq[<<"join", t>>][i] # u
              /\ Swap(c, AddToWaitq(s, c, t, <<"join", u>>), ipi)
              /\ Goto(c, At("join", u))

(* The call that waited returns. *)
HaltOrJoinReturns(c) ==
  /\ leaving[c] = None /\ holder.cpu # c /\ ~s.isr[c] /\ s.cur[c] \in Threads
  /\ pc[s.cur[c]].op \in {"halt", "abort", "join"}
  /\ Goto(c, Run)
  /\ UNCHANGED <<s, leaving, holder, ipi>> /\ History

(* thread_halt_spin ends when the target has halted. *)
SpinReturns(c) ==
  /\ s.isr[c] /\ pc[c].op = "spin"
  /\ ~Halting(s, pc[c].th)
  /\ Goto(c, Run)
  /\ UNCHANGED <<s, leaving, holder, ipi>> /\ History

-----------------------------------------------------------------------------
(* Interrupts.  A CPU that spins for a switch, or is inside arch_switch(), *)
(* has them masked.                                                        *)
Interruptible(c) == ~s.isr[c] /\ leaving[c] = None /\ holder.cpu # c

Enter(c, where) ==
  /\ Interruptible(c)
  /\ s' = [s EXCEPT !.isr[c] = TRUE]
  /\ pc' = [pc EXCEPT ![c] = where]

DeviceIrq(c) ==
  /\ "isr" \in ops
  /\ Enter(c, Run)
  /\ UNCHANGED <<leaving, holder, ipi>> /\ History

(* The IPI: z_sched_ipi, which only looks at the time slice. *)
SchedIpi(c) ==
  /\ ipi[c] /\ Interruptible(c) /\ holder = NoHolder
  /\ s' = TimeSlice([s EXCEPT !.isr[c] = TRUE], c)
  /\ ipi' = [ipi EXCEPT ![c] = FALSE]
  /\ UNCHANGED <<leaving, holder, pc>> /\ History

(* The timer: sys_clock_announce() runs expired timeouts, one at a time    *)
(* and on one CPU at a time, then z_time_slice().                          *)
TimerIrq(c) ==
  /\ {"sleep", "slice"} \cap ops # {}
  /\ \A d \in CPUs : pc[d].op \notin {"announce", "fire"}
  /\ Enter(c, At("announce", None))
  /\ UNCHANGED <<leaving, holder, ipi>> /\ History

SliceTimeout(c, d) ==
  /\ pc[c].op = "announce"
  /\ s.sliceOn[d]
  /\ LET a == [s EXCEPT !.sliceOn[d] = FALSE, !.sliceExp[d] = TRUE]
     IN  s' = IF d # c THEN FlagIpi(a, {d}) ELSE a
  /\ UNCHANGED <<leaving, holder, pc, ipi>> /\ History

ThreadExpires(c, t) ==
  /\ pc[c].op = "announce"
  /\ s.timeout[t]
  /\ s' = [s EXCEPT !.timeout[t] = FALSE]
  /\ pc' = [pc EXCEPT ![c] = At("fire", t)]
  /\ UNCHANGED <<leaving, holder, ipi>> /\ History

(* z_thread_timeout: z_sched_wake_thread(thread, true) *)
ThreadTimeout(c) ==
  /\ pc[c].op = "fire"
  /\ holder = NoHolder
  /\ LET t == pc[c].th
     IN  IF s.flags[t] \cap {"dead", "aborting"} # {} THEN Unlock(s)
         ELSE Unlock(ReadyThread([Unpend(s, t) EXCEPT
                !.flags[t] = @ \ {"pending", "prestart", "suspended"}], c, t))
  /\ pc' = [pc EXCEPT ![c] = At("announce", None)]

AnnounceEnds(c) ==
  /\ pc[c].op = "announce"
  /\ holder = NoHolder
  /\ Unlock(TimeSlice(s, c))
  /\ pc' = [pc EXCEPT ![c] = Run]

ReturnTo(c, n) ==
  IF n.th = s.cur[c] THEN NoSwitch(c, n.st, ipi)
  ELSE SwitchTo(c, UpdateMetaIrq(n.st, c, n.th), n.th, ipi, TRUE)

(* The end of an interrupt: z_get_next_switch_handle on SMP; on one CPU    *)
(* the architecture code switches to the cached thread.                    *)
IsrExit(c) ==
  /\ s.isr[c] /\ pc[c] = Run /\ holder = NoHolder
  /\ LET a == [s EXCEPT !.isr[c] = FALSE]
     IN  IF ~SMP THEN NoSwitch(c, [a EXCEPT !.cur[c] = a.cache], ipi)
         ELSE ReturnTo(c, NextUp(a, c))
  /\ UNCHANGED pc

(* The thread the lock holder spins for has been saved. *)
SwitchSpinEnds ==
  /\ holder # NoHolder
  /\ Saved(s, holder.th)
  /\ FinishSwitch(holder.cpu, s, holder.th, ipi, holder.isr)
  /\ UNCHANGED pc

(* arch_switch() stores the outgoing thread's switch_handle. *)
SwitchDone(c) ==
  /\ leaving[c] # None
  /\ leaving' = [leaving EXCEPT ![c] = None]
  /\ UNCHANGED <<s, holder, pc, ipi>> /\ History

-----------------------------------------------------------------------------
Call(c) ==
  \/ \E u \in Threads : Start(c, u)
  \/ Yield(c)
  \/ Block(c)
  \/ WakeFirst(c)
  \/ Sleep(c)
  \/ \E u \in Threads : WakeupBegin(c, u)
  \/ Wakeup(c)
  \/ \E u \in PrioTargets, p \in NewPrios : PrioSet(c, u, p)
  \/ ReschedUnlocked(c)
  \/ SchedLock(c)
  \/ SchedUnlock(c)
  \/ \E on \in BOOLEAN : TimeSliceSet(c, on)
  \/ \E u \in Threads, m \in Masks : CpuMaskMod(c, u, m)
  \/ \E u \in Threads : SuspendBegin(c, u)
  \/ Suspend(c)
  \/ \E u \in Threads : Resume(c, u)
  \/ \E u \in Threads : Abort(c, u)
  \/ \E u \in Threads : Join(c, u)
  \/ HaltOrJoinReturns(c)

Interrupt(c) ==
  \/ DeviceIrq(c)
  \/ SchedIpi(c)
  \/ TimerIrq(c)
  \/ \E d \in CPUs : SliceTimeout(c, d)
  \/ \E t \in Threads : ThreadExpires(c, t)
  \/ ThreadTimeout(c)
  \/ AnnounceEnds(c)
  \/ SpinReturns(c)
  \/ IsrExit(c)

Next ==
  \/ \E c \in CPUs : Call(c) \/ Interrupt(c) \/ SwitchDone(c)
  \/ SwitchSpinEnds

Spec == Init /\ [][Next]_vars

(* Interrupts are taken and end, and an armed slice timeout that stays     *)
(* armed expires.                                                          *)
Fairness ==
  \A c \in CPUs :
    /\ SF_vars(TimerIrq(c))
    /\ SF_vars(\E d \in CPUs : SliceTimeout(c, d))
    /\ WF_vars(AnnounceEnds(c))
    /\ WF_vars(IsrExit(c))

FairSpec == Spec /\ Fairness

-----------------------------------------------------------------------------
InRunq(t) == \E i \in 1..Len(s.runq) : s.runq[i] = t
RunsOn(t) == {c \in CPUs : s.cur[c] = t}

(* A thread is in one place: it runs on at most one CPU, it is linked at   *)
(* most once in the run queue and, on SMP, "_current is never in the run   *)
(* queue until context switch" (sched.c).                                  *)
OnePlace ==
  \A t \in Threads :
    /\ Cardinality(RunsOn(t)) <= 1
    /\ Cardinality({i \in 1..Len(s.runq) : s.runq[i] = t}) <= 1
    /\ SMP /\ RunsOn(t) # {} => ~InRunq(t)

BeingWoken(t) ==
  \E x \in Threads \cup CPUs : pc[x].th = t /\ pc[x].op \in {"wakeup", "suspend", "fire"}

(* No thread is lost or revived: the run queue holds exactly the threads   *)
(* that are ready and (on SMP) not running, and _THREAD_QUEUED says so.    *)
(* A call or timeout that has unlinked a thread's timeout and not yet      *)
(* taken the lock is about to queue it.                                    *)
RunqIsReady ==
  \A t \in Threads :
    /\ InRunq(t) => ~Prevented(s, t) /\ s.queued[t]
    /\ Ready(s, t) => \/ InRunq(t) \/ holder.th = t
                      \/ SMP /\ RunsOn(t) # {}
                      \/ BeingWoken(t)

(* The spin under the scheduler lock ends by itself: the thread waited for *)
(* is "on a path where it will deterministically (!!!) reach               *)
(* arch_switch()" (kswap.h), so it needs no lock.                          *)
SpinIsShort ==
  \A c \in CPUs : holder.th # s.cur[c]

Outranked(c) ==
  LET b == RunqBest(s, c)
  IN  /\ b # None
      /\ ~Prevented(s, s.cur[c])
      /\ Preemptible(s, s.cur[c])
      /\ PrioOf(s, b) < PrioOf(s, s.cur[c])

OnItsWay(c) ==
  \/ s.isr[c] \/ leaving[c] # None \/ holder.cpu = c
  \/ s.cur[c] \in Threads /\ pc[s.cur[c]].op = "resched"

AllPreempt ==
  \A c \in CPUs : Outranked(c) =>
    \/ OnItsWay(c) \/ ipi[c]
    \/ c \in s.pendingIpi /\ \E d \in CPUs \ {c} : OnItsWay(d)

(* Preemption is never lost: a CPU whose preemptible thread is outranked   *)
(* by a queued one is on its way into the scheduler, or has been poked, or *)
(* will be by the CPU that flagged it.  (With pinned threads this needs    *)
(* CONFIG_SCHED_IPI_CASCADE.)                                              *)
PreemptionNotLost == (\A t \in Threads : s.mask[t] = CPUs) => AllPreempt

(* "These cascading IPIs will ensure that the system will settle upon a    *)
(* valid set of high priority threads" (Kconfig.smp).                      *)
CascadeSettles == AllPreempt

(* A halt request is served: whoever waits for a thread to be suspended,   *)
(* or to die because it asked so, waits for one that still runs and still  *)
(* carries the request: "it will halt itself in the IPI" (sched.c).        *)
Waiting(t, w) == \E i \in 1..Len(s.waitq[w]) : s.waitq[w][i] = t

HaltersAreReleased ==
  \A t, u \in Threads :
    /\ Waiting(t, <<"halt", u>>) => "suspending" \in s.flags[u] /\ RunsOn(u) # {}
    /\ Waiting(t, <<"join", u>>) /\ pc[t] = At("abort", u)
         => "aborting" \in s.flags[u] /\ RunsOn(u) # {}

(* Interrupts that spin for each other's threads do not wait for each      *)
(* other forever: the thread a stuck handler spins for runs on a CPU that  *)
(* is not stuck itself.                                                    *)
Stuck(c) == pc[c].op = "spin" /\ Halting(s, pc[c].th)

HaltSpinsEnd ==
  \A c \in CPUs : Stuck(c) => \E d \in RunsOn(pc[c].th) : ~Stuck(d)

(* Once a join has returned, the joined thread's stack and record are free *)
(* to be reused: no CPU still runs it or is saving its context.            *)
JoinedIsGone ==
  \A c \in CPUs : \A t, u \in Threads :
    (s.cur[c] = t /\ leaving[c] = None /\ pc[t] = At("join", u) /\ "dead" \in s.flags[u])
      => RunsOn(u) = {} /\ \A d \in CPUs : leaving[d] # u

(* A cooperative thread, or one that holds the scheduler lock, loses its   *)
(* CPU only by its own yield or wait, or to a metaIRQ thread.              *)
CoopKeepsCpu ==
  [][\A c \in CPUs :
       LET t == s.cur[c]
       IN  (t \in Threads /\ ~Preemptible(s, t) /\ s'.cur[c] # t) =>
             \/ Prevented(s', t)
             \/ MetaIrq(s', s'.cur[c])
             \/ Yield(c)]_vars

(* "MetaIRQs must always attempt to return back to a cooperative thread    *)
(* they preempted and not whatever happens to be highest priority now"     *)
(* (sched.c).                                                              *)
MetaIrqReturns ==
  \A c \in CPUs : owed[c] # None /\ ~s.isr[c] => MetaIrq(s, s.cur[c])

(* Time slicing: a thread that may be sliced does not run forever while an *)
(* equal waits for the CPU.                                                *)
Hogs(c, t) ==
  /\ s.cur[c] = t /\ Sliceable(s, t)
  /\ \E u \in Threads \ {t} :
       InRunq(u) /\ s.prio[u] = s.prio[t] /\ c \in s.mask[u]

NobodyHogs == \A c \in CPUs, t \in Threads : []<>~Hogs(c, t)

=============================================================================
