------------------------------ MODULE Timeouts ------------------------------
(***************************************************************************)
(* The kernel's timeout list, kernel/timeout.c, driven by the tickless     *)
(* timer driver drivers/timer/arm_arch_timer.c.  Every pending timeout is  *)
(* a node of one list; a node holds the ticks between its own deadline and *)
(* that of the node before it.  sys_clock_announce() advances the kernel's *)
(* clock from deadline to deadline and drops timeout_lock around every     *)
(* handler, so timeouts are added and aborted, and another CPU may         *)
(* announce, in the middle of it.  One action is one section under         *)
(* timeout_lock, or the part of the interrupt that comes before it.        *)
(***************************************************************************)
EXTENDS Integers, SequencesExt

CONSTANTS Timeouts,  \* the struct _timeout objects
          Cpus,      \* the CPUs that take the timer interrupt
          Delays,    \* relative timeouts given to z_add_timeout
          AbsTicks,  \* absolute ones (K_TIMEOUT_ABS_TICKS)
          MaxTick    \* bound: the hardware counter stops there

ASSUME TimeoutsAssumption ==
  /\ IsFiniteSet(Cpus) /\ Cpus # {}
  /\ MaxTick \in Nat
  /\ Delays \subseteq 0..MaxTick
  /\ AbsTicks \subseteq 0..MaxTick

VARIABLES now,       \* the hardware counter, in ticks
          lastTick,  \* the driver's last_tick: what it has reported
          compare,   \* each CPU's compare register; Masked when masked
          isr,       \* where each CPU is in the timer interrupt
          list,      \* timeout_list
          currTick,  \* curr_tick
          remaining, \* announce_remaining
          deadline,  \* history: curr_tick + dticks when the node was added
          due,       \* history: when the caller's delay will have elapsed
          armed      \* history: the nodes in the list, oldest request first

toVars == <<now, lastTick, compare, isr, list, currTick, remaining,
            deadline, due, armed>>

Masked == 3 * MaxTick + 3
Out == [pc |-> "out", ticks |-> 0, to |-> {}]

(* Deltas are never negative, whatever is added to or removed from the     *)
(* list in the middle of an announcement.                                  *)
TTypeOK ==
  /\ now \in 0..MaxTick
  /\ lastTick \in 0..now
  /\ compare \in [Cpus -> 0..Masked]
  /\ isr \in [Cpus -> [pc : {"out", "announce", "handler"}, ticks : Nat,
                       to : SUBSET Timeouts]]
  /\ list \in Seq([to : Timeouts, dticks : Nat])
  /\ currTick \in Nat
  /\ remaining \in Int
  /\ deadline \in [Timeouts -> Nat]
  /\ due \in [Timeouts -> Nat]
  /\ armed \in Seq(Timeouts)

TInit ==
  /\ now = 0
  /\ lastTick = 0
  /\ compare = [c \in Cpus |-> 1]
  /\ isr = [c \in Cpus |-> Out]
  /\ list = <<>>
  /\ currTick = 0
  /\ remaining = 0
  /\ deadline = [t \in Timeouts |-> 0]
  /\ due = [t \in Timeouts |-> 0]
  /\ armed = <<>>

Linked(t) == \E i \in 1..Len(list) : list[i].to = t

(* The ticks from curr_tick to the deadline of the k-th node. *)
Through(k) ==
  LET sum[i \in 0..Len(list)] ==
        IF i = 0 THEN 0 ELSE sum[i - 1] + list[i].dticks
  IN sum[k]

(* timeout_rem *)
TimeoutRem(t) == Through(CHOOSE i \in 1..Len(list) : list[i].to = t)

(* Mutant of Elapsed: the driver is not asked. *)
ElapsedZero == 0

(* elapsed(): while an announcement is in progress the clock is curr_tick. *)
Elapsed == IF remaining = 0 THEN now - lastTick ELSE 0

-----------------------------------------------------------------------------
DticksAbs(tick) == Max({1, tick - currTick})

DticksRel(ticks) == ticks + 1 + Elapsed

(* The loop of z_add_timeout stops at the first node that is due later. *)
InsertPos(d) ==
  Min({i \in 1..Len(list) : Through(i) > d} \cup {Len(list) + 1})

Insert(t, d) ==
  LET p == InsertPos(d)
      rest == [i \in 1..Len(list) |->
                 IF i = p THEN [list[i] EXCEPT !.dticks = Through(p) - d]
                 ELSE list[i]]
  IN  InsertAt(rest, p, [to |-> t, dticks |-> d - Through(p - 1)])

(* Mutant of RemoveTimeout: the next node keeps its delta. *)
RemoveTimeoutDrops(t) ==
  LET p == CHOOSE i \in 1..Len(list) : list[i].to = t
  IN  RemoveAt(list, p)

(* remove_timeout: the next node inherits the ticks. *)
RemoveTimeout(t) ==
  LET p == CHOOSE i \in 1..Len(list) : list[i].to = t
      rest == [i \in 1..Len(list) |->
                 IF i = p + 1
                 THEN [list[i] EXCEPT !.dticks = @ + list[p].dticks]
                 ELSE list[i]]
  IN  RemoveAt(rest, p)

(* sys_clock_set_timeout(next_timeout()).  The driver counts from          *)
(* last_tick + last_elapsed, and next_timeout() has just refreshed the     *)
(* latter, so the compare value is last_tick plus the head's delta, or the *)
(* present if that has passed.                                             *)
CompareFor(l) ==
  IF l = <<>> THEN Masked ELSE Max({now, lastTick + l[1].dticks})

(* Mutant of Program: only an empty list makes the new node first. *)
ProgramEmpty(c, t) ==
  compare' = IF list = <<>> /\ remaining = 0
             THEN [compare EXCEPT ![c] = CompareFor(list')] ELSE compare

(* The end of z_add_timeout, after the insertion. *)
Program(c, t) ==
  compare' = IF list'[1].to = t /\ remaining = 0
             THEN [compare EXCEPT ![c] = CompareFor(list')] ELSE compare

(* The histories of a node that leaves the list are of no more use. *)
Forget(t) ==
  /\ armed' = Remove(armed, t)
  /\ deadline' = [deadline EXCEPT ![t] = 0]
  /\ due' = [due EXCEPT ![t] = 0]

(* z_add_timeout.  "Current time" is the uptime for a thread, and the      *)
(* expiry being handled for a handler that adds a timeout (clocks.rst).    *)
AddTimeout(c, t, d, dueAt) ==
  /\ ~Linked(t)
  /\ list' = Insert(t, d)
  /\ Program(c, t)
  /\ deadline' = [deadline EXCEPT ![t] = currTick + d]
  /\ due' = [due EXCEPT ![t] = dueAt]
  /\ armed' = Append(armed, t)
  /\ UNCHANGED <<now, lastTick, isr, currTick, remaining>>

AddRelative(c, t, ticks) ==
  /\ isr[c].pc # "announce"
  /\ AddTimeout(c, t, DticksRel(ticks),
                (IF isr[c].pc = "handler" THEN currTick ELSE now) + ticks + 1)

AddAbsolute(c, t, tick) ==
  /\ isr[c].pc # "announce"
  /\ AddTimeout(c, t, DticksAbs(tick), tick)

(* z_abort_timeout of a linked node; otherwise it returns -EINVAL. *)
AbortTimeout(c, t) ==
  /\ isr[c].pc # "announce"
  /\ Linked(t)
  /\ list' = RemoveTimeout(t)
  /\ Forget(t)
  /\ UNCHANGED <<now, lastTick, compare, isr, currTick, remaining>>

-----------------------------------------------------------------------------
Tick ==
  /\ now < MaxTick
  /\ now' = now + 1
  /\ UNCHANGED <<lastTick, compare, isr, list, currTick, remaining,
                 deadline, due, armed>>

(* arm_arch_timer_compare_isr up to the release of the driver's lock: the  *)
(* ticks are accounted for before they are announced.                      *)
TimerIsr(c) ==
  /\ isr[c].pc = "out"
  /\ compare[c] <= now
  /\ isr' = [isr EXCEPT ![c] = [pc |-> "announce", ticks |-> now - lastTick,
                                to |-> {}]]
  /\ lastTick' = now
  /\ compare' = [compare EXCEPT ![c] = Masked]
  /\ UNCHANGED <<now, list, currTick, remaining, deadline, due, armed>>

(* The loop of sys_clock_announce from its test to the next handler, or to *)
(* the end of the announcement, with rem ticks left.                       *)
AnnounceLoop(c, rem) ==
  IF list # <<>> /\ list[1].dticks <= rem
  THEN /\ currTick' = currTick + list[1].dticks
       /\ list' = Tail(list)
       /\ Forget(list[1].to)
       /\ remaining' = rem
       /\ isr' = [isr EXCEPT ![c] = [pc |-> "handler", ticks |-> list[1].dticks,
                                     to |-> {list[1].to}]]
       /\ compare' = compare
  ELSE /\ currTick' = currTick + rem
       /\ list' = IF list = <<>> THEN list
                  ELSE [list EXCEPT ![1].dticks = @ - rem]
       /\ remaining' = 0
       /\ compare' = [compare EXCEPT ![c] = CompareFor(list')]
       /\ isr' = [isr EXCEPT ![c] = Out]
       /\ UNCHANGED <<armed, deadline, due>>

(* sys_clock_announce: a CPU that finds ticks left to process adds its own *)
(* to them and leaves the work to the other.                               *)
Announce(c) ==
  /\ isr[c].pc = "announce"
  /\ IF remaining # 0
     THEN /\ remaining' = remaining + isr[c].ticks
          /\ isr' = [isr EXCEPT ![c] = Out]
          /\ UNCHANGED <<compare, list, currTick, armed, deadline, due>>
     ELSE AnnounceLoop(c, isr[c].ticks)
  /\ UNCHANGED <<now, lastTick>>

(* The handler returns and the loop goes on. *)
HandlerDone(c) ==
  /\ isr[c].pc = "handler"
  /\ AnnounceLoop(c, remaining - isr[c].ticks)
  /\ UNCHANGED <<now, lastTick>>

TNext ==
  \/ Tick
  \/ \E c \in Cpus :
       \/ TimerIsr(c)
       \/ Announce(c)
       \/ HandlerDone(c)
       \/ \E t \in Timeouts :
            \/ AbortTimeout(c, t)
            \/ \E d \in Delays : AddRelative(c, t, d)
            \/ \E k \in AbsTicks : AddAbsolute(c, t, k)

TSpec == TInit /\ [][TNext]_toVars

(* A timer interrupt that is raised is taken and runs to its end. *)
TFairSpec ==
  TSpec /\ \A c \in Cpus : WF_toVars(TimerIsr(c) \/ Announce(c) \/ HandlerDone(c))

-----------------------------------------------------------------------------
(* The deltas always describe the deadlines the nodes were added with:     *)
(* z_timeout_expires() returns the same tick from the z_add_timeout() to   *)
(* the expiry, whatever is added, aborted or announced in between.         *)
DeadlinesKept ==
  \A i \in 1..Len(list) : currTick + TimeoutRem(list[i].to) = deadline[list[i].to]

(* A handler never runs before its delay has elapsed or its absolute time  *)
(* has come.                                                               *)
NeverEarly ==
  [][\A c \in Cpus : (Announce(c) \/ HandlerDone(c))
       => \A t \in isr'[c].to : due[t] <= now]_toVars

(* Timeouts with the same deadline expire in the order they were added. *)
SameTickFifo ==
  \A i, j \in 1..Len(list) :
    (i < j /\ deadline[list[i].to] = deadline[list[j].to]) =>
      \E a, b \in 1..Len(armed) :
        a < b /\ armed[a] = list[i].to /\ armed[b] = list[j].to

(* While no CPU is in the timer interrupt, some CPU's compare register     *)
(* fires no later than the first deadline.                                 *)
WakeupProgrammed ==
  (list # <<>> /\ \A c \in Cpus : isr[c].pc = "out")
    => \E c \in Cpus : compare[c] <= Max({now, lastTick + list[1].dticks})

(* Every tick the driver reports reaches curr_tick exactly once, also when *)
(* two CPUs announce at the same time.                                     *)
InProgress(pc) ==
  FoldSet(LAMBDA c, s : s + (IF isr[c].pc = pc THEN isr[c].ticks ELSE 0), 0, Cpus)

TicksConserved ==
  currTick + remaining - InProgress("handler") + InProgress("announce") = lastTick

=============================================================================
