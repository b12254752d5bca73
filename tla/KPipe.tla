-------------------------------- MODULE KPipe --------------------------------
(***************************************************************************)
(* The pipe of kernel/pipes.c: a stream of bytes through a ring buffer,    *)
(* past which bytes go straight from a waiting writer to a reader or from  *)
(* a writer to a waiting reader.  Bytes are numbered in the order of the   *)
(* calls that bring them.                                                  *)
(*                                                                         *)
(* The pipe's lock covers a whole transfer, and a thread that times out    *)
(* meanwhile waits for the lock before it looks at what it has got, so a   *)
(* transfer is one action and the sleep that may follow another.           *)
(***************************************************************************)
EXTENDS HandOver

CONSTANTS ReadQ, WriteQ, \* pipe->wait_q.readers and .writers
          PipeCallers,   \* threads that use the pipe, besides interrupts
          PipeSizes,     \* sizes of the buffer (0: none)
          Requests,      \* <<bytes, min_xfer>> of callers
          MaxByte        \* bound on the bytes written

ASSUME PipeAssumption ==
  /\ {ReadQ, WriteQ} \subseteq WaitQs
  /\ PipeCallers \subseteq Callers
  /\ PipeSizes \subseteq Nat
  /\ \A r \in Requests : r \in Nat \X Nat /\ r[1] > 0 /\ r[2] <= r[1]
  /\ MaxByte \in Nat

VARIABLE pp          \* size, buf, used, rd, wr: the ring; pc: where callers
                     \* are; req: what a blocked caller asked for; rest: a
                     \* blocked writer's bytes not yet written; left: how
                     \* many bytes a blocked reader lacks; next: the next
                     \* byte; out: the bytes read, in order; lost: bytes
                     \* reported as not written, or flushed with the buffer

pipeVars == <<pendVars, handVars, pp>>

PipeRecord(size) ==
  [size |-> size, buf |-> [i \in 0..(size - 1) |-> 0],
   used |-> 0, rd |-> 0, wr |-> 0,
   pc |-> [t \in PipeCallers |-> "idle"],
   req |-> [t \in PipeCallers |-> <<0, 0>>],
   rest |-> [t \in PipeCallers |-> <<>>],
   left |-> [t \in PipeCallers |-> 0],
   next |-> 1, out |-> <<>>, lost |-> {}]

(* k_pipe_init, k_pipe_alloc_init *)
PipeInit ==
  /\ HInit
  /\ held = {}
  /\ pp \in {PipeRecord(size) : size \in PipeSizes}

Least(a, b) == IF a < b THEN a ELSE b
Most(a, b) == IF a > b THEN a ELSE b

(* pipe_buffer_list_populate: the bytes from start to end, over the wrap *)
Span(p, start, end) == IF start < end THEN end - start ELSE p.size - start + end

Room(p) == IF p.used = p.size THEN 0 ELSE Span(p, p.wr, p.rd)
Readable(p) == IF p.used = 0 THEN 0 ELSE Span(p, p.rd, p.wr)

Wrapped(p, i) == IF i >= p.size THEN i - p.size ELSE i

Content(p) == [i \in 1..p.used |-> p.buf[Wrapped(p, p.rd + i - 1)]]

RingWrite(p, bytes) ==
  [p EXCEPT !.buf = [j \in DOMAIN @ |->
                       IF \E i \in DOMAIN bytes : Wrapped(p, p.wr + i - 1) = j
                       THEN bytes[CHOOSE i \in DOMAIN bytes :
                                    Wrapped(p, p.wr + i - 1) = j]
                       ELSE @[j]],
            !.used = @ + Len(bytes),
            !.wr = Wrapped(p, @ + Len(bytes))]

RingRead(p, n) ==
  [p EXCEPT !.used = @ - n, !.rd = Wrapped(p, @ + n)]

(* pipe_waiter_list_populate and the copying loops: n bytes shared among   *)
(* the waiters of a queue in their order, each asking for ask[t].          *)
Total(q, ask) == MapThenSumSet(LAMBDA j : ask[q[j]], DOMAIN q)

Share(q, ask, n, i) ==
  Least(ask[q[i]], Most(0, n - Total(SubSeq(q, 1, i - 1), ask)))

ToWrite(p) == [t \in PipeCallers |-> Len(p.rest[t])]

(* What the writers in the queue give when n bytes are taken, and what is  *)
(* left to them.                                                           *)
FromWriters(p, q, n) ==
  FlattenSeq([i \in DOMAIN q |->
    SubSeq(p.rest[q[i]], 1, Share(q, ToWrite(p), n, i))])

AfterWriters(p, q, n) ==
  [p EXCEPT !.rest = [t \in PipeCallers |->
     IF \E i \in DOMAIN q : q[i] = t
     THEN LET i == CHOOSE k \in DOMAIN q : q[k] = t
          IN SubSeq(@[t], 1 + Share(q, ToWrite(p), n, i), Len(@[t]))
     ELSE @[t]]]

(* z_unpend_thread and z_ready_thread, for the threads that have all *)
PipeWake(q, done) ==
  /\ waitq' = [waitq EXCEPT ![q] = SelectSeq(@, LAMBDA t : t \notin done)]
  /\ pendedOn' = [t \in Threads |-> IF t \in done THEN None ELSE pendedOn[t]]
  /\ timeout' = [t \in Threads |-> timeout[t] /\ t \notin done]
  /\ runnable' = [t \in Threads |-> runnable[t] \/ (t \in done /\ halted[t] = "no")]
  /\ UNCHANGED <<prio, firing, suspending, swapRet, halted>>

(* The condition to return at once *)
Enough(n, min, moved, wait) == moved = n \/ ~wait \/ (moved >= min /\ min > 0)

(* Who may wait is a thread; K_NO_WAIT is for interrupt handlers too. *)
PipeIdle(t, wait) ==
  /\ Unlocked
  /\ wait => ThreadContext /\ runnable[t] /\ pp.pc[t] = "idle"

-----------------------------------------------------------------------------
(* k_pipe_put: the bytes go to the waiting readers, then to the buffer.    *)
(* With K_NO_WAIT (any caller) it refuses if it cannot write the minimum.  *)
PipePut(t, n, min, wait) ==
  LET bytes == [i \in 1..n |-> pp.next + i - 1]
      readers == waitq[ReadQ]
      direct == Least(n, Total(readers, pp.left))
      moved == Least(n, direct + Room(pp))
      given == [r \in PipeCallers |->
                  IF \E i \in DOMAIN readers : readers[i] = r
                  THEN Share(readers, pp.left, n,
                             CHOOSE i \in DOMAIN readers : readers[i] = r)
                  ELSE 0]
      p == RingWrite([pp EXCEPT !.left = [r \in PipeCallers |-> @[r] - given[r]],
                                !.out = @ \o SubSeq(bytes, 1, direct),
                                !.next = @ + n],
                     SubSeq(bytes, direct + 1, moved))
      rest == SubSeq(bytes, moved + 1, n)
  IN /\ PipeIdle(t, wait)
     /\ pp.next + n <= MaxByte + 1
     /\ ~wait => direct + Room(pp) >= min
     /\ PipeWake(ReadQ, {r \in Range(readers) : p.left[r] = 0})
     /\ IF Enough(n, min, moved, wait)
        THEN /\ pp' = [p EXCEPT !.lost = @ \cup Range(rest)]
             /\ sec' = sec
        ELSE /\ pp' = [p EXCEPT !.rest[t] = rest, !.req[t] = <<n, min>>]
             /\ sec' = [Free EXCEPT !.st = "put", !.th = t]
     /\ UNCHANGED <<wanting, data, held>>

(* Mutant of Refill: waiting writers keep what they have. *)
RefillNot(p, q) == p

(* The end of pipe_get_internal: the buffer is refilled from the writers *)
Refill(p, q) ==
  RingWrite(AfterWriters(p, q, Room(p)), FromWriters(p, q, Room(p)))

(* pipe_get_internal, for k_pipe_get: first from the buffer, then from the *)
(* waiting writers *)
Taken(n) ==
  LET writers == waitq[WriteQ]
      stored == Least(n, Readable(pp))
      p == RingRead(pp, stored)
  IN [AfterWriters(p, writers, n - stored)
        EXCEPT !.out = @ \o SubSeq(Content(pp), 1, stored)
                         \o FromWriters(p, writers, n - stored)]

(* The writers that wake: those with nothing left among the ones it lists, *)
(* until they have the n bytes asked for.  A writer whose last bytes go to *)
(* the buffer afterwards is not woken.                                     *)
Emptied(n) ==
  LET q == waitq[WriteQ]
  IN {q[i] : i \in {j \in DOMAIN q : /\ j > 1 => Total(SubSeq(q, 1, j - 1), ToWrite(pp)) < n
                                     /\ Taken(n).rest[q[j]] = <<>>}}

PipeGet(t, n, min, wait) ==
  LET readable == Readable(pp) + Total(waitq[WriteQ], ToWrite(pp))
      moved == Least(n, readable)
      p == Refill(Taken(n), waitq[WriteQ])
  IN /\ PipeIdle(t, wait)
     /\ ~wait => readable >= min
     /\ PipeWake(WriteQ, Emptied(n))
     /\ IF Enough(n, min, moved, wait)
        THEN pp' = p /\ sec' = sec
        ELSE /\ pp' = [p EXCEPT !.left[t] = n - moved, !.req[t] = <<n, min>>]
             /\ sec' = [Free EXCEPT !.st = "get", !.th = t]
     /\ UNCHANGED <<wanting, data, held>>

(* k_pipe_flush takes everything and k_pipe_buffer_flush what the buffer   *)
(* can hold, with K_NO_WAIT and nowhere to put it.                         *)
PipeFlush(n) ==
  /\ Unlocked
  /\ PipeWake(WriteQ, Emptied(n))
  /\ pp' = Refill(Taken(n), waitq[WriteQ])
  /\ UNCHANGED handVars

(* The call blocks, *)
PipePend(forever) ==
  LET t == sec.th
  IN /\ sec.st \in {"put", "get"}
     /\ PendCurr(t, IF sec.st = "put" THEN WriteQ ELSE ReadQ, forever)
     /\ pp' = [pp EXCEPT !.pc[t] = sec.st]
     /\ sec' = Free
     /\ UNCHANGED <<wanting, data, held>>

(* and returns with what was transferred, once nobody holds the lock. *)
PipeReturn(t) ==
  /\ ThreadContext /\ Unlocked
  /\ runnable[t] /\ pp.pc[t] # "idle"
  /\ pp' = [pp EXCEPT !.lost = @ \cup Range(pp.rest[t]), !.rest[t] = <<>>,
                      !.left[t] = 0, !.req[t] = <<0, 0>>, !.pc[t] = "idle"]
  /\ UNCHANGED <<pendVars, handVars>>

(* k_pipe_cleanup of a pipe whose buffer was allocated *)
PipeCleanup ==
  /\ Unlocked
  /\ waitq[ReadQ] = <<>> /\ waitq[WriteQ] = <<>>
  /\ pp.size > 0
  /\ pp' = [pp EXCEPT !.lost = @ \cup Range(Content(pp)), !.size = 0,
                      !.buf = [i \in {} |-> 0], !.used = 0, !.rd = 0, !.wr = 0]
  /\ UNCHANGED <<pendVars, handVars>>

PipeNext ==
  \/ \E t \in PipeCallers, r \in Requests, wait \in BOOLEAN :
       PipePut(t, r[1], r[2], wait)
  \/ \E t \in PipeCallers, r \in Requests, wait \in BOOLEAN :
       PipeGet(t, r[1], r[2], wait)
  \/ PipeFlush(MaxByte)
  \/ pp.size > 0 /\ PipeFlush(pp.size)
  \/ \E forever \in Forevers : PipePend(forever)
  \/ \E t \in PipeCallers : PipeReturn(t)
  \/ PipeCleanup
  \/ HEnvironment /\ UNCHANGED pp
  \/ \E t \in Victims : HAbort(t) /\ UNCHANGED pp

PipeSpec == PipeInit /\ [][PipeNext]_pipeVars

-----------------------------------------------------------------------------
(* The bytes of the waiting writers, in the order of their queue *)
Pending(p) == FlattenSeq([i \in DOMAIN waitq[WriteQ] |-> p.rest[waitq[WriteQ][i]]])

(* What has been read, what the buffer holds and what the waiting writers  *)
(* still have to write are, one after the other, the stream as it was      *)
(* written: no way past the buffer overtakes what is in it (pipe_write,    *)
(* pipe_get_internal).                                                     *)
StreamInOrder ==
  LET s == pp.out \o Content(pp) \o Pending(pp)
  IN \A i \in 1..(Len(s) - 1) : s[i] < s[i + 1]

(* Readers wait only on an empty pipe and writers with bytes left only on  *)
(* a full one.                                                             *)
PipeNobodyMissed ==
  Unlocked =>
    /\ waitq[ReadQ] # <<>> => pp.used = 0 /\ waitq[WriteQ] = <<>>
    /\ Pending(pp) # <<>> => pp.used = pp.size

(* A byte has been read, is in the buffer, is with its writer or was       *)
(* reported as not written.                                                *)
BytePlaces(x) ==
  Cardinality({i \in DOMAIN pp.out : pp.out[i] = x})
  + Cardinality({i \in DOMAIN Content(pp) : Content(pp)[i] = x})
  + Cardinality({t \in PipeCallers : x \in Range(pp.rest[t])})
  + (IF x \in pp.lost THEN 1 ELSE 0)

(* A writer sleeps only while it still has bytes to write. *)
WritersHaveBytes ==
  Unlocked => \A i \in DOMAIN waitq[WriteQ] : pp.rest[waitq[WriteQ][i]] # <<>>

(* k_pipe_get with a minimum does not sleep once it has the minimum. *)
MinimumSuffices ==
  \A i \in DOMAIN waitq[ReadQ] :
    LET t == waitq[ReadQ][i]
    IN pp.req[t][2] > 0 => pp.req[t][1] - pp.left[t] < pp.req[t][2]

=============================================================================
