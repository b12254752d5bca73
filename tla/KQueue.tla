------------------------------- MODULE KQueue -------------------------------
(***************************************************************************)
(* The queue of kernel/queue.c, under k_fifo and k_lifo: a list linked     *)
(* through the first word of the items themselves (sys_sflist), so that    *)
(* every insertion, removal and walk is a matter of those words.           *)
(*                                                                         *)
(* k_queue_remove and k_queue_unique_append walk the list without the      *)
(* queue's lock.  WalkAlone says that their callers keep everybody else    *)
(* off the queue meanwhile.  k_queue_append_list unpends one thread more   *)
(* than it has items; ListsCover says that its callers never have fewer    *)
(* items than threads wait.                                                *)
(***************************************************************************)
EXTENDS HandOver

CONSTANTS QueueQ,     \* queue->wait_q
          MaxAnodes,  \* alloc_node structs the resource pool has room for
          WalkAlone, ListsCover

ASSUME QueueAssumption ==
  /\ QueueQ \in WaitQs /\ MaxAnodes \in Nat
  /\ WalkAlone \in BOOLEAN /\ ListsCover \in BOOLEAN

VARIABLES q,          \* data_q: head, tail, the items' next words and the
                      \* items that are wrapped in an allocated node
          lst,        \* k_queue_append_list in progress: the item it has
                      \* handed out last, and its tail parameter
          walk        \* the walk in progress without the lock

queueVars == <<pendVars, handVars, q, lst, walk>>

NoList == [at |-> None, tail |-> None]
NoWalk == [op |-> "none", item |-> None, prev |-> None, at |-> None]

(* k_queue_init *)
QueueInit ==
  /\ HInit
  /\ q = [head |-> None, tail |-> None, nxt |-> [x \in Items |-> None],
          wrapped |-> {}]
  /\ lst = NoList
  /\ walk = NoWalk
  /\ held = Items

-----------------------------------------------------------------------------
(* sys_sflist *)

Prepend(l, x) ==
  [l EXCEPT !.nxt[x] = l.head, !.head = x,
            !.tail = IF @ = None THEN x ELSE @]

AppendNode(l, x) ==
  IF l.tail = None
  THEN [l EXCEPT !.nxt[x] = None, !.head = x, !.tail = x]
  ELSE [l EXCEPT !.nxt = [@ EXCEPT ![x] = None, ![l.tail] = x], !.tail = x]

Insert(l, prev, x) ==
  CASE prev = None -> Prepend(l, x)
    [] prev # None /\ l.nxt[prev] = None -> AppendNode(l, x)
    [] OTHER -> [l EXCEPT !.nxt = [@ EXCEPT ![x] = l.nxt[prev], ![prev] = x]]

AppendList(l, head, tail) ==
  IF l.tail = None
  THEN [l EXCEPT !.head = head, !.tail = tail]
  ELSE [l EXCEPT !.nxt[l.tail] = head, !.tail = tail]

(* Mutant of RemoveNode: the tail is not moved back. *)
RemoveNodeKeepsTail(l, prev, x) ==
  IF prev = None
  THEN [l EXCEPT !.nxt[x] = None, !.head = l.nxt[x],
                 !.tail = IF @ = x THEN l.nxt[x] ELSE @]
  ELSE [l EXCEPT !.nxt = [@ EXCEPT ![prev] = l.nxt[x], ![x] = None]]

RemoveNode(l, prev, x) ==
  IF prev = None
  THEN [l EXCEPT !.nxt[x] = None, !.head = l.nxt[x],
                 !.tail = IF @ = x THEN l.nxt[x] ELSE @]
  ELSE [l EXCEPT !.nxt = [@ EXCEPT ![prev] = l.nxt[x], ![x] = None],
                 !.tail = IF @ = x THEN prev ELSE @]

(* The items met from x on, for as many steps as there are items and one:  *)
(* the last is None unless the links form a cycle.                         *)
Hops(l, x) ==
  LET hop[i \in 1..(Cardinality(Items) + 1)] ==
        IF i = 1 THEN x
        ELSE IF hop[i - 1] = None THEN None ELSE l.nxt[hop[i - 1]]
  IN hop

Listed == Range(Hops(q, q.head)) \ {None}

-----------------------------------------------------------------------------
Undisturbed == WalkAlone => walk = NoWalk

(* queue_insert with a thread waiting: append, prepend, insert and their   *)
(* allocating variants, and the append of k_queue_unique_append.           *)
InsertHandOver(x) ==
  /\ Unlocked
  /\ UnpendFor(QueueQ, x)
  /\ held' = held \ {x}
  /\ UNCHANGED <<q, lst>>

(* queue_insert with nobody waiting.  With alloc the item is wrapped in a  *)
(* node from the resource pool, or refused with -ENOMEM.                   *)
InsertStore(x, prev, alloc) ==
  /\ Unlocked
  /\ waitq[QueueQ] = <<>>
  /\ alloc => Cardinality(q.wrapped) < MaxAnodes
  /\ q' = Insert([q EXCEPT !.nxt[x] = None,
                           !.wrapped = IF alloc THEN @ \cup {x} ELSE @ \ {x}],
                 prev, x)
  /\ held' = held \ {x}
  /\ UNCHANGED <<pendVars, sec, wanting, data, lst>>

(* k_queue_append, k_queue_prepend, k_queue_insert behind an item that is  *)
(* in the queue, k_queue_alloc_append and k_queue_alloc_prepend            *)
QueueInsert(x, prev, alloc) ==
  /\ Undisturbed
  /\ prev \in {None, q.tail} \/ (~alloc /\ prev \in Listed \ q.wrapped)
  /\ InsertHandOver(x) \/ InsertStore(x, prev, alloc)
  /\ UNCHANGED walk

(* k_queue_cancel_wait *)
CancelWait ==
  /\ Undisturbed
  /\ Unlocked
  /\ UnpendFor(QueueQ, None)
  /\ UNCHANGED <<held, q, lst, walk>>

(* k_queue_get with an item; without one and with K_NO_WAIT it returns     *)
(* NULL.  z_queue_node_peek frees the node of a wrapped item.  The next    *)
(* word is the application's again.                                        *)
GetItem ==
  /\ Undisturbed
  /\ Unlocked
  /\ q.head # None
  /\ q' = [RemoveNode(q, None, q.head) EXCEPT !.wrapped = @ \ {q.head}]
  /\ held' = held \cup {q.head}
  /\ UNCHANGED <<pendVars, sec, wanting, data, lst, walk>>

GetPend(t, forever) ==
  /\ Undisturbed
  /\ q.head = None
  /\ PendFor(t, QueueQ, forever)
  /\ UNCHANGED <<q, lst, walk>>

-----------------------------------------------------------------------------
(* k_queue_append_list (and k_queue_merge_slist), given x alone or x and y *)
(* linked by the caller: one turn of its loop,                             *)
ListHandOver(head, tail) ==
  /\ UnpendFor(QueueQ, head)
  /\ lst' = [at |-> head, tail |-> tail]

(* and its end. *)
ListStore(l, head, tail) ==
  /\ q' = AppendList(l, head, tail)
  /\ sec' = Free
  /\ lst' = NoList
  /\ UNCHANGED <<pendVars, wanting, data>>

AppendListStart(x, y) ==
  LET linked == [q EXCEPT !.nxt[x] = IF y = x THEN None ELSE y,
                          !.wrapped = @ \ {x, y}]
  IN /\ Undisturbed
     /\ Unlocked
     /\ ListsCover => Len(waitq[QueueQ]) <= Cardinality({x, y})
     /\ \/ waitq[QueueQ] # <<>> /\ q' = linked /\ ListHandOver(x, y)
        \/ waitq[QueueQ] = <<>> /\ ListStore(linked, x, y)
     /\ held' = held \ {x, y}
     /\ UNCHANGED walk

(* The next head is read from the first word of an item that was handed to *)
(* a thread which may run already.  Then the next thread is unpended, also *)
(* when there is no next head: the loop ends and nobody makes that thread  *)
(* ready.                                                                  *)
AppendListNext ==
  LET head == q.nxt[lst.at]
  IN /\ sec.st = "list"
     /\ \/ /\ head = None
           /\ IF waitq[QueueQ] = <<>> THEN UNCHANGED pendVars
              ELSE UnpendFirst(QueueQ)
           /\ sec' = Free /\ lst' = NoList
           /\ UNCHANGED <<wanting, data, q>>
        \/ /\ head # None /\ waitq[QueueQ] # <<>>
           /\ ListHandOver(head, lst.tail)
           /\ UNCHANGED q
        \/ /\ head # None /\ waitq[QueueQ] = <<>>
           /\ ListStore(q, head, lst.tail)
     /\ UNCHANGED <<held, walk>>

ReadyReceiver ==
  /\ ReadyWoken(IF lst = NoList THEN Free ELSE [Free EXCEPT !.st = "list"])
  /\ UNCHANGED <<q, lst, walk>>

(* The application is free to use the first word of what it has got. *)
GetReturn(t) ==
  /\ WaitReturn(t)
  /\ q' = IF swapRet[t] = "0" /\ data[t] # None
          THEN [q EXCEPT !.nxt[data[t]] = None] ELSE q
  /\ UNCHANGED <<lst, walk>>

-----------------------------------------------------------------------------
(* k_queue_remove and k_queue_unique_append of x: a walk from the head, *)
WalkStart(op, x) ==
  /\ ThreadContext /\ Others
  /\ walk = NoWalk
  /\ walk' = [op |-> op, item |-> x, prev |-> None, at |-> q.head]
  /\ UNCHANGED <<pendVars, handVars, q, lst>>

AtItem == walk.at = walk.item /\ walk.item \in Items \ q.wrapped

WalkHop ==
  /\ ThreadContext /\ Others
  /\ walk.at # None /\ ~AtItem
  /\ walk' = [walk EXCEPT !.prev = walk.at, !.at = q.nxt[walk.at]]
  /\ UNCHANGED <<pendVars, handVars, q, lst>>

(* which finds the item (the node of a wrapped item is not the item), *)
RemoveFound ==
  /\ ThreadContext /\ Others
  /\ walk.op = "remove" /\ AtItem
  /\ q' = RemoveNode(q, walk.prev, walk.item)
  /\ held' = held \cup {walk.item}
  /\ walk' = NoWalk
  /\ UNCHANGED <<pendVars, sec, wanting, data, lst>>

UniqueFound ==
  /\ ThreadContext /\ Others
  /\ walk.op = "unique" /\ AtItem
  /\ walk' = NoWalk
  /\ UNCHANGED <<pendVars, handVars, q, lst>>

(* or does not. *)
RemoveMissing ==
  /\ ThreadContext /\ Others
  /\ walk.op = "remove" /\ walk.at = None
  /\ walk' = NoWalk
  /\ UNCHANGED <<pendVars, handVars, q, lst>>

UniqueAppend ==
  /\ ThreadContext
  /\ walk.op = "unique" /\ walk.at = None
  /\ InsertHandOver(walk.item) \/ InsertStore(walk.item, q.tail, FALSE)
  /\ walk' = NoWalk

QueueNext ==
  \/ \E x \in held, prev \in Items \cup {None}, alloc \in BOOLEAN :
       QueueInsert(x, prev, alloc)
  \/ CancelWait
  \/ GetItem
  \/ \E t \in Callers, forever \in Forevers : GetPend(t, forever)
  \/ \E x, y \in held : AppendListStart(x, y)
  \/ AppendListNext
  \/ StoreData /\ UNCHANGED <<q, lst, walk>>
  \/ ReadyReceiver
  \/ \E t \in Callers : GetReturn(t)
  \/ \E x \in Items \ q.wrapped : WalkStart("remove", x)
  \/ \E x \in (held \cup Listed) \ q.wrapped : WalkStart("unique", x)
  \/ WalkHop
  \/ RemoveFound
  \/ UniqueFound
  \/ RemoveMissing
  \/ UniqueAppend
  \/ HEnvironment /\ UNCHANGED <<q, lst, walk>>
  \/ \E t \in Victims : HAbort(t) /\ UNCHANGED <<q, lst, walk>>

QueueSpec == QueueInit /\ [][QueueNext]_queueVars

(* The tail pointer is the last item that the head leads to, and the links *)
(* form no cycle, whatever walked, was inserted or was taken out.          *)
QueueWellFormed ==
  LET hop == Hops(q, q.head)
      n == Cardinality(Listed)
  IN /\ hop[Cardinality(Items) + 1] = None
     /\ q.tail = IF n = 0 THEN None ELSE hop[n]

(* What a k_queue_append_list in progress has still to hand out. *)
ListRest ==
  IF lst = NoList THEN {} ELSE Range(Hops(q, q.nxt[lst.at])) \ {None}

=============================================================================
