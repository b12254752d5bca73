------------------------------ MODULE MsgQAbs ------------------------------
(***************************************************************************)
(* What a message queue promises: a bounded FIFO.  A message that was put  *)
(* is delivered to exactly one get, in order; readers wait only while the  *)
(* queue is empty and writers only while it is full; a waiting thread      *)
(* leaves with a message delivered or accepted, or with nothing done.      *)
(***************************************************************************)
EXTENDS Integers, Sequences

CONSTANTS Threads, Msgs, MaxMsgs, None

VARIABLES chan,      \* the messages in the queue, first one first
          readers,   \* threads waiting for a message
          writers,   \* threads waiting for room
          msg,       \* the message each waiting writer wants to put
          inbox,     \* a message handed to a thread whose get has not returned
          accepted,  \* writers whose message was taken, put not yet returned
          refused,   \* threads whose wait ended with nothing, likewise
          out,       \* the last message returned by a get
          dead       \* aborted threads

absVars == <<chan, readers, writers, msg, inbox, accepted, refused, out, dead>>

Away(t) == t \notin readers \cup writers \cup accepted \cup refused \cup dead
             /\ inbox[t] = None

AbsInit ==
  /\ chan = <<>>
  /\ readers = {} /\ writers = {} /\ accepted = {} /\ refused = {} /\ dead = {}
  /\ msg = [t \in Threads |-> None]
  /\ inbox = [t \in Threads |-> None]
  /\ out = None

Put(m) ==
  /\ readers = {}
  /\ Len(chan) < MaxMsgs
  /\ chan' = Append(chan, m)
  /\ UNCHANGED <<readers, writers, msg, inbox, accepted, refused, out, dead>>

(* A put that finds a reader waiting. *)
Deliver(t, m) ==
  /\ t \in readers
  /\ chan = <<>>
  /\ readers' = readers \ {t}
  /\ inbox' = [inbox EXCEPT ![t] = m]
  /\ UNCHANGED <<chan, writers, msg, accepted, refused, out, dead>>

Get ==
  /\ chan # <<>>
  /\ writers = {}
  /\ out' = Head(chan)
  /\ chan' = Tail(chan)
  /\ UNCHANGED <<readers, writers, msg, inbox, accepted, refused, dead>>

(* A get that makes room for a waiting writer. *)
GetAndAccept(t) ==
  /\ chan # <<>>
  /\ t \in writers
  /\ out' = Head(chan)
  /\ chan' = Append(Tail(chan), msg[t])
  /\ writers' = writers \ {t}
  /\ accepted' = accepted \cup {t}
  /\ msg' = [msg EXCEPT ![t] = None]
  /\ UNCHANGED <<readers, inbox, refused, dead>>

WaitToGet(t) ==
  /\ Away(t)
  /\ chan = <<>>
  /\ readers' = readers \cup {t}
  /\ UNCHANGED <<chan, writers, msg, inbox, accepted, refused, out, dead>>

WaitToPut(t, m) ==
  /\ Away(t)
  /\ Len(chan) = MaxMsgs
  /\ writers' = writers \cup {t}
  /\ msg' = [msg EXCEPT ![t] = m]
  /\ UNCHANGED <<chan, readers, inbox, accepted, refused, out, dead>>

(* A timeout or a purge. *)
Withdraw(t) ==
  /\ t \in readers \cup writers
  /\ readers' = readers \ {t}
  /\ writers' = writers \ {t}
  /\ refused' = refused \cup {t}
  /\ msg' = [msg EXCEPT ![t] = None]
  /\ UNCHANGED <<chan, inbox, accepted, out, dead>>

Purge ==
  /\ readers \cup writers = {}
  /\ chan' = <<>>
  /\ UNCHANGED <<readers, writers, msg, inbox, accepted, refused, out, dead>>

Return(t) ==
  /\ \/ inbox[t] # None /\ out' = inbox[t]
     \/ t \in accepted \cup refused /\ out' = out
  /\ inbox' = [inbox EXCEPT ![t] = None]
  /\ accepted' = accepted \ {t}
  /\ refused' = refused \ {t}
  /\ UNCHANGED <<chan, readers, writers, msg, dead>>

Kill(t) ==
  /\ t \notin dead
  /\ dead' = dead \cup {t}
  /\ readers' = readers \ {t}
  /\ writers' = writers \ {t}
  /\ accepted' = accepted \ {t}
  /\ refused' = refused \ {t}
  /\ inbox' = [inbox EXCEPT ![t] = None]
  /\ msg' = [msg EXCEPT ![t] = None]
  /\ UNCHANGED <<chan, out>>

AbsNext ==
  \/ Get \/ Purge
  \/ \E m \in Msgs : Put(m)
  \/ \E t \in Threads, m \in Msgs : Deliver(t, m) \/ WaitToPut(t, m)
  \/ \E t \in Threads :
       GetAndAccept(t) \/ WaitToGet(t) \/ Withdraw(t) \/ Return(t) \/ Kill(t)

AbsSpec == AbsInit /\ [][AbsNext]_absVars

=============================================================================
