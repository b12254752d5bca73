------------------------------- MODULE SemAbs -------------------------------
(***************************************************************************)
(* What a semaphore promises: every give is either counted or handed to    *)
(* exactly one waiting thread, nobody waits while a unit is available, and *)
(* a thread that was handed a unit keeps it until its take returns.        *)
(***************************************************************************)
EXTENDS Integers

CONSTANTS Threads, Limit, Initial

VARIABLES avail,     \* units to be taken
          waiting,   \* threads blocked in a take
          granted,   \* threads handed a unit, whose take has yet to return
          refused,   \* threads whose wait ended with nothing, likewise
          result,    \* what each thread's last blocking take returned
          dead       \* aborted threads

absVars == <<avail, waiting, granted, refused, result, dead>>

AbsInit ==
  /\ avail = Initial
  /\ waiting = {} /\ granted = {} /\ refused = {} /\ dead = {}
  /\ result = [t \in Threads |-> "none"]

Take ==
  /\ avail > 0
  /\ avail' = avail - 1
  /\ UNCHANGED <<waiting, granted, refused, result, dead>>

Wait(t) ==
  /\ avail = 0
  /\ t \notin waiting \cup granted \cup refused \cup dead
  /\ waiting' = waiting \cup {t}
  /\ result' = [result EXCEPT ![t] = "none"]
  /\ UNCHANGED <<avail, granted, refused, dead>>

(* A give: counted when nobody waits, otherwise granted to a waiter. *)
Count ==
  /\ waiting = {}
  /\ avail < Limit
  /\ avail' = avail + 1
  /\ UNCHANGED <<waiting, granted, refused, result, dead>>

Grant(t) ==
  /\ t \in waiting
  /\ waiting' = waiting \ {t}
  /\ granted' = granted \cup {t}
  /\ UNCHANGED <<avail, refused, result, dead>>

(* A timeout or a reset. *)
Withdraw(t) ==
  /\ t \in waiting
  /\ waiting' = waiting \ {t}
  /\ refused' = refused \cup {t}
  /\ UNCHANGED <<avail, granted, result, dead>>

Clear ==
  /\ waiting = {}
  /\ avail' = 0
  /\ UNCHANGED <<waiting, granted, refused, result, dead>>

Return(t) ==
  /\ \/ t \in granted /\ result' = [result EXCEPT ![t] = "0"]
     \/ t \in refused /\ result' = [result EXCEPT ![t] = "EAGAIN"]
  /\ granted' = granted \ {t}
  /\ refused' = refused \ {t}
  /\ UNCHANGED <<avail, waiting, dead>>

(* An aborted thread takes what it was handed with it. *)
Kill(t) ==
  /\ t \notin dead
  /\ dead' = dead \cup {t}
  /\ waiting' = waiting \ {t}
  /\ granted' = granted \ {t}
  /\ refused' = refused \ {t}
  /\ UNCHANGED <<avail, result>>

AbsNext ==
  \/ Take \/ Count \/ Clear
  \/ \E t \in Threads :
       Wait(t) \/ Grant(t) \/ Withdraw(t) \/ Return(t) \/ Kill(t)

AbsSpec == AbsInit /\ [][AbsNext]_absVars

=============================================================================
