------------------------------- MODULE MCPoll -------------------------------
(* Instances of Poll for TLC. *)
EXTENDS Poll

(* One thread polls both objects; a work item does; two threads share one; *)
(* a thread and a work item share one.                                     *)
OneThread == [p \in Pollers |-> IF p = "t1" THEN <<"o1", "o2">> ELSE <<>>]
OneWork == [p \in Pollers |-> IF p = "w1" THEN <<"o1", "o2">> ELSE <<>>]
TwoThreads == [p \in Pollers |-> IF p = "t1" THEN <<"o2", "o1">>
                                 ELSE IF p = "t2" THEN <<"o2">> ELSE <<>>]
ThreadAndWork == [p \in Pollers |-> IF p \in {"t1", "w1"} THEN <<"o2">> ELSE <<>>]

AllPolls == {OneThread, OneWork, TwoThreads, ThreadAndWork}
ThreadPolls == {OneThread, TwoThreads}
WorkPolls == {OneWork}
=============================================================================
