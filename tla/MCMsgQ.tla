------------------------------- MODULE MCMsgQ -------------------------------
(* Instances of MsgQ for TLC. *)
EXTENDS MsgQ

(* Threads other code does not touch, and messages, are interchangeable. *)
Symmetry == Permutations(Threads \ Victims) \cup Permutations(Msgs)

=============================================================================
