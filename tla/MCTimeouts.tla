----------------------------- MODULE MCTimeouts -----------------------------
(* Bounded instances of Timeouts for TLC. *)
EXTENDS Timeouts, TLC

Perms == Permutations(Timeouts) \cup Permutations(Cpus)
=============================================================================
