------------------------------ MODULE MCKEvent ------------------------------
(* Instances of KEvent for TLC. *)
EXTENDS KEvent

(* Threads other code does not touch, and event bits, are interchangeable. *)
Symmetry == Permutations(Threads \ Victims) \cup Permutations(Bits)

=============================================================================
