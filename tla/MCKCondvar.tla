----------------------------- MODULE MCKCondvar -----------------------------
(* Instances of KCondvar for TLC. *)
EXTENDS KCondvar

(* Threads other code does not touch are interchangeable. *)
Symmetry == Permutations(Threads \ Victims)

=============================================================================
