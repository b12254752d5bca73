------------------------------- MODULE MCKSem -------------------------------
(* Instances of KSem for TLC. *)
EXTENDS KSem

(* Threads other code does not touch are interchangeable. *)
Symmetry == Permutations(Threads \ Victims)

=============================================================================
