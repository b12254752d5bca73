------------------------------ MODULE MCKMutex ------------------------------
(* Instances of KMutex for TLC. *)
EXTENDS KMutex

(* Threads other code does not touch are interchangeable. *)
Symmetry == Permutations(Threads \ Victims)

=============================================================================
