------------------------------ MODULE MCWorkQ ------------------------------
(* Instances of WorkQ for TLC. *)
EXTENDS WorkQ

(* Plain items, delayable items, clients and queues are interchangeable    *)
(* among themselves.                                                       *)
Symmetry ==
  Permutations(Works \ Delayables) \cup Permutations(Delayables)
    \cup Permutations(Clients) \cup Permutations(Queues)

=============================================================================
