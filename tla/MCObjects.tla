----------------------------- MODULE MCObjects ------------------------------
(* Instances of Objects for TLC. *)
EXTENDS Objects, MCPoll

(* Items are interchangeable. *)
Symmetry == Permutations(Items)

(* k_heap_realloc: to grow a block, and to shrink it *)
TwoResizes == {<<1, 2>>, <<2, 1>>}

(* Reads and writes of pipes: all of one byte; three if need be none; two, *)
(* at least one                                                            *)
PipeRequests == {<<1, 1>>, <<3, 0>>, <<2, 1>>}

=============================================================================
