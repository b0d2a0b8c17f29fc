----------------------------- MODULE MCPageFile -----------------------------
(* Two paths, two FileIds and two allocating threads, interchangeable each. *)
EXTENDS PageFile, TLC

Symmetry == Permutations(Paths) \cup Permutations(Objects) \cup Permutations(Threads)
=============================================================================
