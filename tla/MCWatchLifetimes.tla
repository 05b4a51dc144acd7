-------------------------- MODULE MCWatchLifetimes --------------------------
(* Interchangeable values of the instances. *)
EXTENDS WatchLifetimes, TLC

PathsAndInodes == Permutations(Paths) \cup Permutations(Inodes)
Symmetry == Permutations(Subs) \cup PathsAndInodes \cup Permutations(Descriptors)
=============================================================================
