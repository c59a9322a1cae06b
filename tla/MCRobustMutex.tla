---------------------------- MODULE MCRobustMutex ----------------------------
(***************************************************************************)
(* RobustMutex for TLC: threads are interchangeable.                       *)
(***************************************************************************)
EXTENDS RobustMutex, TLC

Symmetry == Permutations(Threads)
===============================================================================
