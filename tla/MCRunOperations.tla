---------------------------- MODULE MCRunOperations ----------------------------
(* The symmetries of the small instances. *)
EXTENDS RunOperations, TLC

Symmetric ==
  Permutations(Runs) \cup Permutations(Names) \cup Permutations(Pids)
    \cup Permutations(Keys)
===============================================================================
