---------------------------- MODULE MCManagedFiles ----------------------------
(* The releases of the runs: two that declare the file, with other contents, *)
(* and one that no longer declares it.                                       *)
EXTENDS ManagedFiles, TLC

CONSTANTS p1, v1, v2

OneFile == [r \in {"first", "second", "without"} |->
  IF r = "without" THEN <<>> ELSE p1 :> (IF r = "first" THEN v1 ELSE v2)]

Procs == Permutations(Proc)
===============================================================================
