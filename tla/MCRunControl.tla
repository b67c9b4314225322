---------------------------- MODULE MCRunControl ----------------------------
(* The scopes requests name in the runs, and the symmetry of processes and  *)
(* runs.                                                                    *)
EXTENDS RunControl, TLC

AdmissionOnly    == {{"run-admission"}}
ToolsOnly        == {{"tool-effects"}}
AdmissionOrTools == {{"run-admission"}, {"tool-effects"}}

Procs        == Permutations(Proc)
ProcsAndRuns == Permutations(Proc) \cup Permutations(Runs)
===============================================================================
