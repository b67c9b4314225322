--------------------------- MODULE MCOverrideJournal ---------------------------
(* OverrideJournal on small sets; the specs are interchangeable.           *)
EXTENDS OverrideJournal, TLC

SpecSymmetry == Permutations(Specs)
================================================================================
