--------------------------- MODULE MCProposalLedger ---------------------------
(* One spec is enough for every kind of candidate; the order of specs in an  *)
(* observation is the order of an append queue.                              *)
EXTENDS ProposalLedger, TLC

CONSTANT s1

OneSpec == <<s1>>

Symmetric == Permutations(Contracts) \cup Permutations(Refs) \cup Permutations(Docs)
==============================================================================
