SPECIFICATION PLSpec
CONSTANTS
  s1 = s1
  SpecOrder <- OneSpec
  Contracts = {c1, c2}
  Refusals = {refused}
  Refs = {main, side}
  Docs = {d1, d2}
  NoRef = NoRef
  WholeCorpus = WholeCorpus
  MaxObserved = 3
  MaxDeaths = 1
  MaxMoves = 1
INVARIANTS
  OneAttemptPerProposal
  
PROPERTIES
  RunsWhatWasProposed
SYMMETRY Symmetric
CHECK_DEADLOCK FALSE
