SPECIFICATION OJSpec
CONSTANTS
  Specs = {s1, s2}
  NoSpec = NoSpec
  MaxWrites = 6
  MaxKills = 2
  MaxEdits = 1
SYMMETRY SpecSymmetry
CHECK_DEADLOCK FALSE
INVARIANTS
  StopsAreTold
PROPERTIES
  ImplementsOverrideSet
