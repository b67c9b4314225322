\* Three applies of two releases, one of them stopped at any write.
SPECIFICATION Spec
CONSTANTS
  g = g
  a = a
  make = make
  Governance <- OneGovernance
  Profile <- TwoFiles
  OnlyWhenAbsent = {make}
  Releases = {r1, r2}
  NoRelease = NoRelease
  Absent = Absent
  Mine = Mine
  Half = Half
  MaxCommands = 3
  MaxPlans = 1
  MaxStops = 1
  MaxEdits = 1
SYMMETRY ReleaseSymmetry
PROPERTIES
  AuthoredSurvives
  NothingLeftBehind
  ReviewedIsDone
CHECK_DEADLOCK FALSE
