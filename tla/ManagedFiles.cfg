SPECIFICATION Spec
CONSTANTS
  Proc = {a, b}
  p1 = p1
  v1 = v1
  v2 = v2
  Paths = {p1}
  Declares <- OneFile
  Edits = {e1}
  NoFile = NoFile
  Nobody = Nobody
  MaxRevs = 4
  MaxPlans = 1
  MaxEdits = 1
  MaxKills = 1
CHECK_DEADLOCK FALSE
SYMMETRY Procs
INVARIANTS
  JournalAgrees
PROPERTIES
  NothingLost
  TransferAsShown
  SeenEditsSurvive
