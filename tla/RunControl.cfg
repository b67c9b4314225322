SPECIFICATION Spec
CONSTANTS
  Proc = {p1, p2}
  NoProc = NoProc
  Runs = {r1, r2}
  NoAttempt = NoAttempt
  Changes = {"halt", "resume"}
  ScopeSets <- AdmissionOnly
  AtomicPublish = TRUE
  MaxLaunches = 2
  MaxRequests = 2
  MaxFindings = 1
INVARIANTS
  OneLiveAttempt
  SupervisedIsLive
  
PROPERTIES
  NoLaunchPastHalt
  ImplementsAttemptLedger
SYMMETRY ProcsAndRuns
