SPECIFICATION FairSpec
CONSTANTS
  Proc = {p1}
  NoProc = NoProc
  Runs = {r1}
  NoAttempt = NoAttempt
  Changes = {"halt", "resume", "garbled"}
  ScopeSets <- AdmissionOrTools
  AtomicPublish = FALSE
  MaxLaunches = 1
  MaxRequests = 2
  MaxFindings = 0
INVARIANTS
  NothingLost

  
