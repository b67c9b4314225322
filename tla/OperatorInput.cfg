SPECIFICATION FairSpec
CONSTANTS
  Gates = {g1, g2}
  Bodies = {b1}
  Kinds = {"note", "abort"}
  Lifetimes = {1}
  LogLimit = 2
  MaxAttempts = 1
  MaxRequests = 1
  MaxInputs = 2
  MaxCalls = 2
  MaxTime = 1
INVARIANTS
  SubmissionsDecided
  NotesTold
PROPERTIES
  
  ImplementsInputStates
