\* Two attempts, so that a lease is held when the second one starts, and two
\* queued requests, one of which may not read.
SPECIFICATION FairSpec
CONSTANTS
  Runs = {r1}
  NoRun = NoRun
  Names = {a}
  Pids = {p1}
  Keys = {k1}
  Nothing = Nothing
  Verbs = {"lease", "run"}
  Wants = {"acquire", "release", "abort", "garbled"}
  MaxAttempts = 2
  MaxRequests = 2
  MaxRecords = 3

  
PROPERTIES
  ImplementsControllerLease
  
  AbortStopsTheAttempt
