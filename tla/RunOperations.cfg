\* Two names and three attempts: a lease passes between controllers, and a key
\* that launched one attempt is sent again when that one has ended.
SPECIFICATION Spec
CONSTANTS
  Runs = {r1}
  NoRun = NoRun
  Names = {a, b}
  Pids = {p1}
  Keys = {k1}
  Nothing = Nothing
  Verbs = {"op", "lease", "run", "reconcile"}
  Wants = {"abort"}
  MaxAttempts = 3
  MaxRequests = 0
  MaxRecords = 7
INVARIANTS
  KeysDecided
  LeaseHandover
SYMMETRY Symmetric
