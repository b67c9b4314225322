\* Two attempts, so the second may be shown the first one's capture, and two
\* unread messages of a sidecar.
SPECIFICATION Spec
CONSTANTS
  MaxAttempts = 2
  MaxLines = 2
INVARIANTS
  EvidenceIsOwn
  ChildAsAsked
  RequiredIsEvidenced
CHECK_DEADLOCK FALSE
