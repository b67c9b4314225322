\* Both callers over two lines and a channel of one, so the reader can be held
\* by its channel and by its pipe.
SPECIFICATION FairSpec
CONSTANTS
  MaxLines = 2
  ChannelBound = 1
INVARIANTS
  EndsAreTrue
  EvidenceKept
  KillsAccounted
PROPERTIES
  SupervisionEnds
CHECK_DEADLOCK FALSE
