\* Every body and every cut of it into chunks: CR, LF and CRLF, events, data,
\* comments, joins and refusals.
SPECIFICATION FairSpec
CONSTANTS
  Text = {"event:", "data:", ":", "bad"}
  Invalid = {"bad"}
  MaxFrame = 3
  MaxInput = 6
INVARIANTS
  TypeOK
  NoCompleteLineLeft
  PriorCrBranchDead
  FramesBounded
  ChunkIndependent
PROPERTY FeedTerminates
\* A failed scanner is dropped by its caller.
CHECK_DEADLOCK FALSE
