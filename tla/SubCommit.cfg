\* A handshake is documented to fail only before the server commits.
SPECIFICATION Spec
CONSTANTS
  m1 = m1
  m2 = m2
  Messages = {m1, m2}
  NoData = NoData
  Items <- OddItems
  Responses <- Refusals
  MaxItems = 3
  Policy = "transient"
  MaxAttempts = 1
  CustomAttempts = 0
  CustomDelays = {}
INVARIANT SetupCommitsNothing
\* The program may stop after subscribe() fails or the stream is dropped.
CHECK_DEADLOCK FALSE
