\* Matches, unknown events, garbled and oversized frames, bad acknowledgements
\* and transient refusals, chunked, cut and polled anyhow.
SPECIFICATION FairSpec
CONSTANTS
  m1 = m1
  m2 = m2
  Messages = {m1, m2}
  NoData = NoData
  Items <- AllItems
  Responses <- Refusals
  MaxItems = 4
  Policy = "transient"
  MaxAttempts = 2
  CustomAttempts = 0
  CustomDelays = {}
INVARIANTS
  TypeOK
  NothingLost
  OneStream
PROPERTIES
  OverIsFinal
  Implements
  StreamEnds
\* The program may stop after subscribe() fails or the stream is dropped.
CHECK_DEADLOCK FALSE
