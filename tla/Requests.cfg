\* Clients built in every way, requests on both sides of every limit.
SPECIFICATION ClientSpec
CONSTANTS
  Requests <- SomeRequests
  MaxVectorDim = 3
  MaxTextBytes = 3
  MaxMetadataKeys = 2
  MaxMetadataKeyLen = 2
  MaxMetadataValueLen = 3
  MaxMetadataTotal = 7
  MaxIdempotencyKeyLen = 2
  NoKey = NoKey
  Responses <- Answers
  CustomAttempts = 1
  CustomDelays = {0}
INVARIANTS
  TypeOK
  LimitsMirrored
  PreflightMeansUnsent
  BudgetAsBuilt
PROPERTY OwnClientCallsEnd
\* A call that ended, or a client that could not be built, leaves nothing to do.
CHECK_DEADLOCK FALSE
