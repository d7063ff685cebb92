\* malformed_response is documented never to follow a non-2xx.
SPECIFICATION FairSpec
CONSTANTS
  p = p
  Calls = {p}
  HealthCalls = {}
  Key <- NoKeys
  NoKey = NoKey
  Policy = "transient"
  MaxAttempts = 2
  CustomAttempts = 0
  CustomDelays = {}
  Responses <- AllResponses
  HasTimeout = TRUE
INVARIANT MalformedIsSuccessOnly
CHECK_DEADLOCK FALSE
