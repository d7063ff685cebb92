\* Every kind of answer, with and without hints, to a call and a health probe.
SPECIFICATION FairSpec
CONSTANTS
  p = p
  h = h
  Calls = {p, h}
  HealthCalls = {h}
  Key <- NoKeys
  NoKey = NoKey
  Policy = "transient"
  MaxAttempts = 3
  CustomAttempts = 0
  CustomDelays = {}
  Responses <- AllResponses
  HasTimeout = TRUE
INVARIANTS
  TypeOK
  OneInFlight
  AttemptBudget
  TransientSurfacesLast
  DelayBounded
PROPERTY CallsEnd
\* Every call ends: nothing is left to do once all have.
CHECK_DEADLOCK FALSE
