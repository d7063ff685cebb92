\* Two publishes under one key, overlapping, abandoned, and retried by a
\* caller's own policy after any failure.
SPECIFICATION Spec
CONSTANTS
  p1 = p1
  p2 = p2
  Calls = {p1, p2}
  HealthCalls = {}
  Key <- OneKey
  NoKey = NoKey
  Policy = "custom"
  MaxAttempts = 0
  CustomAttempts = 2
  CustomDelays = {0}
  Responses <- FewResponses
  HasTimeout = TRUE
INVARIANTS
  KeyedStoredOnce
  OkMeansStored
SYMMETRY Interchangeable
\* Every call ends: nothing is left to do once all have.
CHECK_DEADLOCK FALSE
