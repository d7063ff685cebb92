\* A line that does not end is retained without a bound.
SPECIFICATION Spec
CONSTANTS
  Text = {"data:", "x"}
  Invalid = {}
  MaxFrame = 2
  MaxInput = 6
INVARIANT RetentionBounded
CHECK_DEADLOCK FALSE
