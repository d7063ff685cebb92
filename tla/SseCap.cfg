\* Lines of separate blocks add up to a refusal.
SPECIFICATION Spec
CONSTANTS
  Text = {"data:", "x"}
  Invalid = {}
  MaxFrame = 2
  MaxInput = 6
INVARIANT CapIsPerFrame
CHECK_DEADLOCK FALSE
