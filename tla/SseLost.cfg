\* An oversized line takes the frames completed before it in the chunk along.
SPECIFICATION Spec
CONSTANTS
  Text = {"data:"}
  Invalid = {}
  MaxFrame = 2
  MaxInput = 8
INVARIANT CompletedFramesDelivered
CHECK_DEADLOCK FALSE
