\* Bodies with every line break, arriving, read, ending and breaking anyhow.
SPECIFICATION BytesSpec
CONSTANTS
  Text = {"event:", "data:", ":", "subscribed", "match", "ping", "x", "y", "z"}
  Invalid = {"y"}
  MaxFrame = 4
  MaxInput = 0
  Bodies <- SomeBodies
  MaxDials = 2
INVARIANT NoByteLost
PROPERTIES
  KeepsPromise
  StopNoticed
\* The reader may stop after the stream's end, and subscribe() may have failed.
CHECK_DEADLOCK FALSE
