SPECIFICATION Spec
CONSTANTS
  Nodes = {"a", "b"}
  Links <- Mutual
  Fragile <- None
  Cancellable = {"a", "b"}
  MaxMeetings = 1
PROPERTIES
  RunReturns
CHECK_DEADLOCK FALSE
