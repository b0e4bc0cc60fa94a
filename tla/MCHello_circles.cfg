SPECIFICATION Spec
CONSTANTS
  Nodes = {"a", "b", "c"}
  Links <- MutualAndOne
  Fragile <- Mutual
  Cancellable = {"a", "b"}
  MaxMeetings = 1
INVARIANTS
  TypeOK
  OneGreetingAtATime
PROPERTIES
  GreetingsEnd
  ReturnsUnlessHeldBack
CHECK_DEADLOCK FALSE
