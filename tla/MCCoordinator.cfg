SPECIFICATION Spec
CONSTANTS
  MessageCids = {"b1", "b2", "s1"}
  DecodesAs <- MCDecodesAs
  Gossip <- MCGossip
  NoHeader = NoHeader
  Weights = {1}
  MessageLimit = 2
  Room = 1
  MaxPublished = 2
  MaxWaits = 1
INVARIANTS
  TypeOK
  StoredAreValid
  StoredWereFetched
  OnlyKnownPanics
PROPERTIES
  RunReturns
  GoroutinesEnd
CHECK_DEADLOCK FALSE
