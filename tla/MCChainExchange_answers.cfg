SPECIFICATION Spec
CONSTANTS
  PeerLists <- MCPeerLists
  Heads <- MCHeads
  Counts <- MCCounts
  Answers <- AllAnswers
  NoMessages = NoMessages
  MaxRequestLength = 2
  MaxInt = 3
  MaxCalls = 2
INVARIANTS
  TypeOK
  OnlyKnownPanics
  OrderIndependent
PROPERTIES
  RequestSpec
  CallReturns
