SPECIFICATION Spec
CONSTANTS
  PeerLists <- MCPeerLists
  Heads <- MCHeads
  Counts <- MCCounts
  Answers <- BlockAnswers
  NoMessages = NoMessages
  MaxRequestLength = 2
  MaxInt = 3
  MaxCalls = 1
INVARIANTS
  HonestAnswerAccepted
