SPECIFICATION Spec
CONSTANTS
  Genesis <- MCGenesis
  Codes <- MCCodes
  Registry <- MCRegistry
  Singletons = {"init"}
  Executable = {"user", "ghost"}
  UserCodes = {"user"}
  Exports <- MCExports
  Undefined <- MCUndefined
  MaxInt = 7
  Objects = {"obj1", "obj2"}
  AbortCodes = {"ErrUser"}
  Messages <- ExecMessages
  Senders <- KnownSenders
  Calls = {"Send", "StateCreate", "StateReadonly", "StateTransaction"}
  MaxDepth = 3
  MaxCalls = 2
  MaxMessages = 2
  MaxNesting = 1
INVARIANTS
  InitStateConsistent
  FramesHaveActors
PROPERTIES
  LedgerSpec
