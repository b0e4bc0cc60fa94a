SPECIFICATION Spec
CONSTANTS
  Genesis <- MCGenesis
  Codes <- MCCodes
  Registry <- MCRegistry
  Singletons = {"init"}
  Executable = {"user", "ghost"}
  UserCodes = {"user"}
  Exports <- MCExports
  Undefined <- MCUndefined
  MaxInt = 7
  Objects = {"obj1", "obj2"}
  AbortCodes = {"ErrUser"}
  Messages <- CallThenPay
  Senders <- KnownSenders
  Calls = {"Send"}
  MaxDepth = 2
  MaxCalls = 2
  MaxMessages = 1
  MaxNesting = 1
INVARIANTS
  DebitAccountSuffices
