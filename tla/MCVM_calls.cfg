SPECIFICATION Spec
CONSTANTS
  Genesis <- MCGenesis
  Codes <- MCCodes
  Registry <- MCRegistry
  Singletons = {"init"}
  Executable = {"user", "ghost"}
  UserCodes = {"user"}
  Exports <- MCExports
  Undefined <- MCUndefined
  MaxInt = 7
  Objects = {"obj1", "obj2"}
  AbortCodes = {"ErrUser"}
  Messages <- CallMessages
  Senders <- AllSenders
  Calls = {"Send", "ValidateImmediateCaller", "StateCreate", "StateReadonly", "StateTransaction", "DeleteActor"}
  MaxDepth = 3
  MaxCalls = 3
  MaxMessages = 2
  MaxNesting = 2
INVARIANTS
  TypeOK
  FundsConserved
  BalanceFreshUntilSend
  TransactionIsolation
  SnapshotsInOrder
PROPERTIES
  LedgerSpec
  FirstPaymentSafe
