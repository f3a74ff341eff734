SPECIFICATION Spec
CONSTANTS
  M1 = M1
  M2 = M2
  Basic = Basic
  Alice = Alice
  Bob = Bob
  NoModule = NoModule
  Module <- MCModule
  Account <- MCAccount
  Permanent <- MCPermanent
INVARIANTS
  ModulesListExact
  LockHeldByModule
PROPERTY
  LockFreezes
