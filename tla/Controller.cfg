SPECIFICATION Spec
CONSTANTS
  M1 = M1
  M2 = M2
  F1 = F1
  S1 = S1
  R1 = R1
  R2 = R2
  Fund = Fund
  Zero = Zero
  ModuleAddr <- MCModuleAddr
  FactoryAddr <- MCFactoryAddr
  SetAddr <- MCSetAddr
  ResourceAddr <- MCResourceAddr
  Recipient <- MCRecipient
  ResourceId = {1, 2}
  FeeType = {0}
  Percentage = {0, 1}
  InitialLists <- MCInitialLists
INVARIANTS
  ListsMatchMappings
  ResourceIdsExact
