SPECIFICATION Spec
CONSTANTS
  MaxU32 = 40
  Texts <- MCTexts
  Paths <- MCPaths
  DevNull = "/dev/null"
  NoPath = "none"
  EmptyPath = ""
  Ids <- MCIds
  Hash <- MCHash
  MaxIndices = 4
  Patches <- MCPatches
  Requests <- MCRequests
INVARIANTS
  IInv
  LookupsHold
  BudgetKept
  CropsOnlyTheLastLine
  ListedIsSelectable
  RefusalNamesItsCause
PROPERTY
  Chooses
