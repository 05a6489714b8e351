SPECIFICATION Spec
CONSTANTS
  MaxU32 = 40
  MaxBody = 4
  Texts <- MCTexts
  Entries <- MCEntries
INVARIANTS
  MInv
  OwnResultAccepted
  OnlyOrderCanFail
  PositionsStayPositive
  SubHunksAreDisjoint
  SelectionApplies
  DeletionLeavesNothing
