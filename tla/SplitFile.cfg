SPECIFICATION Spec
CONSTANTS
  MaxU32 = 20
  MaxBody = 4
  MaxCuts = 2
  Texts <- MCTexts
  Entries <- MCEntries
  CutSets <- MCCutSets
INVARIANTS
  MInv
  OwnResultAccepted
  SplitAppliesTheSame
  TrailerStaysPut
  CropsOnlyTheInputsLastLine
