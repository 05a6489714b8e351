SPECIFICATION Spec
CONSTANTS
  MaxU32 = 20
  MaxBody = 3
  MaxCuts = 1
  Texts <- MCTexts
  Entries <- MCEntries
  CutSets <- MCCutSets
INVARIANT
  CropIsHonest
