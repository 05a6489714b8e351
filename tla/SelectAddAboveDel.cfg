SPECIFICATION Spec
CONSTANTS
  MaxU32 = 40
  MaxBody = 3
  Texts <- MCTexts
  Entries <- MCEntries
INVARIANT
  EverySubsetIsRealisable
