SPECIFICATION Spec
CONSTANTS
  MaxU32 = 40
  MaxBody = 1
  Texts <- MCTexts
  Entries <- MCEntries
INVARIANT
  InputDefectsAreUsageErrors
