SPECIFICATION Spec
CONSTANTS
  MaxU32 = 3
  Texts <- MCTexts
  Patches <- MCPatches
  MaxTrailer = 3
INVARIANTS EmitsTheText
