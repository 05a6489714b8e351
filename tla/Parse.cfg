SPECIFICATION Spec
CONSTANTS
  MaxU32 = 3
  Texts <- MCTexts
  InputLines <- MCLines
  Admits <- MCAdmits
  MaxLines = 6
INVARIANTS IInv RoundTrip BodiesKeepToTheirCounts EntriesHoldOneFile Recovered
