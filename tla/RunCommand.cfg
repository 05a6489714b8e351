SPECIFICATION Spec
CONSTANTS
  InputSize = 2
  Capacity = 1
  MaxSaid <- MCMaxSaid
  Words <- MCWords
  ResultLines = 2
  ResultTail = 1
  Window = 5
  MaxU64 <- MaxInput
  Inputs <- MCInputs
INVARIANTS IInv SeventyIsEarned RefusalIsSeventy OnlyCheckedBytesLeave LimitIsExact NoOpNeverFails EncodingIsNamed SuccessIsDelivered
PROPERTIES CommandEnds
