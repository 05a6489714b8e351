SPECIFICATION Spec
CONSTANTS
  InputSize = 2
  Capacity = 1
  MaxSaid <- MCMaxSaid
  Words = {"word"}
INVARIANTS FeedInv AnswersAreWhole AnswersAreToTheWholeInput
PROPERTIES RunsAChild FailedWaitIsReported CallEnds
