SPECIFICATION Spec
CONSTANTS
  Keys = {k1, k2}
  Operators = {o1, o2}
  NoRow = NoRow
  MaxItems = 2
  MaxPuts = 3
  MaxCuts = 1
INVARIANTS TypeOK ValueWasAsked
PROPERTIES AnswerMeansSaved FailsOnlyByOverlap EveryPutEnds
CHECK_DEADLOCK FALSE
