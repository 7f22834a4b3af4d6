SPECIFICATION Spec
CONSTANTS
  None = None
  RelNames <- Names
  Aggregates <- SmallAggregates
  DefaultLimit = 3
  MaxSelectors = 3
  Cases <- Small
  MaxChanges = 2
  MaxPages = 7
INVARIANTS AnswerMeans PagesCover
CHECK_DEADLOCK FALSE
