SPECIFICATION Spec
CONSTANTS
  None = None
  RelNames <- Stripped
  Cases <- SmallCases
  Attempts = 2
  MaxAsks = 2
  Hints <- SmallHints
INVARIANTS EdgesJoinKeys SnapshotKeepsGraph PathsCheapest NoGuess IntroClosed FieldsAnswered
CHECK_DEADLOCK FALSE
