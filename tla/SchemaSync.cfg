SPECIFICATION FairSpec
CONSTANTS
  None = None
  Runners = {a, b}
  Cases <- SmallCases
  MaxCrashes = 2
INVARIANTS RefusedOnlyIfDone
PROPERTIES Copied OnlyExtrasDropped
CHECK_DEADLOCK FALSE
