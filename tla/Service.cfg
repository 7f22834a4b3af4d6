SPECIFICATION Spec
CONSTANTS
  main_db = main_db
  events = events
  Names = {main_db, events}
  Default = main_db
  Alpha <- EventsFirst
  Confs <- AllConfs
  Requests = {r1, r2}
  Callers = {c1}
  Signal = signal
  MaxTries = 2
  None = None
\* A service may refuse to start, and one that has stopped does nothing.
CHECK_DEADLOCK FALSE
INVARIANTS
  Released
  ProductionWhole
PROPERTIES
  StartReturns
  ShutdownBounded
