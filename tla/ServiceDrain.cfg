SPECIFICATION Spec
CONSTANTS
  main_db = main_db
  events = events
  Names = {main_db, events}
  Default = main_db
  Alpha <- EventsFirst
  Confs <- TwoDatabases
  Requests = {r1}
  Callers = {c1}
  Signal = signal
  MaxTries = 2
  None = None
\* A service may refuse to start, and one that has stopped does nothing.
CHECK_DEADLOCK FALSE
INVARIANTS
  InFlightDrained
