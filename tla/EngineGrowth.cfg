SPECIFICATION FairSpec
CONSTANTS
  main = main
  aux = aux
  users = users
  events = events
  None = None
  Unset = Unset
  Watcher = Watcher
  DBs = {main, aux}
  Tables = {users, events}
  Default = main
  Alpha <- AuxFirst
  UserConf <- NoTables
  Callers = {c1}
  Kinds = {"conf", "cache"}
  OptionSets <- Both
  Places <- SharedOne
  Dropping <- AuxEvents
  Flaky = {}
INVARIANTS
  ReloadLikeRestart
PROPERTIES
  FirstTablesServed
  ReloadEnds
  StopsAfterClose
