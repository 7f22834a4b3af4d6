SPECIFICATION Spec
CONSTANTS
  main = main
  aux = aux
  users = users
  events = events
  None = None
  Unset = Unset
  Watcher = Watcher
  DBs = {main, aux}
  Tables = {users}
  Default = main
  Alpha <- AuxFirst
  UserConf <- NoTables
  Callers = {c1}
  Kinds = {"all", "withdb", "cache", "one", "conf"}
  OptionSets <- OneOrTwo
  Places <- Anywhere
  Dropping <- AuxUsers
  Flaky = {aux}
INVARIANTS
  NoLostUpdate
  EngineWhole
  
PROPERTIES
  ReloadsAreAtomic
