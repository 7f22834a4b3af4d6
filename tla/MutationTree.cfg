SPECIFICATION Spec
CONSTANTS
  Tables <- SmallTables
  Refs <- SmallRefs
  Columns <- SmallColumns
  JsonColumns <- SmallJson
  Payloads <- PassPayloads
  Requests <- PassRequests
INVARIANTS
  KeysBound
  NothingDropped
  RootReadsOwn
  ScriptInOrder
CHECK_DEADLOCK FALSE
