SPECIFICATION FairSpec
CONSTANTS
  main = main
  aux = aux
  users = users
  None = None
  Requests = {r1, r2}
  Names = {users}
  Databases = {main, aux}
  DefaultDB = main
  Cells = {1, 2, 3, 4}
INVARIANTS
  OwnStatement
  FreshFailure
PROPERTIES
  PerRequestNotKept
  Answered
