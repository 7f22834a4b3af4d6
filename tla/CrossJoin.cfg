SPECIFICATION Spec
CONSTANTS
  Requests = {r1, r2}
  Queries <- MCQueries
  DBs <- MCDatabases
  PoolSize = 1
  Tables <- MCTables
  Fks <- MCFks
  Rows <- SmallRows
  Connected <- MCConnected
  RootQueries <- RootTasks
  Placeholders <- JoinKeys
  Lost <- Unknown
  JoinQuery <- JoinTask
  Result <- Joined
  Answer <- AnswerGiven
  Unanswerable <- NoAnswer
PROPERTIES
  AnswersJoined
  AllAnswered
