SPECIFICATION Spec
CONSTANTS
  r1 = r1  r2 = r2  a = a  b = b  c1 = c1
  Caller = Caller  NoTx = NoTx
  Reqs = {r1, r2}  DBs = {a, b}  Configs = {c1}
  Config <- SameConfig
  Kinds <- AnyThenPlain
  Captures = {a, b}  ReadOnly = {}
  Attempts = 3
INVARIANTS HookSeesStatement EngineTxEnds
PROPERTIES CallerTxKept Answered
CHECK_DEADLOCK FALSE
