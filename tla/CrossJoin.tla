------------------------------ MODULE CrossJoin -----------------------------
(***************************************************************************)
(* Requests that need more than one database: core/engine/dbjoin.go.       *)
(*                                                                         *)
(* Roots in several databases: one goroutine per database runs its part    *)
(* of the query and the results are merged.  Roots in one database: it     *)
(* answers with a placeholder where a selection of another database is     *)
(* nested, and every placeholder in the answer gets a goroutine that asks  *)
(* the other database; when all have ended, their results are put in the   *)
(* placeholders' places.  A query takes a connection of the pool of its    *)
(* database for as long as it runs.                                        *)
(*                                                                         *)
(* What is in the documents is in JoinDocuments, which gives the operators *)
(* declared here their values.  Left out: mutations (Execution.tla),       *)
(* remote selections, which nothing resolves here, and the fragment cache. *)
(* Rows do not change.                                                     *)
(***************************************************************************)
EXTENDS Json

CONSTANTS
  Requests,           \* requests in the system
  Queries,            \* what they may ask
  DBs,                \* databases
  PoolSize,           \* connections of a pool
  RootQueries(_),     \* query -> its tasks, one for each database of its roots
  Placeholders(_),    \* query -> the keys that stand for joined selections
  Lost(_, _),         \* query, placeholder: its database is not there
  JoinQuery(_, _),    \* query, placeholder -> the task that asks for it
  Result(_, _, _),    \* query, placeholder, document -> what is put in its place
  Answer(_),          \* query -> what it means
  Unanswerable(_)     \* query: there is nothing it could be answered

ASSUME PoolAssumption == PoolSize \in Nat \ {0}

-----------------------------------------------------------------------------
(* Tasks: the goroutines of a request.                                     *)

AllOver(ts)  == \A n \in 1..Len(ts) : ts[n].st \in {"done", "failed"}
OneFailed(ts) == \E n \in 1..Len(ts) : ts[n].st = "failed"

\* MergeRootResults: the members of all results; one key twice is an error.
Inner(doc) == SubSeq(doc, 2, Len(doc) - 1)
TopKeys(doc) == {doc[i].v : i \in ToSet(ItemsAt(doc, 1))}
Clash(ts) == \E m, n \in 1..Len(ts) :
               m # n /\ TopKeys(ts[m].doc) \cap TopKeys(ts[n].doc) # {}
Merged(ts) == ObjectOf([n \in 1..Len(ts) |-> Inner(ts[n].doc)])

\* resolveDatabaseJoins starts them in order, up to the first whose database
\* is not there; what was started goes on.
OneLost(q, pairs) == \E n \in 1..Len(pairs) : Lost(q, pairs[n])
Startable(q, pairs) == {n \in 1..Len(pairs) : \A m \in 1..n : ~Lost(q, pairs[m])}
JoinTasks(q, pairs) ==
  [n \in 1..Cardinality(Startable(q, pairs)) |-> JoinQuery(q, pairs[n])]

\* jsn.Replace puts the results in the places of the placeholders.
Stitched(q, doc, pairs, ts) ==
  Replace(doc, pairs, [n \in 1..Len(pairs) |-> Result(q, pairs[n], ts[n].doc)])

-----------------------------------------------------------------------------
(* A request by itself.                                                    *)

\* The placeholders in the answer of the one database a query starts with.
Found(q) == Get(RootQueries(q)[1].doc, Placeholders(q))

\* What a query is answered when its goroutines run one after the other and
\* no database fails it.
Success(doc) == [ok |-> TRUE, doc |-> Meaning(doc)]
Failure      == [ok |-> FALSE, doc |-> NoDocument]
Alone(q) ==
  LET root  == RootQueries(q)
      joins == JoinTasks(q, Found(q))
  IN  IF Len(root) # 1
      THEN IF Clash(root) THEN Failure ELSE Success(Merged(root))
      ELSE IF Found(q) = <<>> THEN Success(root[1].doc)
      ELSE IF OneLost(q, Found(q)) \/ OneFailed(joins) THEN Failure
      ELSE Success(Stitched(q, root[1].doc, Found(q), joins))

\* That is what the query means, or an error if it cannot be answered.
AloneRight ==
  \A q \in Queries : \/ Alone(q) = [ok |-> TRUE, doc |-> Answer(q)]
                     \/ Alone(q) = Failure /\ Unanswerable(q)

\* A task has a database, a document and a state, and asks a database there is.
IsTask(t, states) ==
  /\ t = [db |-> t.db, doc |-> t.doc, st |-> t.st]
  /\ t.st \in states
  /\ t.st \in {"ready", "running"} => t.db \in DBs
IsSequence(s) == Len(s) \in Nat /\ s = [n \in 1..Len(s) |-> s[n]]

\* A query has roots; its first tasks are all queries to run, and those of its
\* placeholders are queries, known values or failures.
ASSUME QueryAssumption ==
  /\ <<>> \notin Queries
  /\ \A q \in Queries :
       /\ IsSequence(RootQueries(q)) /\ Len(RootQueries(q)) > 0
       /\ \A n \in 1..Len(RootQueries(q)) : IsTask(RootQueries(q)[n], {"ready"})
       /\ Len(RootQueries(q)) = 1 =>
            /\ IsSequence(Found(q))
            /\ \A n \in 1..Len(Found(q)) :
                 IsTask(JoinQuery(q, Found(q)[n]), {"ready", "done", "failed"})

-----------------------------------------------------------------------------
VARIABLES
  query,    \* request -> what it asks, <<>> before it arrives
  phase,    \* request -> "new", "roots", "joins" or "done"
  tasks,    \* request -> its goroutines
  data,     \* request -> s.data, the document so far
  from,     \* request -> the placeholders found in it
  failed,   \* request -> it ended with an error
  free,     \* database -> free connections of its pool
  broken    \* requests one of whose queries a database failed

vars == <<query, phase, tasks, data, from, failed, free, broken>>

Over(r)      == AllOver(tasks[r])
AnyFailed(r) == OneFailed(tasks[r])

-----------------------------------------------------------------------------
Init ==
  /\ query  = [r \in Requests |-> <<>>]
  /\ phase  = [r \in Requests |-> "new"]
  /\ tasks  = [r \in Requests |-> <<>>]
  /\ data   = [r \in Requests |-> <<>>]
  /\ from   = [r \in Requests |-> <<>>]
  /\ failed = [r \in Requests |-> FALSE]
  /\ free   = [d \in DBs |-> PoolSize]
  /\ broken = {}

Arrive(r) ==
  /\ phase[r] = "new"
  /\ \E q \in Queries :
       /\ query' = [query EXCEPT ![r] = q]
       /\ tasks' = [tasks EXCEPT ![r] = RootQueries(q)]
  /\ phase' = [phase EXCEPT ![r] = "roots"]
  /\ UNCHANGED <<data, from, failed, free, broken>>

Move(r, n, st) == tasks' = [tasks EXCEPT ![r][n].st = st]

\* db.Conn(ctx): waits until the pool has a connection.
GetConn(r, n) ==
  /\ tasks[r][n].st = "ready"
  /\ free[tasks[r][n].db] > 0
  /\ free' = [free EXCEPT ![tasks[r][n].db] = @ - 1]
  /\ Move(r, n, "running")
  /\ UNCHANGED <<query, phase, data, from, failed, broken>>

FinishKeepingConn(r, n) ==
  /\ tasks[r][n].st = "running"
  /\ free' = IF phase[r] = "roots" THEN free ELSE [free EXCEPT ![tasks[r][n].db] = @ + 1]
  /\ Move(r, n, "done")
  /\ UNCHANGED <<query, phase, data, from, failed, broken>>

\* The row was read, and the deferred conn.Close() gives the connection back.
\* A request with a single database does this before it looks for joins.
Finish(r, n) ==
  /\ tasks[r][n].st = "running"
  /\ free' = [free EXCEPT ![tasks[r][n].db] = @ + 1]
  /\ Move(r, n, "done")
  /\ UNCHANGED <<query, phase, data, from, failed, broken>>

Break(r, n) ==
  /\ tasks[r][n].st = "running"
  /\ free' = [free EXCEPT ![tasks[r][n].db] = @ + 1]
  /\ Move(r, n, "failed")
  /\ broken' = broken \cup {r}
  /\ UNCHANGED <<query, phase, data, from, failed>>

\* The request ends with an error, or with a document.
Done(r)  == phase' = [phase EXCEPT ![r] = "done"]
Error(r) ==
  Done(r) /\ failed' = [failed EXCEPT ![r] = TRUE] /\ UNCHANGED data
Return(r, doc) ==
  Done(r) /\ data' = [data EXCEPT ![r] = doc] /\ UNCHANGED failed

\* wg.Wait() of executeParallelRoots: joins are not looked for.
Merge(r) ==
  /\ phase[r] = "roots" /\ Over(r) /\ Len(tasks[r]) > 1
  /\ IF AnyFailed(r) \/ Clash(tasks[r]) THEN Error(r) ELSE Return(r, Merged(tasks[r]))
  /\ UNCHANGED <<query, tasks, from, free, broken>>

\* execDatabaseJoins: nothing to join, or the goroutines start.
RootFails(r) ==
  /\ phase[r] = "roots" /\ Over(r) /\ Len(tasks[r]) = 1
  /\ AnyFailed(r)
  /\ Error(r)
  /\ UNCHANGED <<query, tasks, from, free, broken>>

StartJoins(r) ==
  LET doc   == tasks[r][1].doc
      pairs == Get(doc, Placeholders(query[r]))
  IN  /\ phase[r] = "roots" /\ Over(r) /\ Len(tasks[r]) = 1
      /\ ~AnyFailed(r)
      /\ from'  = [from EXCEPT ![r] = pairs]
      /\ tasks' = [tasks EXCEPT ![r] = JoinTasks(query[r], pairs)]
      /\ IF pairs = <<>> THEN Return(r, doc)
         ELSE IF OneLost(query[r], pairs) THEN Error(r)
         ELSE /\ phase' = [phase EXCEPT ![r] = "joins"]
              /\ data'  = [data EXCEPT ![r] = doc]
              /\ UNCHANGED failed
      /\ UNCHANGED <<query, free, broken>>

\* wg.Wait() of resolveDatabaseJoins, then jsn.Replace.
Stitch(r) ==
  /\ phase[r] = "joins" /\ Over(r)
  /\ IF AnyFailed(r) THEN Error(r)
     ELSE Return(r, Stitched(query[r], data[r], from[r], tasks[r]))
  /\ UNCHANGED <<query, tasks, from, free, broken>>

Quiet ==
  /\ \A r \in Requests : phase[r] = "done" /\ Over(r)
  /\ UNCHANGED vars

Next ==
  \/ \E r \in Requests :
       \/ Arrive(r) \/ Merge(r) \/ RootFails(r) \/ StartJoins(r) \/ Stitch(r)
       \/ \E n \in 1..Len(tasks[r]) : GetConn(r, n) \/ Finish(r, n) \/ Break(r, n)
  \/ Quiet

\* The steps that end the waiting of a request whose goroutines have ended,
\* named by what they do to its phase.
GoesOn(r) ==
  /\ phase[r] \in {"roots", "joins"} /\ Over(r)
  /\ \E to \in {"joins", "done"} \ {phase[r]} :
       phase' = [phase EXCEPT ![r] = to]

\* A query ends and its goroutine goes on; a pool serves who waits in turn. A
\* request has finitely many goroutines, and none goes back.
Fairness ==
  \A r \in Requests :
    /\ WF_phase(GoesOn(r))
    /\ WF_vars(\E n \in 1..Len(tasks[r]) : Finish(r, n) \/ Break(r, n))
    /\ SF_vars(\E n \in 1..Len(tasks[r]) : GetConn(r, n))

Spec == Init /\ [][Next]_vars /\ Fairness

-----------------------------------------------------------------------------
(* Properties *)

\* What the caller reads: nothing yet, an error, or the document.
Answered(r) ==
  IF phase[r] # "done" THEN [ok |-> TRUE, doc |-> NoDocument]
  ELSE IF failed[r] THEN Failure ELSE Success(data[r])

Joins == INSTANCE JoinedAnswer
           WITH asked <- query, answer <- [r \in Requests |-> Answered(r)]

\* Whatever the order the databases answer in, and whoever fails, the document
\* says what the query means over all databases, or the request fails because
\* a database did.  architecture.md:56 says without exception that joined results
\* are stitched in; the code does not: a join right behind a list of strings, one
\* in a query over the roots of several databases and one below a join are left
\* as the key, a document that ends in a list of strings is cut off there, joins
\* under one name all get what the last asks for (fields.go:427 calls the name
\* unique), and names given to the columns of a join are taken for theirs.  The
\* meaning says so of each (JoinMeaning, AnswerGiven).
AnswersJoined == Joins!Spec

\* Requests that cross between the same databases in opposite directions do
\* not wait for each other's connections (gstate.go:547, dbjoin.go:222).
AllAnswered == \A r \in Requests : phase[r] # "new" ~> phase[r] = "done"
=============================================================================
