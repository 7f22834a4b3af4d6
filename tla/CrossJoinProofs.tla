--------------------------- MODULE CrossJoinProofs ---------------------------
(***************************************************************************)
(* Proofs about CrossJoin, for every set of requests, queries, databases   *)
(* and pool size.                                                          *)
(*                                                                         *)
(* Answers: if every query by itself is answered with what it means        *)
(* (AloneRight), then so is every query of every request, in whatever      *)
(* order goroutines and databases work and whichever of them fail.  The    *)
(* goroutines share no document: RequestInv keeps that the tasks of a      *)
(* request hold the documents they started with, that an error among them  *)
(* is that of a database or one the query has by itself, and the end of    *)
(* the request is then what Alone says.                                    *)
(*                                                                         *)
(* Connections: a pool lacks exactly those of the tasks that run.          *)
(***************************************************************************)
EXTENDS CrossJoin, FiniteSetTheorems, TLAPS

States == {"ready", "running", "done", "failed"}

\* Types, but for the documents.
TypeOK ==
  /\ query \in [Requests -> Queries \cup {<<>>}]
  /\ phase \in [Requests -> {"new", "roots", "joins", "done"}]
  /\ failed \in [Requests -> BOOLEAN]
  /\ free \in [DBs -> Nat]
  /\ broken \subseteq Requests
  /\ data = [r \in Requests |-> data[r]]
  /\ from = [r \in Requests |-> from[r]]
  /\ tasks = [r \in Requests |-> tasks[r]]
  /\ \A r \in Requests :
       /\ IsSequence(tasks[r])
       /\ \A n \in 1..Len(tasks[r]) : IsTask(tasks[r][n], States)

\* The tasks of a request still have the documents they started with.
SameDocs(ts, us) ==
  /\ Len(ts) = Len(us)
  /\ \A n \in 1..Len(ts) : ts[n].doc = us[n].doc

\* The tasks of a request are those of its query, and one that failed is one
\* that a database failed or that had no result to begin with.
RequestInv(r) ==
  /\ phase[r] = "new" => query[r] = <<>> /\ tasks[r] = <<>> /\ r \notin broken
  /\ phase[r] # "new" => query[r] \in Queries
  /\ failed[r] => phase[r] = "done"
  /\ phase[r] = "roots" =>
       /\ SameDocs(tasks[r], RootQueries(query[r]))
       /\ r \in broken <=> AnyFailed(r)
  /\ phase[r] = "joins" =>
       /\ Len(RootQueries(query[r])) = 1
       /\ data[r] = RootQueries(query[r])[1].doc
       /\ from[r] = Found(query[r])
       /\ from[r] # <<>>
       /\ ~OneLost(query[r], from[r])
       /\ SameDocs(tasks[r], JoinTasks(query[r], from[r]))
       /\ AnyFailed(r) <=> r \in broken \/ OneFailed(JoinTasks(query[r], from[r]))
RequestsInv == \A r \in Requests : RequestInv(r)

\* Task n of request r has a connection of the pool of d.
Holds(r, n, d) == n \in 1..Len(tasks[r]) /\ tasks[r][n].st = "running" /\ tasks[r][n].db = d
Using(d) ==
  UNION {{r} \X {n \in 1..Len(tasks[r]) : Holds(r, n, d)} : r \in Requests}

\* A pool lacks the connections of the tasks that run on its database.
ConnsInv ==
  \A d \in DBs :
    IsFiniteSet(Using(d)) /\ free[d] = PoolSize - Cardinality(Using(d))

-----------------------------------------------------------------------------
(* Sequences of tasks. *)

\* A function on 1..k is a sequence of length k.
LEMMA LenOf ==
  ASSUME NEW k \in Nat, NEW f, f = [n \in 1..k |-> f[n]]
  PROVE  Len(f) = k /\ IsSequence(f)
<1>1. DOMAIN f = 1..k
  OBVIOUS
<1>2. Len(f) = k
  BY <1>1
<1> QED
  BY <1>2 DEF IsSequence

\* A step of one task changes its state and no other task.
LEMMA Moved ==
  ASSUME TypeOK, NEW r \in Requests, NEW n \in 1..Len(tasks[r]), NEW st \in States,
         Move(r, n, st), tasks[r][n].db \in DBs
  PROVE  /\ tasks' = [s \in Requests |-> tasks'[s]]
         /\ \A s \in Requests \ {r} : tasks'[s] = tasks[s]
         /\ IsSequence(tasks'[r]) /\ Len(tasks'[r]) = Len(tasks[r])
         /\ tasks'[r][n] = [db |-> tasks[r][n].db, doc |-> tasks[r][n].doc, st |-> st]
         /\ \A m \in 1..Len(tasks[r]) : m # n => tasks'[r][m] = tasks[r][m]
         /\ \A m \in 1..Len(tasks[r]) : IsTask(tasks'[r][m], States)
<1> DEFINE ts == tasks[r]  us == [tasks[r] EXCEPT ![n].st = st]
<1>1. IsSequence(ts) /\ \A m \in 1..Len(ts) : IsTask(ts[m], States)
  BY DEF TypeOK
<1>2. tasks = [s \in Requests |-> tasks[s]]
  BY DEF TypeOK
<1>3. tasks' = [tasks EXCEPT ![r] = us]
  BY DEF Move
<1>4. tasks' = [s \in Requests |-> IF s = r THEN us ELSE tasks[s]]
  BY <1>2, <1>3, Zenon
<1>5. us = [m \in 1..Len(ts) |-> IF m = n THEN [ts[n] EXCEPT !.st = st] ELSE ts[m]]
  BY <1>1 DEF IsSequence
<1>6. us = [m \in 1..Len(ts) |-> us[m]]
  BY <1>5, Zenon
<1>7. Len(us) = Len(ts) /\ IsSequence(us)
  BY <1>1, <1>6, LenOf DEF IsSequence
<1>8. [ts[n] EXCEPT !.st = st] = [db |-> ts[n].db, doc |-> ts[n].doc, st |-> st]
  <2> DEFINE t == ts[n]
  <2>1. t = [db |-> t.db, doc |-> t.doc, st |-> t.st]
    BY <1>1, Zenon DEF IsTask
  <2> HIDE DEF t
  <2>2. t \in [db : {t.db}, doc : {t.doc}, st : {t.st}]
    BY <2>1, Zenon
  <2>3. [t EXCEPT !.st = st] = [db |-> t.db, doc |-> t.doc, st |-> st]
    BY <2>2
  <2> QED
    BY <2>3 DEF t
<1>9. us[n] = [db |-> ts[n].db, doc |-> ts[n].doc, st |-> st]
  BY <1>5, <1>8
<1>10. \A m \in 1..Len(ts) : m # n => us[m] = ts[m]
  BY <1>5
<1>11. \A m \in 1..Len(ts) : IsTask(us[m], States)
  BY <1>1, <1>9, <1>10 DEF IsTask
<1>12. tasks'[r] = us /\ \A s \in Requests \ {r} : tasks'[s] = tasks[s]
  BY <1>4
<1> HIDE DEF us
<1> QED
  BY <1>4, <1>7, <1>9, <1>10, <1>11, <1>12

\* The results of tasks depend on their documents only.
LEMMA SameMerged ==
  ASSUME NEW ts, NEW us, SameDocs(ts, us)
  PROVE  (Clash(ts) <=> Clash(us)) /\ Merged(ts) = Merged(us)
<1>1. Clash(ts) <=> Clash(us)
  BY DEF SameDocs, Clash
<1>2. [n \in 1..Len(ts) |-> Inner(ts[n].doc)] = [n \in 1..Len(us) |-> Inner(us[n].doc)]
  BY DEF SameDocs
<1> QED
  BY <1>1, <1>2 DEF Merged

\* So does what they are stitched to.
LEMMA SameStitched ==
  ASSUME NEW q, NEW doc, NEW pairs, NEW ts, NEW us, SameDocs(ts, us),
         Len(pairs) = Len(ts)
  PROVE  Stitched(q, doc, pairs, ts) = Stitched(q, doc, pairs, us)
<1>2. [n \in 1..Len(pairs) |-> Result(q, pairs[n], ts[n].doc)]
        = [n \in 1..Len(pairs) |-> Result(q, pairs[n], us[n].doc)]
  BY DEF SameDocs
<1> QED
  BY <1>2 DEF Stitched

\* The tasks of placeholders are tasks, and one for each if none is lost.
LEMMA Joining ==
  ASSUME NEW q \in Queries, Len(RootQueries(q)) = 1
  PROVE  LET ts == JoinTasks(q, Found(q)) IN
         /\ IsSequence(ts)
         /\ \A n \in 1..Len(ts) : IsTask(ts[n], {"ready", "done", "failed"})
         /\ ~OneLost(q, Found(q)) => Len(ts) = Len(Found(q))
<1> DEFINE pairs == Found(q)  ts == JoinTasks(q, pairs)  k == Cardinality(Startable(q, pairs))
<1>1. /\ IsSequence(pairs)
      /\ \A n \in 1..Len(pairs) :
           IsTask(JoinQuery(q, pairs[n]), {"ready", "done", "failed"})
  BY QueryAssumption
<1> HIDE DEF pairs
<1>2. Len(pairs) \in Nat
  BY <1>1 DEF IsSequence
<1>3. IsFiniteSet(1..Len(pairs)) /\ Cardinality(1..Len(pairs)) = Len(pairs)
  <2>1. 1 \in Int /\ Len(pairs) \in Int
    BY <1>2
  <2>2. /\ IsFiniteSet(1..Len(pairs))
        /\ Cardinality(1..Len(pairs)) = IF 1 > Len(pairs) THEN 0 ELSE Len(pairs) - 1 + 1
    BY <2>1, FS_Interval, Zenon
  <2> QED
    BY <1>2, <2>2
<1>4. Startable(q, pairs) \subseteq 1..Len(pairs)
  BY DEF Startable
<1>5. k \in Nat /\ k <= Len(pairs)
  BY <1>2, <1>3, <1>4, FS_Subset, FS_CardinalityType
<1>6. ts = [n \in 1..k |-> ts[n]]
  BY DEF JoinTasks
<1>7. Len(ts) = k /\ IsSequence(ts)
  BY <1>5, <1>6, LenOf
<1>8. \A n \in 1..Len(ts) : ts[n] = JoinQuery(q, pairs[n]) /\ n \in 1..Len(pairs)
  BY <1>2, <1>5, <1>7 DEF JoinTasks
<1>9. ASSUME ~OneLost(q, pairs) PROVE Startable(q, pairs) = 1..Len(pairs)
  BY <1>2, <1>9 DEF OneLost, Startable
<1>10. ~OneLost(q, pairs) => Len(ts) = Len(pairs)
  BY <1>3, <1>7, <1>9
<1> HIDE DEF ts
<1>11. IsSequence(ts) /\ (\A n \in 1..Len(ts) : IsTask(ts[n], {"ready", "done", "failed"}))
  BY <1>1, <1>7, <1>8
<1> QED
  BY <1>10, <1>11 DEF ts, pairs

-----------------------------------------------------------------------------
(* Every request has the tasks of its query. *)

\* No request has arrived.
LEMMA InitInv == Init => TypeOK /\ RequestsInv
<1> SUFFICES ASSUME Init PROVE TypeOK /\ RequestsInv
  OBVIOUS
<1>1. \A r \in Requests : tasks[r] = <<>> /\ Len(tasks[r]) = 0
  BY DEF Init
<1>2. \A r \in Requests : IsSequence(tasks[r])
  BY <1>1 DEF IsSequence
<1>3. TypeOK
  BY <1>1, <1>2, PoolAssumption DEF Init, TypeOK
<1> QED
  BY <1>1, <1>3 DEF Init, RequestsInv, RequestInv

\* A step leaves alone a request whose state it leaves alone.
LEMMA Stays ==
  ASSUME NEW s, RequestInv(s), query'[s] = query[s], phase'[s] = phase[s],
         tasks'[s] = tasks[s], data'[s] = data[s], from'[s] = from[s],
         failed'[s] = failed[s],
         s \in broken' <=> s \in broken
  PROVE  RequestInv(s)'
  BY DEF RequestInv, AnyFailed

\* A request gets the tasks of the roots of its query.
LEMMA ArriveInv ==
  ASSUME TypeOK, RequestsInv, NEW r \in Requests, Arrive(r)
  PROVE  TypeOK' /\ RequestsInv'
<1>1. PICK q \in Queries :
        /\ query' = [query EXCEPT ![r] = q]
        /\ tasks' = [tasks EXCEPT ![r] = RootQueries(q)]
  BY DEF Arrive
<1>2. /\ query'[r] = q /\ tasks'[r] = RootQueries(q) /\ phase'[r] = "roots"
      /\ r \notin broken' /\ ~failed'[r]
  BY <1>1 DEF Arrive, TypeOK, RequestsInv, RequestInv
<1>3. IsSequence(RootQueries(q)) /\ \A n \in 1..Len(RootQueries(q)) : IsTask(RootQueries(q)[n], {"ready"})
  BY QueryAssumption
<1>4. \A n \in 1..Len(tasks'[r]) : IsTask(tasks'[r][n], States) /\ tasks'[r][n].st = "ready"
  BY <1>2, <1>3 DEF IsTask, States
<1>5. TypeOK'
  BY <1>1, <1>2, <1>3, <1>4 DEF Arrive, TypeOK
<1>6. RequestInv(r)'
  BY <1>2, <1>4 DEF RequestInv, SameDocs, AnyFailed, OneFailed
<1>7. ASSUME NEW s \in Requests \ {r} PROVE RequestInv(s)'
  <2>1. query'[s] = query[s] /\ tasks'[s] = tasks[s] /\ phase'[s] = phase[s]
    BY <1>1 DEF Arrive, TypeOK
  <2>2. RequestInv(s)
    BY DEF RequestsInv
  <2> QED
    BY <2>1, <2>2, Stays DEF Arrive
<1> QED
  BY <1>5, <1>6, <1>7 DEF RequestsInv

\* What a step of a task of r does to r.
LEMMA MovedInv ==
  ASSUME TypeOK, RequestsInv, NEW r \in Requests, NEW n \in 1..Len(tasks[r]),
         NEW st \in States, Move(r, n, st), tasks[r][n].st \in {"ready", "running"},
         free' \in [DBs -> Nat], broken' = IF st = "failed" THEN broken \cup {r} ELSE broken,
         UNCHANGED <<query, phase, data, from, failed>>
  PROVE  TypeOK' /\ RequestsInv'
<1>1. tasks[r][n].db \in DBs
  BY DEF TypeOK, IsTask
<1>2. /\ tasks' = [s \in Requests |-> tasks'[s]]
      /\ \A s \in Requests \ {r} : tasks'[s] = tasks[s]
      /\ IsSequence(tasks'[r]) /\ Len(tasks'[r]) = Len(tasks[r])
      /\ tasks'[r][n] = [db |-> tasks[r][n].db, doc |-> tasks[r][n].doc, st |-> st]
      /\ \A m \in 1..Len(tasks[r]) : m # n => tasks'[r][m] = tasks[r][m]
      /\ \A m \in 1..Len(tasks[r]) : IsTask(tasks'[r][m], States)
  BY <1>1, Moved
<1>3. TypeOK'
  BY <1>2 DEF TypeOK
<1>4. tasks[r][n].st # "failed" /\ tasks'[r][n].st = st
  BY <1>2
<1>5. SameDocs(tasks'[r], tasks[r])
  BY <1>2 DEF SameDocs
<1>6. AnyFailed(r)' <=> AnyFailed(r) \/ st = "failed"
  BY <1>2, <1>4 DEF AnyFailed, OneFailed
<1>7. phase[r] # "new"
  <2>1. Len(<<>>) = 0
    OBVIOUS
  <2> QED
    BY <2>1 DEF RequestsInv, RequestInv
<1>8. RequestInv(r)'
  BY <1>5, <1>6, <1>7 DEF RequestsInv, RequestInv, SameDocs
<1>9. ASSUME NEW s \in Requests \ {r} PROVE RequestInv(s)'
  BY <1>2, Stays DEF RequestsInv
<1> QED
  BY <1>3, <1>8, <1>9 DEF RequestsInv

\* Every step of a task is one MovedInv is about.
LEMMA TaskInv ==
  ASSUME TypeOK, RequestsInv, NEW r \in Requests, NEW n \in 1..Len(tasks[r]),
         GetConn(r, n) \/ Finish(r, n) \/ Break(r, n)
  PROVE  TypeOK' /\ RequestsInv'
<1>1. tasks[r][n].st \in {"ready", "running"}
  BY DEF GetConn, Finish, Break
<1>2. tasks[r][n].db \in DBs /\ free \in [DBs -> Nat]
  BY <1>1 DEF TypeOK, IsTask
<1>3. CASE GetConn(r, n)
  <2>1. free' \in [DBs -> Nat]
    BY <1>2, <1>3 DEF GetConn
  <2> QED
    BY <1>1, <1>3, <2>1, MovedInv DEF GetConn, States
<1>4. CASE Finish(r, n)
  <2>1. free' \in [DBs -> Nat]
    BY <1>2, <1>4 DEF Finish
  <2> QED
    BY <1>1, <1>4, <2>1, MovedInv DEF Finish, States
<1>5. CASE Break(r, n)
  <2>1. free' \in [DBs -> Nat]
    BY <1>2, <1>5 DEF Break
  <2> QED
    BY <1>1, <1>5, <2>1, MovedInv DEF Break, States
<1> QED
  BY <1>3, <1>4, <1>5

\* A request that ends keeps its tasks.
LEMMA EndInv ==
  ASSUME TypeOK, RequestsInv, NEW r \in Requests, Merge(r) \/ RootFails(r) \/ Stitch(r)
  PROVE  TypeOK' /\ RequestsInv'
<1>1. /\ phase[r] \in {"roots", "joins"}
      /\ phase' = [phase EXCEPT ![r] = "done"]
      /\ failed' = failed \/ failed' = [failed EXCEPT ![r] = TRUE]
      /\ data' = data \/ \E doc : data' = [data EXCEPT ![r] = doc]
      /\ UNCHANGED <<query, tasks, from, free, broken>>
  BY DEF Merge, RootFails, Stitch, Error, Return, Done
<1>2. /\ data' = [s \in Requests |-> data'[s]]
      /\ \A s \in Requests \ {r} : data'[s] = data[s] /\ failed'[s] = failed[s]
  BY <1>1 DEF TypeOK
<1>3. TypeOK'
  BY <1>1, <1>2 DEF TypeOK
<1>4. phase'[r] = "done" /\ \A s \in Requests \ {r} : phase'[s] = phase[s]
  BY <1>1 DEF TypeOK
<1>5. RequestInv(r)'
  BY <1>1, <1>4 DEF RequestsInv, RequestInv
<1>6. ASSUME NEW s \in Requests \ {r} PROVE RequestInv(s)'
  BY <1>1, <1>2, <1>4, Stays DEF RequestsInv
<1> QED
  BY <1>3, <1>5, <1>6 DEF RequestsInv

\* The request's only database answered: what StartJoins finds.
LEMMA Starting ==
  ASSUME TypeOK, RequestsInv, NEW r \in Requests, StartJoins(r)
  PROVE  LET q == query[r] IN
         /\ q \in Queries /\ Len(RootQueries(q)) = 1 /\ r \notin broken
         /\ tasks[r][1].doc = RootQueries(q)[1].doc
         /\ from'[r] = Found(q)
         /\ tasks'[r] = JoinTasks(q, Found(q))
         /\ \A s \in Requests \ {r} : from'[s] = from[s] /\ tasks'[s] = tasks[s]
<1> DEFINE q == query[r]
<1>1. /\ phase[r] = "roots" /\ Len(tasks[r]) = 1 /\ ~AnyFailed(r)
      /\ from' = [from EXCEPT ![r] = Get(tasks[r][1].doc, Placeholders(q))]
      /\ tasks' = [tasks EXCEPT ![r] = JoinTasks(q, Get(tasks[r][1].doc, Placeholders(q)))]
  BY DEF StartJoins
<1>2. /\ q \in Queries /\ SameDocs(tasks[r], RootQueries(q)) /\ r \notin broken
  BY <1>1 DEF RequestsInv, RequestInv
<1>3. Len(RootQueries(q)) = 1 /\ tasks[r][1].doc = RootQueries(q)[1].doc
  BY <1>1, <1>2 DEF SameDocs
<1>4. Get(tasks[r][1].doc, Placeholders(q)) = Found(q)
  BY <1>3 DEF Found
<1> HIDE DEF q
<1>5. /\ from'[r] = Found(q) /\ tasks'[r] = JoinTasks(q, Found(q))
      /\ \A s \in Requests \ {r} : from'[s] = from[s] /\ tasks'[s] = tasks[s]
  BY <1>1, <1>4 DEF TypeOK
<1> QED
  BY <1>2, <1>3, <1>5 DEF q

\* Its tasks are now those of the placeholders.
LEMMA StartInv ==
  ASSUME TypeOK, RequestsInv, NEW r \in Requests, StartJoins(r)
  PROVE  TypeOK' /\ RequestsInv'
<1> DEFINE q == query[r]  ts == JoinTasks(q, Found(q))
<1>1. /\ q \in Queries /\ Len(RootQueries(q)) = 1 /\ r \notin broken
      /\ tasks[r][1].doc = RootQueries(q)[1].doc
      /\ from'[r] = Found(q) /\ tasks'[r] = ts
      /\ \A s \in Requests \ {r} : from'[s] = from[s] /\ tasks'[s] = tasks[s]
  BY Starting
<1>2. IsSequence(ts) /\ \A n \in 1..Len(ts) : IsTask(ts[n], {"ready", "done", "failed"})
  BY <1>1, Joining
<1>3. /\ phase[r] = "roots" /\ UNCHANGED <<query, free, broken>>
      /\ from' = [from EXCEPT ![r] = from'[r]]
      /\ tasks' = [tasks EXCEPT ![r] = tasks'[r]]
  BY <1>1 DEF StartJoins, TypeOK
<1>4. /\ phase' = [phase EXCEPT ![r] = phase'[r]] /\ phase'[r] \in {"joins", "done"}
      /\ failed' = [failed EXCEPT ![r] = failed'[r]] /\ failed'[r] \in BOOLEAN
      /\ data' = [data EXCEPT ![r] = data'[r]]
      /\ phase'[r] = "joins" =>
           /\ data'[r] = RootQueries(q)[1].doc
           /\ Found(q) # <<>> /\ ~OneLost(q, Found(q)) /\ ~failed'[r]
  <2>1. /\ Get(tasks[r][1].doc, Placeholders(query[r])) = Found(q)
        /\ failed[r] = FALSE
    BY <1>1, <1>3 DEF Found, TypeOK, RequestsInv, RequestInv
  <2>2. CASE Return(r, tasks[r][1].doc)
    BY <2>2 DEF Return, Done, TypeOK
  <2>3. CASE Error(r)
    BY <2>3 DEF Error, Done, TypeOK
  <2>4. CASE /\ Found(q) # <<>> /\ ~OneLost(q, Found(q))
             /\ phase' = [phase EXCEPT ![r] = "joins"]
             /\ data'  = [data EXCEPT ![r] = tasks[r][1].doc]
             /\ UNCHANGED failed
    BY <1>1, <2>1, <2>4 DEF TypeOK
  <2> QED
    BY <2>1, <2>2, <2>3, <2>4 DEF StartJoins
<1>5. \A s \in Requests \ {r} :
        phase'[s] = phase[s] /\ data'[s] = data[s] /\ failed'[s] = failed[s]
  BY <1>4 DEF TypeOK
<1> HIDE DEF q, ts
<1>6. \A n \in 1..Len(ts) : IsTask(ts[n], States)
  BY <1>2 DEF IsTask, States
<1>7. TypeOK'
  <2>1. /\ phase' \in [Requests -> {"new", "roots", "joins", "done"}]
        /\ failed' \in [Requests -> BOOLEAN]
        /\ data' = [s \in Requests |-> data'[s]]
    BY <1>4 DEF TypeOK
  <2>2. /\ from' = [s \in Requests |-> from'[s]]
        /\ tasks' = [s \in Requests |-> tasks'[s]]
    BY <1>3 DEF TypeOK
  <2>3. ASSUME NEW s \in Requests
        PROVE  IsSequence(tasks'[s]) /\ \A n \in 1..Len(tasks'[s]) : IsTask(tasks'[s][n], States)
    BY <1>1, <1>2, <1>6 DEF TypeOK
  <2> QED
    BY <1>3, <2>1, <2>2, <2>3 DEF TypeOK
<1>8. RequestInv(r)'
  <2>1. SameDocs(ts, ts)
    BY DEF SameDocs
  <2>2. query'[r] = q
    BY <1>3 DEF q
  <2>3. tasks'[r] = JoinTasks(q, Found(q))
    BY <1>1 DEF ts
  <2>4. phase'[r] = "joins" => data'[r] = RootQueries(q)[1].doc /\ Found(q) # <<>> /\ ~OneLost(q, Found(q))
    BY <1>4
  <2>5. /\ phase'[r] # "new" /\ phase'[r] # "roots" /\ r \notin broken'
        /\ failed'[r] => phase'[r] = "done"
    BY <1>1, <1>3, <1>4
  <2> QED
    BY <1>1, <2>1, <2>2, <2>3, <2>4, <2>5 DEF RequestInv, AnyFailed, ts
<1>9. ASSUME NEW s \in Requests \ {r} PROVE RequestInv(s)'
  BY <1>1, <1>3, <1>5, Stays DEF RequestsInv
<1> QED
  BY <1>7, <1>8, <1>9 DEF RequestsInv

\* Every step keeps the invariant.
LEMMA NextInv == TypeOK /\ RequestsInv /\ [Next]_vars => TypeOK' /\ RequestsInv'
<1> SUFFICES ASSUME TypeOK, RequestsInv, [Next]_vars
             PROVE  TypeOK' /\ RequestsInv'
  OBVIOUS
<1>1. CASE UNCHANGED vars
  <2>1. TypeOK'
    BY <1>1 DEF vars, TypeOK
  <2>2. RequestsInv'
    BY <1>1, Stays DEF vars, RequestsInv
  <2> QED
    BY <2>1, <2>2
<1>2. ASSUME NEW r \in Requests, Arrive(r) PROVE TypeOK' /\ RequestsInv'
  BY <1>2, ArriveInv
<1>3. ASSUME NEW r \in Requests, Merge(r) \/ RootFails(r) \/ Stitch(r)
      PROVE  TypeOK' /\ RequestsInv'
  BY <1>3, EndInv
<1>4. ASSUME NEW r \in Requests, StartJoins(r) PROVE TypeOK' /\ RequestsInv'
  BY <1>4, StartInv
<1>5. ASSUME NEW r \in Requests, NEW n \in 1..Len(tasks[r]),
             GetConn(r, n) \/ Finish(r, n) \/ Break(r, n)
      PROVE  TypeOK' /\ RequestsInv'
  BY <1>5, TaskInv
<1> QED
  BY <1>1, <1>2, <1>3, <1>4, <1>5 DEF Next, Quiet

-----------------------------------------------------------------------------
(* What is answered. *)

Answers == [r \in Requests |-> Answered(r)]

\* An answer changes only with its request.
LEMMA SameAnswer ==
  ASSUME NEW s, phase'[s] = phase[s], failed'[s] = failed[s], data'[s] = data[s]
  PROVE  Answered(s)' = Answered(s)
  BY DEF Answered

\* A request in "roots" or "joins" that was not failed by a database and ends
\* with what its query is answered alone.
LEMMA EndsAlone ==
  ASSUME AloneRight, TypeOK, RequestsInv, NEW r \in Requests,
         phase[r] \in {"roots", "joins"}, r \notin broken,
         UNCHANGED <<query, broken>>, Answered(r)' = Alone(query[r]),
         Answers' = [Answers EXCEPT ![r] = Answered(r)']
  PROVE  Joins!Reply(r) \/ Joins!Refuse(r)
<1>1. query[r] \in Queries /\ query[r] # <<>>
  BY QueryAssumption DEF RequestsInv, RequestInv
<1>2. Answers[r] = Joins!None
  BY DEF Answers, Answered, Joins!None
<1>3. \/ Answered(r)' = [ok |-> TRUE, doc |-> Answer(query[r])]
      \/ Answered(r)' = Failure /\ Unanswerable(query[r])
  BY <1>1 DEF AloneRight
<1> QED
  BY <1>1, <1>2, <1>3 DEF Joins!Reply, Joins!Refuse, Joins!Ok, Joins!Failed, Failure, Answers

\* One that ends with an error after a database failed it.
LEMMA EndsBroken ==
  ASSUME TypeOK, RequestsInv, NEW r \in Requests,
         phase[r] \in {"roots", "joins"}, r \in broken,
         UNCHANGED <<query, broken>>, Answered(r)' = Failure,
         Answers' = [Answers EXCEPT ![r] = Answered(r)']
  PROVE  Joins!Reply(r)
<1>1. query[r] \in Queries /\ query[r] # <<>>
  BY QueryAssumption DEF RequestsInv, RequestInv
<1>2. Answers[r] = Joins!None
  BY DEF Answers, Answered, Joins!None
<1> QED
  BY <1>1, <1>2 DEF Joins!Reply, Joins!Failed, Failure, Answers

\* What Error and Return do to the answers.
LEMMA Ended ==
  ASSUME TypeOK, NEW r \in Requests
  PROVE  /\ Error(r) => Answered(r)' = Failure /\ Answers' = [Answers EXCEPT ![r] = Answered(r)']
         /\ \A doc : Return(r, doc) /\ ~failed[r] =>
              Answered(r)' = Success(doc) /\ Answers' = [Answers EXCEPT ![r] = Answered(r)']
<1>1. ASSUME Error(r)
      PROVE  Answered(r)' = Failure /\ Answers' = [Answers EXCEPT ![r] = Answered(r)']
  <2>1. phase'[r] = "done" /\ failed'[r]
    BY <1>1 DEF Error, Done, TypeOK
  <2>2. ASSUME NEW s \in Requests \ {r} PROVE Answered(s)' = Answered(s)
    BY <1>1, SameAnswer DEF Error, Done, TypeOK
  <2> QED
    BY <2>1, <2>2 DEF Answered, Answers
<1>2. ASSUME NEW doc, Return(r, doc), ~failed[r]
      PROVE  Answered(r)' = Success(doc) /\ Answers' = [Answers EXCEPT ![r] = Answered(r)']
  <2>1. phase'[r] = "done" /\ ~failed'[r] /\ data'[r] = doc
    BY <1>2 DEF Return, Done, TypeOK
  <2>2. ASSUME NEW s \in Requests \ {r} PROVE Answered(s)' = Answered(s)
    BY <1>2, SameAnswer DEF Return, Done, TypeOK
  <2>3. Answered(r)' = Success(doc)
    BY <2>1 DEF Answered, Success
  <2>4. Answers' = [s \in Requests |-> IF s = r THEN Answered(r)' ELSE Answered(s)]
    BY <2>2 DEF Answers
  <2> QED
    BY <2>3, <2>4 DEF Answers
<1> QED
  BY <1>1, <1>2

\* The roots were answered by several databases.
LEMMA MergeAnswers ==
  ASSUME AloneRight, TypeOK, RequestsInv, NEW r \in Requests, Merge(r)
  PROVE  Joins!Reply(r) \/ Joins!Refuse(r)
<1> DEFINE q == query[r]
<1>1. /\ phase[r] = "roots" /\ Len(tasks[r]) > 1 /\ UNCHANGED <<query, broken>>
      /\ ~failed[r] /\ q \in Queries /\ SameDocs(tasks[r], RootQueries(q))
      /\ r \in broken <=> AnyFailed(r)
  BY DEF Merge, RequestsInv, RequestInv
<1>2. CASE AnyFailed(r)
  <2>1. Error(r)
    BY <1>2 DEF Merge
  <2> QED
    BY <1>1, <1>2, <2>1, Ended, EndsBroken
<1>3. /\ Clash(tasks[r]) <=> Clash(RootQueries(q))
      /\ Merged(tasks[r]) = Merged(RootQueries(q))
      /\ Len(RootQueries(q)) # 1
  <2>1. Len(RootQueries(q)) # 1
    BY <1>1 DEF SameDocs
  <2> QED
    BY <1>1, <2>1, SameMerged
<1>4. CASE ~AnyFailed(r) /\ Clash(tasks[r])
  <2>1. Error(r) /\ Alone(q) = Failure
    BY <1>3, <1>4 DEF Merge, Alone
  <2> QED
    BY <1>1, <1>4, <2>1, Ended, EndsAlone
<1>5. CASE ~AnyFailed(r) /\ ~Clash(tasks[r])
  <2>1. Return(r, Merged(tasks[r])) /\ Alone(q) = Success(Merged(tasks[r]))
    BY <1>3, <1>5 DEF Merge, Alone
  <2>2. /\ Answered(r)' = Success(Merged(tasks[r]))
        /\ Answers' = [Answers EXCEPT ![r] = Answered(r)']
    BY <1>1, <2>1, Ended
  <2> QED
    BY <1>1, <1>5, <2>1, <2>2, EndsAlone
<1> QED
  BY <1>2, <1>4, <1>5

\* The only database of the roots failed.
LEMMA RootFailsAnswers ==
  ASSUME TypeOK, RequestsInv, NEW r \in Requests, RootFails(r)
  PROVE  Joins!Reply(r)
<1>1. /\ phase[r] = "roots" /\ Error(r) /\ r \in broken /\ UNCHANGED <<query, broken>>
  BY DEF RootFails, RequestsInv, RequestInv
<1> QED
  BY <1>1, Ended, EndsBroken

\* The roots were answered by one database, and its answer is looked through.
LEMMA StartAnswers ==
  ASSUME AloneRight, TypeOK, RequestsInv, NEW r \in Requests, StartJoins(r)
  PROVE  Joins!Reply(r) \/ Joins!Refuse(r) \/ UNCHANGED Joins!vars
<1> DEFINE q == query[r]  doc == tasks[r][1].doc
<1>1. /\ q \in Queries /\ Len(RootQueries(q)) = 1 /\ r \notin broken
      /\ doc = RootQueries(q)[1].doc /\ from'[r] = Found(q)
  BY Starting
<1>2. /\ phase[r] = "roots" /\ ~failed[r] /\ UNCHANGED <<query, broken>>
      /\ Get(doc, Placeholders(q)) = Found(q)
  BY <1>1 DEF StartJoins, RequestsInv, RequestInv, Found
<1>3. CASE Found(q) = <<>>
  <2>1. Return(r, doc) /\ Alone(q) = Success(doc)
    BY <1>1, <1>2, <1>3 DEF StartJoins, Alone
  <2>2. Answered(r)' = Success(doc) /\ Answers' = [Answers EXCEPT ![r] = Answered(r)']
    BY <1>2, <2>1, Ended
  <2> QED
    BY <1>1, <1>2, <2>1, <2>2, EndsAlone
<1>4. CASE Found(q) # <<>> /\ OneLost(q, Found(q))
  <2>1. Error(r) /\ Alone(q) = Failure
    BY <1>1, <1>2, <1>4 DEF StartJoins, Alone
  <2> QED
    BY <1>1, <1>2, <2>1, Ended, EndsAlone
<1>5. CASE Found(q) # <<>> /\ ~OneLost(q, Found(q))
  <2>1. /\ phase' = [phase EXCEPT ![r] = "joins"]
        /\ data'  = [data EXCEPT ![r] = doc]
        /\ UNCHANGED failed
    BY <1>2, <1>5 DEF StartJoins
  <2>2. phase[r] # "done" /\ phase'[r] # "done"
    BY <1>2, <2>1 DEF TypeOK
  <2>3. Answered(r)' = Answered(r)
    BY <2>2 DEF Answered
  <2>4. ASSUME NEW s \in Requests \ {r} PROVE Answered(s)' = Answered(s)
    BY <2>1, SameAnswer DEF TypeOK
  <2>5. Answers' = Answers
    BY <2>3, <2>4 DEF Answers
  <2> QED
    BY <1>2, <2>5 DEF Joins!vars, Answers
<1> QED
  BY <1>3, <1>4, <1>5

\* The placeholders' goroutines have ended.
LEMMA StitchAnswers ==
  ASSUME AloneRight, TypeOK, RequestsInv, NEW r \in Requests, Stitch(r)
  PROVE  Joins!Reply(r) \/ Joins!Refuse(r)
<1> DEFINE q == query[r]  ts == JoinTasks(q, Found(q))  root == RootQueries(q)
           out == Stitched(q, data[r], from[r], tasks[r])
<1>1. /\ phase[r] = "joins" /\ ~failed[r] /\ UNCHANGED <<query, broken>>
      /\ q \in Queries /\ Len(root) = 1 /\ data[r] = root[1].doc
      /\ from[r] = Found(q) /\ Found(q) # <<>> /\ ~OneLost(q, Found(q))
      /\ SameDocs(tasks[r], ts)
      /\ AnyFailed(r) <=> r \in broken \/ OneFailed(ts)
  BY DEF Stitch, RequestsInv, RequestInv
<1>2. CASE r \in broken
  <2>1. Error(r)
    BY <1>1, <1>2 DEF Stitch
  <2> QED
    BY <1>1, <1>2, <2>1, Ended, EndsBroken
<1>3. CASE r \notin broken /\ OneFailed(ts)
  <2>1. Error(r) /\ Alone(q) = Failure
    BY <1>1, <1>3 DEF Stitch, Alone
  <2> QED
    BY <1>1, <1>3, <2>1, Ended, EndsAlone
<1>4. CASE r \notin broken /\ ~OneFailed(ts)
  <2>1. Return(r, out)
    BY <1>1, <1>4 DEF Stitch
  <2>2. Answered(r)' = Success(out) /\ Answers' = [Answers EXCEPT ![r] = Answered(r)']
    BY <1>1, <2>1, Ended
  <2>3. Len(from[r]) = Len(tasks[r])
    BY <1>1, Joining DEF SameDocs
  <2>4. out = Stitched(q, root[1].doc, Found(q), ts)
    BY <1>1, <2>3, SameStitched
  <2>5. Alone(q) = Success(out)
    BY <1>1, <1>4, <2>4 DEF Alone
  <2> QED
    BY <1>1, <1>4, <2>2, <2>5, EndsAlone
<1> QED
  BY <1>2, <1>3, <1>4

\* A request that arrives asks.
LEMMA ArriveAsks ==
  ASSUME TypeOK, RequestsInv, NEW r \in Requests, Arrive(r)
  PROVE  Joins!Ask(r)
<1>1. PICK q \in Queries : query' = [query EXCEPT ![r] = q]
  BY DEF Arrive
<1>2. /\ query[r] = <<>> /\ phase[r] # "done" /\ phase' = [phase EXCEPT ![r] = "roots"]
      /\ UNCHANGED <<data, failed, broken>>
  BY DEF Arrive, RequestsInv, RequestInv
<1>3. phase'[r] # "done" /\ \A s \in Requests \ {r} : phase'[s] = phase[s]
  BY <1>2 DEF TypeOK
<1>4. ASSUME NEW s \in Requests PROVE Answered(s)' = Answered(s)
  <2>1. CASE s = r
    BY <1>2, <1>3, <2>1 DEF Answered
  <2>2. CASE s # r
    BY <1>2, <1>3, <2>2, SameAnswer
  <2> QED
    BY <2>1, <2>2
<1>5. Answers' = Answers
  BY <1>4 DEF Answers
<1> QED
  BY <1>1, <1>2, <1>5 DEF Joins!Ask, Answers

\* A task's step answers nobody.
LEMMA TaskAnswers ==
  ASSUME TypeOK, RequestsInv, NEW r \in Requests, NEW n \in 1..Len(tasks[r]),
         GetConn(r, n) \/ Finish(r, n) \/ Break(r, n)
  PROVE  Joins!Break(r) \/ UNCHANGED Joins!vars
<1>1. UNCHANGED <<query, phase, data, failed>>
  BY DEF GetConn, Finish, Break
<1>2. Answers' = Answers
  BY <1>1, SameAnswer DEF Answers
<1>3. CASE GetConn(r, n) \/ Finish(r, n)
  BY <1>1, <1>2, <1>3 DEF GetConn, Finish, Joins!vars, Answers
<1>4. CASE Break(r, n)
  <2>1. Len(<<>>) = 0
    OBVIOUS
  <2>2. query[r] # <<>>
    BY <2>1, QueryAssumption DEF RequestsInv, RequestInv, TypeOK
  <2> QED
    BY <1>1, <1>2, <1>4, <2>2 DEF Break, Joins!Break, Answers
<1> QED
  BY <1>3, <1>4

\* Every step is one of JoinedAnswer, or changes nothing there.
LEMMA StepMaps ==
  ASSUME AloneRight, TypeOK, RequestsInv, [Next]_vars
  PROVE  [Joins!Next]_(Joins!vars)
<1>1. CASE UNCHANGED vars
  <2>1. Answers' = Answers
    BY <1>1, SameAnswer DEF vars, Answers
  <2> QED
    BY <1>1, <2>1 DEF vars, Joins!vars, Answers
<1>2. ASSUME NEW r \in Requests, Arrive(r) PROVE Joins!Next
  BY <1>2, ArriveAsks DEF Joins!Next
<1>3. ASSUME NEW r \in Requests, Merge(r) \/ RootFails(r) \/ Stitch(r) PROVE Joins!Next
  BY <1>3, MergeAnswers, RootFailsAnswers, StitchAnswers DEF Joins!Next
<1>4. ASSUME NEW r \in Requests, StartJoins(r) PROVE Joins!Next \/ UNCHANGED Joins!vars
  BY <1>4, StartAnswers DEF Joins!Next
<1>5. ASSUME NEW r \in Requests, NEW n \in 1..Len(tasks[r]),
             GetConn(r, n) \/ Finish(r, n) \/ Break(r, n)
      PROVE  Joins!Next \/ UNCHANGED Joins!vars
  BY <1>5, TaskAnswers DEF Joins!Next
<1> QED
  BY <1>1, <1>2, <1>3, <1>4, <1>5 DEF Next, Quiet

\* Nobody has asked yet.
LEMMA InitMaps == Init => Joins!Init
<1> SUFFICES ASSUME Init PROVE Joins!Init
  OBVIOUS
<1>1. \A r \in Requests : Answered(r) = Joins!None
  BY DEF Init, Answered, Joins!None
<1> QED
  BY <1>1 DEF Init, Joins!Init

\* The requests over several databases implement JoinedAnswer, if each query
\* by itself does: the order in which goroutines and databases work, and the
\* failures of other requests, show in no answer (core/engine/dbjoin.go:80).
THEOREM JoinsAnswered ==
  ASSUME AloneRight
  PROVE  Spec => AnswersJoined
<1> DEFINE Inv == TypeOK /\ RequestsInv
<1>1. Init => Inv /\ Joins!Init
  BY InitInv, InitMaps
<1>2. Inv /\ [Next]_vars => Inv'
  BY NextInv
<1>3. Inv /\ [Next]_vars => [Joins!Next]_(Joins!vars)
  BY StepMaps
<1> HIDE DEF Inv
<1> QED
  BY <1>1, <1>2, <1>3, PTL DEF Spec, AnswersJoined, Joins!Spec

-----------------------------------------------------------------------------
(* Connections. *)

\* Who uses a pool.
LEMMA UsingHas ==
  \A d, s, m : <<s, m>> \in Using(d) <=> s \in Requests /\ Holds(s, m, d)
  BY DEF Using, Holds
\* A user of a pool is a pair.
LEMMA UsingPairs ==
  \A d : \A x \in Using(d) : x = <<x[1], x[2]>>
  BY DEF Using

\* Nothing changes for a pool if nobody gets or gives back a connection of it.
LEMMA UsingSame ==
  ASSUME NEW d, \A s \in Requests : \A m : Holds(s, m, d)' <=> Holds(s, m, d)
  PROVE  Using(d)' = Using(d)
<1>1. \A s, m : <<s, m>> \in Using(d)' <=> <<s, m>> \in Using(d)
  BY UsingHas DEF Using, Holds
<1>2. \A x \in Using(d)' : x = <<x[1], x[2]>>
  BY DEF Using
<1> QED
  BY <1>1, <1>2, UsingPairs

\* The pool of one database after a step of task n of request r.
LEMMA Took ==
  ASSUME NEW d \in DBs, NEW r \in Requests, NEW n, ConnsInv,
         ~Holds(r, n, d), Holds(r, n, d)',
         \A s \in Requests : \A m : <<s, m>> # <<r, n>> => (Holds(s, m, d)' <=> Holds(s, m, d)),
         free'[d] = free[d] - 1
  PROVE  IsFiniteSet(Using(d)') /\ free'[d] = PoolSize - Cardinality(Using(d)')
<1>1. <<r, n>> \notin Using(d)
  BY UsingHas
<1>2. Using(d)' = Using(d) \cup {<<r, n>>}
  BY UsingHas, UsingPairs DEF Using, Holds
<1>3. IsFiniteSet(Using(d)) /\ free[d] = PoolSize - Cardinality(Using(d))
  BY DEF ConnsInv
<1>4. IsFiniteSet(Using(d)') /\ Cardinality(Using(d)') = Cardinality(Using(d)) + 1
  BY <1>1, <1>2, <1>3, FS_AddElement
<1>5. Cardinality(Using(d)) \in Nat
  BY <1>3, FS_CardinalityType
<1> QED
  BY <1>3, <1>4, <1>5, PoolAssumption

\* The same when the task gives its connection back.
LEMMA Gave ==
  ASSUME NEW d \in DBs, NEW r \in Requests, NEW n, ConnsInv,
         Holds(r, n, d), ~Holds(r, n, d)',
         \A s \in Requests : \A m : <<s, m>> # <<r, n>> => (Holds(s, m, d)' <=> Holds(s, m, d)),
         free'[d] = free[d] + 1
  PROVE  IsFiniteSet(Using(d)') /\ free'[d] = PoolSize - Cardinality(Using(d)')
<1>1. <<r, n>> \in Using(d)
  BY UsingHas
<1>2. Using(d)' = Using(d) \ {<<r, n>>}
  BY UsingHas, UsingPairs DEF Using, Holds
<1>3. IsFiniteSet(Using(d)) /\ free[d] = PoolSize - Cardinality(Using(d))
  BY DEF ConnsInv
<1>4. IsFiniteSet(Using(d)') /\ Cardinality(Using(d)') = Cardinality(Using(d)) - 1
  BY <1>1, <1>2, <1>3, FS_RemoveElement
<1>5. Cardinality(Using(d)) \in Nat
  BY <1>3, FS_CardinalityType
<1> QED
  BY <1>3, <1>4, <1>5, PoolAssumption

\* The other steps neither run nor end a task.
LEMMA NobodyMoved ==
  ASSUME ConnsInv, UNCHANGED free,
         \A s \in Requests : \A m, d : Holds(s, m, d)' <=> Holds(s, m, d)
  PROVE  ConnsInv'
<1> SUFFICES ASSUME NEW d \in DBs
             PROVE  IsFiniteSet(Using(d)') /\ free'[d] = PoolSize - Cardinality(Using(d)')
  BY DEF ConnsInv
<1>1. Using(d)' = Using(d)
  BY UsingSame
<1> QED
  BY <1>1 DEF ConnsInv

\* Steps of tasks.
LEMMA TaskConns ==
  ASSUME TypeOK, RequestsInv, ConnsInv, NEW r \in Requests, NEW n \in 1..Len(tasks[r]),
         GetConn(r, n) \/ Finish(r, n) \/ Break(r, n)
  PROVE  ConnsInv'
<1> DEFINE e == tasks[r][n].db
<1>1. PICK st \in States :
        /\ Move(r, n, st)
        /\ \/ tasks[r][n].st = "ready" /\ st = "running" /\ free' = [free EXCEPT ![e] = @ - 1]
           \/ /\ tasks[r][n].st = "running" /\ st \in {"done", "failed"}
              /\ free' = [free EXCEPT ![e] = @ + 1]
  BY DEF GetConn, Finish, Break, States
<1>2. e \in DBs /\ free \in [DBs -> Nat]
  BY <1>1 DEF TypeOK, IsTask
<1>3. /\ \A s \in Requests \ {r} : tasks'[s] = tasks[s]
      /\ Len(tasks'[r]) = Len(tasks[r])
      /\ tasks'[r][n].db = e /\ tasks'[r][n].st = st
      /\ \A m \in 1..Len(tasks[r]) : m # n => tasks'[r][m] = tasks[r][m]
  <2>1. /\ \A s \in Requests \ {r} : tasks'[s] = tasks[s]
        /\ Len(tasks'[r]) = Len(tasks[r])
        /\ tasks'[r][n] = [db |-> e, doc |-> tasks[r][n].doc, st |-> st]
        /\ \A m \in 1..Len(tasks[r]) : m # n => tasks'[r][m] = tasks[r][m]
    BY <1>1, <1>2, Moved
  <2> QED
    BY <2>1
<1>4. \A d : \A s \in Requests : \A m : <<s, m>> # <<r, n>> => (Holds(s, m, d)' <=> Holds(s, m, d))
  BY <1>3 DEF Holds
<1> SUFFICES ASSUME NEW d \in DBs
             PROVE  IsFiniteSet(Using(d)') /\ free'[d] = PoolSize - Cardinality(Using(d)')
  BY DEF ConnsInv
<1>5. CASE d # e
  <2>1. \A s \in Requests : \A m : Holds(s, m, d)' <=> Holds(s, m, d)
    BY <1>3, <1>4, <1>5 DEF Holds
  <2>2. Using(d)' = Using(d) /\ free'[d] = free[d]
    BY <1>1, <1>2, <1>5, <2>1, UsingSame
  <2> QED
    BY <2>2 DEF ConnsInv
<1>6. CASE d = e /\ tasks[r][n].st = "ready"
  <2>1. ~Holds(r, n, d) /\ Holds(r, n, d)' /\ free'[d] = free[d] - 1
    BY <1>1, <1>2, <1>3, <1>6 DEF Holds
  <2> QED
    BY <1>4, <2>1, Took
<1>7. CASE d = e /\ tasks[r][n].st = "running"
  <2>1. Holds(r, n, d) /\ ~Holds(r, n, d)' /\ free'[d] = free[d] + 1
    BY <1>1, <1>2, <1>3, <1>7 DEF Holds
  <2> QED
    BY <1>4, <2>1, Gave
<1> QED
  BY <1>1, <1>5, <1>6, <1>7

\* Every step keeps the count.
LEMMA ConnsNext ==
  ASSUME TypeOK, RequestsInv, ConnsInv, [Next]_vars
  PROVE  ConnsInv'
<1>1. CASE UNCHANGED vars
  BY <1>1, NobodyMoved DEF vars, Holds
<1>2. ASSUME NEW r \in Requests, Arrive(r) PROVE ConnsInv'
  <2>1. PICK q \in Queries : tasks' = [tasks EXCEPT ![r] = RootQueries(q)]
    BY <1>2 DEF Arrive
  <2>2. tasks[r] = <<>> /\ Len(tasks[r]) = 0 /\ UNCHANGED free
    BY <1>2 DEF Arrive, RequestsInv, RequestInv
  <2>3. \A n \in 1..Len(RootQueries(q)) : RootQueries(q)[n].st = "ready"
    BY QueryAssumption DEF IsTask
  <2>4. tasks'[r] = RootQueries(q) /\ \A s \in Requests \ {r} : tasks'[s] = tasks[s]
    BY <2>1 DEF TypeOK
  <2>5. \A s \in Requests : \A m, d : Holds(s, m, d)' <=> Holds(s, m, d)
    BY <2>2, <2>3, <2>4 DEF Holds
  <2> QED
    BY <2>2, <2>5, NobodyMoved
<1>3. ASSUME NEW r \in Requests, Merge(r) \/ RootFails(r) \/ Stitch(r) PROVE ConnsInv'
  <2>1. UNCHANGED <<tasks, free>>
    BY <1>3 DEF Merge, RootFails, Stitch
  <2> QED
    BY <2>1, NobodyMoved DEF Holds
<1>4. ASSUME NEW r \in Requests, StartJoins(r) PROVE ConnsInv'
  <2> DEFINE ts == JoinTasks(query[r], Found(query[r]))
  <2>1. /\ query[r] \in Queries /\ Len(RootQueries(query[r])) = 1 /\ tasks'[r] = ts
        /\ \A s \in Requests \ {r} : tasks'[s] = tasks[s]
    BY <1>4, Starting
  <2>2. \A n \in 1..Len(ts) : ts[n].st \in {"ready", "done", "failed"}
    BY <2>1, Joining DEF IsTask
  <2>3. \A n \in 1..Len(tasks[r]) : tasks[r][n].st \in {"done", "failed"}
    BY <1>4 DEF StartJoins, Over, AllOver
  <2> HIDE DEF ts
  <2>4. \A s \in Requests : \A m, d : Holds(s, m, d)' <=> Holds(s, m, d)
    BY <2>1, <2>2, <2>3 DEF Holds
  <2> QED
    BY <1>4, <2>4, NobodyMoved DEF StartJoins
<1>5. ASSUME NEW r \in Requests, NEW n \in 1..Len(tasks[r]),
             GetConn(r, n) \/ Finish(r, n) \/ Break(r, n)
      PROVE  ConnsInv'
  BY <1>5, TaskConns
<1> QED
  BY <1>1, <1>2, <1>3, <1>4, <1>5 DEF Next, Quiet

\* All connections are free.
LEMMA ConnsInit == Init => ConnsInv
<1> SUFFICES ASSUME Init, NEW d \in DBs
             PROVE  IsFiniteSet(Using(d)) /\ free[d] = PoolSize - Cardinality(Using(d))
  BY DEF ConnsInv
<1>1. \A r \in Requests : tasks[r] = <<>> /\ Len(tasks[r]) = 0
  BY DEF Init
<1>2. Using(d) = {}
  BY <1>1 DEF Using, Holds
<1> QED
  BY <1>2, FS_EmptySet, PoolAssumption DEF Init

\* A pool gives no more connections than it has, and takes no more back.
InRange == \A d \in DBs : free[d] \in 0..PoolSize

\* No task waits for one that waits: a task finds a free connection, or one of
\* its pool is with a query that runs and needs nothing else to end, whichever
\* way the requests cross between the databases (dbjoin.go:222).
SomeoneRuns ==
  \A r \in Requests : \A n \in 1..Len(tasks[r]) :
    tasks[r][n].st = "ready" =>
      LET d == tasks[r][n].db IN
      \/ free[d] > 0
      \/ \E s \in Requests : \E m \in 1..Len(tasks[s]) : Holds(s, m, d)

\* When no goroutine is left, none has kept a connection, those of requests
\* that ended with an error before their joins had ended included.
GivenBack == (\A r \in Requests : Over(r)) => \A d \in DBs : free[d] = PoolSize

ConnsRight == InRange /\ SomeoneRuns /\ GivenBack

\* What the count means.
LEMMA ConnsMean ==
  ASSUME TypeOK, ConnsInv
  PROVE  ConnsRight
<1>1. ASSUME NEW d \in DBs
      PROVE  /\ Cardinality(Using(d)) \in Nat /\ free[d] = PoolSize - Cardinality(Using(d))
             /\ free[d] \in Nat /\ (Using(d) = {} <=> Cardinality(Using(d)) = 0)
  <2>1. IsFiniteSet(Using(d)) /\ free[d] = PoolSize - Cardinality(Using(d)) /\ free[d] \in Nat
    BY DEF ConnsInv, TypeOK
  <2> QED
    BY <2>1, FS_CardinalityType, FS_EmptySet
<1>2. InRange
  BY <1>1, PoolAssumption DEF InRange
<1>3. SomeoneRuns
  <2> SUFFICES ASSUME NEW r \in Requests, NEW n \in 1..Len(tasks[r]),
                      tasks[r][n].st = "ready", ~(free[tasks[r][n].db] > 0)
               PROVE  \E s \in Requests : \E m \in 1..Len(tasks[s]) :
                        Holds(s, m, tasks[r][n].db)
    BY DEF SomeoneRuns
  <2> DEFINE d == tasks[r][n].db
  <2>1. d \in DBs
    BY DEF TypeOK, IsTask
  <2> HIDE DEF d
  <2>2. Using(d) # {}
    BY <1>1, <2>1, PoolAssumption DEF d
  <2>3. PICK x \in Using(d) : TRUE
    BY <2>2
  <2>4. x[1] \in Requests /\ Holds(x[1], x[2], d)
    BY <2>3, UsingHas, UsingPairs, Zenon
  <2> QED
    BY <2>4 DEF Holds, d
<1>4. GivenBack
  <2> SUFFICES ASSUME \A r \in Requests : Over(r), NEW d \in DBs
               PROVE  free[d] = PoolSize
    BY DEF GivenBack
  <2>1. \A r \in Requests : \A m : ~Holds(r, m, d)
    BY DEF Over, AllOver, Holds
  <2>2. Using(d) = {}
    BY <2>1 DEF Using
  <2> QED
    BY <1>1, <2>2, PoolAssumption
<1> QED
  BY <1>2, <1>3, <1>4 DEF ConnsRight

\* Connections are counted right, nobody holds one and waits for another, and
\* all are given back (gstate.go:547, dbjoin.go:222).
THEOREM ConnectionsRight == Spec => []ConnsRight
<1> DEFINE Inv == TypeOK /\ RequestsInv /\ ConnsInv
<1>1. Init => Inv
  BY InitInv, ConnsInit
<1>2. Inv /\ [Next]_vars => Inv'
  BY NextInv, ConnsNext
<1>3. Inv => ConnsRight
  BY ConnsMean
<1> HIDE DEF Inv
<1> QED
  BY <1>1, <1>2, <1>3, PTL DEF Spec
=============================================================================
