---------------------------- MODULE CompileCache ----------------------------
(***************************************************************************)
(* The production-mode cache of compiled statements of a GraphJin engine:  *)
(* graphjinEngine.queries, a sync.Map from (namespace, name, database) to  *)
(* a *cstate whose embedded sync.Once makes the compilation single flight. *)
(*                                                                         *)
(* A request goes through gstate.compileQueryOnce and then executes on the *)
(* database gstate.getTargetDB picks.  Every access to shared memory       *)
(* (LoadOrStore, the unsynchronised reads of cs.err and cs.failedAt,       *)
(* Delete, Do, the two writes of the winner, CompareAndDelete) is a step   *)
(* of its own, so TLC interleaves requests between any two of them.        *)
(***************************************************************************)
CONSTANTS Requests,      \* goroutines that serve one GraphQL request at a time
          Names,         \* names of allow-listed queries (one namespace)
          Databases,     \* configured databases
          DefaultDB,     \* the one a request without a database runs on
          Cells,         \* bound: memory for the cstates reachable at one time
          None           \* no entry, no statement, no explicit database

Statement == [by : Requests, db : Databases, perRequest : BOOLEAN]

ASSUME CacheAssumption ==
  /\ DefaultDB \in Databases
  /\ None \notin Databases \cup Requests \cup Cells \cup Statement

VARIABLES heap,    \* the cstates, in Cells
          queries, \* gj.queries: key -> a cell, or None
          req,     \* the gstate of each request and where it is in the code
          saved    \* what compiling each saved query gives: fixed

vars == <<heap, queries, req, saved>>

-----------------------------------------------------------------------------
Keys == Names \X (Databases \cup {None})

\* The database groupRootsByDatabase finds for a query, and whether the shape
\* of its statement depends on the variables (qcode.QCode.PerRequest).
Query == [db : Databases, perRequest : BOOLEAN]

Entry == [once     : {"fresh", "running", "done"},
          err      : BOOLEAN,
          failedAt : {"zero", "recent", "old"},
          st       : Statement \cup {None}]

NewEntry == [once |-> "fresh", err |-> FALSE, failedAt |-> "zero", st |-> None]

PCs == {"start", "checkErr", "checkAge", "delete", "store", "do", "compile",
        "stamp", "after", "recompile", "execute", "done", "failed"}

\* A finished request: nothing of the previous gstate survives.
NewRequest == [pc |-> "start", name |-> None, database |-> None, cs |-> None,
               st |-> None, ranOn |-> None, staleAtStart |-> None]

\* gstate.key: the database component is whatever s.database is NOW, which
\* compileWithCompilers changes on the request that compiled.
Key(r) == <<req[r].name, req[r].database>>

\* s.database as compileWithCompilers leaves it: "" on the default path.
Routed(n) == IF saved[n].db = DefaultDB THEN None ELSE saved[n].db

Compiled(r) == [by |-> r, db |-> saved[req[r].name].db,
                perRequest |-> saved[req[r].name].perRequest]

At(r, label) == req[r].pc = label

Go(r, label) == req' = [req EXCEPT ![r].pc = label]

E(r) == heap[req[r].cs]

-----------------------------------------------------------------------------
Init == /\ heap = [c \in Cells |-> NewEntry]
        /\ queries = [k \in Keys |-> None]
        /\ req = [r \in Requests |-> NewRequest]
        /\ saved \in [Names -> Query]

\* The cstates something refers to; Go's collector reclaims the others.
Live == {queries[k] : k \in Keys} \cup {req[r].cs : r \in Requests}
          \cup {req[r].staleAtStart : r \in Requests}

Free == Cells \ Live

\* What is left of the heap by a step that drops a reference.
Collected == [c \in Cells |-> IF c \in Live' THEN heap[c] ELSE NewEntry]

\* sync.Map.LoadOrStore(key, &cstate{}) by r, which then continues at `hit`
\* when the key was present and at `miss` when its own entry was stored.
LoadOrStore(r, key, base, hit, miss) ==
  \/ /\ queries[key] # None
     /\ req' = [req EXCEPT ![r] = [base EXCEPT !.cs = queries[key], !.pc = hit]]
     /\ UNCHANGED <<queries, saved>>
     /\ heap' = Collected
  \/ /\ queries[key] = None
     /\ Free # {}
     /\ LET new == CHOOSE c \in Free : TRUE IN
        /\ queries' = [queries EXCEPT ![key] = new]
        /\ req' = [req EXCEPT ![r] = [base EXCEPT !.cs = new, !.pc = miss]]
        /\ heap' = Collected
     /\ UNCHANGED saved

\* The entry of key when it is a failure that has expired.
StaleEntry(key) ==
  IF queries[key] # None /\ heap[queries[key]].failedAt = "old"
  THEN queries[key] ELSE None

\* A request arrives: val, loaded := queries.LoadOrStore(s.key(), &cstate{}).
Start(r, n) ==
  /\ At(r, "start")
  /\ LoadOrStore(r, <<n, None>>,
       [NewRequest EXCEPT !.name = n,
                          !.staleAtStart = StaleEntry(<<n, None>>)],
       "checkErr", "do")

\* if loaded && cs.err != nil: read outside the Once.
CheckErr(r) ==
  /\ At(r, "checkErr")
  /\ Go(r, IF E(r).err THEN "checkAge" ELSE "do")
  /\ UNCHANGED <<heap, queries, saved>>

\* time.Since(cs.failedAt) < negCacheTTL.  The zero time is long past, so an
\* error whose failedAt is not written yet looks stale.
CheckAgeNeverExpires(r) ==
  /\ At(r, "checkAge")
  /\ Go(r, "failed")
  /\ UNCHANGED <<heap, queries, saved>>

CheckAge(r) ==
  /\ At(r, "checkAge")
  /\ Go(r, IF E(r).failedAt = "recent" THEN "failed" ELSE "delete")
  /\ UNCHANGED <<heap, queries, saved>>

\* queries.Delete(s.key()): whatever entry is there now.
Delete(r) ==
  /\ At(r, "delete")
  /\ queries' = [queries EXCEPT ![Key(r)] = None]
  /\ Go(r, "store")
  /\ heap' = Collected
  /\ UNCHANGED saved

\* val, _ = queries.LoadOrStore(...): the entry found is not checked again.
Store(r) ==
  /\ At(r, "store")
  /\ LoadOrStore(r, Key(r), req[r], "do", "do")

\* cs.Do: the first caller runs the function, the others wait until it ends.
DoFirst(r) ==
  /\ At(r, "do")
  /\ E(r).once = "fresh"
  /\ heap' = [heap EXCEPT ![req[r].cs].once = "running"]
  /\ Go(r, "compile")
  /\ UNCHANGED <<queries, saved>>

DoReturn(r) ==
  /\ At(r, "do")
  /\ E(r).once = "done"
  /\ Go(r, "after")
  /\ UNCHANGED <<heap, queries, saved>>

\* compileFn succeeded: cs.st and s.database are set and the Once is done.
CompileOk(r) ==
  /\ At(r, "compile")
  /\ heap' = [heap EXCEPT ![req[r].cs].st = Compiled(r),
                          ![req[r].cs].once = "done"]
  /\ req' = [req EXCEPT ![r].pc = "after",
                        ![r].database = Routed(req[r].name)]
  /\ UNCHANGED <<queries, saved>>

\* compileFn failed: cs.err is written first, cs.failedAt afterwards.
CompileErr(r) ==
  /\ At(r, "compile")
  /\ heap' = [heap EXCEPT ![req[r].cs].err = TRUE]
  /\ Go(r, "stamp")
  /\ UNCHANGED <<queries, saved>>

StampLeavesOnceOpen(r) ==
  /\ At(r, "stamp")
  /\ heap' = [heap EXCEPT ![req[r].cs].failedAt = "recent"]
  /\ Go(r, "after")
  /\ UNCHANGED <<queries, saved>>

Stamp(r) ==
  /\ At(r, "stamp")
  /\ heap' = [heap EXCEPT ![req[r].cs].failedAt = "recent",
                          ![req[r].cs].once = "done"]
  /\ Go(r, "after")
  /\ UNCHANGED <<queries, saved>>

\* After Do: return cs.err, or drop the entry of a per-request statement and
\* compile again with this request's variables, or use the shared statement.
AfterErr(r) ==
  /\ At(r, "after")
  /\ E(r).err
  /\ Go(r, "failed")
  /\ UNCHANGED <<heap, queries, saved>>

AfterPerRequestKeeps(r) ==
  /\ At(r, "after")
  /\ ~E(r).err
  /\ E(r).st.perRequest
  /\ req' = [req EXCEPT ![r].pc = "recompile", ![r].cs = None]
  /\ UNCHANGED <<queries, saved>>
  /\ heap' = Collected

AfterPerRequest(r) ==
  /\ At(r, "after")
  /\ ~E(r).err
  /\ E(r).st.perRequest
  /\ queries' = IF queries[Key(r)] = req[r].cs
                THEN [queries EXCEPT ![Key(r)] = None] ELSE queries
  /\ req' = [req EXCEPT ![r].pc = "recompile", ![r].cs = None]
  /\ heap' = Collected
  /\ UNCHANGED saved

AfterSharedAnyShape(r) ==
  /\ At(r, "after")
  /\ ~E(r).err
  /\ req' = [req EXCEPT ![r].pc = "execute", ![r].st = E(r).st]
  /\ UNCHANGED <<heap, queries, saved>>

AfterShared(r) ==
  /\ At(r, "after")
  /\ ~E(r).err
  /\ ~E(r).st.perRequest
  /\ req' = [req EXCEPT ![r].pc = "execute", ![r].st = E(r).st]
  /\ UNCHANGED <<heap, queries, saved>>

Recompile(r) ==
  /\ At(r, "recompile")
  /\ \/ req' = [req EXCEPT ![r].pc = "execute", ![r].st = Compiled(r),
                           ![r].database = Routed(req[r].name)]
     \/ Go(r, "failed")
  /\ UNCHANGED <<heap, queries, saved>>

\* getTargetDB: s.database if compilation set it on THIS request, else the
\* default database.
RunsOn(r) == IF req[r].database = None THEN DefaultDB ELSE req[r].database

Execute(r) ==
  /\ At(r, "execute")
  /\ req' = [req EXCEPT ![r].pc = "done", ![r].ranOn = RunsOn(r)]
  /\ UNCHANGED <<heap, queries, saved>>

\* The answer is sent; the goroutine may serve another request.
Finish(r) ==
  /\ req[r].pc \in {"done", "failed"}
  /\ req' = [req EXCEPT ![r] = NewRequest]
  /\ UNCHANGED <<queries, saved>>
  /\ heap' = Collected

\* negCacheTTL elapses since failedAt.
Age(i) ==
  /\ i \in Live
  /\ heap[i].failedAt = "recent"
  /\ heap' = [heap EXCEPT ![i].failedAt = "old"]
  /\ UNCHANGED <<queries, req, saved>>

\* What a request does once it has arrived.
Serve(r) ==
  \/ CheckErr(r) \/ CheckAge(r) \/ Delete(r) \/ Store(r)
  \/ DoFirst(r) \/ DoReturn(r)
  \/ CompileOk(r) \/ CompileErr(r) \/ Stamp(r)
  \/ AfterErr(r) \/ AfterPerRequest(r) \/ AfterShared(r)
  \/ Recompile(r) \/ Execute(r)

Next == \/ \E r \in Requests : Serve(r) \/ Finish(r)
        \/ \E r \in Requests, n \in Names : Start(r, n)
        \/ \E i \in Cells : Age(i)

Spec == Init /\ [][Next]_vars

\* Goroutines that can run do run; arrivals and the clock owe nothing.
Fairness == \A r \in Requests : WF_vars(Serve(r))

FairSpec == Spec /\ Fairness

-----------------------------------------------------------------------------
(* Properties *)

\* Types, and what Once promises: an entry that is done has an outcome.
TypeOK ==
  /\ \A c \in Cells : heap[c].once = "done"
                       => heap[c].err \/ heap[c].st \in Statement
  /\ heap \in [Cells -> Entry]
  /\ queries \in [Keys -> Cells \cup {None}]
  /\ saved \in [Names -> Query]
  /\ req \in [Requests -> [pc : PCs, name : Names \cup {None},
                           database : Databases \cup {None},
                           cs : Cells \cup {None}, st : Statement \cup {None},
                           ranOn : Databases \cup {None},
                           staleAtStart : Cells \cup {None}]]

\* A statement whose shape came from one request's variables is executed by
\* that request alone, although the entry that holds it is shared by every
\* request that loaded it before it was dropped (gstate.go:215-223).
OwnStatement ==
  \A r \in Requests : req[r].st # None /\ req[r].st.perRequest
                        => req[r].st.by = r

\* A request is never answered with a failure that had already expired when
\* it arrived: a poisoned entry is only served while fresh (gstate.go:189).
FreshFailure ==
  \A r \in Requests :
    At(r, "failed") /\ req[r].cs # None => req[r].cs # req[r].staleAtStart

\* A per-request statement "is not kept for the next one" (gstate.go:215-217).
\* Of a query of the default database its own compiler drops the entry: one
\* that is in the map has its compiler between Do and CompareAndDelete.
CompilersDrop ==
  \A k \in Keys :
    LET i == queries[k] IN
      i # None /\ heap[i].st # None /\ heap[i].st.perRequest /\ saved[k[1]].db = DefaultDB
        => At(heap[i].st.by, "after") /\ req[heap[i].st.by].cs = i

\* Of any query whoever FINDS such a statement takes it out of the map before it
\* compiles its own.
FindersDrop ==
  \A r \in Requests :
    At(r, "after") /\ At(r, "recompile")' /\ req[r].database = None
      => \A k \in Keys : queries'[k] # req[r].cs

\* So a per-request statement is served to nobody, and kept by nobody but, against
\* the comment, the compiler of a query of another database: compiling has set its
\* s.database, so that CompareAndDelete (gstate.go:219) looks under a key at which
\* nothing is stored, and the entry stays until the next request finds it.
PerRequestNotKept == [][CompilersDrop' /\ FindersDrop]_vars

\* Nobody waits for ever: whoever waits in Do is released, and every request
\* that arrived is answered.
Answered ==
  \A r \in Requests : req[r].pc # "start" ~> req[r].pc \in {"done", "failed"}
=============================================================================
