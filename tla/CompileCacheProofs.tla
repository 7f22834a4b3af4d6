-------------------------- MODULE CompileCacheProofs --------------------------
(* Proofs about CompileCache, for any requests, names, databases and memory:   *)
(* entries are compiled by one request at a time, statements stay with their   *)
(* request, expired failures are not served, and a per-request statement is     *)
(* dropped by its compiler (in the default database) or whoever finds it.       *)
EXTENDS CompileCache, TLAPS

\* One request at a time compiles what an entry holds (sync.Once).
Compiling(r) == req[r].pc \in {"compile", "stamp"}
SingleFlight ==
  \A r, s \in Requests : Compiling(r) /\ Compiling(s) /\ req[r].cs = req[s].cs => r = s

-----------------------------------------------------------------------------
(* The inductive invariant.                                                *)

\* An entry has an outcome, or it has not been compiled.
EntriesOK ==
  \A c \in Cells :
    /\ heap[c].once # "done" => heap[c].st = None /\ heap[c].failedAt = "zero"
    /\ heap[c].once = "fresh" => ~heap[c].err
    /\ heap[c].failedAt # "zero" => heap[c].err
    /\ heap[c].err => heap[c].st = None

\* What has been reclaimed is new.
FreeIsNew == \A c \in Cells \ Live : heap[c] = NewEntry

\* Where each request is: what it holds and what it knows.
StepsOK ==
  \A r \in Requests :
    /\ req[r].pc # "start" => req[r].name \in Names
    /\ req[r].pc \notin {"start", "recompile", "execute", "done", "failed"} => req[r].cs \in Cells
    /\ req[r].pc \notin {"after", "recompile", "execute", "done", "failed"} => req[r].database = None
    /\ Compiling(r) => heap[req[r].cs].once = "running"
    /\ req[r].pc = "compile" => ~heap[req[r].cs].err
    /\ req[r].pc = "stamp" => heap[req[r].cs].err
    /\ req[r].pc = "after" => heap[req[r].cs].once = "done"

\* An entry is in the map under one key, the one its requests know, and never
\* with a database.
MapOK ==
  /\ \A k \in Keys : queries[k] # None => k[2] = None
  /\ \A k, l \in Keys : queries[k] # None /\ queries[k] = queries[l] => k = l
  /\ \A r \in Requests, k \in Keys :
       queries[k] # None /\ queries[k] \in {req[r].cs, req[r].staleAtStart}
         => k = <<req[r].name, None>>

\* A failure that had expired when a request arrived stays expired, and the
\* request is rid of it once it has deleted it.
StaleOK ==
  \A r \in Requests : req[r].staleAtStart # None =>
    /\ heap[req[r].staleAtStart].failedAt = "old"
    /\ req[r].pc \notin {"checkErr", "checkAge", "delete", "store"} => req[r].cs # req[r].staleAtStart
    /\ req[r].pc = "store" => \A k \in Keys : queries[k] # req[r].staleAtStart

IInv == TypeOK /\ EntriesOK /\ FreeIsNew /\ StepsOK /\ SingleFlight /\ MapOK /\ StaleOK /\ OwnStatement

-----------------------------------------------------------------------------
(* Lemmas.                                                                 *)

GState == [pc : PCs, name : Names \cup {None}, database : Databases \cup {None},
           cs : Cells \cup {None}, st : Statement \cup {None},
           ranOn : Databases \cup {None}, staleAtStart : Cells \cup {None}]

LEMMA NewTypes == NewEntry \in Entry /\ NewRequest \in GState
  BY DEF NewEntry, Entry, NewRequest, GState, PCs

\* None is no cell, no statement and no database.
LEMMA NoneApart == None \notin Cells /\ None \notin Statement /\ None \notin Databases
  BY CacheAssumption

\* A step that keeps all references keeps what is live.
LEMMA LiveKept ==
  ASSUME TypeOK, queries' = queries, req' \in [Requests -> GState],
         \A r \in Requests : req'[r].cs = req[r].cs /\ req'[r].staleAtStart = req[r].staleAtStart
  PROVE  Live' = Live
  BY DEF Live

\* What is referred to is live.
LEMMA Refers ==
  /\ \A k \in Keys : queries[k] \in Live
  /\ \A r \in Requests : req[r].cs \in Live /\ req[r].staleAtStart \in Live
  BY DEF Live

\* After a collection, entries that are referred to are as before, and the
\* others are new.
LEMMA CollectedKeeps ==
  ASSUME TypeOK, EntriesOK, heap' = Collected
  PROVE  /\ heap' \in [Cells -> Entry]
         /\ \A c \in Cells : heap'[c] \in {heap[c], NewEntry}
         /\ \A c \in Cells : c \in Live' => heap'[c] = heap[c]
         /\ FreeIsNew' /\ EntriesOK'
         /\ \A c \in Cells : heap'[c].once = "done" => heap'[c].err \/ heap'[c].st \in Statement
<1>1. /\ heap' \in [Cells -> Entry]
      /\ \A c \in Cells : heap'[c] \in {heap[c], NewEntry}
      /\ \A c \in Cells : c \in Live' => heap'[c] = heap[c]
      /\ \A c \in Cells : c \notin Live' => heap'[c] = NewEntry
  BY NewTypes DEF Collected, TypeOK
<1>2. FreeIsNew'
  BY <1>1 DEF FreeIsNew, Collected
<1>3. EntriesOK'
  BY <1>1 DEF EntriesOK, NewEntry
<1>4. \A c \in Cells : heap'[c].once = "done" => heap'[c].err \/ heap'[c].st \in Statement
  BY <1>1 DEF TypeOK, NewEntry
<1> QED
  BY <1>1, <1>2, <1>3, <1>4

\* The invariant holds before the first request.
LEMMA InitHolds == Init => IInv
<1> SUFFICES ASSUME Init PROVE IInv
  OBVIOUS
<1>1. TypeOK
  BY NewTypes DEF Init, TypeOK, GState, NewEntry
<1>2. EntriesOK /\ FreeIsNew
  BY DEF Init, EntriesOK, FreeIsNew, NewEntry
<1>3. StepsOK /\ SingleFlight
  BY DEF Init, StepsOK, SingleFlight, Compiling, NewRequest
<1>4. MapOK /\ StaleOK /\ OwnStatement
  BY DEF Init, MapOK, StaleOK, OwnStatement, NewRequest
<1> QED
  BY <1>1, <1>2, <1>3, <1>4 DEF IInv

-----------------------------------------------------------------------------
(* Steps that change nothing but the request's own state.                  *)

\* Such a step of r keeps what r refers to; the cases below show that it
\* comes to the right place.
Own(r) ==
  /\ UNCHANGED <<heap, queries, saved>>
  /\ req' \in [Requests -> GState]
  /\ \A s \in Requests \ {r} : req'[s] = req[s]
  /\ req'[r].cs = req[r].cs /\ req'[r].name = req[r].name /\ req'[r].staleAtStart = req[r].staleAtStart
  /\ req'[r].pc \in {"checkAge", "delete", "do", "failed", "after", "execute", "done"}
  /\ req'[r].pc \in {"checkAge", "delete", "do"} => req'[r].database = req[r].database

LEMMA OwnKeeps ==
  ASSUME IInv, NEW r \in Requests, Own(r), req[r].pc # "start",
         req'[r].pc \in {"checkAge", "delete", "do", "after"} =>
           req[r].cs \in Cells /\ req[r].pc \in {"checkErr", "checkAge", "do"},
         req'[r].pc = "after" => heap[req[r].cs].once = "done",
         req'[r].pc \in {"do", "failed", "after", "execute", "done"} /\ req[r].staleAtStart # None
           => req[r].cs # req[r].staleAtStart,
         req'[r].st # None /\ req'[r].st.perRequest => req'[r].st.by = r
  PROVE  IInv'
<1> USE DEF IInv
<1>1. TypeOK' /\ EntriesOK'
  BY DEF TypeOK, EntriesOK, Own, GState
<1>2. FreeIsNew'
  <2>1. Live' = Live
    BY LiveKept DEF Own
  <2> QED
    BY <2>1 DEF FreeIsNew, Own
<1>3. StepsOK'
  BY DEF StepsOK, Own, Compiling
<1>4. SingleFlight'
  BY DEF SingleFlight, Own, Compiling
<1>5. MapOK'
  BY DEF MapOK, Own
<1>6. StaleOK'
  BY DEF StaleOK, Own
<1>7. OwnStatement'
  BY DEF OwnStatement, Own
<1> QED
  BY <1>1, <1>2, <1>3, <1>4, <1>5, <1>6, <1>7

\* The checks of a found entry, and the return from Do.
LEMMA ChecksKeep ==
  ASSUME IInv, NEW r \in Requests, CheckErr(r) \/ CheckAge(r) \/ DoReturn(r)
  PROVE  IInv'
<1>1. Own(r)
  BY DEF CheckErr, CheckAge, DoReturn, Go, At, Own, IInv, TypeOK, GState, PCs
<1>2. req'[r].st = req[r].st
  BY DEF CheckErr, CheckAge, DoReturn, Go, IInv, TypeOK, GState
<1>3. CASE CheckErr(r)
  BY <1>1, <1>2, <1>3, OwnKeeps DEF CheckErr, Go, At, E, IInv, TypeOK, StepsOK, StaleOK, EntriesOK, OwnStatement, GState
<1>4. CASE CheckAge(r)
  BY <1>1, <1>2, <1>4, OwnKeeps DEF CheckAge, Go, At, E, IInv, TypeOK, StepsOK, StaleOK, EntriesOK, OwnStatement, GState
<1>5. CASE DoReturn(r)
  BY <1>1, <1>2, <1>5, OwnKeeps DEF DoReturn, Go, At, E, IInv, TypeOK, StepsOK, StaleOK, EntriesOK, OwnStatement, GState
<1> QED
  BY <1>3, <1>4, <1>5

\* What follows Do: a shared statement is no one's in particular, a statement
\* compiled again is the request's own.
LEMMA RestKeeps ==
  ASSUME IInv, NEW r \in Requests, AfterErr(r) \/ AfterShared(r) \/ Recompile(r) \/ Execute(r)
  PROVE  IInv'
<1>1. CASE AfterErr(r)
  <2>1. Own(r) /\ req'[r].st = req[r].st
    BY <1>1 DEF AfterErr, Go, At, Own, IInv, TypeOK, GState, PCs
  <2> QED
    BY <1>1, <2>1, OwnKeeps DEF AfterErr, Go, At, IInv, TypeOK, StaleOK, OwnStatement
<1>2. CASE AfterShared(r)
  <2>1. E(r).st \in Statement
    BY <1>2 DEF AfterShared, At, E, IInv, TypeOK, StepsOK
  <2>2. Own(r) /\ req'[r].st = E(r).st
    BY <1>2, <2>1 DEF AfterShared, At, Own, IInv, TypeOK, GState, PCs
  <2> QED
    BY <1>2, <2>2, OwnKeeps DEF AfterShared, At, IInv, TypeOK, StaleOK
<1>3. CASE Recompile(r)
  <2>1. req[r].name \in Names
    BY <1>3 DEF Recompile, At, IInv, StepsOK
  <2>2. Compiled(r) \in Statement /\ Compiled(r).by = r /\ Routed(req[r].name) \in Databases \cup {None}
    BY <2>1 DEF Compiled, Statement, Routed, IInv, TypeOK, Query
  <2>3. Own(r) /\ req'[r].st \in {req[r].st, Compiled(r)} /\ req'[r].pc \in {"execute", "failed"}
    BY <1>3, <2>2 DEF Recompile, Go, At, Own, IInv, TypeOK, GState, PCs
  <2> QED
    BY <1>3, <2>2, <2>3, OwnKeeps DEF Recompile, At, IInv, TypeOK, StaleOK, OwnStatement
<1>4. CASE Execute(r)
  <2>1. RunsOn(r) \in Databases
    BY CacheAssumption DEF RunsOn, IInv, TypeOK
  <2>2. Own(r) /\ req'[r].st = req[r].st
    BY <1>4, <2>1 DEF Execute, At, Own, IInv, TypeOK, GState, PCs
  <2> QED
    BY <1>4, <2>2, OwnKeeps DEF Execute, At, IInv, TypeOK, StaleOK, OwnStatement
<1> QED
  BY <1>1, <1>2, <1>3, <1>4

-----------------------------------------------------------------------------
(* Steps inside Do, which change the entry at hand.                        *)

\* Request r changes its entry to e, and goes on.
Change(r, e) ==
  /\ UNCHANGED <<queries, saved>>
  /\ heap' = [heap EXCEPT ![req[r].cs] = e]
  /\ req' \in [Requests -> GState]
  /\ \A s \in Requests \ {r} : req'[s] = req[s]
  /\ req'[r].cs = req[r].cs /\ req'[r].name = req[r].name /\ req'[r].st = req[r].st
  /\ req'[r].staleAtStart = req[r].staleAtStart

\* A change keeps the invariant if the entry was not done, and nobody but r was
\* compiling it.
LEMMA ChangeKeeps ==
  ASSUME IInv, NEW r \in Requests, NEW e \in Entry, Change(r, e),
         req[r].pc \in {"do", "compile", "stamp"},
         heap[req[r].cs].once # "done",
         req[r].pc = "do" => heap[req[r].cs].once = "fresh",
         e.once = "done" => e.err \/ e.st \in Statement,
         e.once # "done" => e.st = None /\ e.failedAt = "zero",
         e.once # "fresh", e.err => e.st = None, e.failedAt # "zero" => e.err,
         \/ req'[r].pc = "compile" /\ ~e.err /\ e.once = "running"
         \/ req'[r].pc = "stamp" /\ e.err /\ e.once = "running"
         \/ req'[r].pc = "after" /\ e.once = "done",
         req'[r].pc # "after" => req'[r].database = req[r].database
  PROVE  IInv'
<1> DEFINE c == req[r].cs
<1> USE DEF IInv
<1>1. c \in Cells /\ c # None /\ req[r].name \in Names /\ req[r].database = None
  BY NoneApart DEF StepsOK
<1>2. heap' \in [Cells -> Entry] /\ heap'[c] = e /\ \A d \in Cells \ {c} : heap'[d] = heap[d]
  BY <1>1 DEF Change, TypeOK
<1>3. \A s \in Requests \ {r} : Compiling(s) \/ req[s].pc = "after" => req[s].cs # c
  BY <1>1 DEF StepsOK, SingleFlight, Compiling
<1>4. TypeOK' /\ EntriesOK'
  BY <1>1, <1>2 DEF TypeOK, EntriesOK, Change, GState
<1>5. FreeIsNew'
  <2>1. Live' = Live
    BY LiveKept DEF Change
  <2>2. c \in Live
    BY Refers
  <2> QED
    BY <1>2, <2>1, <2>2 DEF FreeIsNew
<1>6. StepsOK'
  <2>1. \A s \in Requests \ {r} : Compiling(s) \/ req[s].pc = "after" => heap'[req[s].cs] = heap[req[s].cs]
    BY <1>2, <1>3 DEF StepsOK, Compiling
  <2> QED
    BY <1>1, <1>2, <2>1 DEF StepsOK, Change, Compiling
<1>7. SingleFlight'
  BY <1>3 DEF SingleFlight, Change, Compiling
<1>8. MapOK'
  BY DEF MapOK, Change
<1>9. StaleOK'
  <2>1. \A s \in Requests : req[s].staleAtStart # None => heap'[req[s].staleAtStart].failedAt = "old"
    BY <1>1, <1>2 DEF StaleOK, TypeOK, EntriesOK
  <2> QED
    BY <2>1 DEF StaleOK, Change
<1>10. OwnStatement'
  BY DEF OwnStatement, Change
<1> QED
  BY <1>4, <1>5, <1>6, <1>7, <1>8, <1>9, <1>10

\* The winner of the Once runs the function, the function ends, the Once is done.
LEMMA DoKeeps ==
  ASSUME IInv, NEW r \in Requests, DoFirst(r) \/ CompileOk(r) \/ CompileErr(r) \/ Stamp(r)
  PROVE  IInv'
<1> DEFINE c == req[r].cs
           old == heap[c]
<1>1. /\ c \in Cells /\ old \in Entry /\ req[r].name \in Names
      /\ old.once # "done" => old.st = None /\ old.failedAt = "zero"
      /\ old.once = "fresh" => ~old.err
      /\ old.failedAt # "zero" => old.err
      /\ Compiling(r) => old.once = "running"
      /\ req[r].pc = "compile" => ~old.err
      /\ req[r].pc = "stamp" => old.err
  BY DEF DoFirst, CompileOk, CompileErr, Stamp, At, IInv, StepsOK, TypeOK, EntriesOK
<1>2. CASE DoFirst(r)
  <2> DEFINE e == [old EXCEPT !.once = "running"]
  <2>1. e \in Entry /\ e.once = "running" /\ e.st = old.st /\ e.err = old.err /\ e.failedAt = old.failedAt
    BY <1>1 DEF Entry
  <2>2. Change(r, e) /\ req'[r].pc = "compile" /\ req'[r].database = req[r].database
    BY <1>1, <1>2 DEF DoFirst, Go, At, E, Change, IInv, TypeOK, GState, PCs
  <2> HIDE DEF e
  <2> QED
    BY <1>1, <1>2, <2>1, <2>2, ChangeKeeps DEF DoFirst, At, E
<1>3. CASE CompileOk(r)
  <2> DEFINE e == [old EXCEPT !.st = Compiled(r), !.once = "done"]
  <2>1. Compiled(r) \in Statement /\ Routed(req[r].name) \in Databases \cup {None}
    BY <1>1 DEF Compiled, Statement, Routed, IInv, TypeOK, StepsOK, Query
  <2>2. e \in Entry /\ e.once = "done" /\ e.st = Compiled(r) /\ e.err = old.err /\ e.failedAt = old.failedAt
    BY <1>1, <2>1 DEF Entry
  <2>3. Change(r, e) /\ req'[r].pc = "after"
    BY <1>1, <1>3, <2>1 DEF CompileOk, At, Change, IInv, TypeOK, GState, PCs
  <2> HIDE DEF e
  <2> QED
    BY <1>1, <1>3, <2>1, <2>2, <2>3, ChangeKeeps DEF CompileOk, At, Compiling
<1>4. CASE CompileErr(r)
  <2> DEFINE e == [old EXCEPT !.err = TRUE]
  <2>1. e \in Entry /\ e.once = old.once /\ e.st = old.st /\ e.err /\ e.failedAt = old.failedAt
    BY <1>1 DEF Entry
  <2>2. Change(r, e) /\ req'[r].pc = "stamp" /\ req'[r].database = req[r].database
    BY <1>1, <1>4 DEF CompileErr, Go, At, Change, IInv, TypeOK, GState, PCs
  <2> HIDE DEF e
  <2> QED
    BY <1>1, <1>4, <2>1, <2>2, ChangeKeeps DEF CompileErr, At, Compiling
<1>5. CASE Stamp(r)
  <2> DEFINE e == [old EXCEPT !.failedAt = "recent", !.once = "done"]
  <2>1. e \in Entry /\ e.once = "done" /\ e.st = old.st /\ e.err = old.err /\ e.failedAt = "recent"
    BY <1>1 DEF Entry
  <2>2. Change(r, e) /\ req'[r].pc = "after"
    BY <1>1, <1>5 DEF Stamp, Go, At, Change, IInv, TypeOK, GState, PCs
  <2> HIDE DEF e
  <2> QED
    BY <1>1, <1>5, <2>1, <2>2, ChangeKeeps DEF Stamp, At, Compiling
<1> QED
  BY <1>2, <1>3, <1>4, <1>5

\* A failure grows old.
LEMMA AgeKeeps ==
  ASSUME IInv, NEW i \in Cells, Age(i)
  PROVE  IInv'
<1> DEFINE e == [heap[i] EXCEPT !.failedAt = "old"]
<1> USE DEF IInv
<1>1. /\ i \in Live /\ heap[i].failedAt = "recent" /\ UNCHANGED <<queries, req, saved>>
      /\ heap' = [heap EXCEPT ![i] = e]
  BY DEF Age
<1>2. /\ e \in Entry /\ e.failedAt = "old"
      /\ e.once = heap[i].once /\ e.err = heap[i].err /\ e.st = heap[i].st
  BY DEF Entry, TypeOK
<1> HIDE DEF e
<1>3. heap' \in [Cells -> Entry] /\ heap'[i] = e /\ \A d \in Cells \ {i} : heap'[d] = heap[d]
  BY <1>1, <1>2 DEF TypeOK
<1>4. \A d \in Cells : heap'[d].once = heap[d].once /\ heap'[d].err = heap[d].err /\ heap'[d].st = heap[d].st
  BY <1>2, <1>3
<1>5. TypeOK' /\ EntriesOK'
  <2>1. TypeOK'
    BY <1>1, <1>3, <1>4 DEF TypeOK
  <2>2. EntriesOK'
    BY <1>1, <1>2, <1>3, <1>4 DEF EntriesOK
  <2> QED
    BY <2>1, <2>2
<1>6. FreeIsNew'
  BY <1>1, <1>3 DEF FreeIsNew, Live
<1>7. StepsOK' /\ SingleFlight' /\ MapOK' /\ OwnStatement'
  BY <1>1, <1>4 DEF StepsOK, SingleFlight, Compiling, MapOK, OwnStatement
<1>8. StaleOK'
  BY <1>1, <1>2, <1>3 DEF StaleOK, TypeOK
<1> QED
  BY <1>5, <1>6, <1>7, <1>8

-----------------------------------------------------------------------------
(* Steps that drop references.                                             *)

\* Request r lets go of entries, or takes them out of the map.
Drop(r) ==
  /\ heap' = Collected /\ UNCHANGED saved
  /\ queries' \in [Keys -> Cells \cup {None}]
  /\ \A k \in Keys : queries'[k] \in {queries[k], None}
  /\ req' \in [Requests -> GState]
  /\ \A s \in Requests \ {r} : req'[s] = req[s]
  /\ req'[r].st \in {req[r].st, None}

\* It keeps the invariant if it finishes, or goes on with nothing, or with the
\* same entries and without the failure it found.
LEMMA DropKeeps ==
  ASSUME IInv, NEW r \in Requests, Drop(r),
         \/ req'[r] = NewRequest
         \/ /\ req'[r].name = req[r].name /\ req[r].name \in Names
            /\ req'[r].staleAtStart = req[r].staleAtStart
            /\ \/ req'[r].pc = "recompile" /\ req'[r].cs = None
               \/ /\ req'[r].pc = "store" /\ req'[r].cs = req[r].cs /\ req[r].cs \in Cells
                  /\ req'[r].database = None
                  /\ req[r].staleAtStart # None => \A k \in Keys : queries'[k] # req[r].staleAtStart
  PROVE  IInv'
<1> USE DEF IInv
<1>1. /\ heap' \in [Cells -> Entry] /\ FreeIsNew' /\ EntriesOK'
      /\ \A c \in Cells : c \in Live' => heap'[c] = heap[c]
      /\ \A c \in Cells : heap'[c].once = "done" => heap'[c].err \/ heap'[c].st \in Statement
  BY CollectedKeeps DEF Drop
<1>2. \A s \in Requests : req'[s].cs \in Live' /\ req'[s].staleAtStart \in Live'
  BY DEF Live
<1>3. TypeOK'
  BY <1>1 DEF TypeOK, Drop, GState
<1>4. req'[r].pc \in {"start", "recompile", "store"}
  BY DEF NewRequest
<1>5. StepsOK'
  <2>1. \A s \in Requests \ {r} : req[s].cs \in Cells => heap'[req[s].cs] = heap[req[s].cs]
    BY <1>1, <1>2 DEF Drop
  <2> QED
    BY <1>4, <2>1 DEF StepsOK, Drop, Compiling, NewRequest
<1>6. SingleFlight'
  BY <1>4 DEF SingleFlight, Drop, Compiling
<1>7. MapOK'
  <2>1. \A k \in Keys : queries'[k] # None => queries'[k] = queries[k]
    BY DEF Drop
  <2>2. \A s \in Requests : \/ req'[s] = NewRequest
                           \/ /\ req'[s].name = req[s].name
                              /\ req'[s].cs \in {req[s].cs, None}
                              /\ req'[s].staleAtStart = req[s].staleAtStart
    BY DEF Drop
  <2> QED
    BY <2>1, <2>2 DEF MapOK, NewRequest
<1>8. StaleOK'
  <2> SUFFICES ASSUME NEW s \in Requests, req'[s].staleAtStart # None
               PROVE  /\ heap'[req'[s].staleAtStart].failedAt = "old"
                      /\ req'[s].pc \notin {"checkErr", "checkAge", "delete", "store"}
                           => req'[s].cs # req'[s].staleAtStart
                      /\ req'[s].pc = "store" => \A k \in Keys : queries'[k] # req'[s].staleAtStart
    BY DEF StaleOK
  <2>1. req'[s].staleAtStart = req[s].staleAtStart /\ req[s].staleAtStart \in Cells
    BY DEF Drop, NewRequest, TypeOK
  <2>2. heap'[req[s].staleAtStart] = heap[req[s].staleAtStart]
    BY <1>1, <1>2, <2>1
  <2>3. \A k \in Keys : queries'[k] # None => queries'[k] = queries[k]
    BY DEF Drop
  <2>4. CASE s = r
    BY <2>1, <2>2, <2>4 DEF StaleOK, NewRequest
  <2>5. CASE s # r
    BY <2>1, <2>2, <2>3, <2>5 DEF StaleOK, Drop
  <2> QED
    BY <2>4, <2>5
<1>9. OwnStatement'
  BY DEF OwnStatement, Drop
<1> QED
  BY <1>1, <1>3, <1>5, <1>6, <1>7, <1>8, <1>9

\* An expired failure is deleted; a per-request entry too; a finished request
\* forgets everything.
LEMMA DropsKeep ==
  ASSUME IInv, NEW r \in Requests, Delete(r) \/ AfterPerRequest(r) \/ Finish(r)
  PROVE  IInv'
<1>1. CASE Delete(r)
  <2>1. /\ req[r].cs \in Cells /\ req[r].name \in Names /\ req[r].database = None
        /\ Key(r) = <<req[r].name, None>> /\ Key(r) \in Keys
    BY <1>1 DEF Delete, At, IInv, StepsOK, Key, Keys
  <2>2. /\ queries' \in [Keys -> Cells \cup {None}] /\ queries'[Key(r)] = None
        /\ \A k \in Keys \ {Key(r)} : queries'[k] = queries[k]
    BY <1>1, <2>1 DEF Delete, IInv, TypeOK
  <2>3. Drop(r) /\ req'[r] = [req[r] EXCEPT !.pc = "store"]
    BY <1>1, <2>2 DEF Delete, Go, Drop, IInv, TypeOK, GState, PCs
  <2>4. req[r].staleAtStart # None => \A k \in Keys : queries'[k] # req[r].staleAtStart
    BY <2>1, <2>2 DEF IInv, MapOK
  <2>5. /\ req'[r].pc = "store" /\ req'[r].cs = req[r].cs /\ req'[r].name = req[r].name
        /\ req'[r].staleAtStart = req[r].staleAtStart /\ req'[r].database = req[r].database
    BY <2>3 DEF IInv, TypeOK
  <2> QED
    BY <2>1, <2>3, <2>4, <2>5, DropKeeps
<1>2. CASE AfterPerRequest(r)
  <2>1. req[r].name \in Names
    BY <1>2 DEF AfterPerRequest, At, IInv, StepsOK
  <2>2. queries' \in [Keys -> Cells \cup {None}] /\ \A k \in Keys : queries'[k] \in {queries[k], None}
    BY <1>2 DEF AfterPerRequest, IInv, TypeOK
  <2> DEFINE next == [req[r] EXCEPT !.pc = "recompile", !.cs = None]
  <2>3. /\ next \in GState /\ next.pc = "recompile" /\ next.cs = None /\ next.name = req[r].name
        /\ next.staleAtStart = req[r].staleAtStart /\ next.st = req[r].st
    BY DEF IInv, TypeOK, GState, PCs
  <2>4. req' = [req EXCEPT ![r] = next] /\ heap' = Collected /\ UNCHANGED saved
    BY <1>2 DEF AfterPerRequest
  <2> HIDE DEF next
  <2>5. req \in [Requests -> GState]
    BY DEF IInv, TypeOK, GState
  <2>6. req'[r] = next /\ Drop(r)
    BY <2>2, <2>3, <2>4, <2>5 DEF Drop
  <2> QED
    BY <2>1, <2>3, <2>6, DropKeeps
<1>3. CASE Finish(r)
  <2>1. Drop(r) /\ req'[r] = NewRequest
    BY <1>3, NewTypes DEF Finish, Drop, IInv, TypeOK, GState, NewRequest
  <2> QED
    BY <2>1, DropKeeps
<1> QED
  BY <1>1, <1>2, <1>3

-----------------------------------------------------------------------------
(* Steps that load or store an entry.                                      *)

\* A request that arrives, or one that has deleted an expired failure, loads an
\* entry or stores a new one under its name.
LEMMA LoadKeeps ==
  ASSUME IInv, NEW r \in Requests, NEW n \in Names, NEW base \in GState,
         NEW hit \in {"checkErr", "do"},
         LoadOrStore(r, <<n, None>>, base, hit, "do"),
         base.name = n, base.database = None,
         base.st # None /\ base.st.perRequest => base.st.by = r,
         \/ hit = "checkErr" /\ base.staleAtStart = StaleEntry(<<n, None>>)
         \/ hit = "do" /\ req[r].pc = "store" /\ base.staleAtStart = req[r].staleAtStart /\ req[r].name = n
  PROVE  IInv'
<1> DEFINE key == <<n, None>>
<1> USE DEF IInv
<1>0. key \in Keys
  BY DEF Keys
<1>1. PICK c \in Cells, pc \in {hit, "do"} :
        /\ heap' = Collected /\ saved' = saved
        /\ req' = [req EXCEPT ![r] = [base EXCEPT !.cs = c, !.pc = pc]]
        /\ \/ queries[key] = c /\ queries' = queries /\ pc = hit
           \/ /\ queries[key] = None /\ c \notin Live /\ queries' = [queries EXCEPT ![key] = c]
              /\ pc = "do"
  <2>1. CASE queries[key] # None
    <3>1. queries[key] \in Cells
      BY <1>0, <2>1 DEF TypeOK
    <3>2. /\ heap' = Collected /\ saved' = saved /\ queries' = queries
          /\ req' = [req EXCEPT ![r] = [base EXCEPT !.cs = queries[key], !.pc = hit]]
      BY <2>1 DEF LoadOrStore
    <3> QED
      BY <3>1, <3>2, Zenon
  <2>2. CASE queries[key] = None
    <3>1. PICK new \in Free :
            /\ heap' = Collected /\ saved' = saved /\ queries' = [queries EXCEPT ![key] = new]
            /\ req' = [req EXCEPT ![r] = [base EXCEPT !.cs = new, !.pc = "do"]]
      <4>1. (CHOOSE c \in Free : TRUE) \in Free
        BY <2>2 DEF LoadOrStore
      <4> QED
        BY <2>2, <4>1, Zenon DEF LoadOrStore
    <3>2. new \in Cells /\ new \notin Live
      BY DEF Free
    <3> QED
      BY <2>2, <3>1, <3>2, Zenon
  <2> QED
    BY <2>1, <2>2
<1>2. /\ req'[r].cs = c /\ req'[r].name = n /\ req'[r].database = None /\ req'[r].st = base.st
      /\ req'[r].staleAtStart = base.staleAtStart /\ req'[r].pc = pc /\ pc \in {"checkErr", "do"}
      /\ req'[r] \in GState
      /\ \A s \in Requests \ {r} : req'[s] = req[s]
  <2> DEFINE rec == [base EXCEPT !.cs = c, !.pc = pc]
  <2>1. req \in [Requests -> GState]
    BY DEF TypeOK, GState
  <2>2. req' = [req EXCEPT ![r] = rec]
    BY <1>1
  <2>3. pc \in {"checkErr", "do"} /\ pc \in PCs
    BY DEF PCs
  <2>4. /\ rec \in GState /\ rec.cs = c /\ rec.name = n /\ rec.database = None /\ rec.st = base.st
        /\ rec.staleAtStart = base.staleAtStart /\ rec.pc = pc
    BY <2>3 DEF GState
  <2> HIDE DEF rec
  <2>5. req'[r] = rec /\ \A s \in Requests \ {r} : req'[s] = req[s]
    BY <2>1, <2>2
  <2> QED
    BY <2>3, <2>4, <2>5
<1>3. /\ heap' \in [Cells -> Entry] /\ FreeIsNew' /\ EntriesOK'
      /\ \A d \in Cells : d \in Live' => heap'[d] = heap[d]
      /\ \A d \in Cells : heap'[d].once = "done" => heap'[d].err \/ heap'[d].st \in Statement
  BY <1>1, CollectedKeeps
<1>4. \A s \in Requests : req'[s].cs \in Live' /\ req'[s].staleAtStart \in Live'
  BY DEF Live
<1>5. /\ queries' \in [Keys -> Cells \cup {None}] /\ queries'[key] = c
      /\ \A k \in Keys \ {key} : queries'[k] = queries[k]
  BY <1>0, <1>1 DEF TypeOK
<1>6. TypeOK'
  <2>1. req' \in [Requests -> GState]
    BY <1>1, <1>2 DEF TypeOK, GState
  <2> QED
    BY <1>1, <1>3, <1>5, <2>1 DEF TypeOK, GState
<1>7. StepsOK'
  <2>1. \A s \in Requests \ {r} : req[s].cs \in Cells => heap'[req[s].cs] = heap[req[s].cs]
    BY <1>2, <1>3, <1>4
  <2> QED
    BY <1>2, <2>1 DEF StepsOK, Compiling
<1>8. SingleFlight'
  BY <1>2 DEF SingleFlight, Compiling
<1>9. c # None
  BY NoneApart
<1>10. base.staleAtStart # None /\ hit = "checkErr" => base.staleAtStart = queries[key] /\ heap[queries[key]].failedAt = "old"
  BY DEF StaleEntry, IInv
<1>11. MapOK'
  <2>1. \A k \in Keys : queries'[k] # None => k[2] = None
    BY <1>5 DEF MapOK
  <2>2. \A k \in Keys : queries[k] = c => k = key
    BY <1>0, <1>1, <1>9, Refers DEF MapOK
  <2>3. \A k, l \in Keys : queries'[k] # None /\ queries'[k] = queries'[l] => k = l
    BY <1>5, <2>2 DEF MapOK
  <2>4. \A k \in Keys : queries'[k] # None /\ queries'[k] \in {req'[r].cs, req'[r].staleAtStart} => k = key
    BY <1>0, <1>2, <1>5, <1>10, <2>2 DEF MapOK
  <2>5. \A s \in Requests \ {r}, k \in Keys :
          queries'[k] # None /\ queries'[k] \in {req[s].cs, req[s].staleAtStart} => k = <<req[s].name, None>>
    BY <1>0, <1>1, <1>5, Refers DEF MapOK
  <2> QED
    BY <1>2, <2>1, <2>3, <2>4, <2>5 DEF MapOK
<1>12. StaleOK'
  <2>1. \A s \in Requests \ {r} : req[s].staleAtStart # None =>
          /\ heap'[req[s].staleAtStart] = heap[req[s].staleAtStart]
          /\ c # req[s].staleAtStart \/ queries' = queries
    BY <1>1, <1>2, <1>3, <1>4, Refers DEF TypeOK
  <2>2. \A s \in Requests \ {r} : req[s].staleAtStart # None /\ req[s].pc = "store"
          => \A k \in Keys : queries'[k] # req[s].staleAtStart
    BY <1>5, <2>1 DEF StaleOK
  <2>3. base.staleAtStart # None =>
          /\ heap'[base.staleAtStart].failedAt = "old"
          /\ req'[r].pc = "do" => c # base.staleAtStart
    <3> SUFFICES ASSUME base.staleAtStart # None
                 PROVE  /\ heap'[base.staleAtStart].failedAt = "old"
                        /\ req'[r].pc = "do" => c # base.staleAtStart
      OBVIOUS
    <3>1. base.staleAtStart \in Cells /\ heap'[base.staleAtStart] = heap[base.staleAtStart]
      BY <1>2, <1>3, <1>4 DEF GState
    <3>2. CASE hit = "checkErr"
      BY <1>1, <1>2, <1>9, <1>10, <3>1, <3>2
    <3>3. CASE hit = "do"
      <4>1. req[r].pc = "store" /\ base.staleAtStart = req[r].staleAtStart
        BY <3>3
      <4>2. heap[req[r].staleAtStart].failedAt = "old" /\ queries[key] # req[r].staleAtStart
        BY <1>0, <4>1 DEF StaleOK
      <4>3. c # req[r].staleAtStart
        BY <1>1, <4>2, Refers
      <4> QED
        BY <1>2, <3>1, <4>1, <4>2, <4>3
    <3> QED
      BY <3>2, <3>3
  <2> QED
    BY <1>2, <2>1, <2>2, <2>3 DEF StaleOK
<1>13. OwnStatement'
  BY <1>2 DEF OwnStatement
<1> QED
  BY <1>3, <1>6, <1>7, <1>8, <1>11, <1>12, <1>13

-----------------------------------------------------------------------------
(* The theorems that hold wherever the queries are.                        *)

LEMMA NextKeeps == IInv /\ [Next]_vars => IInv'
<1> SUFFICES ASSUME IInv, [Next]_vars PROVE IInv'
  OBVIOUS
<1>1. CASE \E r \in Requests : Serve(r) \/ Finish(r)
  <2> PICK r \in Requests : Serve(r) \/ Finish(r)
    BY <1>1
  <2>1. CASE Store(r)
    <3>1. /\ req[r].name \in Names /\ Key(r) = <<req[r].name, None>> /\ req[r] \in GState
          /\ req[r].database = None /\ req[r].pc = "store"
      BY <2>1 DEF Store, At, IInv, StepsOK, Key, TypeOK, GState
    <3> QED
      BY <2>1, <3>1, LoadKeeps DEF Store, IInv, OwnStatement
  <2> QED
    BY <2>1, ChecksKeep, RestKeeps, DoKeeps, DropsKeep DEF Serve
<1>2. CASE \E r \in Requests, n \in Names : Start(r, n)
  <2> PICK r \in Requests, n \in Names : Start(r, n)
    BY <1>2
  <2> DEFINE base == [NewRequest EXCEPT !.name = n, !.staleAtStart = StaleEntry(<<n, None>>)]
  <2>1. StaleEntry(<<n, None>>) \in Cells \cup {None}
    BY DEF StaleEntry, IInv, TypeOK, Keys
  <2>2. /\ base \in GState /\ base.name = n /\ base.database = None /\ base.st = None
        /\ base.staleAtStart = StaleEntry(<<n, None>>)
    BY <2>1 DEF NewRequest, GState, PCs
  <2>3. LoadOrStore(r, <<n, None>>, base, "checkErr", "do")
    BY DEF Start
  <2> HIDE DEF base
  <2> QED
    BY <2>2, <2>3, LoadKeeps
<1>3. CASE \E i \in Cells : Age(i)
  BY <1>3, AgeKeeps
<1>4. CASE UNCHANGED vars
  BY <1>4 DEF vars, IInv, TypeOK, EntriesOK, FreeIsNew, Live, StepsOK, SingleFlight, Compiling,
              MapOK, StaleOK, OwnStatement
<1> QED
  BY <1>1, <1>2, <1>3, <1>4 DEF Next

LEMMA Invariance == Spec => []IInv
  BY InitHolds, NextKeeps, PTL DEF Spec

\* The state always has its types, and an entry that is done has an outcome.
THEOREM CacheTyped == Spec => []TypeOK
<1>1. IInv => TypeOK
  BY DEF IInv
<1> QED
  BY Invariance, <1>1, PTL

\* compileQueryOnce (gstate.go): what an entry holds is compiled by one request,
\* whatever is deleted and stored in between.
THEOREM CompiledOnce == Spec => []SingleFlight
<1>1. IInv => SingleFlight
  BY DEF IInv
<1> QED
  BY Invariance, <1>1, PTL

\* A statement shaped by the variables of a request is executed by that request
\* alone (gstate.go:215).
THEOREM StatementStaysOwn == Spec => []OwnStatement
<1>1. IInv => OwnStatement
  BY DEF IInv
<1> QED
  BY Invariance, <1>1, PTL

\* No request is answered with a failure that had expired when it arrived
\* (gstate.go:189).
THEOREM ExpiredNotServed == Spec => []FreshFailure
<1>1. IInv => FreshFailure
  BY DEF IInv, StaleOK, FreshFailure, At
<1> QED
  BY Invariance, <1>1, PTL

-----------------------------------------------------------------------------
(* The key of a request changes only when it compiles a query of another         *)
(* database, so that whoever has not done that finds an entry again and drops it.*)

KeysKept ==
  \A r \in Requests :
    req[r].pc # "start" => req[r].database \in {None, Routed(req[r].name)}
NotKept == KeysKept /\ CompilersDrop

\* An entry in the map is as it was, or new.
LEMMA MapEntries ==
  ASSUME IInv, heap' = Collected, NEW k \in Keys, queries'[k] \in Cells
  PROVE  heap'[queries'[k]] = heap[queries'[k]]
<1>1. queries'[k] \in Live'
  BY DEF Live
<1> QED
  BY <1>1, CollectedKeeps DEF IInv

\* Loading or storing an entry leaves the other requests alone.
LEMMA LoadFrames ==
  ASSUME TypeOK, NEW r \in Requests, NEW key, NEW base \in GState, NEW hit \in PCs, NEW miss \in PCs,
         LoadOrStore(r, key, base, hit, miss)
  PROVE  /\ req'[r].database = base.database /\ req'[r].name = base.name
         /\ \A s \in Requests \ {r} : req'[s] = req[s]
<1>1. \E c, pc : req' = [req EXCEPT ![r] = [base EXCEPT !.cs = c, !.pc = pc]]
  BY Zenon DEF LoadOrStore
<1> QED
  BY <1>1 DEF TypeOK, GState

\* What the saved queries are does not change.
LEMMA SavedFixed ==
  ASSUME [Next]_vars
  PROVE  saved' = saved
  BY DEF Next, Serve, CheckErr, CheckAge, Delete, Store, DoFirst, DoReturn, CompileOk, CompileErr,
         Stamp, AfterErr, AfterPerRequest, AfterShared, Recompile, Execute, Finish, Start, Age,
         LoadOrStore, vars

LEMMA KeysKeptStep ==
  ASSUME IInv, KeysKept, [Next]_vars
  PROVE  KeysKept'
<1>1. saved' = saved /\ \A n \in Names : Routed(n)' = Routed(n)
  BY SavedFixed DEF Routed
<1>2. CASE \E r \in Requests : Serve(r) \/ Finish(r)
  <2> PICK r \in Requests : Serve(r) \/ Finish(r)
    BY <1>2
  <2>1. \A s \in Requests : req[s].pc # "start" => req[s].name \in Names
    BY DEF IInv, StepsOK
  <2> SUFFICES ASSUME NEW s \in Requests, req'[s].pc # "start"
               PROVE  req'[s].name \in Names /\ req'[s].database \in {None, Routed(req'[s].name)}
    BY <1>1 DEF KeysKept
  <2>2. CASE CheckErr(r) \/ CheckAge(r) \/ DoFirst(r) \/ DoReturn(r) \/ CompileErr(r) \/ Stamp(r)
             \/ AfterErr(r) \/ Delete(r)
    <3>1. req[s].pc # "start" /\ req'[s].name = req[s].name /\ req'[s].database = req[s].database
      BY <2>2 DEF CheckErr, CheckAge, DoFirst, DoReturn, CompileErr, Stamp, AfterErr, Delete, Go, At,
                  IInv, TypeOK
    <3> QED
      BY <2>1, <3>1 DEF KeysKept
  <2>3. CASE Store(r)
    <3>1. req[s].pc # "start" /\ req'[s].name = req[s].name /\ req'[s].database = req[s].database
      BY <2>3, LoadFrames DEF Store, At, IInv, TypeOK, GState, PCs
    <3> QED
      BY <2>1, <3>1 DEF KeysKept
  <2>4. CASE AfterPerRequest(r) \/ AfterShared(r) \/ Execute(r) \/ Finish(r)
    <3>1. req[s].pc # "start" /\ req'[s].name = req[s].name /\ req'[s].database = req[s].database
      BY <2>4 DEF AfterPerRequest, AfterShared, Execute, Finish, At, NewRequest, IInv, TypeOK
    <3> QED
      BY <2>1, <3>1 DEF KeysKept
  <2>5. CASE CompileOk(r) \/ Recompile(r)
    BY <2>1, <2>5 DEF CompileOk, Recompile, Go, At, IInv, TypeOK, KeysKept
  <2> QED
    BY <2>2, <2>3, <2>4, <2>5 DEF Serve
<1>3. CASE \E r \in Requests, n \in Names : Start(r, n)
  <2> PICK r \in Requests, n \in Names : Start(r, n)
    BY <1>3
  <2> DEFINE base == [NewRequest EXCEPT !.name = n, !.staleAtStart = StaleEntry(<<n, None>>)]
  <2>1. StaleEntry(<<n, None>>) \in Cells \cup {None}
    BY DEF StaleEntry, IInv, TypeOK, Keys
  <2>2. base \in GState /\ base.database = None
    BY <2>1 DEF NewRequest, GState, PCs
  <2>3. LoadOrStore(r, <<n, None>>, base, "checkErr", "do")
    BY DEF Start
  <2>4. \A s \in Requests : req[s].pc # "start" => req[s].name \in Names
    BY DEF IInv, StepsOK
  <2> HIDE DEF base
  <2> QED
    BY <1>1, <2>2, <2>3, <2>4, LoadFrames DEF IInv, PCs, KeysKept
<1>4. CASE (\E i \in Cells : Age(i)) \/ UNCHANGED vars
  <2>1. \A s \in Requests : req[s].pc # "start" => req[s].name \in Names
    BY DEF IInv, StepsOK
  <2> QED
    BY <1>1, <1>4, <2>1 DEF Age, vars, KeysKept
<1> QED
  BY <1>2, <1>3, <1>4 DEF Next

\* A step that leaves the map's entries and whoever is at "after" alone.
LEMMA QuietKeeps ==
  ASSUME IInv, CompilersDrop, saved' = saved,
         \A k \in Keys : queries'[k] # None =>
           heap'[queries'[k]].st = None
           \/ (queries'[k] = queries[k] /\ heap'[queries'[k]].st = heap[queries'[k]].st),
         \A r \in Requests : req[r].pc = "after" => req'[r] = req[r]
  PROVE  CompilersDrop'
<1> SUFFICES ASSUME NEW k \in Keys, queries'[k] # None, heap'[queries'[k]].st # None,
                    heap'[queries'[k]].st.perRequest, saved[k[1]].db = DefaultDB
             PROVE  /\ req'[heap'[queries'[k]].st.by].pc = "after"
                    /\ req'[heap'[queries'[k]].st.by].cs = queries'[k]
  BY DEF CompilersDrop, At
<1>1. queries'[k] = queries[k] /\ heap'[queries[k]].st = heap[queries[k]].st /\ queries[k] \in Cells
  BY DEF IInv, TypeOK
<1>2. heap[queries[k]].st.by \in Requests
  BY <1>1 DEF IInv, TypeOK, Entry, Statement
<1>3. req[heap[queries[k]].st.by].pc = "after" /\ req[heap[queries[k]].st.by].cs = queries[k]
  BY <1>1 DEF CompilersDrop, At
<1> QED
  BY <1>1, <1>2, <1>3

\* Loading an entry, or storing a new one, is such a step.
LEMMA LoadQuiet ==
  ASSUME IInv, CompilersDrop, NEW r \in Requests, NEW key \in Keys, NEW base \in GState,
         NEW hit \in PCs, LoadOrStore(r, key, base, hit, "do"), req[r].pc # "after"
  PROVE  CompilersDrop'
<1>1. \A s \in Requests \ {r} : req'[s] = req[s]
  BY LoadFrames DEF PCs, IInv
<1>2. heap' = Collected
  BY DEF LoadOrStore
<1>3. \A k \in Keys : queries'[k] # None =>
        \/ queries'[k] = queries[k]
        \/ queries'[k] \in Cells \ Live
  <2>1. CASE queries[key] # None
    BY <2>1 DEF LoadOrStore
  <2>2. CASE queries[key] = None
    <3>1. PICK new \in Free : queries' = [queries EXCEPT ![key] = new]
      <4>1. (CHOOSE c \in Free : TRUE) \in Free
        BY <2>2 DEF LoadOrStore
      <4> QED
        BY <2>2, <4>1, Zenon DEF LoadOrStore
    <3> QED
      BY <3>1 DEF Free, IInv, TypeOK
  <2> QED
    BY <2>1, <2>2
<1>4. \A k \in Keys : queries'[k] # None =>
        heap'[queries'[k]].st = None
        \/ (queries'[k] = queries[k] /\ heap'[queries'[k]].st = heap[queries'[k]].st)
  <2> TAKE k \in Keys
  <2> HAVE queries'[k] # None
  <2>1. queries'[k] \in Cells
    BY <1>3 DEF IInv, TypeOK
  <2>2. heap'[queries'[k]] = heap[queries'[k]]
    BY <1>2, <2>1, MapEntries
  <2> QED
    BY <1>3, <2>1, <2>2 DEF IInv, FreeIsNew, NewEntry
<1>5. saved' = saved
  BY DEF LoadOrStore
<1> QED
  BY <1>1, <1>4, <1>5, QuietKeeps

LEMMA NotKeptStep ==
  ASSUME IInv, NotKept, [Next]_vars
  PROVE  CompilersDrop'
<1> USE DEF NotKept
<1>5. saved' = saved
  BY SavedFixed
<1>1. CASE \E r \in Requests : Serve(r) \/ Finish(r)
  <2> PICK r \in Requests : Serve(r) \/ Finish(r)
    BY <1>1
  <2>1. CASE CheckErr(r) \/ CheckAge(r) \/ DoReturn(r) \/ Recompile(r) \/ Execute(r)
    BY <2>1, <1>5, QuietKeeps
       DEF CheckErr, CheckAge, DoReturn, Recompile, Execute, Go, At, IInv, TypeOK
  <2>2. CASE DoFirst(r) \/ CompileErr(r) \/ Stamp(r)
    <3>1. /\ \A c \in Cells : heap'[c].st = heap[c].st
          /\ UNCHANGED queries /\ \A s \in Requests : req[s].pc = "after" => req'[s] = req[s]
      BY <2>2 DEF DoFirst, CompileErr, Stamp, Go, At, IInv, TypeOK, Entry
    <3> QED
      BY <3>1, <1>5, QuietKeeps DEF IInv, TypeOK
  <2>3. CASE Delete(r) \/ Finish(r)
    <3>1. heap' = Collected /\ \A k \in Keys : queries'[k] \in {queries[k], None}
      BY <2>3 DEF Delete, Finish, IInv, TypeOK
    <3>2. \A s \in Requests : req[s].pc = "after" => req'[s] = req[s]
      BY <2>3 DEF Delete, Finish, Go, At, IInv, TypeOK
    <3>3. \A k \in Keys : queries'[k] # None => queries'[k] = queries[k] /\ heap'[queries'[k]] = heap[queries'[k]]
      BY <3>1, MapEntries DEF IInv, TypeOK
    <3> QED
      BY <3>2, <3>3, <1>5, QuietKeeps
  <2>4. CASE Store(r)
    <3>1. LoadOrStore(r, Key(r), req[r], "do", "do") /\ req[r].pc = "store" /\ req[r] \in GState
      BY <2>4 DEF Store, At, IInv, TypeOK, GState
    <3>2. Key(r) \in Keys
      BY <3>1 DEF Key, Keys, IInv, StepsOK, GState
    <3> QED
      BY <3>1, <3>2, LoadQuiet DEF PCs
  <2>5. CASE CompileOk(r)
    <3>1. /\ req[r].cs \in Cells /\ heap' = [heap EXCEPT ![req[r].cs] = heap'[req[r].cs]]
          /\ heap'[req[r].cs].st = Compiled(r) /\ UNCHANGED queries
          /\ req'[r].pc = "after" /\ req'[r].cs = req[r].cs
          /\ \A s \in Requests \ {r} : req'[s] = req[s]
          /\ req[r].pc = "compile"
      BY <2>5 DEF CompileOk, At, IInv, TypeOK, StepsOK, Entry
    <3>2. \A c \in Cells \ {req[r].cs} : heap'[c] = heap[c]
      BY <3>1 DEF IInv, TypeOK
    <3> SUFFICES ASSUME NEW k \in Keys, queries[k] # None, heap'[queries[k]].st # None,
                        heap'[queries[k]].st.perRequest, saved[k[1]].db = DefaultDB
                 PROVE  /\ req'[heap'[queries[k]].st.by].pc = "after"
                        /\ req'[heap'[queries[k]].st.by].cs = queries[k]
      BY <1>5, <3>1 DEF CompilersDrop, At
    <3>3. CASE queries[k] = req[r].cs
      BY <3>1, <3>3 DEF Compiled
    <3>4. CASE queries[k] # req[r].cs
      <4>1. heap'[queries[k]] = heap[queries[k]] /\ heap[queries[k]].st.by \in Requests
        BY <3>2, <3>4 DEF IInv, TypeOK, Entry, Statement
      <4> QED
        BY <3>1, <4>1 DEF CompilersDrop, At
    <3> QED
      BY <3>3, <3>4
  <2>6. CASE AfterErr(r) \/ AfterShared(r)
    <3>1. /\ UNCHANGED <<heap, queries>> /\ req[r].pc = "after"
          /\ \A s \in Requests \ {r} : req'[s] = req[s]
          /\ heap[req[r].cs].err \/ ~heap[req[r].cs].st.perRequest
      BY <2>6 DEF AfterErr, AfterShared, Go, At, E, IInv, TypeOK
    <3>2. \A k \in Keys : queries[k] # None /\ heap[queries[k]].st # None /\ heap[queries[k]].st.perRequest
                           /\ saved[k[1]].db = DefaultDB
                         => heap[queries[k]].st.by # r
      BY <3>1 DEF CompilersDrop, At, IInv, TypeOK, EntriesOK
    <3>3. \A k \in Keys : queries[k] # None /\ heap[queries[k]].st # None => heap[queries[k]].st.by \in Requests
      BY DEF IInv, TypeOK, Entry, Statement
    <3> QED
      BY <1>5, <3>1, <3>2, <3>3 DEF CompilersDrop, At
  <2>7. CASE AfterPerRequest(r)
    <3>1. /\ heap' = Collected /\ req[r].pc = "after" /\ req[r].cs \in Cells /\ req[r].name \in Names
          /\ Key(r) = <<req[r].name, req[r].database>>
          /\ \A s \in Requests \ {r} : req'[s] = req[s]
      BY <2>7 DEF AfterPerRequest, At, Key, IInv, StepsOK, TypeOK
    <3>2. \A k \in Keys :
            /\ queries'[k] \in {queries[k], None}
            /\ queries'[k] # None /\ saved[k[1]].db = DefaultDB => queries'[k] # req[r].cs
      <4> TAKE k \in Keys
      <4>1. queries'[k] \in {queries[k], None}
        BY <2>7 DEF AfterPerRequest, IInv, TypeOK
      <4>2. ASSUME queries'[k] = req[r].cs, saved[k[1]].db = DefaultDB
            PROVE  FALSE
        <5>1. queries[k] = req[r].cs /\ k = <<req[r].name, None>>
          BY <3>1, <4>1, <4>2, NoneApart DEF IInv, MapOK
        <5>2. Key(r) = k
          BY <3>1, <4>2, <5>1 DEF KeysKept, Routed
        <5>3. queries'[k] = None
          BY <2>7, <5>1, <5>2 DEF AfterPerRequest, IInv, TypeOK
        <5> QED
          BY <3>1, <4>2, <5>3, NoneApart
      <4> QED
        BY <4>1, <4>2
    <3>3. \A k \in Keys : queries'[k] # None => queries'[k] = queries[k] /\ heap'[queries'[k]] = heap[queries'[k]]
      <4> TAKE k \in Keys
      <4> HAVE queries'[k] # None
      <4>1. queries[k] \in Cells \cup {None} /\ queries'[k] = queries[k]
        BY <3>2 DEF IInv, TypeOK
      <4>2. queries'[k] \in Cells
        BY <4>1
      <4> QED
        BY <3>1, <4>1, <4>2, MapEntries
    <3>4. \A k \in Keys : queries[k] # None /\ heap[queries[k]].st # None => heap[queries[k]].st.by \in Requests
      BY DEF IInv, TypeOK, Entry, Statement
    <3> QED
      BY <1>5, <3>1, <3>2, <3>3, <3>4 DEF CompilersDrop, At
  <2> QED
    BY <2>1, <2>2, <2>3, <2>4, <2>5, <2>6, <2>7 DEF Serve
<1>2. CASE \E r \in Requests, n \in Names : Start(r, n)
  <2> PICK r \in Requests, n \in Names : Start(r, n)
    BY <1>2
  <2> DEFINE base == [NewRequest EXCEPT !.name = n, !.staleAtStart = StaleEntry(<<n, None>>)]
  <2>1. StaleEntry(<<n, None>>) \in Cells \cup {None}
    BY DEF StaleEntry, IInv, TypeOK, Keys
  <2>2. base \in GState
    BY <2>1 DEF NewRequest, GState, PCs
  <2>3. LoadOrStore(r, <<n, None>>, base, "checkErr", "do") /\ req[r].pc = "start"
    BY DEF Start, At
  <2> HIDE DEF base
  <2> QED
    BY <2>2, <2>3, LoadQuiet DEF PCs, Keys
<1>3. CASE \E i \in Cells : Age(i)
  <2>1. (\A c \in Cells : heap'[c].st = heap[c].st) /\ UNCHANGED <<queries, req>>
    BY <1>3 DEF Age, IInv, TypeOK, Entry
  <2> QED
    BY <2>1, <1>5, QuietKeeps DEF IInv, TypeOK
<1>4. CASE UNCHANGED vars
  BY <1>4 DEF vars, CompilersDrop, At
<1> QED
  BY <1>1, <1>2, <1>3, <1>4 DEF Next

\* Who has not compiled for another database has the key under which an entry
\* was stored.
LEMMA FindersDropStep ==
  ASSUME IInv, [Next]_vars
  PROVE  FindersDrop
<1> SUFFICES ASSUME NEW r \in Requests, req[r].pc = "after", req'[r].pc = "recompile",
                    req[r].database = None, NEW k \in Keys
             PROVE  queries'[k] # req[r].cs
  BY DEF FindersDrop, At
<1>1. AfterPerRequest(r)
  <2>1. ASSUME NEW s \in Requests, Serve(s) \/ Finish(s), ~AfterPerRequest(r)
        PROVE  FALSE
    <3>1. CASE Store(s)
      BY <3>1, LoadFrames DEF Store, At, IInv, TypeOK, GState, PCs, LoadOrStore
    <3>2. CASE s # r /\ ~Store(s)
      BY <2>1, <3>2 DEF Serve, CheckErr, CheckAge, Delete, DoFirst, DoReturn, CompileOk, CompileErr,
           Stamp, AfterErr, AfterPerRequest, AfterShared, Recompile, Execute, Finish, Go, IInv, TypeOK
    <3>3. CASE s = r /\ ~Store(s)
      BY <2>1, <3>3 DEF Serve, CheckErr, CheckAge, Delete, DoFirst, DoReturn, CompileOk, CompileErr,
           Stamp, AfterErr, AfterShared, Recompile, Execute, Finish, Go, At, NewRequest, IInv, TypeOK
    <3> QED
      BY <3>1, <3>2, <3>3
  <2>2. ASSUME NEW s \in Requests, NEW n \in Names, Start(s, n)
        PROVE  FALSE
    <3> DEFINE base == [NewRequest EXCEPT !.name = n, !.staleAtStart = StaleEntry(<<n, None>>)]
    <3>1. StaleEntry(<<n, None>>) \in Cells \cup {None}
      BY DEF StaleEntry, IInv, TypeOK, Keys
    <3>2. base \in GState
      BY <3>1 DEF NewRequest, GState, PCs
    <3>3. LoadOrStore(s, <<n, None>>, base, "checkErr", "do") /\ req[s].pc = "start"
      BY <2>2 DEF Start, At
    <3> HIDE DEF base
    <3> QED
      BY <3>2, <3>3, LoadFrames DEF IInv, PCs
  <2>3. ~((\E i \in Cells : Age(i)) \/ UNCHANGED vars)
    BY DEF Age, vars
  <2> QED
    BY <2>1, <2>2, <2>3 DEF Next
<1>2. req[r].cs \in Cells /\ req[r].name \in Names /\ Key(r) = <<req[r].name, None>> /\ Key(r) \in Keys
  BY DEF Key, Keys, IInv, StepsOK
<1>3. queries'[k] \in {queries[k], None} /\ (k = Key(r) => queries'[k] # req[r].cs)
  BY <1>1, <1>2, NoneApart DEF AfterPerRequest, IInv, TypeOK
<1> QED
  BY <1>2, <1>3, NoneApart DEF IInv, MapOK

\* A per-request statement "is not kept for the next one" (gstate.go:215-217): its
\* compiler drops it if the query is in the default database, and whoever finds it
\* in any case.
THEOREM PerRequestDropped == Spec => PerRequestNotKept
<1>1. Init => NotKept
  BY DEF Init, NotKept, KeysKept, CompilersDrop, NewRequest
<1>2. IInv /\ NotKept /\ [Next]_vars => NotKept'
  BY KeysKeptStep, NotKeptStep DEF NotKept
<1>3. IInv /\ NotKept /\ [Next]_vars => [CompilersDrop' /\ FindersDrop]_vars
  BY <1>2, FindersDropStep DEF NotKept
<1> QED
  BY Invariance, <1>1, <1>2, <1>3, PTL DEF Spec, PerRequestNotKept
=============================================================================
