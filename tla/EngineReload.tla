---------------------------- MODULE EngineReload ----------------------------
(***************************************************************************)
(* Reloading a GraphJin engine: the five reload entry points, SetOptions,  *)
(* the schema watcher, Close and schema callbacks, all of them sharing one *)
(* atomic.Value with the engine and one mutex, reloadMu.                   *)
(*                                                                         *)
(* A reload is many steps: it takes reloadMu and the current engine, looks *)
(* at one database at a time while other goroutines change the schemas,    *)
(* builds the next engine, stores it, fires the callbacks, and only then   *)
(* lets reloadMu go.  A failure leaves the stored engine alone.            *)
(***************************************************************************)
EXTENDS EngineBuild

CONSTANTS Callers,     \* goroutines that call the reload entry points
          Watcher,     \* the goroutine of watcher.Start
          Kinds,       \* the entry points that are called
          OptionSets,  \* the options given to NewGraphJin and SetOptions
          Places,      \* where each table may come to exist
          Dropping,    \* those of them that are dropped too
          Flaky        \* the databases whose introspection and cache writes may fail

ASSUME ReloadAssumption ==
  /\ Watcher \notin Callers
  /\ None \notin Callers \cup {Watcher}
  /\ Kinds \subseteq {"all", "withdb", "cache", "one", "conf"}
  /\ OptionSets \subseteq Options
  /\ Places \subseteq DBs \X Tables
  /\ Dropping \subseteq Places
  /\ Flaky \subseteq DBs

VARIABLES live,      \* the tables that exist in each database
          snap,      \* the runtime schema cache: a snapshot per database
          eng,       \* the published engine (atomic.Value)
          mu,        \* who holds reloadMu
          pc,        \* where each goroutine is
          job,       \* the reload each goroutine runs
          news,      \* what the callbacks know of the schema of each database
          closed,    \* Lifecycle.done is closed
          gone       \* history: the tables that were dropped, or are in no snapshot
                     \* because it could not be written

vars == <<live, snap, eng, mu, pc, job, news, closed, gone>>

Procs == Callers \cup {Watcher}

-----------------------------------------------------------------------------
Jobs == [kind   : {"all", "withdb", "cache", "one", "conf", "watch"},
         base   : Engines,         \* the engine loaded under reloadMu
         names  : SUBSET DBs,      \* the databases to rebuild: reloadSet
         linked : SUBSET DBs,      \* the contexts that get a connection
         opts   : Options,
         todo   : SUBSET DBs,      \* still to be discovered
         found  : [DBs -> Infos],
         failed : BOOLEAN]

\* What a schema's callbacks are: told of it, about to be called, still to be
\* called by the reload that stored it, or left out by it.
News == {"told", "calling", "owed", "silent"}

Nothing == [d \in DBs |-> None]

\* newGraphJin keeps the connection of the primary database, and takes the
\* others from the options.
FullJob(kind, linked, opts) ==
  [kind |-> kind, base |-> eng, names |-> {}, linked |-> linked \cup opts.conns,
   opts |-> opts, todo |-> FullDbs(opts), found |-> Nothing,
   failed |-> FALSE]

PrimaryConn == eng.linked \cap {Default}

\* ReloadFromRuntimeSchemaCache appends two options that stay with the engine.
FromCache(opts) == [opts EXCEPT !.first = TRUE, !.required = TRUE]

OneJob(d) ==
  [kind |-> "one", base |-> eng, names |-> {d}, linked |-> eng.linked,
   opts |-> eng.opts, todo |-> {d}, found |-> Nothing,
   failed |-> FALSE]

ConfJob(names, opts) ==
  [kind |-> "conf", base |-> eng, names |-> names, linked |-> opts.conns,
   opts |-> opts, todo |-> ConfReloads(eng, opts, names), found |-> Nothing,
   failed |-> FALSE]

JobConf(j) == IF j.kind = "conf" THEN UserConf ELSE j.base.conf

Sequential(j) == j.kind \in {"one", "conf"}

\* finalizeDatabaseSchema of d fails, or ReloadConfigDatabases found d empty.
Rejects(j, found, d) ==
  \/ Missing(JobConf(j), found, d)
  \/ j.kind = "conf" /\ Seen(found, d) = {}

Rebuilt(j) == CASE j.kind = "one"  -> j.names
                [] j.kind = "conf" -> ConfReloads(j.base, j.opts, j.names)
                [] OTHER           -> FullDbs(j.opts)

Named(j) == CHOOSE d \in j.names : TRUE

NextEngine(j) ==
  CASE j.kind = "one"  -> OneEngine(j.base, Named(j), j.found)
    [] j.kind = "conf" -> ConfEngine(j.base, UserConf, j.opts, j.names, j.found)
    [] OTHER           -> FullEngine(j.base.conf, j.linked, j.opts, j.found)

\* Which databases the callbacks hear of afterwards.
AnnouncesOnlyNamed(j) ==
  CASE j.kind = "withdb"          -> {}
    [] j.kind \in {"one", "conf"} -> j.names
    [] OTHER                      -> DBs

Announces(j) ==
  CASE j.kind = "withdb" -> {}
    [] j.kind = "one"    -> j.names
    [] j.kind = "conf"   -> j.names \cup Rebuilt(j)
    [] OTHER             -> DBs

-----------------------------------------------------------------------------
Init ==
  /\ live \in {l \in [DBs -> SUBSET Tables] : \A d \in DBs : {d} \X l[d] \subseteq Places}
  /\ \E opts \in OptionSets :
       /\ ~opts.first
       /\ \A d \in FullDbs(opts) : ~Missing(UserConf, live, d)
       /\ eng = FullEngine(UserConf, FullDbs(opts), opts, live)
  /\ snap = eng.info
  /\ mu = None
  /\ pc = [p \in Procs |-> "idle"]
  /\ job = [p \in Procs |-> None]
  /\ news = [d \in DBs |-> IF eng.info[d] = None THEN "told" ELSE "calling"]
  /\ closed = FALSE
  /\ gone = {}

\* DDL by another program.
CreateTable(d, t) ==
  /\ <<d, t>> \in Places
  /\ t \notin live[d]
  /\ live' = [live EXCEPT ![d] = @ \cup {t}]
  /\ UNCHANGED <<snap, eng, mu, pc, job, news, closed, gone>>

DropTable(d, t) ==
  /\ <<d, t>> \in Dropping
  /\ t \in live[d]
  /\ live' = [live EXCEPT ![d] = @ \ {t}]
  /\ gone' = gone \cup {<<d, t>>}
  /\ UNCHANGED <<snap, eng, mu, pc, job, news, closed>>

\* reloadMu.Lock(); gj := g.getEngine()
Lock(p, j) ==
  /\ mu = None
  /\ mu' = p
  /\ job' = [job EXCEPT ![p] = j]
  /\ pc' = [pc EXCEPT ![p] = "reload"]
  /\ UNCHANGED <<live, snap, eng, news, closed, gone>>

Reload(p) ==
  "all" \in Kinds /\ Lock(p, FullJob("all", PrimaryConn, eng.opts))

ReloadWithDB(p) ==
  "withdb" \in Kinds /\ Lock(p, FullJob("withdb", {Default}, eng.opts))

ReloadFromRuntimeSchemaCache(p) ==
  "cache" \in Kinds /\ Lock(p, FullJob("cache", PrimaryConn, FromCache(eng.opts)))

ReloadDatabase(p, d) ==
  "one" \in Kinds /\ d \in eng.dbs /\ Lock(p, OneJob(d))

\* The configuration given may differ from the base's in the databases `changed`,
\* which join those named (reflect.DeepEqual, baseCtx.db != ctx.db).
ReloadConfigDatabases(p, names, changed, opts) ==
  "conf" \in Kinds /\ names # {} /\ Lock(p, ConfJob(names \cup changed, opts))

Call(p) ==
  /\ pc[p] = "idle"
  /\ \/ Reload(p) \/ ReloadWithDB(p) \/ ReloadFromRuntimeSchemaCache(p)
     \/ \E d \in DBs : ReloadDatabase(p, d)
     \/ \E names, changed \in SUBSET DBs, opts \in OptionSets \cup {eng.opts} :
          ReloadConfigDatabases(p, names, changed, opts)

\* SetOptions replaces the options of the current engine under reloadMu.
SetOptionsUnlocked(opts) ==
  /\ opts # eng.opts
  /\ eng' = [eng EXCEPT !.opts = opts]
  /\ UNCHANGED <<live, snap, mu, pc, job, news, closed, gone>>

SetOptions(opts) ==
  /\ mu = None
  /\ opts # eng.opts
  /\ eng' = [eng EXCEPT !.opts = opts]
  /\ UNCHANGED <<live, snap, mu, pc, job, news, closed, gone>>

-----------------------------------------------------------------------------
\* discoverDatabase of d ended with info; the sequential reloads finalize d
\* at once.
Learned(j, d, info) ==
  LET found == [j.found EXCEPT ![d] = info] IN
  [j EXCEPT !.found = found,
            !.todo = @ \ {d},
            !.failed = @ \/ (Sequential(j) /\ Rejects(j, found, d))]

\* discoverDatabase of d ended with an error.
Lost(j, d) == [j EXCEPT !.todo = @ \ {d}, !.failed = TRUE]

Found(p, d, info) ==
  /\ job' = [job EXCEPT ![p] = Learned(job[p], d, info)]
  /\ UNCHANGED <<live, eng, mu, pc, news, closed>>

NotFound(p, d) ==
  /\ job' = [job EXCEPT ![p] = Lost(job[p], d)]
  /\ UNCHANGED <<live, snap, eng, mu, pc, news, closed, gone>>

\* newGraphJin discovers its databases concurrently and waits for all; the
\* other two go through theirs by name and stop at the first error.
Looking(p, d) ==
  /\ pc[p] = "reload"
  /\ d \in job[p].todo
  /\ Sequential(job[p]) => /\ ~job[p].failed
                           /\ \A e \in job[p].todo : Alpha[d] <= Alpha[e]

CacheHit(p, d) ==
  /\ Looking(p, d)
  /\ job[p].opts.first
  /\ snap[d] # None
  /\ Found(p, d, snap[d])
  /\ UNCHANGED <<snap, gone>>

CacheRequired(p, d) ==
  /\ Looking(p, d)
  /\ job[p].opts.first /\ job[p].opts.required
  /\ snap[d] = None
  /\ NotFound(p, d)

\* Neither the cache nor a requirement to use it stands in the way.
GoesLive(p, d) ==
  /\ Looking(p, d)
  /\ job[p].opts.first => snap[d] = None /\ ~job[p].opts.required

\* "No DB connection - nothing to discover".
NoConnection(p, d) ==
  /\ GoesLive(p, d)
  /\ d \notin job[p].linked
  /\ Found(p, d, None)
  /\ UNCHANGED <<snap, gone>>

Introspect(p, d) ==
  /\ GoesLive(p, d)
  /\ d \in job[p].linked
  /\ Found(p, d, live[d])
  /\ \/ snap' = [snap EXCEPT ![d] = live[d]] /\ UNCHANGED gone
     \/ /\ d \in Flaky
        /\ gone' = gone \cup {d} \X live[d]
        /\ UNCHANGED snap

IntrospectFails(p, d) ==
  /\ d \in Flaky
  /\ GoesLive(p, d)
  /\ d \in job[p].linked
  /\ IF snap[d] # None
     THEN Found(p, d, snap[d]) /\ UNCHANGED <<snap, gone>>
     ELSE NotFound(p, d)

Discover(p) ==
  \E d \in DBs : \/ CacheHit(p, d) \/ CacheRequired(p, d) \/ NoConnection(p, d)
                 \/ Introspect(p, d) \/ IntrospectFails(p, d)

-----------------------------------------------------------------------------
\* Discovery is over: g.Wait() returned, or the first error ended the loop.
Discovered(p) ==
  /\ pc[p] = "reload"
  /\ job[p].todo = {} \/ (Sequential(job[p]) /\ job[p].failed)

Succeeds(j) == ~j.failed /\ \A d \in Rebuilt(j) : ~Rejects(j, j.found, d)

\* What callbacks knew of a schema that has changed they know no longer; but a
\* callback still to run will find the new one.
Outdated == [d \in DBs |-> IF eng'.info[d] # eng.info[d] /\ news[d] = "told"
                           THEN "owed" ELSE news[d]]

\* finalizeAllDatabases, initAllowList, initIntro and g.Store(gj).
Publish(p) ==
  /\ Discovered(p)
  /\ Succeeds(job[p])
  /\ eng' = NextEngine(job[p])
  /\ news' = Outdated
  /\ pc' = [pc EXCEPT ![p] = "fire"]
  /\ UNCHANGED <<live, snap, mu, job, closed, gone>>

\* The deferred reloadMu.Unlock(); a caller is idle again, the watcher selects.
Release(p) ==
  /\ mu' = None
  /\ pc' = [pc EXCEPT ![p] = "idle"]
  /\ job' = [job EXCEPT ![p] = None]

FailKeepsLock(p) ==
  /\ Discovered(p)
  /\ ~Succeeds(job[p])
  /\ pc' = [pc EXCEPT ![p] = "idle"]
  /\ job' = [job EXCEPT ![p] = None]
  /\ UNCHANGED <<live, snap, eng, mu, news, closed, gone>>

Fail(p) ==
  /\ Discovered(p)
  /\ ~Succeeds(job[p])
  /\ Release(p)
  /\ UNCHANGED <<live, snap, eng, news, closed, gone>>

\* fireSchemaCallbacks for every context of the new engine with a schema: each is
\* called in a goroutine of its own (callbacks.go:41), because the caller holds
\* reloadMu, which a callback that reloads needs.
Called(j) ==
  [d \in DBs |->
     CASE d \in Announces(j) \cap eng.dbs /\ eng.info[d] # None -> "calling"
       [] j.kind = "withdb" /\ news[d] = "owed"                -> "silent"
       [] OTHER                                               -> news[d]]

FireInline(p) ==
  /\ pc[p] = "fire"
  /\ mu = None
  /\ news' = Called(job[p])
  /\ Release(p)
  /\ UNCHANGED <<live, snap, eng, closed, gone>>

Fire(p) ==
  /\ pc[p] = "fire"
  /\ news' = Called(job[p])
  /\ Release(p)
  /\ UNCHANGED <<live, snap, eng, closed, gone>>

Work(p) == Discover(p) \/ Publish(p) \/ Fail(p) \/ Fire(p)

\* One of these goroutines runs, any time later and in any order.  It is given the
\* name of the database and a hash that is the same for all schemas (Hash below):
\* the schema it hears of is the one the engine has when it runs.  The others that
\* may be under way for the same database would learn nothing older.
Callback(d) ==
  /\ news[d] = "calling"
  /\ news' = [news EXCEPT ![d] = "told"]
  /\ UNCHANGED <<live, snap, eng, mu, pc, job, closed, gone>>

-----------------------------------------------------------------------------
\* NewDBInfo sets di.hash to h.Size(), the length of a digest of any schema.
Hash(info) == 16

\* checkSchemaChanges without reloadMu; databases that cannot be polled are
\* skipped.
SchemaChangedIfReady ==
  \E d \in eng.linked \cap eng.ready : Hash(live[d]) # Hash(eng.info[d])

SchemaChanged ==
  \E d \in eng.linked : IF d \notin eng.ready
                        THEN live[d] # {}
                        ELSE Hash(live[d]) # Hash(eng.info[d])

\* select in watcher.Start: the ticker fired and the check ran.
WatchTick ==
  /\ pc[Watcher] = "idle"
  /\ SchemaChanged
  /\ pc' = [pc EXCEPT ![Watcher] = "due"]
  /\ UNCHANGED <<live, snap, eng, mu, job, news, closed, gone>>

\* reloadOnSchemaChange: with a primary database it is a reload of its own.
WatchReload ==
  /\ pc[Watcher] = "due"
  /\ Default \in eng.dbs
  /\ Lock(Watcher, FullJob("watch", PrimaryConn, eng.opts))

WatchSkip ==
  /\ pc[Watcher] = "due"
  /\ mu = None
  /\ Default \notin eng.dbs
  /\ pc' = [pc EXCEPT ![Watcher] = "idle"]
  /\ UNCHANGED <<live, snap, eng, mu, job, news, closed, gone>>

\* select: done is closed.  With a tick pending too, either is chosen.
WatchStop ==
  /\ pc[Watcher] = "idle"
  /\ closed
  /\ pc' = [pc EXCEPT ![Watcher] = "stopped"]
  /\ UNCHANGED <<live, snap, eng, mu, job, news, closed, gone>>

Close ==
  /\ ~closed
  /\ closed' = TRUE
  /\ UNCHANGED <<live, snap, eng, mu, pc, job, news, gone>>

-----------------------------------------------------------------------------
Next ==
  \/ \E d \in DBs, t \in Tables : CreateTable(d, t) \/ DropTable(d, t)
  \/ \E p \in Callers : Call(p)
  \/ \E p \in Procs : Work(p)
  \/ \E d \in DBs : Callback(d)
  \/ \E opts \in OptionSets : SetOptions(opts)
  \/ WatchTick \/ WatchReload \/ WatchSkip \/ WatchStop
  \/ Close

Spec == Init /\ [][Next]_vars

\* A reload that holds reloadMu goes on; the ticker ticks; Go's mutex does
\* not starve a waiter and its select chooses at random among ready cases.
Fairness ==
  /\ \A p \in Procs : WF_vars(Work(p))
  /\ WF_vars(WatchTick)
  /\ SF_vars(WatchReload)
  /\ SF_vars(WatchSkip)
  /\ SF_vars(WatchStop)

FairSpec == Spec /\ Fairness

-----------------------------------------------------------------------------
(* Properties *)

Inside(p) == pc[p] \in {"reload", "fire"}

\* ReloadDatabase names one configured database; a full reload keeps the options,
\* or makes the snapshot come first.
WellFormed(j) ==
  /\ j.kind = "one" => \E d \in j.base.dbs : j.names = {d}
  /\ ~Sequential(j) => j.opts \in {j.base.opts, FromCache(j.base.opts)}

\* Types; and a goroutine has a job exactly while it is inside a reload.
TypeOK ==
  /\ live \in [DBs -> SUBSET Tables]
  /\ snap \in [DBs -> Infos]
  /\ eng \in Engines
  /\ mu \in Procs \cup {None}
  /\ pc \in [Procs -> {"idle", "reload", "fire", "due", "stopped"}]
  /\ job \in [Procs -> Jobs \cup {None}]
  /\ \A p \in Procs : IF Inside(p) THEN job[p] \in Jobs /\ WellFormed(job[p])
                                   ELSE job[p] = None
  /\ news \in [DBs -> News]
  /\ closed \in BOOLEAN
  /\ gone \subseteq DBs \X Tables

\* reloadMu is held by whoever is inside a reload, and by nobody else: at
\* most one reload runs, whoever calls it (engine.go:130).
Serialized == \A p \in Procs : Inside(p) <=> mu = p

\* The engine a reload started from is still the published one when it stores
\* its own: no reload, no SetOptions and no watcher is overwritten unseen.
NoLostUpdate == \A p \in Procs : pc[p] = "reload" => job[p].base = eng

\* A published engine is never half built, whichever contexts were rebuilt and
\* whichever were cloned from an engine built before: the databases that answer
\* queries are exactly those whose tables were discovered, and an entry of the
\* configuration sends no root field to one of them that lacks the table.  (A table
\* without an entry goes to the default database whoever has it; after
\* ReloadConfigDatabases, those of the databases it cloned.)
EngineWhole ==
  /\ eng.ready = WithTables(eng.info, eng.dbs)
  /\ \A d \in DBs \ eng.dbs : eng.info[d] = None
  /\ \A t \in Tables : eng.conf[t] \in eng.ready => t \in eng.info[eng.conf[t]]

\* A full reload fails only on what would make a restart with the caller's
\* configuration fail as well: init must not "accumulate side-effects across
\* repeated NewGraphJin calls" (engine.go:313-316).  Against that comment it does
\* accumulate the entries derived for discovered tables, since newGraphJin copies
\* the configuration of the engine it replaces: a table that was dropped, or that
\* the snapshot a reload falls back on never had, makes every full reload fail.
\* Such tables are exempt here; nothing else that was derived is ever in the way.
ReloadLikeRestart ==
  \A p \in Procs :
    /\ Discovered(p)
    /\ ~Sequential(job[p])
    /\ ~job[p].failed
    /\ ~Succeeds(job[p])
    => \E d \in FullDbs(job[p].opts) :
         \/ Missing(UserConf, job[p].found, d)
         \/ \E t \in Tables : job[p].base.conf[t] = d /\ <<d, t>> \in gone

\* Whenever no reload runs, the schema callbacks have been told of every schema
\* the engine uses, or a goroutine is about to tell them (engine.go:189-191).
\* ReloadWithDB alone says nothing of what it stores, against that comment
\* ("fires when the database schema changes"): a schema it brought stays
\* unannounced, "silent", until another reload announces its database.
Announced ==
  mu = None => \A d \in eng.dbs : eng.info[d] # None => news[d] # "owed"

\* A reload ends, and lets reloadMu go, whatever fails in it.
ReloadEnds == \A p \in Procs : Inside(p) ~> pc[p] = "idle" /\ mu # p

\* A database that was empty at startup is served once it has tables, without
\* anybody calling Reload ("the watcher will re-check", multidb.go:264).  It is
\* not, against that comment, while each reload of the watcher is bound to do
\* something else: there is no primary database to reload with, the options of
\* ReloadFromRuntimeSchemaCache stayed with the engine and bring back the snapshot
\* taken when the database was empty, introspection never stops failing, or
\* some database lacks a table that an earlier reload derived an entry for.
CanBeServed(d) ==
  /\ ~closed
  /\ d \in eng.linked /\ live[d] # {}
  /\ Default \in eng.dbs
  /\ ~eng.opts.first
  /\ \A e \in eng.dbs : ~Missing(eng.conf, live, e)

FirstTablesServed ==
  \A d \in DBs :
    <>[]CanBeServed(d) /\ <>[][~ \E p \in Procs, e \in DBs : IntrospectFails(p, e)]_vars
      => []<>(d \in eng.ready \/ pc[Watcher] = "stopped")

\* "Close stops GraphJin background tasks" (engine.go:293): the watcher ends,
\* whatever it was doing when done was closed.
StopsAfterClose == closed ~> pc[Watcher] = "stopped"

\* The engine requests load is replaced atomically: AtomicEngine.
Atomic == INSTANCE AtomicEngine WITH eng <- eng

ReloadsAreAtomic == Atomic!Spec
=============================================================================
