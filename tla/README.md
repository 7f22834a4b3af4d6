# Formal models of GraphJin Slim

This directory keeps TLA+ models of GraphJin Slim beside its code: what can go
wrong in it because of concurrency, failures, the order of calls or of steps,
stated as properties, model-checked with TLC on small instances and, where the
prover reaches, proved with TLAPS for instances of every size.

Contents: 1 the system, 2 the modules, 3 the runs, 4 the proofs, 5 what the
models found, 6 what is not modelled, 7 the plan.

## 1. The system

GraphJin compiles GraphQL to SQL. An *engine* (`graphjinEngine`) holds one
compiled view of the configured databases; requests load it from an
`atomic.Value`, and a reload builds a new one and stores it.

| Component | State | Operations | Hard part |
|---|---|---|---|
| Engine and its reloads (`core/engine/engine.go`, `multidb.go`) | the published engine, `reloadMu`, options, runtime schema cache | `NewGraphJin`, `Reload`, `ReloadWithDB`, `ReloadFromRuntimeSchemaCache`, `ReloadDatabase`, `ReloadConfigDatabases`, `SetOptions`, `Close` | long critical sections, failures in the middle, configuration derived by one reload and used by the next |
| Watcher (`core/engine/watcher.go`, `core/watcher`) | `done`, ticker | poll, reload, stop | stale reads, races with `Close` and other reloads |
| Compiled-statement cache (`core/engine/gstate.go`) | `queries` (`sync.Map`), one `sync.Once` per entry | load or store, compile, expire, drop | single flight, negative caching, statements shaped by one request's variables |
| Execution (`gstate.go`, `dbjoin.go`) | a transaction per request, goroutines per database | mutation transactions, hooks, fan-out | several commits that are not one, transactions of the engine and of callers in one field |
| Retry (`core/runtime/retry.go`) | attempts | retry with back-off | what is retried, and how often it was applied |
| Cross-database joins (`core/engine/dbjoin.go`, `core/dbjoin`, `core/jsn`) | the document so far, goroutines, connections | find placeholders, ask the other database, put results in their places | answers in any order, two scanners of one document, connections held while waiting |
| Allow list (`core/allow`) | files, LRU cache, saver goroutine | `Set`, `GetByName`, `Delete` | the cache against the files, saves that fail half way |
| Introspection and metadata (`core/introspection`, `core/sdata/tables.go`, `core/engine/init.go`) | columns so far | attempts, catalog queries, merging, configuration laid over | optional queries that fail, rows in any order |
| Schema graph (`core/sdata`, `core/util/graph.go`) | graph, path cache | add edge, find join path, snapshot | keys of several columns, ambiguity, cached answers |
| Description for clients (`core/schema/intro.go`) | types so far | build the introspection document | types that name types not made yet, or hidden |
| Schema sync (`core/schema`, `graphql/schema.go`) | none of its own; the databases | compare, render, execute, start over | statements that fail or callers that die between two of them; several callers |
| Nested mutations (`graphql/mutate.go`, `core/sqlgen/mutate.go`, `insert.go`, `update.go`) | stack, ids, writes | take the payload apart, order, render | ids, dependencies and names that must meet again |
| Queries (`graphql`, `core/sqlgen`, `core/dialect`) | stack, selects | directives, arguments, filters, fields, paging; SQL | one step uses what several others left in a select |
| Cursors (`core/runtime/crypt.go`, `engine/arguments.go`) | with the client | seal, open, go on from | rows that come and go between pages |
| Service (`serv`) | HTTP server, pools, engine | start, shut down, drain, close | order of shutdown, a shutdown at any moment of a start |

How they interact:

* A request loads the engine once (`getEngine`) and keeps it to its end, so it
  never sees two engines. In production mode it takes its text from the **allow
  list**, its statement from the **statement cache** of that engine (filled by the
  **compilers** over the **schema graph**), and is then **executed** on the
  database the statement was routed to, or, when its root fields belong to several
  databases, by one goroutine per database. **Joins** to other databases are
  resolved in the answer of the first.
* A **reload** is called by the host, by the **watcher**, or from a schema
  callback. All of them take `reloadMu`, read the published engine, discover
  schemas (network calls that take long and fail), build the next engine, store
  it, announce it through **callbacks** in goroutines of their own, and release
  `reloadMu`. Requests never take it.
* A reload starts with empty caches: the statement cache and the allow list's LRU
  cache belong to the engine. The files of the allow list, the runtime schema
  cache and the `*sql.DB` connections outlive it.
* The host's **mutation hook** is called from execution, inside the transaction.
* The **service** opens the pools, creates the engine with them, hands requests to
  it and closes both; **schema sync** is called by tools beside it.

What makes each of them correct, and where the hazard is, is listed with its
line in `PROJECT.json` under `hazards`; the properties of section 3 are aimed at
those. In short:

* *reloads*: one at a time; none overwrites another or an option set meanwhile;
  what is published is whole, announced, and a function of the engine before it;
  a reload works whenever a restart would; every reload ends;
* *watcher*: new tables are served without a call; `Close` ends it;
* *statement cache*: nobody runs the statement shaped for somebody else; a failure
  is served only while fresh; nobody waits for ever;
* *execution*: a change and what the hook did about it commit together; no
  transaction of the engine survives its request; a caller's transaction is the
  caller's; every request is answered;
* *joins*: the document says what the query means over all databases, or the
  request fails because a database did; requests do not wait for each other's
  connections;
* *allow list*: saves do not mix; the cache does not outlive the files; every
  call returns;
* *schema*: a key is one relation and its opposite, on exactly its columns, whatever
  order rows, tables and columns came in; a snapshot loses none; a path is the
  cheapest, and never a guess between two keys; what clients are told is closed
  and is what queries answer;
* *schema sync*: databases become copies of their source, statements come in an
  order the databases accept, nothing else is taken away;
* *mutations*: nothing of a payload is lost, each foreign key is bound to the row
  it stands under, which is written before it, and a root reads back its own rows;
* *queries*: refused or answered as an independent reading says; a list walked page
  by page has every row that stayed, once and in order;
* *service*: what was opened is closed, whoever stops it and when; a production
  service is whole or not there.

## 2. The modules

| Module | What it is |
|---|---|
| `CompileCache` | `compileQueryOnce`: the statement cache, one step per access to shared memory |
| `EngineBuild` | pure operators: the engine `newGraphJin`, `ReloadDatabase` and `ReloadConfigDatabases` build from a configuration, options and what discovery found |
| `EngineReload` | the reload entry points, `SetOptions`, watcher, `Close`, DDL by others |
| `AtomicEngine` | the abstract specification of `EngineReload`: the engine changes in whole, single steps |
| `Execution` | a request on one or several databases: transaction, statement, retries, hook, commit |
| `AllowList` | one saved query: its files, the cache, the saver, `Set`, `Delete`, lookups |
| `Json` | `core/jsn` on sequences of tokens: `Get`, `Replace`, `Strip`, `Value` |
| `JoinedAnswer` | the abstract specification of `CrossJoin`: each request is answered once, with what its query means |
| `CrossJoin` | goroutines, connections, failures and ends of requests over several databases |
| `JoinDocuments` | pure operators: joined selections, placeholders, what a database answers, the query for a placeholder |
| `JoinMeaning` | what a query means over the rows of all databases: the reference the answers are held against |
| `Discovery` | pure operators: from a catalog to `DBInfo`, its snapshot, and what the configuration adds |
| `SchemaGraph` | pure operators: the graph of tables and its join paths, with the path cache |
| `Introspection` | pure operators: the document clients are given |
| `SchemaBuild` | the life of a database's schema: discovery with retries, graph, questions, restart |
| `SchemaSync` | comparing databases with a schema file and executing the statements |
| `MutationTree` | `compileMutation`: from the tree of a payload to a list of writes |
| `MutationScript` | the CTEs, unions and scripts rendered from that list |
| `Filters` | pure operators: from the tree of a filter to an expression, and what it says as SQL |
| `SelectCompile` | pure operators: from a selection to a select |
| `SelectAnswer` | pure operators: what the SQL of the selects answers, and its cursors |
| `SelectMeaning` | what a request means, told without selects or SQL: the reference the answers are held against |
| `Paging` | the compilation of a request step by step, then its pages, with other callers |
| `Service` | start, serving, shutdown, signal and close |
| `...Proofs` | the theorems (section 4) |
| `MC...` | values of the constants for TLC |

Who uses whom: `EngineReload` takes its pure part from `EngineBuild` and is shown to
implement `AtomicEngine`; `CrossJoin` stitches with `Json`, is given the documents of `JoinDocuments` and
the meanings of `JoinMeaning` as constants by `MCCrossJoin`, and is shown to implement
`JoinedAnswer`; `SchemaBuild` walks through `Discovery`, `SchemaGraph` and
`Introspection`; `Filters` asks `SchemaGraph` for paths, and `MCPaging` builds the
database of every request from a catalog with `Discovery` and `SchemaGraph`, so
that the chain from catalog to answer is one.

Definitions with a name such as `FailWithoutRollback`, described as a variant,
are not part of the model: each is a plausible mistake in the definition after
it, and is there to show that a property notices the mistake.

### CompileCache

| Model | Code |
|---|---|
| `queries`, `heap` | `gj.queries` and the `*cstate` it points to; a cell nothing refers to is collected |
| `Entry.once`, `.err`, `.failedAt`, `.st` | `sync.Once`, `cs.err`, `cs.failedAt`, `cs.st` |
| `req[r].pc` | the line of `compileQueryOnce` the request is at |
| `Key` | `gstate.key`, with `s.database` as it is *now* |
| `Start`, `CheckErr`, `CheckAge`, `Delete`, `Store` | lines 183-201, each access a step |
| `DoFirst`, `CompileOk`, `CompileErr`, `Stamp`, `DoReturn` | `cs.Do`, whose waiters go on when it ends |
| `AfterErr`, `AfterPerRequest`, `AfterShared`, `Recompile` | lines 215-224 |
| `Execute` | `getTargetDB` |
| `saved` | what each saved query compiles to: the database of its root and whether its statement depends on the variables (`PerRequest`); fixed per behaviour |

Reading an `error` while it is written is a data race; the model gives the reader
the old or the new value and not a torn interface.

### EngineBuild, EngineReload, AtomicEngine

A schema is the set of its tables; `conf` says to which database each table is
routed. The state is `live` (the real schemas), `snap` (runtime schema cache),
`eng` (the `atomic.Value`), `mu` (`reloadMu`), `pc` and `job` (the goroutines),
`news` (what callbacks know of each schema) and `closed`; `gone` is history: tables that
were dropped, or that no snapshot has because it could not be written. A reload is `Lock` (one action per entry
point), `Discover` of one database at a time, interleaved with DDL and with everything
else, then `Publish` and `Fire`, or `Fail`. `newGraphJin` discovers its databases in any
order (an `errgroup`), the other two by name until the first error. The
watcher's check is one step. `SetOptions` waits for the lock. `ConfReloads` are the contexts that
`ReloadConfigDatabases` rebuilds: those named, those whose configuration or pool differs from the base's (which
the caller decides: `changed`), and those the base does not have or has without a connection.

`Fire` only *starts* the callbacks, each in a goroutine of its own (`callbacks.go:37`): `news` is then
`calling`, and `Callback` runs any time later, in any order, while other reloads go on. A schema that nobody will be told of
is `owed`, or `silent` once `ReloadWithDB` has stored it.

The constants say what may happen: `Kinds` are the entry points called, `Places` where each table may be
created, `Dropping` which of them are dropped again, `Flaky` the databases whose introspection and cache writes may fail.

`AtomicEngine` has `eng` alone and does not say how an engine is computed. It says what a step may change: every engine is whole, a
database that was not looked at anew is as it was in the engine *replaced*, routes stay, new ones lead to a database that has the
table, and every table of a database that was looked at can be asked for. `EngineReload!ReloadsAreAtomic` says that
`EngineReload` implements it, with `eng` mapped to itself.

### Execution

A *leg* is the work of one request on one database: the whole of
`compileAndExecute`, or one goroutine of `executeParallelRoots`.

| Model | Code |
|---|---|
| `rcTx[c]` | `RequestConfig.Tx` of the caller's object, shared by its requests |
| `legTx[l]` | the `Tx` of the clone made for a leg of a fan-out |
| `leg[l].own` | `ownTx` |
| `leg[l].captured`, `.seen` | `auditCaptured`, `len(auditChanges)` |
| `txn[t]` | a `*sql.Tx`; `<<r, d>>` is begun by a leg, `<<r, Caller>>` by the caller |
| `applied[l]` | how often the statement changed a row outside a transaction |
| `Issue` | `GraphQL` and `GraphQLTx`, to the refusal in `executeParallelRoots` |
| `Refuse`, `BeginTx`, `Connect` | from compilation to the connection |
| `RunInTx`, `RunAgainInTx`, `RunFails`, `TryOutsideTx`, `GiveUp` | `executeSingle`, `scanJSONRow`, `RetryOperationForDB` |
| `SkipHook`, `NotCaptured`, `CallHook` | `runMutationHook` and the check before it |
| `Commit`, `CommitFails`, `Finish` | the end of both paths |
| `FailWith` | an error return with the deferred `Rollback` |
| `Answer` | `wg.Wait` and `MergeRootResults` |
| `Cancel`, `CancelAborts`, `CallerEnds` | environment: context, `database/sql`, the caller |

The database decides how many rows a statement changes (0 or 1) and whether its
reply arrives; the reply of a commit can be lost as well. A caller uses one
config for one request at a time: two at once would race on `Tx`.

### AllowList

`files` has whose version is in the query, fragment and variables file; each
writer makes one call, and a version is named after its writer. Each file-system
call is a step. `clean` and `dirty` are history: whether a lookup was undisturbed,
whether a call failed half way.

### Json, JoinDocuments, JoinMeaning, JoinedAnswer, CrossJoin

A document is the sequence of its tokens, because the code never parses one: `Get`
and `Replace` are loops that look for the next key, colon and value, and the model
keeps these loops (`NextPair`, then a match on the key, then the end of the
value), with what they take for the end of a list or of a string. A request
arrives with one of the queries, splits its roots by database (`executeParallelRoots`)
or runs on one database, whose answer has placeholders for the selections of
others; then a goroutine per placeholder takes a connection of the other pool
(`GetConn`), runs and ends or fails (`Finish`, `Break`), and the results are put in
(`Replace`). Which selections are joined, what a database answers and what is asked for a
placeholder is computed in `JoinDocuments`; `CrossJoin` knows of them only as constant operators
(`RootQueries`, `Placeholders`, `JoinQuery`, `Result`), because they recurse over the selections and
nothing in the work of the goroutines depends on how they are computed. `JoinedAnswer` says
that each request is answered once with what its query means (`JoinMeaning`: over the rows of all
databases), or fails because a database did or because it cannot be answered. Where the border between databases shows (a parent row is an object in its
own database, a list across), and where the code leaves a join unmade, the meaning follows the code, in one definition each
(`PassedOver`, `AsAsked`, `Meant`, `Left`, `CutOff`), and section 5 names it.

### Discovery, SchemaGraph, Introspection, SchemaBuild

A catalog has tables with columns, keys of one or more columns, unique keys and
views. `Discovery` is `getDBInfoOnce` and what it calls: rows merged into columns
whatever their order, keys of views guessed from their base tables, composite keys
and unique keys when their queries succeed; `Restored` is a snapshot read back.
`SchemaGraph` is `DBSchema`: nodes, three edges per key with the names they can be asked for
under, reachability, the direct answer, ambiguity, the bounded search and the
cache under `CacheKey`. `Introspection` is the map of types with the types each
refers to. In `SchemaBuild` each attempt, catalog row, table, column and question is
a step, so all orders of Go's maps are there, and `Restart` builds the graph again from a
snapshot.

### SchemaSync

Each caller compares (`Compare`: `SchemaDiff` against what it reads), executes one
statement after the other (`Execute`), and starts over when one is refused (`Refused`) or
when it dies in between (`Crash`). Callers are not part of the library: the tools that
call it do exactly this. The database accepts a statement if what it creates is
not there and what it refers to is.

A file is a sequence of tables in the order they are read. `SortTablesByDependency` is the code's
loop over a queue: `Started` has the tables that wait for none, `TakeNext` is one turn,
`Freed` what it puts in the queue.

### MutationTree, MutationScript

A payload is a tree of objects and lists of tables, columns and the words
`connect`, `disconnect` and so on. `Payloads` are the trees requests are made of, closed
under going down. The steps are those of `compileMutation`: take an item
off the stack, make a write of it with an id, push what is nested; then reindex.
An item has its place in the request (`at`), which the code does not keep: it says what an
id must stand for. The loops over roots, keys and elements are recursive functions
(`AllRoots`, `Nest`, `UnionOfElements`, `Only`), one turn of each an operator.

`MutationScript` adds no state: it renders the finished list for PostgreSQL (CTEs with
the names they read) or as a script for SQLite, whose visit uses `RECURSIVE`
operators and therefore stands apart from the module the theorems are about.

### Filters, SelectCompile, SelectAnswer, SelectMeaning, Paging

`SelectCompile!CompileSelect` is one turn of `compileQuery`'s loop: directives, relation
(`AddRelInfo`), limit, arguments in turn, fields, order, partitions, cursor
(`Paged`), the condition that ties rows to the parent's (`SetRelFilters`). A field of the
select record is one of `qcode.Select`; `bcols` are its base columns. `SelectAnswer` gives the meaning of
the SQL that `sqlgen` prints for a select: `RenderFrom` (FROM, JOIN, WHERE) yields
environments, which are grouped, ordered, made distinct, limited and turned into
objects, with NULLs where each dialect puts them and three-valued conditions.
Environments say which row a table name stands for: `<<table, id>>` for a row of
a select (`users_0`), `<<table, 0>>` for the table in the inner SELECT, so that a
condition that names the wrong one reads the wrong row, as the SQL would.

`SelectMeaning` works the answer out from the request alone: which rows belong to
the row above, which satisfy the filter, how they are ordered and cut. It shares
with the model only the tables, the relations found and the comparison of values. Its last part,
"What the code answers otherwise", defines one by one the requests for which code and dialect part (`Misread`,
`Overwritten`, `Unturned`, `Untied`, `CutShort`, ...); requests of each kind are in the run, so that each exemption is needed.

In `Paging` a request is compiled select by select, then answered; one with a
cursor is asked for again with the cursor of the last page, between any inserts and
deletes of other callers. The scan of a table goes forward or backward, anew for
each page: what ORDER BY leaves open may come either way.

### Service

`main` is where the starter is (`InitDB`, one database at a time, `MaxTries` attempts;
engine; modules; `Start`, `Publish`, `Listen`, `Serve`, then closing), `stop` where each caller of
`Shutdown` and the signal handler are, `req` the requests, `pool` and `dbs` the pools. `net/http` and
`database/sql` are external; the model uses of them that `Serve` returns at once when
`Shutdown` begins, that `Shutdown` waits for active connections, and that a closed
pool fails new statements.

## 3. The runs

| Run | Instance | States | Shows |
|---|---|---|---|
| `cache` | 2 requests, 1 saved query of either database, shaped by variables or not; 4 cells | 177,000 | `OwnStatement`, `PerRequestNotKept`, `FreshFailure`, `Answered` |
| `engine_reload` | 2 databases, 1 table, 1 caller and the watcher, all five entry points, drops, failing introspection, options that add and drop a database | 1,578,000 | `NoLostUpdate`, `EngineWhole`, `Announced`, `ReloadsAreAtomic` |
| `engine_growth` | 2 databases, 2 tables, one of them dropped again; reloads by configuration, from the cache and by the watcher | 181,000 | `ReloadLikeRestart`, `FirstTablesServed`, `ReloadEnds`, `StopsAfterClose` |
| `execution` | 2 requests one after the other with one config, 2 databases, 3 attempts, with and without a hook | 200,000 | `HookSeesStatement`, `EngineTxEnds`, `CallerTxKept`, `Answered` |
| `allow` | 2 writers (any of save with or without fragment and variables, delete), 1 reader that goes on | 27,600 | `SavedWhole`, `PurgeDropsOld`, `AllReturn` |
| `mutation` | payloads over 3 tables: nested lists and objects, nested parent rows, variables, connects in both directions, several nesting roots, updates, upserts, deletes | 57,900 | `KeysBound`, `NothingDropped`, `RootReadsOwn`, `ScriptInOrder` |
| `schema` | 27 catalogs and configurations of 2 or 3 tables, every order of rows, tables and columns, 2 questions | 484,000 | `EdgesJoinKeys`, `SnapshotKeepsGraph`, `PathsCheapest`, `NoGuess`, `IntroClosed`, `FieldsAnswered` |
| `joins` | 2 requests, 14 queries over 4 tables in 2 databases, pools of 1 connection | 38,500 | `AnswersJoined`, `AllAnswered` |
| `service` | 2 databases, 2 requests, a caller and a signal, 2 tries | 281,000 | `Released`, `ProductionWhole`, `StartReturns`, `ShutdownBounded` |
| `service_drain` | the same | violation | `InFlightDrained` fails (section 5) |
| `sync` | 2 callers, 2 crashes, 21 pairs of a source and a database of up to 3 tables | 11,100 | `Copied`, `RefusedOnlyIfDone`, `OnlyExtrasDropped` |
| `paging` | 7 tables, 374 requests, up to 7 pages, 2 changes by others, both dialects | 25,700 | `AnswerMeans`, `PagesCover` |

Where the code disagrees with its own comments or the dialect's text, the case is in the run, and the property states the exemption
next to the words it contradicts. Section 5 lists them.

Why the bounds are enough for the questions asked:

* *cache*: the races are between a winner and a loser on one key, over and over,
  since a finished request starts again; 4 cells are two entries in use and two
  being replaced, so no step waits for memory.
* *engine*: one caller, the watcher and `SetOptions` give three parties at one lock, and
  callers repeat, so histories of any length are covered; a second database is
  what distinguishes cloned from rebuilt contexts; a second table is needed only
  where one database gains and loses a table while it keeps another. The alphabetical order puts the second database before
  the default one, so that the two orders the code uses differ. `engine_growth` has the dropped table and reloads by
  configuration, from the cache and by the watcher, so that entries derived by one reload meet the next, and reloads fail because a table is gone
  or a database was found empty. In `engine_reload` they also fail because introspection does or a required snapshot is missing.
* *execution*: requests meet only in a config, hence two requests with the same
  one; a fan-out of two shows one leg failing when the other committed.
* *allow*: two writers show mixing and racing deletes; a lookup repeats, so it
  meets entries of earlier ones.
* *mutation*: a table with a parent and a child, and one with several of either, are
  the shapes a write can be in; depth 3 gives a write that is both. Parent rows nested under inserts, second roots that nest,
  connects to rows that refer to the new one, connects beside nested parent rows, and empty lists are where ids, orders and names go astray.
* *schema*: the catalogs are chosen one per shape of key (single, composite, onto a unique tuple,
  sharing a column, to itself with one column or two, to a namesake in another schema, of a view, to a JSON or polymorphic table) and per
  kind of ambiguity, among them keys onto a column that is itself a key; the third table is what a path goes through. Two questions
  are what one entry of the cache takes to be wrong.
* *joins*: requests meet at the pools only; with one connection per pool two
  requests in opposite directions are what could wait for each other. The queries have a list of strings before, next to and
  behind a placeholder, joins in a query over both databases and below a join, two joins under one name, and aliases.
* *service*: a second database is what can fail after one was opened; the second
  stop is what meets a stop under way.
* *sync*: two callers show every race for a statement; two deaths show a start
  over of a start over. Cases have keys between the tables, in the file's order
  and against it, to themselves, onto unique columns and in a circle, columns to add that keys refer to, tables and
  columns that are extra with keys between them, a second database, and SQLite.
* *paging*: the requests are listed by what they exercise (filters, nesting,
  shaping, variables, refusals, walks) with a grid of filter, order and limit. Rows
  tie in every column but the key and have NULLs, so that a page can end inside a tie; walked lists
  have NULLs in the ordered column first, last and in between, are ordered by a column of another table, and go from the
  front and from the back (`last` with `before`), with an order and without.

**Bounds by name**: `Cells` (memory of the cache), `Attempts` (3 in `Execution`, as in
`defaultRetryPolicy`; 2 in `SchemaBuild`), `MaxAsks` (questions per graph), `Hints` (what
they may name), `MaxTries` (attempts to open a pool), `PoolSize` (connections),
`MaxCrashes` (deaths of callers),
`MaxChanges`, `MaxPages` and `MaxSelectors` in `Paging`, where `MaxSelectors` and
`DefaultLimit` stand for the code's own limits, made small so that requests reach
them.

**Deadlock** is checked in the runs of `CompileCache`, `EngineReload`, `AllowList` and
`CrossJoin`. It is off in the others, in which requests, callers or the service really end.

**Fairness.** *CompileCache*: a request that has arrived and can run does run
(goroutines are scheduled); arrivals and the clock owe nothing. *EngineReload*: a
reload that holds the lock goes on (its calls have timeouts or fail); the ticker
ticks; the watcher gets the mutex and takes a ready `select` case in the end (strong
fairness: Go's mutex is starvation-free and `select` is random). Callers, callbacks, DDL and
options owe nothing. *Execution*: legs and the goroutine that waits for them go
on; callers, cancellation and the database's own aborts owe nothing.
*AllowList*: the saver, writers and started lookups go on; lookups need not start.
*CrossJoin*: goroutines go on; a pool serves its waiters in the end (`database/sql`
queues them, hence strong fairness), and statements end. *Service*: startup, serving, stops
and handlers go on, but a statement may hang for ever: that is what the
deadline of `Shutdown` is for. *SchemaSync*: each caller goes on or dies, and
only so often.

## 4. The proofs

Eight modules hold theorems; all of them are about every value of the constants
that satisfies the named assumptions, which TLC evaluates in the runs as well.

| Module | Theorems (property of a run, where there is one) |
|---|---|
| `EngineReloadProofs` | `TypeCorrect`, `ReloadsSerialized`, `UpdatesKept` (`NoLostUpdate`), `PublishedWhole` (`EngineWhole`), `CallbacksTold` (`Announced`), `ReloadsLikeRestarts` (`ReloadLikeRestart`), `Refinement` (`ReloadsAreAtomic`) |
| `CompileCacheProofs` | `CacheTyped`, `CompiledOnce`, `StatementStaysOwn` (`OwnStatement`), `ExpiredNotServed` (`FreshFailure`), `PerRequestDropped` (`PerRequestNotKept`) |
| `ExecutionProofs` | `ExecutionTyped`, `HookSees` (`HookSeesStatement`), `EngineTxEnded` (`EngineTxEnds`), `CallersTxStays` (`CallerTxKept`) |
| `AllowListProofs` | `AllowTyped`, `AllowSavedWhole` (`SavedWhole`), `AllowPurgeDropsOld` (`PurgeDropsOld`) |
| `ServiceProofs` | `ServiceTyped`, `ServiceReleased` (`Released`), `ServiceProductionWhole` (`ProductionWhole`) |
| `SchemaSyncProofs` | `SyncOnlyExtrasDropped` (`OnlyExtrasDropped`), `SortedInOrder`, `SyncRefusedOnlyIfDone` (`RefusedOnlyIfDone`) |
| `MutationTreeProofs` | `MutationIdsNamePlaces` (the first half of `KeysBound`), `MutationNothingDropped` (`NothingDropped`), `MutationKeysBound` (`KeysBound` of inserts) |
| `CrossJoinProofs` | `JoinsAnswered` (`AnswersJoined`), `ConnectionsRight` |

Each module states an inductive invariant (`IInv`, `SyncInv`, `OrderInv`, `IdsInv`, `NestInv`, `KeysInv`) as a conjunction of
named parts, has a lemma per action or kind of action, and shows that the invariant holds
initially and is kept, from which the theorems follow.

**Engine.** `IInv == TypeOK /\ Serialized /\ NoLostUpdate /\ EngineWhole /\ Extends(eng.conf)`. None of
the last four is inductive alone: a reload that publishes needs to know that the
engine it started from (`job.base`) is whole, which is `NoLostUpdate` (it is the
published one) with `EngineWhole`; and `NoLostUpdate` is kept by another goroutine's
`Publish` only because `Serialized` says that there is none. There is a lemma per operator
of `EngineBuild`: its type, and that it makes a whole engine from a whole one; that routes lead to databases
that have the table (`RoutedFound`) also needs that the configuration keeps the caller's entries (`Extends`).
`TellInv` adds who knows what: between a `Publish` and its `Fire` no schema in use is owed but those the reload is about to announce,
because a database it does not announce is a clone of the one before (`NotAnnouncedIsCloned`); `CallbacksTold` has no
hypothesis, and what `ReloadWithDB` stores is exempt by the property itself. `GrowInv` says that an entry of
the derived configuration is the caller's, or its table is in the snapshot of its database, or it is in `gone`, and that what a running
reload found agrees with the snapshots but for `gone`; so an entry that an earlier reload derived makes a later
reload fail only for a table in `gone`, which is `ReloadsLikeRestarts`, with drops and failing introspection allowed.
`Refinement` shows that only `Publish` and `SetOptions` change `eng`, and that what `FullEngine`, `OneEngine` and `ConfEngine` compute
is what `AtomicEngine` asks for: whole, with the routes of the configuration it starts from and a route for every table found, and equal to the
*published* engine where it was not rebuilt, which again is `NoLostUpdate`.
Assumptions: `BuildAssumption` (the default database is configured; names have
distinct alphabetical positions and every nonempty set of names has a first, as
any sorted slice has) and `ReloadAssumption` (the watcher is not a caller; kinds and
options are of their types).

**Statement cache.** `OwnStatement` needs to know who may hold an entry. `SingleFlight`
(one request at a time is inside the `sync.Once` of an entry) and `StepsOK` (what a
request at each line holds) give it; `MapOK` says that an entry is in the map under
one key, `FreeIsNew` that memory nobody refers to is reused as new, and `StaleOK` follows an
expired failure from the request that found it to its deletion. `PerRequestDropped` is about queries of any
database: those of the default one are dropped by their compiler, those of others by whoever finds them next, because compiling changed
the key of the compiler's own request (`gstate.go:219`). `CacheAssumption`
says that the default database is a database and that `None` is none of
the things it stands beside.

**Execution.** The core of `IInv` is that a transaction of the engine that is open
belongs to a leg that is at work, and that this leg alone works in it (`Alone`).
It rests on `OneAtATime` (a config is used by one running request), `OwnOK` (a leg that
began a transaction finds it in its config until it ends it), and `RefsOK`: a
transaction left behind in a config, as the code does after a failed mutation,
was begun by the one leg of an earlier request with that config, so it
has ended. `ShownOK` relates, by the leg's place in the code, the rows changed in the
transaction, those seen in the result and those shown to the hook. `CallersTxStays` is an action
property: no step of a leg ends a transaction but the leg's own. `ExecutionAssumption` has types and that there are finitely
many databases, needed only for "one database" to mean one leg.

**Allow list.** `FilesFit` says that the files fit unless a save is between its fragment
and its query; `CacheOwed` that an entry of the cache which is not what the files
hold is *owed* a purge: somebody has changed a file and not purged yet. `PurgeDropsOld` is
`CacheOwed` when nobody is at work. `CleanReads` follows a lookup through its three reads.

**Service.** `Holds` says that an open pool is one of the service's and that the engine is closed
before the pools are; `Grows` that no configured database is passed over while a production service
starts; `Idle` that no request is taken in before the engine is there.

**Schema sync.** `OnlyExtrasDropped` is about statements executed long after the comparison that wrote them, on a
database that others changed: what is invariant is therefore a property of scripts that does not mention the
database (`SafeScript`: a statement that drops something names what the source does not have, and only in a
case that asks for it). `SchemaDiffSafe` shows it of every script a comparison gives, operator by operator of the diff, and
`ApplyKeeps` that a safe statement which is accepted takes nothing away, kind by kind. `CaseAssumption`: there are finitely
many databases, one of them if the file does not name several, their tables are finite sequences of columns, and a source's keys and
indexes are on columns it has.

`SyncRefusedOnlyIfDone` is about the order of statements. `SortedInOrder` follows Kahn's algorithm as the code has it: queued
and sorted tables are, each once, those that wait for no sorted table, none came before one it waits for
(`Sorting`), and when the queue is empty a table of least rank among those left would wait for nothing (`EmptyQueue`). So
tables come after those they refer to, and `SchemaDiffGood` shows of the whole script that what a statement needs, a table or a column,
is there or comes from a statement before it (`Good`). The invariant, `OrderInv`, says so of every
script *whatever was executed since it was computed*, because nothing that is there goes away; and it says that a table
others refer to has its primary key from the start (`KeysThere`). Hence the condition `Orderly`, which eleven of
the 21 cases of the run satisfy (the others are those `Misplaced` is about, which TLC checks): nothing is dropped, keys refer to primary keys, of which a table has one and the database's
own tables have the file's, and tables do not refer to each other in a circle. Each is needed: extras are dropped in
map order; a unique index comes *after* its table, so that another caller, or the same one after a crash, may refer
to the table in between and is refused; a circle ends the sorting.

**Nested mutations.** `MutationIdsNamePlaces` is about three numberings that have to agree: ids are given while the payload
is taken apart, before it is known where a write will stand; a write gets its place when it
is popped; then ids are replaced by places. `WalkInv` says that the items on the stack and in the list have ids of
their own below the next one, that the parent of each is an item with an id *for a
place above its own* (`InPlace`), and that `mmap` has the place of each rendered one. `NestWalked` shows that
one item gives its children a range of new ids whatever the keys are (`Batch`), through lists in the text, lists in
variables, connects and keywords; `AllRootsRooted` the same for several roots. `PushesSound` shows that nothing is
pushed twice although the children are pushed in three passes. `ReindexInv` splits the list at the item reindexed next.
`RequestAssumption` says that payloads are trees with lists of children, `TableAssumption` that tables and their
columns are finite and foreign keys are between tables.

`MutationNothingDropped` adds what each row has given. While the walk goes on (`KeptInv`), an item that has been
taken apart has under it, for each key that nests something, items whose ids are *in a row*, as many as the list has
elements (ids, because two elements may be the same record otherwise); each is tied to the row by a foreign key that the
row binds, or that the item binds or *will* bind when it is taken apart itself (`Tied`, `Will`). An item not yet
taken apart has given nothing, so that its key is counted once. `KeptAt` says the same of the list with `UpTo`, the
place each parent id stands for, which stays what it is while `Reindex` writes places over ids. The theorem is about requests
that are `Regular`, as all those of the run are; each condition excepts something that the code does differently:
`newMutate` pushes no row nested in a row of its own table; a key that comes twice gives twice the rows, so they cannot be
told apart; and a connect to a row that itself refers to the new row's table binds the new row's *primary* key to the
found row's foreign key. A table named `connect` would be taken for the keyword.

`MutationKeysBound` is the converse for each key that is bound: it is bound in the column that refers to the table of a
write next to the row in the request, and the row depends on that write. `BoundWhence` lists where a binding comes
from (the row's own relation, a lookup, a nested parent row). While the walk goes on (`LinkInv`), what has been taken apart has an item
for each of its keys (`Linked`), and what has not has the relation of the row it hangs under (`Hangs`), because it will bind that
later. `LinkedAt` says it of the list, by places. The crux is the remapping of the dependencies, which changes a map while
it ranges over it: `ReindexedIn` shows that whatever the order only places of old ids are left, and `AllIndexes`, by counting, that
if there are as many as there were ids then each is there: a write that has as many dependencies left as it has keys has them all. The code
does lose some (section 5), and then the theorem still says which column is bound to which write. A connect that binds the new row's
own key is bound as `KeyFrom` says; one in the payload of a row itself binds no column. The only hypothesis is that no table is
named `connect`.

**Cross-database joins.** Two questions are taken apart here. What one query is answered when its goroutines
run one after the other and nothing fails is `Alone`: it takes documents apart and puts them together, by recursion over
tokens and selections, and TLC checks for the run's queries that it is what the query means (`AloneRight`, which is the behaviour of
`AnswersJoined` in which one request is alone). `JoinsAnswered` has `AloneRight` as its hypothesis and shows
the rest for any number of requests, goroutines, databases and connections: that every interleaving and every failure ends a
request with `Alone` or with the error of its own database. `RequestInv` says that the tasks of a request hold the documents they
started with, that one has failed only if a database failed the request or if it had no result to begin with, and
that the placeholders kept for stitching are those of the document they will be put in. Its steps map to `Ask`, `Reply` or `Refuse`,
`Break`, or nothing. `ConnectionsRight` counts: `free` is the size of the pool less the tasks that run on it (`ConnsInv`), so that a
task which waits finds a free connection or a query that runs and waits for nothing, which is why `AllAnswered` cannot
be prevented by requests that cross between databases in opposite directions; and errors keep no connection.
`QueryAssumption`: a query has roots, its first tasks are queries on databases there are, and what `Get` finds is a sequence.

**Recursion.** The operators that walk over sequences are recursive *functions*, because of which these
proofs are possible: the library's induction theorems cannot be instantiated here, but `LeastNat` follows from
the well-foundedness of the naturals, `Induction` from it for subsets of `Nat`, and for each function
there is a lemma that it exists (`OnlyExists`, `WalkExists`, `RootsExist`, `ReindexExists`) and one on what it returns.

Only model-checked:

* Liveness (`Answered` twice, `FirstTablesServed`, `ReloadEnds`, `StopsAfterClose`, `AllReturn`, `AllAnswered`,
  `StartReturns`, `ShutdownBounded`, `Copied`), which is out of the prover's reach as is `ENABLED`.
* `RefusedOnlyIfDone` of the cases that are not `Orderly`.
* `KeysBound` of updates.
* `RootReadsOwn`, `ScriptInOrder`: they read the rendering, which `RECURSIVE` operators visit.
* `SchemaBuild`, `Paging`, and of the joins `AloneRight`: these compute by recursion over paths, documents and
  expressions, with `RECURSIVE` operators and folds over operators, which the provers cannot expand.

## 5. What the models found

One disagreement between the code and what the repository says of it is a run:

* `service_drain`: the graceful shutdown stops accepting, then waits for the requests
  under way (`service.go:345-347`). `Serve` however returns as soon as the shutdown *begins*, and the
  starter goes on to close the databases (`service.go:1167`) while requests still run.

Seen while modelling. Unless said otherwise these are kept in the models as the code
has them. Where a definition or property is named, they occur in its run and it exempts exactly them, with a
comment that quotes the text the code disagrees with.

*Engine and watcher*

* `NewDBInfo` keeps the *length* of its digest as the hash (`tables.go:155`), so the watcher
  never sees that a schema changed.
* `Reload` passes the configuration that the previous init derived (`engine.go:887`), tables
  discovered then included. When one of them is dropped, or a snapshot that could not be written is all there is,
  every later full reload fails until a restart, against the comment at `engine.go:313-316` (`ReloadLikeRestart`), and a new database
  may never be served (`CanBeServed`).
* `ReloadWithDB` announces nothing (`Announced`), against `engine.go:189-191`.
* After `ReloadConfigDatabases` the tables of the databases it did not rebuild have no
  route and go to the default database (`EngineWhole`).
* Options of `ReloadFromRuntimeSchemaCache` stay with the engine (`engine.go:1006`).

*Statement cache and execution*

* `s.database` is set by the request that compiles; one that finds the entry runs
  the statement on the default database. (`OwnStatement` is about the statement and not about where it runs.)
* The key used to drop an entry is computed after compilation changed the database in it (`gstate.go:219`): a per-request
  statement of a query of another database stays until the next request finds it (`PerRequestNotKept`).
* Two requests that find the same expired failure can compile one statement twice at
  once (`gstate.go:197` deletes whatever is there).
* The second run of an `on_conflict: get` mutation is not looked at for changes: a row it
  inserts commits without the hook (`HookSeesStatement` exempts it).
* After a failed mutation its finished transaction is left in `RequestConfig.Tx`
  (`gstate.go:596,623`); the next mutation with that config fails in it.
* Every error is retried, not only transient ones (`retry.go:40`): a mutation without
  a hook whose reply is lost is applied again. A fan-out commits database by database
  (`dbjoin.go:279`): the answer may be an error when some have committed. `sqliteConflictGetMu` is one
  per engine, and a reload makes a second engine.

*Allow list*: a lookup that read old files can add them to the cache after `Set` purged it
(`allow.go:189`); a save that fails after its first file is neither undone nor followed by a purge
(`allow.go:227`). Both are exempt from `PurgeDropsOld` (`clean`, `dirty`).

*Nested mutations*

* A parent row nested under an insert is pushed before its reader, so that in the statement for PostgreSQL its CTE comes
  *after* the one that reads it (`mutate.go:683-701`, against 679-682 and 1096; `RenderedLate`). Scripts are sorted and have it right.
* Nested items carry no root of their own (`mutate.go:800,870`): what a later root nests is read back by the first
  root, against `graphql-dialect.md:727-729` (`RootReadsOwn`).
* Dependencies are remapped while ranged over (`mutate.go:212`), so one can be lost if there are four connects, or a connect
  beside a nested parent row; its key stays bound (`KeysBound`).
* A connect to a row that refers to the new one sets the new row's primary key to that row's foreign key
  (`mutate.go:595-606`, `KeyFrom`); a connect in the payload of the row itself binds a column without a name (`mutate.go:790-802`).
* Roots that only look rows up in a table twice give a union of nothing, and a request whose lists are all empty no
  statement at all, against `graphql-dialect.md:587-588` (`EmptyUnions`, `ReadsAbove`).
* The nested rows of a recursive relation are never written (`NothingDropped`); what is nested under an upsert is dropped.

*Discovery and graph*

* A snapshot omits the unique keys (`tables.go:23`), though it holds "every discovery field needed" (`snapshot.go:27`): after a restart from it a
  relation onto a unique tuple is one to many rows (`SnapshotKeepsGraph`). SQLite's unique keys are
  recorded under schema `public` (`uniquekeys.go:138`), with the same effect at once, as has a failed query for unique keys (`OntoUnique`).
* A composite key of a table to itself, or between namesakes in two schemas, is turned round on the way back in its first column only
  (`schema.go:443`, against 440; `HalfTurned`).
* A column remembers one key (`schema.go:386`): keys that share a column join on some of each other's (`Shared`).
* A failed query for composite keys turns one into several single-column relations.
* When the column referred to is itself a key, an ambiguous question gets the first of two relations (`dwg.go:470-485`, against 29-31 and
  `graphql-dialect.md:153-164`; `NoGuess`). A hint of a through table is ignored when there is a direct edge.

*Introspection document*: the types of insert and update inputs share one slice, so an insert's
nested fields have the update's types (`intro.go:755-800`); aliases are described before the
types are there, so what relations they have depends on map order; inputs of hidden tables and a few
expression types are named and not defined; relations over a table in between are typed as one row and answered as a list.

*Cross-database joins* (`architecture.md:53-56` makes no exception to "stitched")

* `Replace` takes a string of a list for a key (`replace.go:221`): the placeholder after it stays in the answer (`PassedOver`), and a document that ends
  with such a list is cut off (`CutOff`).
* Joins inside requests over several databases, and joins below a joined selection, are never looked for: the foreign key is left
  under the placeholder's name (`Left`).
* Placeholders are not "unique" (`fields.go:427`): of joins answered under one name the last stands for all (`Meant`).
* The columns of a join are asked for by their aliases (`dbjoin.go:283`, `AsAsked`): another column's value, or an error.
* Directives and variables' types of a joined selection are dropped, and escaped strings are escaped twice (not in the
  run, whose selections have no arguments); a relation that is an object in its own database is a list across.

*Service*: the engine gets one pool, under the default name, and no other of those the service
opened (`service.go:603` against `257`); a start that is refused leaves the opened pools and the engine open; the entity-tag
handler compares headers before the handler sets `ETag`, so that 304 is never answered and `If-Match` is inverted;
`Close` closes pools the caller supplied; only one signal is listened for.

*Schema sync*

* Only a column that is missing gets its key and index (`diff.go:285-341`): one that is there without stays without, against "the SQL statements needed
  to sync the database" (`diff.go:31`); so after an interrupted migration, or when the key refers to a column added later and is refused once
  (`LostKeys`, `LostIndexes`). SQLite gets no key for an added column (`ddl.go:407-409`), and an added column is never a primary key.
* A new table is never made if it refers to a column yet to be added or made unique, to a column of its own that is not the primary key, or has two
  primary key columns, which gives two `PRIMARY KEY` clauses (`NeverMade`); nor are tables that refer to each other in a circle, which ends sorting for all
  (`diff.go:131`, `Circular`).
* Extras are dropped in map order, and tables after columns (`diff.go:344,389`): a key may hold what is dropped first, and SQLite drops no column that has
  an index (`Held`).
* Another caller can meet a table between its creation and its unique index, and be refused.
* `parseTypeWithSize` reads `character varying` as `char` with a size (types are not modelled).

*Queries* (`SelectMeaning`, "What the code answers otherwise")

* `or: [{a, b}, {c}]` is read as a or b or c and `not: {a, b}` keeps one condition (`exp.go:129`, `sqlgen/exp.go:111`, against
  `graphql-dialect.md:268-274`; `Lumped`); a relation among several conditions on a relation, or that leads back to the root table, starts from the
  root table (`exp.go:1004-1022`, against 158-160; `Misread`).
* An `id` argument discards the `where` before it and the directives (`args.go:174`, `Overwritten`); `in: 3` loses its value. The condition of a
  column sees the columns of the inner SELECT only (`Columnless`).
* `order_by` of a related table's column drops rows without one and repeats rows with several (`orderby.go:85`, `Astray`), and loses the tie-breaker if that column
  is named like the key (`fields.go:459`, `Untied`).
* `before` and `last` do not turn the caller's order around (`fields.go:449,465`, against `graphql-dialect.md:418`; `Unturned`).
* Recursive lists are neither ordered, made distinct nor limited from the outside, and stop at a row the filter drops (`sqlgen/recur.go:7,88`; `CutShort`);
  their CTE does not end on rows that refer to each other (left out: the query has no answer).
* Plain columns and order columns end up in GROUP BY beside an aggregate (`Regrouped`); `DISTINCT ON` and OFFSET without LIMIT are not rendered
  on SQLite (`NotDistinct`).
* Cursors: behind a NULL in an ordered column rows are lost or come again (`qcode.go:849`, `sqlgen/query.go:433,488`; `PagesCover`), and values with commas do
  not survive; an empty page on PostgreSQL answers a cursor that starts over, as does a cursor sealed
  with another key; on SQLite nested selections have none.

## 6. What is not modelled

* *Lexer, parser* (`core/graph`), *expression strings* (`graphql/expr.go`), *analytics and window
  functions*, *validation directives* (`graphql/valid`): requests begin as trees. The lexer and
  the parser are character level and keep no state between calls.
* *OpenAPI*, *adapters and registries*, *bench, tests, web UI*, *query IR*: they print, delegate or hold data.
* *Entity tags*: the handler is one comparison, and section 5 says what is wrong with it.
* *Engine*: torn reads of interface values, the DDL snapshot file and `EnableSchema` of production
  mode, named schemas inside a database, several allow lists on one file system.
* *Execution*: scripts of several statements on SQLite and their mutex.
* *Mutations*: paths of several steps between parent and nested row, polymorphic and embedded rows; MySQL-like dialects, which
  the slim repository does not contain.
* *Discovery*: one database, no functions, no remote tables, no camel case; views' keys as far as they are
  guessed. *Introspection document*: `IntroClosed` exempts the inputs of hidden tables;
  `FieldsAnswered` is about first-degree relations of tables without alias and not about JSON tables.
* *Cross-database joins*: mutations, remote selections (nothing resolves them here), the fragment cache; rows do not change.
* *Schema sync*: types, defaults, rows, named schemas, keys of several columns; no NOT NULL column is added to
  a table with rows.
* *Queries*: order and variables from the configuration, search, analytics and windows, embedded, polymorphic and remote relations,
  expression aggregates, JSON paths, GIS; cursors are followed at the root only. A recursive selection with an alias, and plain columns beside
  `distinct` on others, are not among the requests.
* *Service*: REST and OpenAPI handlers beyond taking a request, static files, metrics, logging, warm pools.

## 7. Plan

Done, in this order: the statement cache, reloads with their abstract specification, execution, the allow
list; then schema discovery, graph and document, nested mutations, cross-database joins over the JSON scanners with
their abstract specification, the service, schema sync, queries with their paging; and the proofs of section 4.

What is left, by what it would add:

1. `Execution`: the SQLite scripts, the conflict retry and `sqliteConflictGetMu` with two engines after a reload,
   which `EngineReload` already produces.
2. `Paging`: cursors of nested selections, search and recursive relations over changing rows.
3. `SchemaBuild`: several databases and named schemas, where tables of one name meet.
4. An abstract specification of `Execution` (a store in which a change and its audit appear in one step) and of `AllowList` (a
   register with stale reads for overlapping lookups).
