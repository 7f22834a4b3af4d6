------------------------------- MODULE Service ------------------------------
(***************************************************************************)
(* The service around the engine, serv/service.go with serv/database,      *)
(* serv/lifecycle and serv/http: how NewGraphJinService opens databases    *)
(* and creates the engine, how Start serves requests, and how Shutdown, a  *)
(* signal or Close end all that while requests are being answered.         *)
(*                                                                         *)
(* net/http and database/sql are external.  What the code relies on: after *)
(* http.Server.Shutdown no request is accepted and Serve returns at once,  *)
(* Shutdown itself waits for the requests being answered; a statement that *)
(* has begun ends although its pool is closed, none begins after that.     *)
(*                                                                         *)
(* Left out: tracing, logging, CORS, compression, output formats, query    *)
(* listing, and sources mode, whose database list may be empty.            *)
(***************************************************************************)
EXTENDS Naturals, FiniteSets

CONSTANTS
  Names,      \* database names
  Default,    \* DefaultDBName
  Alpha,      \* alphabetical position of each name
  Confs,      \* configurations to start with, see ConfType
  Requests,
  Callers,    \* goroutines that call Shutdown
  Signal,     \* the goroutine of lifecycle.WatchSignals
  MaxTries,   \* attempts to open a database in production (51 in Open)
  None

ConfType == [prod  : BOOLEAN,       \* production mode
             named : SUBSET Names,  \* entries of Core.Databases with an address
             legacy: BOOLEAN,       \* conf.DB has an address
             given : SUBSET Names]  \* pools set by OptionSetDB(s)

\* The engine: the database it knows, whose pool that is, whether discovery
\* found a table, whether its background tasks were stopped.
Engines == [link : Names, pool : Names, ready : BOOLEAN, closed : BOOLEAN]

ASSUME ServiceAssumption ==
  /\ Default \in Names
  /\ Alpha \in [Names -> Nat]
  /\ \A D \in SUBSET Names : D # {} => \E d \in D : \A e \in D : Alpha[d] <= Alpha[e]
  /\ Signal \notin Callers
  /\ \A c \in Confs : c \in ConfType
  /\ None \notin Engines
  /\ MaxTries \in Nat \ {0}

VARIABLES
  conf,    \* what the caller configured
  pool,    \* database -> "none", "open" or "closed"
  dbs,     \* s.dbs: names that have a pool
  eng,     \* s.gj: the engine, None without one
  main,    \* where NewGraphJinService and then Start are
  todo,    \* databases initAllDBs still has to open
  tries,   \* attempts of database.Open so far
  down,    \* inShutdown of the http.Server
  stop,    \* where each goroutine that stops the service is
  req      \* the requests

vars == <<conf, pool, dbs, eng, main, todo, tries, down, stop, req>>

Stoppers == Callers \cup {Signal}

-----------------------------------------------------------------------------
First(S) == CHOOSE d \in S : \A e \in S : Alpha[d] <= Alpha[e]

\* graphjinService.isDatabaseConfigured
IsDatabaseConfigured == conf.legacy \/ conf.named # {}

\* Config.defaultDatabaseName: the name the engine gives its one connection.
DefaultName == IF Default \in conf.named \/ conf.named = {} THEN Default
               ELSE First(conf.named)

\* graphjinService.anyDB: the connection the engine is given.
AnyDB == First(dbs)

\* What became of a request, and the status line it is answered with.
Outs == {"none", "data", "error", "closed", "rejected", "unready", "cut"}
Status(kind, out) ==
  CASE out = "rejected" -> 400
    [] out = "unready"  -> 503
    [] out = "data"     -> 200
    [] out \in {"error", "closed"} -> IF kind = "rest" THEN 500 ELSE 200
    [] OTHER            -> 0

ReqType == [kind : {"graphql", "rest"},
            at   : {"none", "accepted", "inside", "running", "ended"},
            out  : Outs]

Active(r) == req[r].at \in {"accepted", "inside", "running"}

TypeOK ==
  /\ conf \in Confs
  /\ pool \in [Names -> {"none", "open", "closed"}]
  /\ dbs \subseteq Names
  /\ eng \in {None} \cup Engines
  /\ main \in {"init", "opening", "legacy", "core", "modules", "refused", "ready",
               "publish", "watch", "listen", "fatal", "serve", "serving",
               "close", "closedbs", "returned", "closed"}
  /\ todo \subseteq Names /\ tries \in 0 .. MaxTries
  /\ down \in BOOLEAN
  /\ stop \in [Stoppers -> {"off", "idle", "draining", "done"}]
  /\ req \in [Requests -> ReqType]

-----------------------------------------------------------------------------
(* NewGraphJinService                                                      *)

Init ==
  /\ conf \in Confs
  /\ pool = [d \in Names |-> IF d \in conf.given THEN "open" ELSE "none"]
  /\ dbs = conf.given
  /\ eng = None
  /\ main = "init"
  /\ todo = {} /\ tries = 0
  /\ down = FALSE
  /\ stop = [p \in Stoppers |-> IF p = Signal THEN "off" ELSE "idle"]
  /\ req = [r \in Requests |-> [kind |-> "graphql", at |-> "none", out |-> "none"]]

InitDB ==
  /\ main = "init"
  /\ main' = IF \/ conf.given # {} /\ conf.named = {}
                \/ ~conf.prod /\ ~IsDatabaseConfigured
             THEN "core"
             ELSE IF conf.named # {} THEN "opening" ELSE "legacy"
  /\ todo' = conf.named \ dbs
  /\ UNCHANGED <<conf, pool, dbs, eng, tries, down, stop, req>>

Opened(d) ==
  /\ pool' = [pool EXCEPT ![d] = "open"]
  /\ dbs' = dbs \cup {d}

\* initAllDBs, one database: OpenCore closes the pool when the ping fails.
OpenNamed(d, ok) ==
  /\ main = "opening" /\ todo # {} /\ d = First(todo)
  /\ todo' = todo \ {d}
  /\ IF ok THEN Opened(d) ELSE UNCHANGED <<pool, dbs>>
  /\ main' = IF ~ok /\ conf.prod THEN "refused" ELSE main
  /\ UNCHANGED <<conf, eng, tries, down, stop, req>>

OpenedAll ==
  /\ main = "opening" /\ todo = {}
  /\ main' = "core"
  /\ UNCHANGED <<conf, pool, dbs, eng, todo, tries, down, stop, req>>

\* initLegacyDB: newDB tries again and again, newDBOnce does not.
OpenLegacy(ok) ==
  /\ main = "legacy"
  /\ tries' = tries + 1
  /\ IF ok THEN Opened(Default) ELSE UNCHANGED <<pool, dbs>>
  /\ main' = IF ok \/ ~conf.prod THEN "core"
              ELSE IF tries' = MaxTries THEN "refused" ELSE main
  /\ UNCHANGED <<conf, eng, todo, down, stop, req>>

\* normalStart: core.NewGraphJin with anyDB() under the default name; `ready`
\* tells whether discovery found a table.  Only production insists.
NormalStartQuietly(ok, ready) ==
  /\ main = "core"
  /\ eng' = IF ok /\ dbs # {}
            THEN [link |-> DefaultName, pool |-> AnyDB, ready |-> ready, closed |-> FALSE]
            ELSE None
  /\ main' = "modules"
  /\ UNCHANGED <<conf, pool, dbs, todo, tries, down, stop, req>>

NormalStart(ok, ready) ==
  /\ main = "core"
  /\ eng' = IF ok /\ dbs # {}
            THEN [link |-> DefaultName, pool |-> AnyDB, ready |-> ready, closed |-> FALSE]
            ELSE None
  /\ main' = IF eng' = None /\ conf.prod THEN "refused" ELSE "modules"
  /\ UNCHANGED <<conf, pool, dbs, todo, tries, down, stop, req>>

\* mountModules; then NewGraphJinService stores the service and returns it.
MountModules(ok) ==
  /\ main = "modules"
  /\ main' = IF ok THEN "ready" ELSE "refused"
  /\ UNCHANGED <<conf, pool, dbs, eng, todo, tries, down, stop, req>>

-----------------------------------------------------------------------------
(* Start: startHTTP                                                        *)

Goes(from, to) ==
  /\ main = from /\ main' = to
  /\ UNCHANGED <<conf, pool, dbs, eng, todo, tries, down, req>>

Start == Goes("ready", "publish") /\ UNCHANGED stop

\* s.srv = srv, under srvMu: Shutdown finds the server from here on.
Publish == Goes("publish", "watch") /\ UNCHANGED stop
Published == main \in {"watch", "listen", "serve", "serving", "close", "closedbs", "returned"}

WatchSignals ==
  /\ Goes("watch", "listen")
  /\ stop' = [stop EXCEPT ![Signal] = "idle"]

\* net.Listen; log.Fatalf ends the program when the port is taken.
Listen(ok) == Goes("listen", IF ok THEN "serve" ELSE "fatal") /\ UNCHANGED stop

\* srv.Serve: refuses at once, or returns as soon as Shutdown has been called.
Serve == ~down /\ Goes("serve", "serving") /\ UNCHANGED stop
ServeReturns ==
  /\ down /\ main \in {"serve", "serving"}
  /\ Goes(main, "close") /\ UNCHANGED stop

\* closeServResources: the engine's background tasks, then every pool.
CloseEngine ==
  /\ main = "close" /\ main' = "closedbs"
  /\ eng' = IF eng = None THEN None ELSE [eng EXCEPT !.closed = TRUE]
  /\ UNCHANGED <<conf, pool, dbs, todo, tries, down, stop, req>>

CloseAnyDB(d) ==
  /\ main = "closedbs" /\ dbs # {} /\ d = AnyDB
  /\ pool' = [pool EXCEPT ![d] = "closed"]
  /\ main' = "returned"
  /\ UNCHANGED <<conf, dbs, eng, todo, tries, down, stop, req>>

CloseDB(d) ==
  /\ main = "closedbs" /\ d \in dbs /\ pool[d] = "open"
  /\ pool' = [pool EXCEPT ![d] = "closed"]
  /\ UNCHANGED <<conf, dbs, eng, main, todo, tries, down, stop, req>>

ShutdownComplete ==
  /\ \A d \in dbs : pool[d] = "closed"
  /\ Goes("closedbs", "returned") /\ UNCHANGED stop

\* HttpService.Close by a program that does not call Start, or after it.
Close ==
  /\ main \in {"ready", "returned"}
  /\ eng' = IF eng = None THEN None ELSE [eng EXCEPT !.closed = TRUE]
  /\ pool' = [d \in Names |-> IF d \in dbs THEN "closed" ELSE pool[d]]
  /\ main' = IF main = "ready" THEN "closed" ELSE main
  /\ UNCHANGED <<conf, dbs, todo, tries, down, stop, req>>

-----------------------------------------------------------------------------
(* Shutdown, by a caller or on SIGINT or SIGTERM                           *)

Alive == main \notin {"fatal", "refused"}
HasService == Alive /\ main \notin {"init", "opening", "legacy", "core", "modules"}

\* A no-op before the server is published, else srv.Shutdown begins.
ShutdownListener(p) ==
  /\ HasService /\ stop[p] = "idle"
  /\ stop' = [stop EXCEPT ![p] = IF Published THEN "draining" ELSE "done"]
  /\ down' = (down \/ main = "serving")
  /\ UNCHANGED <<conf, pool, dbs, eng, main, todo, tries, req>>

Shutdown(p) ==
  /\ HasService /\ stop[p] = "idle"
  /\ stop' = [stop EXCEPT ![p] = IF Published THEN "draining" ELSE "done"]
  /\ down' = (down \/ Published)
  /\ UNCHANGED <<conf, pool, dbs, eng, main, todo, tries, req>>

\* srv.Shutdown returns nil when no request is being answered.
Drained(p) ==
  /\ Alive /\ stop[p] = "draining"
  /\ \A r \in Requests : ~Active(r)
  /\ stop' = [stop EXCEPT ![p] = "done"]
  /\ UNCHANGED <<conf, pool, dbs, eng, main, todo, tries, down, req>>

\* The context's deadline passes: srv.Close() cuts the connections.
ExpireOnly(p) ==
  /\ Alive /\ stop[p] = "draining"
  /\ stop' = [stop EXCEPT ![p] = "done"]
  /\ UNCHANGED <<conf, pool, dbs, eng, main, todo, tries, down, req>>

Expire(p) ==
  /\ Alive /\ stop[p] = "draining"
  /\ stop' = [stop EXCEPT ![p] = "done"]
  /\ req' = [r \in Requests |->
               IF Active(r) THEN [req[r] EXCEPT !.at = "ended", !.out = "cut"] ELSE req[r]]
  /\ UNCHANGED <<conf, pool, dbs, eng, main, todo, tries, down>>

-----------------------------------------------------------------------------
(* Requests: apiV1GraphQL and apiV1Rest                                    *)

Moves(r, at, out) ==
  /\ Alive
  /\ req' = [req EXCEPT ![r].at = at, ![r].out = out]
  /\ UNCHANGED <<conf, pool, dbs, eng, main, todo, tries, down, stop>>

Accept(r, kind) ==
  /\ main = "serving" /\ ~down /\ req[r].at = "none"
  /\ req' = [req EXCEPT ![r] = [kind |-> kind, at |-> "accepted", out |-> "none"]]
  /\ UNCHANGED <<conf, pool, dbs, eng, main, todo, tries, down, stop>>

\* A body, a variable or a query name that cannot be read: 400.
Reject(r) == req[r].at = "accepted" /\ Moves(r, "ended", "rejected")

\* checkGraphJinInitialized, then the engine, which may have no table.
\* GraphQLByName looks its query up first, in an allow list that an engine
\* without tables does not have: the handler panics and net/http hangs up.
Enter(r) ==
  /\ req[r].at = "accepted"
  /\ CASE eng = None -> Moves(r, "ended", "unready")
       [] eng # None /\ eng.ready -> Moves(r, "inside", "none")
       [] OTHER -> Moves(r, "ended", IF req[r].kind = "rest" THEN "cut" ELSE "error")

\* The engine takes a connection of its pool.
Begin(r) ==
  /\ req[r].at = "inside"
  /\ IF pool[eng.pool] = "open" THEN Moves(r, "running", "none")
     ELSE Moves(r, "ended", "closed")

\* The statement ends; the database may refuse it.
Finish(r, out) ==
  /\ req[r].at = "running"
  /\ Moves(r, "ended", out)

-----------------------------------------------------------------------------
Startup ==
  \/ InitDB
  \/ \E d \in Names, ok \in BOOLEAN : OpenNamed(d, ok)
  \/ OpenedAll
  \/ \E ok \in BOOLEAN : OpenLegacy(ok)
  \/ \E ok, ready \in BOOLEAN : NormalStart(ok, ready)
  \/ \E ok \in BOOLEAN : MountModules(ok)

Serving ==
  \/ Publish \/ WatchSignals
  \/ \E ok \in BOOLEAN : Listen(ok)
  \/ Serve \/ ServeReturns
  \/ CloseEngine
  \/ \E d \in Names : CloseDB(d)
  \/ ShutdownComplete

Stops(p) == Drained(p) \/ Expire(p)

Handles(r) == Enter(r) \/ Begin(r)

Next ==
  \/ Startup \/ Start \/ Serving \/ Close
  \/ \E p \in Stoppers : Shutdown(p) \/ Stops(p)
  \/ \E r \in Requests :
       \/ \E kind \in {"graphql", "rest"} : Accept(r, kind)
       \/ Reject(r) \/ Handles(r)
       \/ \E out \in {"data", "error"} : Finish(r, out)

\* Goroutines go on and deadlines pass; a statement may hang for ever.
Fairness ==
  /\ WF_vars(Startup) /\ WF_vars(Serving)
  /\ \A p \in Stoppers : WF_vars(Stops(p))
  /\ \A r \in Requests : WF_vars(Handles(r))

Spec == Init /\ [][Next]_vars /\ Fairness

-----------------------------------------------------------------------------
(* Properties                                                              *)

\* Once Start has returned, whether a caller, a signal or several of them
\* stopped the service, or Close without Start, the engine's background tasks are stopped and no pool
\* the service holds is open, those it opened and those it was given.
Released ==
  main \in {"returned", "closed"} =>
    /\ eng # None => eng.closed
    /\ \A d \in Names : pool[d] # "open"

\* A production service is whole or it is not there: it listens only with an
\* engine and with every configured database open, however often the attempts
\* to open one failed before, so nobody is told that it has no database.
ProductionWhole ==
  conf.prod /\ HasService =>
    /\ eng # None
    /\ conf.named \subseteq dbs
    /\ \A r \in Requests : Status(req[r].kind, req[r].out) # 503

\* A Shutdown that finds the server ends Start, wherever Start is between
\* publishing the server and serving (service.go's startHTTP; what
\* TestShutdownUnblocksStart tries for one moment), unless the port was taken.
StartReturns ==
  \A p \in Stoppers : stop[p] = "draining" ~> main \in {"returned", "fatal"}

\* A Shutdown comes to an end and leaves no request behind, even when a
\* statement never ends, and with a second Shutdown at the same time.
ShutdownBounded ==
  \A p \in Stoppers :
    stop[p] = "draining" ~>
      \/ main = "fatal"
      \/ stop[p] = "done" /\ \A r \in Requests : ~Active(r)

\* What the comment of HttpService.Shutdown says: requests being answered
\* when it is called are drained.  So none fails because a pool was closed.
InFlightDrained == \A r \in Requests : req[r].out # "closed"

=============================================================================
