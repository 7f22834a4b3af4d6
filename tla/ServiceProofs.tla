--------------------------- MODULE ServiceProofs ----------------------------
(***************************************************************************)
(* Proofs about Service: types, that a stopped service holds no open pool, *)
(* and that a production service is whole, for every set of databases,     *)
(* configuration, request and goroutine that stops it.                     *)
(***************************************************************************)
EXTENDS Service, TLAPS

\* What Released needs before the service has stopped: an open pool is one of
\* the service's, and the engine is closed before the pools are.
Holds ==
  /\ \A d \in Names : pool[d] = "open" => d \in dbs
  /\ main \in {"closedbs", "returned", "closed"} /\ eng # None => eng.closed
  /\ main \in {"returned", "closed"} => \A d \in dbs : pool[d] # "open"

\* What ProductionWhole needs while the service starts: no configured database
\* is passed over, and the engine is there before the modules are mounted.
Grows ==
  conf.prod =>
    /\ main = "opening" => conf.named \subseteq dbs \cup todo
    /\ main = "legacy" => conf.named = {}
    /\ main \notin {"init", "opening", "legacy", "refused"} => conf.named \subseteq dbs
    /\ main \notin {"init", "opening", "legacy", "core", "refused"} => eng # None
    /\ \A r \in Requests : req[r].out # "unready"

\* A request is taken in by a service that has been created.
Idle ==
  \A r \in Requests :
    main \in {"init", "opening", "legacy", "core", "modules"} => req[r].at = "none"

\* The attempts to open a database are counted while there are any left.
Attempts == main \in {"init", "legacy"} => tries < MaxTries

IInv == Attempts /\ TypeOK /\ Holds /\ Grows /\ Idle

\* The database that sorts first is one of the databases.
LEMMA FirstIn ==
  ASSUME NEW S \in SUBSET Names, S # {}
  PROVE  First(S) \in S
  BY ServiceAssumption DEF First

\* The new service satisfies the invariant.
LEMMA InitHolds == Init => IInv
<1> SUFFICES ASSUME Init PROVE IInv
  OBVIOUS
<1>1. TypeOK
  <2>1. conf \in Confs /\ conf \in ConfType
    BY ServiceAssumption DEF Init
  <2>2. dbs \subseteq Names
    BY <2>1 DEF Init, ConfType
  <2>3. req \in [Requests -> ReqType]
    BY DEF Init, ReqType, Outs
  <2>4. pool \in [Names -> {"none", "open", "closed"}]
    BY DEF Init
  <2>5. stop \in [Stoppers -> {"off", "idle", "draining", "done"}]
    BY DEF Init
  <2>6. tries \in 0 .. MaxTries
    BY ServiceAssumption DEF Init
  <2> QED
    BY <2>1, <2>2, <2>3, <2>4, <2>5, <2>6 DEF Init, TypeOK
<1>2. Holds
  BY DEF Init, Holds
<1>3. Grows
  BY DEF Init, Grows
<1>4. Idle
  BY DEF Init, Idle
<1>5. Attempts
  BY ServiceAssumption DEF Init, Attempts
<1> QED
  BY <1>1, <1>2, <1>3, <1>4, <1>5 DEF IInv

\* Creating the service keeps the invariant.
LEMMA StartupKeeps ==
  ASSUME IInv, Startup
  PROVE  IInv'
<1> USE DEF IInv, TypeOK, Holds, Grows, Idle, Attempts
<1>0. conf \in ConfType /\ conf' = conf
  BY ServiceAssumption DEF Startup, InitDB, OpenNamed, OpenedAll, OpenLegacy, NormalStart, MountModules
<1>1. CASE InitDB
  BY <1>0, <1>1 DEF InitDB, ConfType, IsDatabaseConfigured
<1>2. CASE \E d \in Names, ok \in BOOLEAN : OpenNamed(d, ok)
  BY <1>0, <1>2 DEF OpenNamed, Opened, ConfType
<1>3. CASE OpenedAll
  BY <1>0, <1>3 DEF OpenedAll
<1>4. CASE \E ok \in BOOLEAN : OpenLegacy(ok)
  BY <1>0, <1>4, ServiceAssumption DEF OpenLegacy, Opened, ConfType
<1>5. CASE \E ok, ready \in BOOLEAN : NormalStart(ok, ready)
  <2>1. DefaultName \in Names
    BY FirstIn, ServiceAssumption, <1>0 DEF DefaultName, ConfType
  <2>2. dbs # {} => AnyDB \in Names
    BY FirstIn DEF AnyDB
  <2>3. eng' \in {None} \cup Engines
    BY <2>1, <2>2, <1>5 DEF NormalStart, Engines
  <2> QED
    BY <1>0, <1>5, <2>3 DEF NormalStart
<1>6. CASE \E ok \in BOOLEAN : MountModules(ok)
  BY <1>0, <1>6 DEF MountModules
<1> QED
  BY <1>1, <1>2, <1>3, <1>4, <1>5, <1>6 DEF Startup

\* Start, from publishing the server to releasing the resources.
LEMMA ServingKeeps ==
  ASSUME IInv, Start \/ Serving \/ Close
  PROVE  IInv'
<1> USE DEF IInv, TypeOK, Holds, Grows, Idle, Attempts
<1>1. CASE Start \/ Publish \/ (\E ok \in BOOLEAN : Listen(ok)) \/ Serve \/ ServeReturns
  BY <1>1 DEF Start, Publish, Listen, Serve, ServeReturns, Goes
<1>2. CASE WatchSignals
  BY <1>2 DEF WatchSignals, Goes
<1>3. CASE CloseEngine
  <2>1. eng' \in {None} \cup Engines /\ (eng # None => eng' # None /\ eng'.closed)
    BY <1>3, ServiceAssumption DEF CloseEngine, Engines
  <2> QED
    BY <1>3, <2>1 DEF CloseEngine
<1>4. CASE \E d \in Names : CloseDB(d)
  BY <1>4 DEF CloseDB
<1>5. CASE ShutdownComplete
  BY <1>5 DEF ShutdownComplete, Goes
<1>6. CASE Close
  <2>1. eng' \in {None} \cup Engines /\ (eng # None => eng' # None /\ eng'.closed)
    BY <1>6, ServiceAssumption DEF Close, Engines
  <2>2. pool' \in [Names -> {"none", "open", "closed"}]
    BY <1>6 DEF Close
  <2> QED
    BY <1>6, <2>1, <2>2 DEF Close
<1> QED
  BY <1>1, <1>2, <1>3, <1>4, <1>5, <1>6 DEF Serving

\* Stopping the service leaves everything but the requests alone.
LEMMA StopsKeep ==
  ASSUME IInv, NEW p \in Stoppers, Shutdown(p) \/ Stops(p)
  PROVE  IInv'
<1> USE DEF IInv, TypeOK, Holds, Grows, Idle, Attempts
<1>1. CASE Shutdown(p) \/ Drained(p)
  BY <1>1 DEF Shutdown, Drained
<1>2. CASE Expire(p)
  <2>1. req' \in [Requests -> ReqType]
    BY <1>2 DEF Expire, ReqType, Outs
  <2>2. \A r \in Requests :
          /\ req[r].at = "none" => req'[r] = req[r]
          /\ req'[r].out \in {req[r].out, "cut"}
    BY <1>2 DEF Expire, Active, ReqType
  <2>3. UNCHANGED <<conf, pool, dbs, eng, main, todo, tries, down>>
    BY <1>2 DEF Expire
  <2>4. stop' \in [Stoppers -> {"off", "idle", "draining", "done"}]
    BY <1>2 DEF Expire
  <2>5. TypeOK' /\ Holds' /\ Attempts'
    BY <2>1, <2>3, <2>4
  <2>6. Grows'
    BY <2>2, <2>3
  <2>7. Idle'
    BY <2>2, <2>3
  <2> QED
    BY <2>5, <2>6, <2>7
<1> QED
  BY <1>1, <1>2 DEF Stops

\* So does answering requests.
LEMMA RequestsKeep ==
  ASSUME IInv, NEW r \in Requests,
         \/ Reject(r) \/ Handles(r)
         \/ \E kind \in {"graphql", "rest"} : Accept(r, kind)
         \/ \E out \in {"data", "error"} : Finish(r, out)
  PROVE  IInv'
<1> USE DEF IInv, TypeOK, Holds, Grows, Idle, Attempts
<1>1. CASE \E kind \in {"graphql", "rest"} : Accept(r, kind)
  <2>1. req' \in [Requests -> ReqType]
    BY <1>1 DEF Accept, ReqType, Outs
  <2> QED
    BY <1>1, <2>1 DEF Accept
<1>2. CASE Reject(r) \/ Handles(r) \/ \E out \in {"data", "error"} : Finish(r, out)
  <2>1. PICK at \in {"inside", "running", "ended"}, out \in Outs :
          Moves(r, at, out) /\ (out = "unready" => eng = None)
    BY <1>2 DEF Reject, Handles, Enter, Begin, Finish, Outs
  <2>2. req[r].at # "none"
    BY <1>2 DEF Reject, Handles, Enter, Begin, Finish
  <2>3. req' \in [Requests -> ReqType]
    BY <2>1 DEF Moves, ReqType
  <2>4. main \notin {"init", "opening", "legacy", "core", "modules", "refused"}
    BY <2>1, <2>2 DEF Moves, Alive
  <2> QED
    BY <2>1, <2>3, <2>4 DEF Moves, ReqType
<1> QED
  BY <1>1, <1>2

\* Every step of the service keeps the invariant.
LEMMA NextKeeps == IInv /\ [Next]_vars => IInv'
<1> SUFFICES ASSUME IInv, [Next]_vars PROVE IInv'
  OBVIOUS
<1>1. CASE UNCHANGED vars
  BY <1>1 DEF vars, IInv, TypeOK, Holds, Grows, Idle, Attempts
<1>2. CASE Next
  BY <1>2, StartupKeeps, ServingKeeps, StopsKeep, RequestsKeep DEF Next
<1> QED
  BY <1>1, <1>2

\* The state of the service always has its types.
THEOREM ServiceTyped == Spec => []TypeOK
<1>1. IInv => TypeOK
  BY DEF IInv
<1> QED
  BY <1>1, InitHolds, NextKeeps, PTL DEF Spec

\* A service that has stopped, by Shutdown, a signal or Close, holds no open
\* pool, and its engine's background tasks have been stopped.
THEOREM ServiceReleased == Spec => []Released
<1>1. IInv => Released
  BY DEF IInv, Holds, Released
<1> QED
  BY <1>1, InitHolds, NextKeeps, PTL DEF Spec

\* A production service has every configured database and an engine, and
\* answers no request with 503.
THEOREM ServiceProductionWhole == Spec => []ProductionWhole
<1>1. IInv => ProductionWhole
  <2> SUFFICES ASSUME IInv, conf.prod, HasService PROVE
        eng # None /\ conf.named \subseteq dbs
        /\ \A r \in Requests : Status(req[r].kind, req[r].out) # 503
    BY DEF ProductionWhole
  <2>1. eng # None /\ conf.named \subseteq dbs
    BY DEF IInv, Grows, HasService, Alive
  <2>2. \A r \in Requests : req[r].out \in Outs /\ req[r].out # "unready"
    BY DEF IInv, Grows, TypeOK, ReqType
  <2> QED
    BY <2>1, <2>2 DEF Status, Outs
<1> QED
  BY <1>1, InitHolds, NextKeeps, PTL DEF Spec
=============================================================================
