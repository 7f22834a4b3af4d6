-------------------------- MODULE EngineReloadProofs --------------------------
(***************************************************************************)
(* Proofs about EngineReload for any set of callers, databases and tables: *)
(* type correctness, that reloads are serialized and lose no update, that  *)
(* a published engine is whole, that callbacks are told of the schemas in  *)
(* use, that entries derived by earlier reloads fail no later one, and     *)
(* that reloads take effect one at a time.                                 *)
(***************************************************************************)
EXTENDS EngineReload, TLAPS

-----------------------------------------------------------------------------
(* Building engines *)

\* Every non-empty set of databases has a first one in either order, so the
\* CHOOSE of ensureDiscoveredTablesInConfig is one of the owners.
LEMMA FirstExists ==
  ASSUME NEW D \in SUBSET DBs, D # {}
  PROVE  /\ \E d \in D : \A e \in D : Alpha[d] <= Alpha[e]
         /\ \E d \in D : \A e \in D : DefaultFirst[d] <= DefaultFirst[e]
<1>1. \E d \in D : \A e \in D : Alpha[d] <= Alpha[e]
  BY BuildAssumption
<1>2. \E d \in D : \A e \in D : DefaultFirst[d] <= DefaultFirst[e]
  <2>1. CASE Default \in D
    <3>1. \A e \in D : DefaultFirst[Default] <= DefaultFirst[e]
      BY BuildAssumption DEF DefaultFirst
    <3>2. QED BY <2>1, <3>1
  <2>2. CASE Default \notin D
    <3>1. \A e \in D : DefaultFirst[e] = Alpha[e]
      BY <2>2 DEF DefaultFirst
    <3>2. QED BY <1>1, <3>1
  <2>3. QED BY <2>1, <2>2
<1>3. QED BY <1>1, <1>2

\* ensureDiscoveredTablesInConfig keeps conf.Tables a table-to-database map.
LEMMA AddDiscoveredType ==
  ASSUME NEW conf \in Confs, NEW info \in [DBs -> Infos],
         NEW D \in SUBSET DBs, NEW rank \in {Alpha, DefaultFirst}
  PROVE  AddDiscovered(conf, info, D, rank) \in Confs
<1>1. SUFFICES ASSUME NEW t \in Tables
               PROVE  AddDiscovered(conf, info, D, rank)[t]
                        \in DBs \cup {None, Unset}
  BY DEF AddDiscovered, Confs
<1> DEFINE owners == {d \in D : t \in Seen(info, d)}
<1>2. conf[t] \in DBs \cup {None, Unset}
  BY DEF Confs
<1>3. CASE conf[t] = None /\ owners # {}
  <2>1. \E d \in owners : \A e \in owners : rank[d] <= rank[e]
    BY <1>3, FirstExists
  <2>2. (CHOOSE d \in owners : \A e \in owners : rank[d] <= rank[e]) \in owners
    BY <2>1
  <2>3. QED BY <1>3, <2>2 DEF AddDiscovered
<1>4. CASE ~(conf[t] = None /\ owners # {})
  BY <1>2, <1>4 DEF AddDiscovered
<1>5. QED BY <1>3, <1>4

\* newGraphJin builds an engine, and a whole one.
LEMMA FullEngineType ==
  ASSUME NEW conf \in Confs, NEW linked \in SUBSET DBs, NEW opts \in Options,
         NEW found \in [DBs -> Infos]
  PROVE  FullEngine(conf, linked, opts, found) \in Engines
<1>1. FullDbs(opts) \in SUBSET DBs
  BY BuildAssumption DEF FullDbs, Options
<1>2. AddDiscovered(conf, found, FullDbs(opts), DefaultFirst) \in Confs
  BY <1>1, AddDiscoveredType
<1>3. WithTables(found, FullDbs(opts)) \in SUBSET DBs
  BY <1>1 DEF WithTables
<1>4. [d \in DBs |-> IF d \in FullDbs(opts) THEN found[d] ELSE None]
        \in [DBs -> Infos]
  BY DEF Infos
<1>5. QED BY <1>1, <1>2, <1>3, <1>4 DEF FullEngine, Engines

\* ReloadDatabase builds an engine.
LEMMA OneEngineType ==
  ASSUME NEW base \in Engines, NEW d \in DBs, NEW found \in [DBs -> Infos]
  PROVE  OneEngine(base, d, found) \in Engines
<1>1. AddDiscovered(base.conf, found, {d}, Alpha) \in Confs
  BY AddDiscoveredType DEF Engines
<1>2. [base.info EXCEPT ![d] = found[d]] \in [DBs -> Infos]
  BY DEF Engines
<1>3. (base.ready \ {d}) \cup WithTables(found, {d}) \in SUBSET DBs
  BY DEF Engines, WithTables
<1>4. QED BY <1>1, <1>2, <1>3 DEF OneEngine, Engines

\* ReloadConfigDatabases builds an engine.
LEMMA ConfEngineType ==
  ASSUME NEW base \in Engines, NEW conf \in Confs, NEW opts \in Options,
         NEW names \in SUBSET DBs, NEW found \in [DBs -> Infos]
  PROVE  ConfEngine(base, conf, opts, names, found) \in Engines
<1> DEFINE rebuilt == ConfReloads(base, opts, names)
<1>1. rebuilt \in SUBSET DBs /\ opts.conns \in SUBSET DBs
  BY DEF ConfReloads, Options
<1>2. AddDiscovered(conf, found, rebuilt, Alpha) \in Confs
  BY <1>1, AddDiscoveredType
<1>3. [d \in DBs |-> IF d \in rebuilt THEN found[d]
                     ELSE IF d \in opts.conns THEN base.info[d]
                     ELSE None] \in [DBs -> Infos]
  BY DEF Engines, Infos
<1>4. rebuilt \cup (opts.conns \cap base.ready) \in SUBSET DBs
  BY <1>1
<1>5. QED BY <1>1, <1>2, <1>3, <1>4 DEF ConfEngine, Engines

\* ensureDiscoveredTablesInConfig adds an entry only where the table was found.
LEMMA DerivedEntry ==
  ASSUME NEW conf, NEW info, NEW D \in SUBSET DBs, NEW rank \in {Alpha, DefaultFirst},
         NEW t \in Tables, NEW d, AddDiscovered(conf, info, D, rank)[t] = d
  PROVE  conf[t] = d \/ (d \in D /\ t \in Seen(info, d))
<1> DEFINE owners == {e \in D : t \in Seen(info, e)}
<1>1. CASE conf[t] = None /\ owners # {}
  <2>1. \E e \in owners : \A c \in owners : rank[e] <= rank[c]
    BY <1>1, FirstExists
  <2>2. (CHOOSE e \in owners : \A c \in owners : rank[e] <= rank[c]) \in owners
    BY <2>1
  <2>3. QED BY <1>1, <2>2 DEF AddDiscovered
<1>2. CASE ~(conf[t] = None /\ owners # {})
  BY <1>2 DEF AddDiscovered
<1>3. QED BY <1>1, <1>2

\* And it leaves alone an entry that is there.
LEMMA EntryKept ==
  ASSUME NEW conf, NEW info, NEW D, NEW rank, NEW t \in Tables, conf[t] # None
  PROVE  AddDiscovered(conf, info, D, rank)[t] = conf[t]
BY DEF AddDiscovered

\* What EngineWhole says of the published engine, of any engine.
Whole(e) ==
  /\ e.ready = WithTables(e.info, e.dbs)
  /\ \A d \in DBs \ e.dbs : e.info[d] = None
  /\ \A t \in Tables : e.conf[t] \in e.ready => t \in e.info[e.conf[t]]

\* What addTables checks: none of D lacks a table that conf gives it.
NoneMissing(conf, found, D) == \A d \in D : ~Missing(conf, found, d)

\* A database that was looked at and is routed to has the table: the entry was
\* there before, and addTables checked it, or it was derived from the table.
LEMMA RoutedFound ==
  ASSUME NEW conf, NEW found \in [DBs -> Infos], NEW D \in SUBSET DBs,
         NEW rank \in {Alpha, DefaultFirst}, NoneMissing(conf, found, D),
         NEW t \in Tables, NEW d \in D, AddDiscovered(conf, found, D, rank)[t] = d,
         Seen(found, d) # {}
  PROVE  t \in found[d]
<1>1. conf[t] = d \/ t \in Seen(found, d)
  BY DerivedEntry
<1>2. t \in Seen(found, d) => t \in found[d]
  BY DEF Seen
<1>3. conf[t] = d => t \in found[d]
  BY DEF NoneMissing, Missing
<1>4. QED BY <1>1, <1>2, <1>3

\* A full reload leaves no context half built.
LEMMA FullEngineWhole ==
  ASSUME NEW conf, NEW linked, NEW opts \in Options, NEW found \in [DBs -> Infos],
         NoneMissing(conf, found, FullDbs(opts))
  PROVE  Whole(FullEngine(conf, linked, opts, found))
<1> DEFINE e == FullEngine(conf, linked, opts, found)
<1>1. FullDbs(opts) \in SUBSET DBs
  BY BuildAssumption DEF FullDbs, Options
<1>2. /\ e.ready = WithTables(e.info, e.dbs)
      /\ \A d \in DBs \ e.dbs : e.info[d] = None
  BY <1>1 DEF FullEngine, WithTables, Seen
<1>3. ASSUME NEW t \in Tables, e.conf[t] \in e.ready
      PROVE  t \in e.info[e.conf[t]]
  <2>1. /\ e.conf = AddDiscovered(conf, found, FullDbs(opts), DefaultFirst)
        /\ e.ready = WithTables(found, FullDbs(opts))
        /\ e.info = [d \in DBs |-> IF d \in FullDbs(opts) THEN found[d] ELSE None]
    BY DEF FullEngine
  <2> HIDE DEF e
  <2>2. PICK d \in FullDbs(opts) : e.conf[t] = d /\ Seen(found, d) # {}
    BY <1>3, <2>1 DEF WithTables
  <2>3. AddDiscovered(conf, found, FullDbs(opts), DefaultFirst)[t] = d
    BY <2>1, <2>2
  <2>4. t \in found[d]
    BY <1>1, <2>2, <2>3, RoutedFound, Zenon
  <2>5. QED BY <1>1, <2>1, <2>2, <2>4
<1>4. QED BY <1>2, <1>3 DEF Whole

\* Neither does a reload of one database, given that its base is whole.
LEMMA OneEngineWhole ==
  ASSUME NEW base \in Engines, NEW d \in base.dbs, NEW found \in [DBs -> Infos],
         Whole(base), NoneMissing(base.conf, found, {d})
  PROVE  Whole(OneEngine(base, d, found))
<1> DEFINE e == OneEngine(base, d, found)
<1>1. /\ e.dbs = base.dbs
      /\ e.conf = AddDiscovered(base.conf, found, {d}, Alpha)
      /\ e.info = [base.info EXCEPT ![d] = found[d]]
      /\ e.ready = (base.ready \ {d}) \cup WithTables(found, {d})
  BY DEF OneEngine, Engines
<1>2. d \in DBs /\ base.dbs \subseteq DBs /\ base.info \in [DBs -> Infos]
  BY DEF Engines
<1> HIDE DEF e
<1>3. \A c \in base.dbs : Seen(e.info, c) = IF c = d THEN Seen(found, d)
                                                    ELSE Seen(base.info, c)
  BY <1>1, <1>2 DEF Seen
<1>4. e.ready = WithTables(e.info, e.dbs)
  BY <1>1, <1>2, <1>3 DEF Whole, WithTables
<1>5. \A c \in DBs \ e.dbs : e.info[c] = None
  BY <1>1, <1>2 DEF Whole
<1>6. ASSUME NEW t \in Tables, e.conf[t] \in e.ready
      PROVE  t \in e.info[e.conf[t]]
  <2>1. CASE e.conf[t] = d
    <3>1. Seen(found, d) # {}
      BY <1>3, <1>4, <1>6, <2>1 DEF WithTables
    <3>2. AddDiscovered(base.conf, found, {d}, Alpha)[t] = d
      BY <1>1, <2>1
    <3>3. d \in {d} /\ {d} \in SUBSET DBs
      BY <1>2
    <3>4. t \in found[d]
      BY <3>1, <3>2, <3>3, RoutedFound, Zenon
    <3>5. QED BY <1>1, <1>2, <2>1, <3>4
  <2>2. CASE e.conf[t] # d
    <3>1. base.conf[t] = e.conf[t]
      BY <1>1, <1>2, <2>2, DerivedEntry
    <3>2. e.conf[t] \in base.ready /\ e.conf[t] \in DBs
      BY <1>1, <1>2, <1>6, <2>2 DEF WithTables, Engines
    <3>3. t \in base.info[e.conf[t]]
      BY <3>1, <3>2 DEF Whole
    <3>4. QED BY <1>1, <1>2, <2>2, <3>2, <3>3
  <2>3. QED BY <2>1, <2>2
<1>7. QED BY <1>4, <1>5, <1>6 DEF Whole, e

\* A configuration in which no entry of the caller is changed.
Extends(conf) == \A t \in Tables : UserConf[t] # None => conf[t] = UserConf[t]

\* A reload of the configuration rebuilds the contexts it cannot clone.  The
\* entries that lead to a clone are the caller's, so the base had them as well.
LEMMA ConfEngineWhole ==
  ASSUME NEW base \in Engines, NEW opts \in Options,
         NEW names \in SUBSET DBs, NEW found \in [DBs -> Infos],
         Whole(base), Extends(base.conf),
         \A d \in ConfReloads(base, opts, names) : Seen(found, d) # {},
         NoneMissing(UserConf, found, ConfReloads(base, opts, names))
  PROVE  Whole(ConfEngine(base, UserConf, opts, names, found))
<1> DEFINE e == ConfEngine(base, UserConf, opts, names, found)
           rebuilt == ConfReloads(base, opts, names)
<1>1. opts.conns \subseteq DBs /\ base.dbs \subseteq DBs
  BY DEF Options, Engines
<1>2. /\ e.dbs = opts.conns
      /\ e.conf = AddDiscovered(UserConf, found, rebuilt, Alpha)
      /\ e.ready = rebuilt \cup (opts.conns \cap base.ready)
      /\ e.info = [d \in DBs |-> IF d \in rebuilt THEN found[d]
                                 ELSE IF d \in opts.conns THEN base.info[d]
                                 ELSE None]
  BY DEF ConfEngine
<1>3. rebuilt \subseteq opts.conns /\ opts.conns \ rebuilt \subseteq base.dbs
  BY <1>1 DEF ConfReloads
<1>4. \A d \in opts.conns : Seen(e.info, d) = IF d \in rebuilt THEN Seen(found, d)
                                                ELSE Seen(base.info, d)
  BY <1>1, <1>2 DEF Seen
<1>5. \A d \in opts.conns \ rebuilt : d \in base.ready <=> Seen(base.info, d) # {}
  BY <1>3 DEF Whole, WithTables
<1>6. e.ready = WithTables(e.info, e.dbs)
  <2>1. \A d \in opts.conns : d \in e.ready <=> Seen(e.info, d) # {}
    BY <1>2, <1>3, <1>4, <1>5
  <2>2. QED BY <1>2, <1>3, <2>1 DEF WithTables
<1>7. \A d \in DBs \ e.dbs : e.info[d] = None
  BY <1>2, <1>3
<1> HIDE DEF e, rebuilt
<1>8. ASSUME NEW t \in Tables, e.conf[t] \in e.ready
      PROVE  t \in e.info[e.conf[t]]
  <2>1. rebuilt \in SUBSET DBs /\ e.conf[t] \in DBs
    BY <1>1, <1>2, <1>3, <1>8
  <2>2. CASE e.conf[t] \in rebuilt
    <3>1. t \in found[e.conf[t]]
      BY <1>2, <2>1, <2>2, RoutedFound DEF rebuilt
    <3>2. QED BY <1>2, <2>1, <2>2, <3>1
  <2>3. CASE e.conf[t] \notin rebuilt
    <3>1. UserConf[t] = e.conf[t]
      BY <1>2, <2>1, <2>3, DerivedEntry
    <3>2. base.conf[t] = e.conf[t]
      BY <2>1, <3>1, BuildAssumption DEF Extends
    <3>3. e.conf[t] \in base.ready /\ e.conf[t] \in opts.conns
      BY <1>2, <1>8, <2>3
    <3>4. t \in base.info[e.conf[t]]
      BY <3>2, <3>3 DEF Whole
    <3>5. QED BY <1>2, <2>1, <2>3, <3>3, <3>4
  <2>4. QED BY <2>2, <2>3
<1>9. QED BY <1>6, <1>7, <1>8 DEF Whole, e

-----------------------------------------------------------------------------
(* The inductive invariant *)

IInv == TypeOK /\ Serialized /\ NoLostUpdate /\ EngineWhole /\ Extends(eng.conf)

\* The caller's configuration is a configuration.
LEMMA UserConfType == UserConf \in Confs
BY BuildAssumption DEF Confs

\* NextEngine by kind of reload.
LEMMA NextEngineCases ==
  ASSUME NEW j
  PROVE  /\ j.kind = "one" => NextEngine(j) = OneEngine(j.base, Named(j), j.found)
         /\ j.kind = "conf" => NextEngine(j) =
              ConfEngine(j.base, UserConf, j.opts, j.names, j.found)
         /\ j.kind \notin {"one", "conf"} => NextEngine(j) =
              FullEngine(j.base.conf, j.linked, j.opts, j.found)
<1>1. j.kind = "one" => NextEngine(j) = OneEngine(j.base, Named(j), j.found)
  BY DEF NextEngine
<1>2. j.kind = "conf" => NextEngine(j) =
        ConfEngine(j.base, UserConf, j.opts, j.names, j.found)
  BY DEF NextEngine
<1>3. j.kind \notin {"one", "conf"} => NextEngine(j) =
        FullEngine(j.base.conf, j.linked, j.opts, j.found)
  BY DEF NextEngine
<1>4. QED BY <1>1, <1>2, <1>3

\* What a successful reload publishes is an engine.
LEMMA NextEngineType ==
  ASSUME NEW j \in Jobs, WellFormed(j)
  PROVE  NextEngine(j) \in Engines
<1>1. /\ j.base \in Engines /\ j.names \in SUBSET DBs /\ j.linked \in SUBSET DBs
      /\ j.opts \in Options /\ j.found \in [DBs -> Infos] /\ j.base.conf \in Confs
      /\ j.base.dbs \in SUBSET DBs
  BY DEF Jobs, Engines
<1>2. CASE j.kind = "one"
  <2>1. PICK d \in j.base.dbs : j.names = {d}
    BY <1>2 DEF WellFormed
  <2>2. Named(j) \in DBs
    BY <1>1, <2>1 DEF Named
  <2>3. OneEngine(j.base, Named(j), j.found) \in Engines
    BY <1>1, <2>2, OneEngineType
  <2>4. QED BY <1>2, <2>3, NextEngineCases
<1>3. CASE j.kind = "conf"
  <2>1. ConfEngine(j.base, UserConf, j.opts, j.names, j.found) \in Engines
    BY <1>1, UserConfType, ConfEngineType
  <2>2. QED BY <1>3, <2>1, NextEngineCases
<1>4. CASE j.kind \notin {"one", "conf"}
  <2>1. FullEngine(j.base.conf, j.linked, j.opts, j.found) \in Engines
    BY <1>1, FullEngineType
  <2>2. QED BY <1>4, <2>1, NextEngineCases
<1>5. QED BY <1>2, <1>3, <1>4

\* A reload that succeeds checked every database it rebuilt.
LEMMA SucceedsChecked ==
  ASSUME NEW j, Succeeds(j)
  PROVE  NoneMissing(JobConf(j), j.found, Rebuilt(j))
BY DEF Succeeds, Rejects, NoneMissing

\* And a whole one, when its base was whole.
LEMMA NextEngineWhole ==
  ASSUME NEW j \in Jobs, WellFormed(j), Succeeds(j), Whole(j.base), Extends(j.base.conf)
  PROVE  Whole(NextEngine(j))
<1>1. /\ j.base \in Engines /\ j.names \in SUBSET DBs
      /\ j.opts \in Options /\ j.found \in [DBs -> Infos]
      /\ NoneMissing(JobConf(j), j.found, Rebuilt(j))
  BY SucceedsChecked DEF Jobs
<1>2. CASE j.kind = "one"
  <2>1. PICK d \in j.base.dbs : j.names = {d}
    BY <1>2 DEF WellFormed
  <2>2. Named(j) = d
    BY <2>1 DEF Named
  <2>3. NoneMissing(j.base.conf, j.found, {d})
    BY <1>1, <1>2, <2>1 DEF Rebuilt, JobConf
  <2>4. Whole(OneEngine(j.base, d, j.found))
    BY <1>1, <2>3, OneEngineWhole
  <2>5. QED BY <1>2, <2>2, <2>4, NextEngineCases
<1>3. CASE j.kind = "conf"
  <2>1. \A d \in ConfReloads(j.base, j.opts, j.names) : Seen(j.found, d) # {}
    BY <1>3 DEF Succeeds, Rebuilt, Rejects
  <2>2. NoneMissing(UserConf, j.found, ConfReloads(j.base, j.opts, j.names))
    BY <1>1, <1>3 DEF Rebuilt, JobConf
  <2>3. Whole(ConfEngine(j.base, UserConf, j.opts, j.names, j.found))
    BY <1>1, <2>1, <2>2, ConfEngineWhole
  <2>4. QED BY <1>3, <2>3, NextEngineCases
<1>4. CASE j.kind \notin {"one", "conf"}
  <2>1. NoneMissing(j.base.conf, j.found, FullDbs(j.opts))
    BY <1>1, <1>4 DEF Rebuilt, JobConf
  <2>2. Whole(FullEngine(j.base.conf, j.linked, j.opts, j.found))
    BY <1>1, <2>1, FullEngineWhole
  <2>3. QED BY <1>4, <2>2, NextEngineCases
<1>5. QED BY <1>2, <1>3, <1>4

\* It keeps the caller's entries.
LEMMA NextEngineExtends ==
  ASSUME NEW j \in Jobs, WellFormed(j), Extends(j.base.conf)
  PROVE  Extends(NextEngine(j).conf)
<1>1. Extends(UserConf) /\ j.base \in Engines
  BY DEF Extends, Jobs
<1>2. ASSUME NEW conf, NEW info, NEW D, NEW rank, Extends(conf)
      PROVE  Extends(AddDiscovered(conf, info, D, rank))
  BY <1>2, EntryKept DEF Extends
<1>3. CASE j.kind = "one"
  <2>1. NextEngine(j).conf = AddDiscovered(j.base.conf, j.found, {Named(j)}, Alpha)
    BY <1>1, <1>3, NextEngineCases DEF OneEngine, Engines
  <2>2. QED BY <1>2, <2>1
<1>4. CASE j.kind = "conf"
  <2>1. NextEngine(j).conf =
          AddDiscovered(UserConf, j.found, ConfReloads(j.base, j.opts, j.names), Alpha)
    BY <1>4, NextEngineCases DEF ConfEngine
  <2>2. QED BY <1>1, <1>2, <2>1
<1>5. CASE j.kind \notin {"one", "conf"}
  <2>1. NextEngine(j).conf =
          AddDiscovered(j.base.conf, j.found, FullDbs(j.opts), DefaultFirst)
    BY <1>5, NextEngineCases DEF FullEngine
  <2>2. QED BY <1>2, <2>1
<1>6. QED BY <1>3, <1>4, <1>5

\* The entries of the next engine come from its base, from the caller or from
\* what the reload found.
LEMMA NextEntry ==
  ASSUME NEW j \in Jobs, WellFormed(j), NEW t \in Tables, NEW d \in DBs,
         NextEngine(j).conf[t] = d
  PROVE  j.base.conf[t] = d \/ UserConf[t] = d \/ t \in Seen(j.found, d)
<1>1. /\ j.base \in Engines /\ j.opts \in Options /\ j.names \in SUBSET DBs
      /\ FullDbs(j.opts) \in SUBSET DBs
      /\ ConfReloads(j.base, j.opts, j.names) \in SUBSET DBs
  BY BuildAssumption DEF Jobs, Options, FullDbs, ConfReloads
<1>2. CASE j.kind = "one"
  <2>1. PICK n \in j.base.dbs : j.names = {n}
    BY <1>2 DEF WellFormed
  <2>2. n \in DBs /\ Named(j) = n
    BY <1>1, <2>1 DEF Named, Engines
  <2>3. NextEngine(j).conf = AddDiscovered(j.base.conf, j.found, {n}, Alpha)
    BY <1>1, <1>2, <2>2, NextEngineCases DEF OneEngine, Engines
  <2>4. QED BY <2>2, <2>3, DerivedEntry
<1>3. CASE j.kind = "conf"
  <2>1. NextEngine(j).conf =
          AddDiscovered(UserConf, j.found, ConfReloads(j.base, j.opts, j.names), Alpha)
    BY <1>3, NextEngineCases DEF ConfEngine
  <2>2. QED BY <1>1, <2>1, DerivedEntry
<1>4. CASE j.kind \notin {"one", "conf"}
  <2>1. NextEngine(j).conf =
          AddDiscovered(j.base.conf, j.found, FullDbs(j.opts), DefaultFirst)
    BY <1>4, NextEngineCases DEF FullEngine
  <2>2. QED BY <1>1, <2>1, DerivedEntry
<1>5. QED BY <1>2, <1>3, <1>4

\* Discovering a database leaves a reload a reload, of the same base.
LEMMA DiscoverType ==
  ASSUME NEW j \in Jobs, NEW d \in DBs, NEW info \in Infos
  PROVE  /\ Learned(j, d, info) \in Jobs
         /\ Lost(j, d) \in Jobs
         /\ \A k \in {Learned(j, d, info), Lost(j, d)} :
              /\ k.base = j.base /\ k.kind = j.kind
              /\ k.names = j.names /\ k.opts = j.opts
<1> DEFINE found == [j.found EXCEPT ![d] = info]
<1>1. /\ found \in [DBs -> Infos]
      /\ j.todo \ {d} \in SUBSET DBs
      /\ (j.failed \/ (Sequential(j) /\ Rejects(j, found, d))) \in BOOLEAN
  BY DEF Jobs
<1>2. Learned(j, d, info) \in Jobs
  BY <1>1 DEF Learned, Jobs
<1>3. Lost(j, d) \in Jobs
  BY <1>1 DEF Lost, Jobs
<1>4. /\ Learned(j, d, info).base = j.base
      /\ Learned(j, d, info).kind = j.kind
      /\ Learned(j, d, info).names = j.names
      /\ Learned(j, d, info).opts = j.opts
  BY DEF Learned, Jobs
<1>5. /\ Lost(j, d).base = j.base /\ Lost(j, d).kind = j.kind /\ Lost(j, d).names = j.names
      /\ Lost(j, d).opts = j.opts
  BY DEF Lost, Jobs
<1>6. QED BY <1>2, <1>3, <1>4, <1>5

-----------------------------------------------------------------------------
(* Every step preserves the invariant.  Only a reload that holds reloadMu   *)
(* changes eng, and only SetOptions and Lock need reloadMu to be free: that *)
(* is how Serialized gives NoLostUpdate, and NoLostUpdate EngineWhole.      *)

\* At the start nobody reloads, and the engine is what newGraphJin built.
LEMMA InitIInv == Init => IInv
<1> SUFFICES ASSUME Init PROVE IInv
  OBVIOUS
<1>1. PICK opts \in OptionSets :
        /\ \A d \in FullDbs(opts) : ~Missing(UserConf, live, d)
        /\ eng = FullEngine(UserConf, FullDbs(opts), opts, live)
  BY DEF Init
<1>2. opts \in Options /\ FullDbs(opts) \in SUBSET DBs
  BY BuildAssumption, ReloadAssumption DEF FullDbs, Options
<1>3. live \in [DBs -> SUBSET Tables] /\ live \in [DBs -> Infos]
  BY DEF Init, Infos
<1>4. eng \in Engines /\ Whole(eng)
  BY <1>1, <1>2, <1>3, UserConfType, FullEngineType, FullEngineWhole DEF NoneMissing
<1>5. Extends(eng.conf)
  BY <1>1, EntryKept DEF FullEngine, Extends
<1>6. eng.info \in [DBs -> Infos]
  BY <1>4 DEF Engines
<1>7. \A p \in Procs : ~Inside(p) /\ p # None
  BY ReloadAssumption DEF Init, Inside, Procs
<1>8. TypeOK
  <2>1. news \in [DBs -> News]
    BY DEF Init, News
  <2>2. gone \subseteq DBs \X Tables
    BY DEF Init
  <2>3. QED BY <1>3, <1>4, <1>6, <1>7, <2>1, <2>2 DEF TypeOK, Init
<1>9. QED BY <1>4, <1>5, <1>7, <1>8
       DEF IInv, Serialized, NoLostUpdate, EngineWhole, Whole, Init, Inside

\* Taking reloadMu for a reload of the current engine.
LEMMA LockIInv ==
  ASSUME IInv, NEW p \in Procs, ~Inside(p), NEW j \in Jobs, WellFormed(j),
         j.base = eng, Lock(p, j)
  PROVE  IInv'
<1>1. /\ \A q \in Procs : Inside(q)' <=> (q = p \/ Inside(q))
      /\ \A q \in Procs \ {p} : pc'[q] = pc[q] /\ job'[q] = job[q]
      /\ pc'[p] = "reload" /\ job'[p] = j
  BY DEF IInv, TypeOK, Lock, Inside
<1>2. \A q \in Procs : ~Inside(q) /\ q # None
  BY ReloadAssumption DEF IInv, Serialized, Lock, Procs
<1>3. TypeOK'
  <2>1. /\ pc' \in [Procs -> {"idle", "reload", "fire", "due", "stopped"}]
        /\ job' \in [Procs -> Jobs \cup {None}]
        /\ mu' \in Procs \cup {None}
    BY DEF IInv, TypeOK, Lock
  <2>2. \A q \in Procs : IF Inside(q)' THEN job'[q] \in Jobs /\ WellFormed(job'[q])
                                       ELSE job'[q] = None
    BY <1>1, <1>2 DEF IInv, TypeOK
  <2>3. QED BY <2>1, <2>2 DEF IInv, TypeOK, Lock
<1>4. Serialized'
  BY <1>1, <1>2 DEF Serialized, Lock
<1>5. NoLostUpdate'
  BY <1>1, <1>2 DEF NoLostUpdate, Inside, Lock
<1>6. EngineWhole' /\ Extends(eng.conf)'
  BY DEF IInv, EngineWhole, Lock, Extends
<1>7. QED BY <1>3, <1>4, <1>5, <1>6 DEF IInv

\* What the engine holds, by the type of its fields.
LEMMA EngType ==
  ASSUME TypeOK
  PROVE  /\ eng.opts \in Options /\ eng.linked \in SUBSET DBs
         /\ eng.dbs \in SUBSET DBs /\ PrimaryConn \in SUBSET DBs
         /\ FromCache(eng.opts) \in Options
<1>1. eng.opts \in Options /\ eng.linked \in SUBSET DBs /\ eng.dbs \in SUBSET DBs
  BY DEF TypeOK, Engines
<1>2. FromCache(eng.opts) \in Options
  BY <1>1, Zenon DEF FromCache, Options
<1>3. QED BY <1>1, <1>2 DEF PrimaryConn

\* The job of a full reload is one, whichever entry point wants it.
LEMMA FullJobType ==
  ASSUME TypeOK, NEW kind \in {"all", "withdb", "cache", "watch"},
         NEW linked \in SUBSET DBs, NEW opts \in {eng.opts, FromCache(eng.opts)}
  PROVE  /\ FullJob(kind, linked, opts) \in Jobs
         /\ FullJob(kind, linked, opts).base = eng
         /\ WellFormed(FullJob(kind, linked, opts))
<1>0. opts \in Options
  BY EngType
<1>1. FullDbs(opts) \in SUBSET DBs /\ linked \cup opts.conns \in SUBSET DBs
  BY <1>0, BuildAssumption DEF FullDbs, Options
<1>2. Nothing \in [DBs -> Infos]
  BY DEF Nothing, Infos
<1>3. QED BY <1>0, <1>1, <1>2 DEF TypeOK, FullJob, Jobs, WellFormed, Sequential

\* The reload entry points.
LEMMA CallIInv ==
  ASSUME IInv, NEW p \in Callers, Call(p)
  PROVE  IInv'
<1>1. TypeOK /\ p \in Procs /\ ~Inside(p)
  BY DEF IInv, Procs, Call, Inside
<1>2. Nothing \in [DBs -> Infos]
  BY DEF Nothing, Infos
<1>3. CASE Reload(p)
  BY <1>1, <1>3, EngType, FullJobType, LockIInv DEF Reload
<1>4. CASE ReloadWithDB(p)
  <2>1. {Default} \in SUBSET DBs
    BY BuildAssumption
  <2>2. QED BY <1>1, <1>4, <2>1, EngType, FullJobType, LockIInv DEF ReloadWithDB
<1>5. CASE ReloadFromRuntimeSchemaCache(p)
  BY <1>1, <1>5, EngType, FullJobType, LockIInv DEF ReloadFromRuntimeSchemaCache
<1>6. ASSUME NEW d \in DBs, ReloadDatabase(p, d)
      PROVE  IInv'
  <2>1. d \in eng.dbs /\ Lock(p, OneJob(d))
    BY <1>6 DEF ReloadDatabase
  <2>2. OneJob(d) \in Jobs /\ OneJob(d).base = eng
    BY <1>1, <1>2, EngType DEF OneJob, Jobs, TypeOK
  <2>3. WellFormed(OneJob(d))
    BY <2>1 DEF OneJob, WellFormed, Sequential
  <2>4. QED BY <1>1, <2>1, <2>2, <2>3, LockIInv
<1>7. ASSUME NEW given \in SUBSET DBs, NEW changed \in SUBSET DBs,
             NEW opts \in OptionSets \cup {eng.opts},
             ReloadConfigDatabases(p, given, changed, opts)
      PROVE  IInv'
  <2> DEFINE names == given \cup changed
  <2>1. opts \in Options
    BY <1>1, EngType, ReloadAssumption
  <2>2. opts.conns \in SUBSET DBs /\ ConfReloads(eng, opts, names) \in SUBSET DBs
    BY <2>1 DEF Options, ConfReloads
  <2>3. ConfJob(names, opts) \in Jobs /\ ConfJob(names, opts).base = eng
    BY <1>1, <1>2, <2>1, <2>2 DEF ConfJob, Jobs, TypeOK
  <2>4. WellFormed(ConfJob(names, opts))
    BY DEF ConfJob, WellFormed, Sequential
  <2>5. QED BY <1>1, <1>7, <2>3, <2>4, LockIInv DEF ReloadConfigDatabases
<1>8. QED BY <1>3, <1>4, <1>5, <1>6, <1>7 DEF Call

\* A step inside a reload that only writes down what was found.
LEMMA JobIInv ==
  ASSUME IInv, NEW p \in Procs, pc[p] = "reload",
         NEW k \in Jobs, WellFormed(k), k.base = job[p].base,
         job' = [job EXCEPT ![p] = k],
         snap' \in [DBs -> Infos], gone' \subseteq DBs \X Tables,
         UNCHANGED <<live, eng, mu, pc, news, closed>>
  PROVE  IInv'
<1>1. Inside(p) /\ job'[p] = k /\ \A q \in Procs \ {p} : job'[q] = job[q]
  BY DEF IInv, TypeOK, Inside
<1>2. \A q \in Procs : Inside(q)' <=> Inside(q)
  BY DEF Inside
<1>3. TypeOK'
  <2>1. job' \in [Procs -> Jobs \cup {None}]
    BY DEF IInv, TypeOK
  <2>2. \A q \in Procs : IF Inside(q)' THEN job'[q] \in Jobs /\ WellFormed(job'[q])
                                       ELSE job'[q] = None
    BY <1>1, <1>2 DEF IInv, TypeOK
  <2>3. QED BY <2>1, <2>2 DEF IInv, TypeOK
<1>4. Serialized'
  BY <1>2 DEF IInv, Serialized
<1>5. NoLostUpdate'
  BY <1>1 DEF IInv, NoLostUpdate
<1>6. EngineWhole' /\ Extends(eng.conf)'
  BY DEF IInv, EngineWhole, Extends
<1>7. QED BY <1>3, <1>4, <1>5, <1>6 DEF IInv

\* Discovery of one database.
LEMMA DiscoverIInv ==
  ASSUME IInv, NEW p \in Procs, Discover(p)
  PROVE  IInv'
<1>1. PICK d \in DBs : \/ CacheHit(p, d) \/ CacheRequired(p, d) \/ NoConnection(p, d)
                       \/ Introspect(p, d) \/ IntrospectFails(p, d)
  BY DEF Discover
<1>2. pc[p] = "reload" /\ job[p] \in Jobs /\ WellFormed(job[p])
  BY <1>1 DEF CacheHit, CacheRequired, NoConnection, Introspect, IntrospectFails,
              GoesLive, Looking, IInv, TypeOK, Inside
<1>3. live[d] \in Infos /\ snap[d] \in Infos /\ None \in Infos
  BY DEF IInv, TypeOK, Infos
<1>4. ASSUME NEW info \in Infos, Found(p, d, info), snap' \in [DBs -> Infos],
             gone' \subseteq DBs \X Tables
      PROVE  IInv'
  <2> DEFINE k == Learned(job[p], d, info)
  <2>1. /\ k \in Jobs /\ k.base = job[p].base /\ k.kind = job[p].kind
        /\ k.names = job[p].names /\ k.opts = job[p].opts
    BY <1>2, DiscoverType
  <2>2. WellFormed(k)
    BY <1>2, <2>1 DEF WellFormed, Sequential
  <2>3. /\ job' = [job EXCEPT ![p] = k]
        /\ UNCHANGED <<live, eng, mu, pc, news, closed>>
    BY <1>4 DEF Found
  <2> HIDE DEF k
  <2>4. QED BY <1>2, <1>4, <2>1, <2>2, <2>3, JobIInv
<1>5. ASSUME NotFound(p, d)
      PROVE  IInv'
  <2> DEFINE k == Lost(job[p], d)
  <2>1. /\ k \in Jobs /\ k.base = job[p].base /\ k.kind = job[p].kind
        /\ k.names = job[p].names /\ k.opts = job[p].opts
    BY <1>2, <1>3, DiscoverType
  <2>2. WellFormed(k)
    BY <1>2, <2>1 DEF WellFormed, Sequential
  <2>3. /\ job' = [job EXCEPT ![p] = k] /\ UNCHANGED <<snap, gone>>
        /\ UNCHANGED <<live, eng, mu, pc, news, closed>>
    BY <1>5 DEF NotFound
  <2> HIDE DEF k
  <2>4. snap' \in [DBs -> Infos] /\ gone' \subseteq DBs \X Tables
    BY <2>3 DEF IInv, TypeOK
  <2>5. QED BY <1>2, <2>1, <2>2, <2>3, <2>4, JobIInv
<1>6. /\ snap \in [DBs -> Infos] /\ [snap EXCEPT ![d] = live[d]] \in [DBs -> Infos]
      /\ gone \subseteq DBs \X Tables /\ gone \cup {d} \X live[d] \subseteq DBs \X Tables
  BY <1>3 DEF IInv, TypeOK
<1>7. CASE CacheHit(p, d)
  BY <1>3, <1>4, <1>6, <1>7 DEF CacheHit
<1>8. CASE CacheRequired(p, d)
  BY <1>5, <1>8 DEF CacheRequired
<1>9. CASE NoConnection(p, d)
  BY <1>3, <1>4, <1>6, <1>9 DEF NoConnection
<1>10. CASE Introspect(p, d)
  BY <1>3, <1>4, <1>6, <1>10 DEF Introspect
<1>11. CASE IntrospectFails(p, d)
  BY <1>3, <1>4, <1>5, <1>6, <1>11 DEF IntrospectFails
<1>12. QED BY <1>1, <1>7, <1>8, <1>9, <1>10, <1>11

\* Storing the next engine.  No other goroutine is in a reload, so no base
\* but this one was the engine that is replaced.
LEMMA PublishIInv ==
  ASSUME IInv, NEW p \in Procs, Publish(p)
  PROVE  IInv'
<1> DEFINE e == NextEngine(job[p])
<1>1. /\ pc[p] = "reload" /\ Inside(p) /\ Succeeds(job[p])
      /\ eng' = e /\ pc' = [pc EXCEPT ![p] = "fire"]
      /\ UNCHANGED <<live, snap, mu, job, closed, gone>> /\ news' = Outdated
  BY DEF Publish, Discovered, Inside
<1>2. job[p] \in Jobs /\ WellFormed(job[p]) /\ job[p].base = eng
  BY <1>1 DEF IInv, TypeOK, NoLostUpdate
<1>3. e \in Engines
  BY <1>2, NextEngineType
<1>4. Whole(e)
  <2>1. Whole(job[p].base) /\ Extends(job[p].base.conf)
    BY <1>2 DEF IInv, EngineWhole, Whole
  <2>2. QED BY <1>1, <1>2, <2>1, NextEngineWhole
<1>0. Extends(e.conf)
  BY <1>2, NextEngineExtends DEF IInv
<1> HIDE DEF e
<1>5. /\ \A q \in Procs : Inside(q)' <=> Inside(q)
      /\ \A q \in Procs \ {p} : pc'[q] = pc[q]
      /\ pc'[p] = "fire"
  BY <1>1 DEF IInv, TypeOK, Inside
<1>6. TypeOK'
  <2>1. news' \in [DBs -> News]
    BY <1>1 DEF IInv, TypeOK, Outdated, News
  <2>2. QED BY <1>1, <1>3, <1>5, <2>1 DEF IInv, TypeOK
<1>7. Serialized'
  BY <1>1, <1>5 DEF IInv, Serialized
<1>8. NoLostUpdate'
  <2>1. \A q \in Procs \ {p} : pc[q] # "reload"
    BY <1>1 DEF IInv, Serialized, Inside
  <2>2. QED BY <1>5, <2>1 DEF NoLostUpdate
<1>9. EngineWhole'
  BY <1>1, <1>4 DEF EngineWhole, Whole
<1>10. QED BY <1>0, <1>1, <1>6, <1>7, <1>8, <1>9 DEF IInv

\* Leaving a reload, failed or done.
LEMMA ReleaseIInv ==
  ASSUME IInv, NEW p \in Procs, Inside(p), Release(p),
         news' \in [DBs -> News],
         UNCHANGED <<live, snap, eng, closed, gone>>
  PROVE  IInv'
<1>1. /\ \A q \in Procs : Inside(q) <=> q = p
      /\ pc'[p] = "idle" /\ job'[p] = None
      /\ \A q \in Procs \ {p} : pc'[q] = pc[q] /\ job'[q] = job[q]
  BY DEF IInv, TypeOK, Serialized, Release
<1>2. \A q \in Procs : ~Inside(q)'
  BY <1>1 DEF Inside
<1>3. TypeOK'
  <2>1. /\ pc' \in [Procs -> {"idle", "reload", "fire", "due", "stopped"}]
        /\ job' \in [Procs -> Jobs \cup {None}]
        /\ mu' = None
    BY DEF IInv, TypeOK, Release
  <2>2. \A q \in Procs : IF Inside(q)' THEN job'[q] \in Jobs /\ WellFormed(job'[q])
                                       ELSE job'[q] = None
    BY <1>1, <1>2 DEF IInv, TypeOK
  <2>3. QED BY <2>1, <2>2 DEF IInv, TypeOK
<1>4. Serialized'
  BY <1>2, ReloadAssumption DEF Serialized, Release, Procs
<1>5. NoLostUpdate'
  BY <1>2 DEF NoLostUpdate, Inside
<1>6. EngineWhole' /\ Extends(eng.conf)'
  BY DEF IInv, EngineWhole, Extends
<1>7. QED BY <1>3, <1>4, <1>5, <1>6 DEF IInv

\* A step of a reload.
LEMMA WorkIInv ==
  ASSUME IInv, NEW p \in Procs, Work(p)
  PROVE  IInv'
<1>1. CASE Discover(p)
  BY <1>1, DiscoverIInv
<1>2. CASE Publish(p)
  BY <1>2, PublishIInv
<1>3. CASE Fail(p)
  <2>1. Inside(p) /\ news' \in [DBs -> News]
    BY <1>3 DEF Fail, Discovered, Inside, IInv, TypeOK
  <2>2. QED BY <1>3, <2>1, ReleaseIInv DEF Fail
<1>4. CASE Fire(p)
  <2>1. Inside(p)
    BY <1>4 DEF Fire, Inside
  <2>2. news' \in [DBs -> News]
    BY <1>4 DEF Fire, IInv, TypeOK, Called, News
  <2>3. QED BY <1>4, <2>1, <2>2, ReleaseIInv DEF Fire
<1>5. QED BY <1>1, <1>2, <1>3, <1>4 DEF Work

\* A step that moves the watcher outside of a reload.
LEMMA WatcherIInv ==
  ASSUME IInv, ~Inside(Watcher),
         NEW at \in {"idle", "due", "stopped"},
         pc' = [pc EXCEPT ![Watcher] = at],
         UNCHANGED <<live, snap, eng, mu, job, news, closed, gone>>
  PROVE  IInv'
<1>1. Watcher \in Procs
  BY DEF Procs
<1>2. /\ \A q \in Procs : Inside(q)' <=> Inside(q)
      /\ \A q \in Procs : pc'[q] = "reload" => pc[q] = "reload"
      /\ pc' \in [Procs -> {"idle", "reload", "fire", "due", "stopped"}]
  BY <1>1 DEF IInv, TypeOK, Inside
<1>3. TypeOK'
  BY <1>2 DEF IInv, TypeOK
<1>4. Serialized' /\ NoLostUpdate' /\ EngineWhole' /\ Extends(eng.conf)'
  BY <1>2 DEF IInv, Serialized, NoLostUpdate, EngineWhole, Extends
<1>5. QED BY <1>3, <1>4 DEF IInv

\* A step that leaves every goroutine, reloadMu and the engine alone.
LEMMA OutsideIInv ==
  ASSUME IInv, UNCHANGED <<eng, mu, pc, job>>,
         live' \in [DBs -> SUBSET Tables], snap' \in [DBs -> Infos],
         news' \in [DBs -> News], closed' \in BOOLEAN,
         gone' \subseteq DBs \X Tables
  PROVE  IInv'
<1>1. \A q \in Procs : Inside(q)' <=> Inside(q)
  BY DEF Inside
<1>2. TypeOK'
  BY <1>1 DEF IInv, TypeOK
<1>3. Serialized' /\ NoLostUpdate' /\ EngineWhole' /\ Extends(eng.conf)'
  BY <1>1 DEF IInv, Serialized, NoLostUpdate, EngineWhole, Extends
<1>4. QED BY <1>2, <1>3 DEF IInv

\* SetOptions, which needs reloadMu, so no reload has a base to lose.
LEMMA SetOptionsIInv ==
  ASSUME IInv, NEW opts \in OptionSets, SetOptions(opts)
  PROVE  IInv'
<1>1. opts \in Options
  BY ReloadAssumption
<1>2. \A q \in Procs : ~Inside(q)
  BY ReloadAssumption DEF IInv, Serialized, SetOptions, Procs
<1>3. /\ eng' \in Engines /\ eng'.ready = eng.ready
      /\ eng'.info = eng.info /\ eng'.dbs = eng.dbs /\ eng'.conf = eng.conf
  BY <1>1 DEF IInv, TypeOK, Engines, SetOptions
<1>4. \A q \in Procs : Inside(q)' <=> Inside(q)
  BY DEF Inside, SetOptions
<1>5. TypeOK'
  BY <1>3, <1>4 DEF IInv, TypeOK, SetOptions
<1>6. Serialized' /\ NoLostUpdate'
  BY <1>2, <1>4 DEF IInv, Serialized, NoLostUpdate, SetOptions, Inside
<1>7. EngineWhole' /\ Extends(eng.conf)'
  BY <1>3 DEF IInv, EngineWhole, Extends
<1>8. QED BY <1>5, <1>6, <1>7 DEF IInv

\* The invariant is inductive.
LEMMA NextIInv == IInv /\ [Next]_vars => IInv'
<1> SUFFICES ASSUME IInv, [Next]_vars PROVE IInv'
  OBVIOUS
<1>1. /\ live \in [DBs -> SUBSET Tables] /\ snap \in [DBs -> Infos]
      /\ news \in [DBs -> News] /\ closed \in BOOLEAN
      /\ gone \subseteq DBs \X Tables
      /\ Watcher \in Procs
  BY DEF IInv, TypeOK, Procs
<1>2. ASSUME NEW d \in DBs, NEW t \in Tables, CreateTable(d, t) \/ DropTable(d, t)
      PROVE  IInv'
  <2>1. live' \in [DBs -> SUBSET Tables] /\ gone' \subseteq DBs \X Tables
    BY <1>1, <1>2 DEF CreateTable, DropTable
  <2>2. QED BY <1>1, <1>2, <2>1, OutsideIInv DEF CreateTable, DropTable
<1>3. ASSUME NEW p \in Callers, Call(p)
      PROVE  IInv'
  BY <1>3, CallIInv
<1>4. ASSUME NEW p \in Procs, Work(p)
      PROVE  IInv'
  BY <1>4, WorkIInv
<1>5. ASSUME NEW opts \in OptionSets, SetOptions(opts)
      PROVE  IInv'
  BY <1>5, SetOptionsIInv
<1>6. CASE WatchTick
  BY <1>6, WatcherIInv DEF WatchTick, Inside
<1>7. CASE WatchReload
  <2>1. TypeOK /\ ~Inside(Watcher)
    BY <1>7 DEF IInv, WatchReload, Inside
  <2>2. QED BY <1>1, <1>7, <2>1, EngType, FullJobType, LockIInv DEF WatchReload
<1>8. CASE WatchSkip
  BY <1>8, WatcherIInv DEF WatchSkip, Inside
<1>9. CASE WatchStop
  BY <1>9, WatcherIInv DEF WatchStop, Inside
<1>10. CASE Close
  BY <1>1, <1>10, OutsideIInv DEF Close
<1>11. CASE UNCHANGED vars
  BY <1>1, <1>11, OutsideIInv DEF vars
<1>12. ASSUME NEW d \in DBs, Callback(d)
       PROVE  IInv'
  <2>1. news' \in [DBs -> News]
    BY <1>1, <1>12 DEF Callback, News
  <2>2. QED BY <1>1, <1>12, <2>1, OutsideIInv DEF Callback
<1>13. QED BY <1>2, <1>3, <1>4, <1>5, <1>6, <1>7, <1>8, <1>9, <1>10, <1>11, <1>12
       DEF Next

\* The inductive invariant holds of every reachable state.
THEOREM Invariance == Spec => []IInv
BY InitIInv, NextIInv, PTL DEF Spec

\* Types hold, and a goroutine has a job exactly while it is in a reload.
THEOREM TypeCorrect == Spec => []TypeOK
<1>1. IInv => TypeOK
  BY DEF IInv
<1>2. QED BY <1>1, Invariance, PTL

\* At most one reload runs at any time: whoever is inside one holds reloadMu.
THEOREM ReloadsSerialized == Spec => []Serialized
<1>1. IInv => Serialized
  BY DEF IInv
<1>2. QED BY <1>1, Invariance, PTL

\* A reload replaces the very engine it started from, so it loses no update.
THEOREM UpdatesKept == Spec => []NoLostUpdate
<1>1. IInv => NoLostUpdate
  BY DEF IInv
<1>2. QED BY <1>1, Invariance, PTL

\* A published engine answers queries from exactly the databases discovered.
THEOREM PublishedWhole == Spec => []EngineWhole
<1>1. IInv => EngineWhole
  BY DEF IInv
<1>2. QED BY <1>1, Invariance, PTL

-----------------------------------------------------------------------------
(* Callbacks.  Between two reloads none is owed the schema of a database in  *)
(* use; from Publish to Fire none is but for the databases the reload will  *)
(* announce.  A reload announces each database it rebuilt, so those it does *)
(* not are clones.  ReloadWithDB, which announces none, owes nothing either *)
(* once it is over: it says so by its silence.                              *)

Told(D) == \A d \in D : eng.info[d] # None => news[d] # "owed"

TellInv ==
  /\ (\A p \in Procs : pc[p] # "fire") => Told(eng.dbs)
  /\ \A p \in Procs : pc[p] = "fire" /\ job[p].kind # "withdb"
       => Told(eng.dbs \ Announces(job[p]))

\* Announces by kind of reload.
LEMMA AnnouncesCases ==
  ASSUME NEW j
  PROVE  /\ j.kind = "one" => Announces(j) = j.names
         /\ j.kind = "conf" => Announces(j) = j.names \cup Rebuilt(j)
         /\ j.kind \notin {"withdb", "one", "conf"} => Announces(j) = DBs
<1>1. j.kind = "one" => Announces(j) = j.names
  BY DEF Announces
<1>2. j.kind = "conf" => Announces(j) = j.names \cup Rebuilt(j)
  BY DEF Announces
<1>3. j.kind \notin {"withdb", "one", "conf"} => Announces(j) = DBs
  BY DEF Announces
<1>4. QED BY <1>1, <1>2, <1>3

\* What the next engine has of a database that is not announced is what the
\* engine before had of it.
LEMMA NotAnnouncedIsCloned ==
  ASSUME NEW j \in Jobs, WellFormed(j), j.kind # "withdb",
         NEW d \in NextEngine(j).dbs \ Announces(j), d \in DBs
  PROVE  d \in j.base.dbs /\ NextEngine(j).info[d] = j.base.info[d]
<1>1. j.base \in Engines /\ j.opts \in Options /\ j.names \in SUBSET DBs
  BY DEF Jobs
<1>2. CASE j.kind = "one"
  <2>1. PICK n \in j.base.dbs : j.names = {n}
    BY <1>2 DEF WellFormed
  <2>2. Named(j) = n /\ d # n
    BY <1>2, <2>1, AnnouncesCases DEF Named
  <2>3. NextEngine(j) = OneEngine(j.base, n, j.found)
    BY <1>2, <2>2, NextEngineCases
  <2>4. /\ NextEngine(j).dbs = j.base.dbs
        /\ NextEngine(j).info = [j.base.info EXCEPT ![n] = j.found[n]]
    BY <1>1, <2>3 DEF OneEngine, Engines
  <2>5. QED BY <1>1, <2>2, <2>4 DEF Engines
<1>3. CASE j.kind = "conf"
  <2>1. NextEngine(j) = ConfEngine(j.base, UserConf, j.opts, j.names, j.found)
    BY <1>3, NextEngineCases
  <2>2. d \notin ConfReloads(j.base, j.opts, j.names)
    BY <1>3, AnnouncesCases DEF Rebuilt
  <2>3. d \in j.opts.conns
    BY <2>1 DEF ConfEngine
  <2>4. d \in j.base.dbs
    BY <2>2, <2>3 DEF ConfReloads
  <2>5. QED BY <2>1, <2>2, <2>3, <2>4 DEF ConfEngine
<1>4. CASE j.kind \notin {"withdb", "one", "conf"}
  BY <1>4, AnnouncesCases
<1>5. QED BY <1>2, <1>3, <1>4

\* A step that stores no engine and tells no callback.
LEMMA QuietTell ==
  ASSUME TellInv, \A d \in eng.dbs : news[d] # "owed" => news'[d] # "owed",
         eng'.info = eng.info, eng'.dbs = eng.dbs,
         \A q \in Procs : /\ pc'[q] = "fire" => pc[q] = "fire" /\ job'[q] = job[q]
                          /\ pc[q] = "fire" => pc'[q] = "fire"
  PROVE  TellInv'
<1>1. (\A p \in Procs : pc'[p] # "fire") => Told(eng.dbs)'
  BY DEF TellInv, Told
<1>2. \A p \in Procs : pc'[p] = "fire" /\ job'[p].kind # "withdb"
                         => Told(eng.dbs \ Announces(job[p]))'
  <2> SUFFICES ASSUME NEW p \in Procs, pc'[p] = "fire", job'[p].kind # "withdb"
               PROVE  Told(eng.dbs \ Announces(job[p]))'
    OBVIOUS
  <2>1. pc[p] = "fire" /\ job'[p] = job[p]
    OBVIOUS
  <2>2. Told(eng.dbs \ Announces(job[p]))
    BY <2>1 DEF TellInv
  <2>3. Announces(job[p])' = Announces(job[p])
    BY <2>1 DEF Announces, Rebuilt
  <2>4. QED BY <2>2, <2>3 DEF Told
<1>3. QED BY <1>1, <1>2 DEF TellInv

\* Taking reloadMu.
LEMMA LockTell ==
  ASSUME IInv, TellInv, NEW p \in Procs, NEW j, Lock(p, j)
  PROVE  TellInv'
<1>1. \A q \in Procs : ~Inside(q)
  BY ReloadAssumption DEF IInv, Serialized, Lock, Procs
<1>2. /\ pc'[p] = "reload" /\ job'[p] = j
      /\ \A q \in Procs \ {p} : pc'[q] = pc[q] /\ job'[q] = job[q]
  BY DEF IInv, TypeOK, Lock
<1>3. QED BY <1>1, <1>2, QuietTell DEF Lock, Inside

\* A goroutine that works is inside a reload, alone.
LEMMA WorkInside ==
  ASSUME IInv, NEW p \in Procs, Work(p)
  PROVE  /\ Inside(p) /\ job[p] \in Jobs /\ WellFormed(job[p])
         /\ \A q \in Procs \ {p} : ~Inside(q)
<1>1. Inside(p)
  BY DEF Work, Discover, CacheHit, CacheRequired, NoConnection, Introspect,
         IntrospectFails, GoesLive, Looking, Publish, Fail, Discovered, Fire, Inside
<1>2. QED BY <1>1 DEF IInv, TypeOK, Serialized

\* Discovery changes the job's list of what was found, and nothing else of it.
LEMMA DiscoverStep ==
  ASSUME IInv, NEW p \in Procs, Discover(p)
  PROVE  /\ pc[p] = "reload" /\ UNCHANGED <<live, eng, mu, pc, news>>
         /\ job'[p].kind = job[p].kind
         /\ \A q \in Procs \ {p} : job'[q] = job[q]
<1>1. PICK d \in DBs : \/ CacheHit(p, d) \/ CacheRequired(p, d) \/ NoConnection(p, d)
                       \/ Introspect(p, d) \/ IntrospectFails(p, d)
  BY DEF Discover
<1>2. live[d] \in Infos /\ snap[d] \in Infos /\ None \in Infos
  BY DEF IInv, TypeOK, Infos
<1>3. /\ pc[p] = "reload" /\ UNCHANGED <<live, eng, mu, pc, news>>
      /\ \/ \E info \in Infos : job' = [job EXCEPT ![p] = Learned(job[p], d, info)]
         \/ job' = [job EXCEPT ![p] = Lost(job[p], d)]
  BY <1>1, <1>2 DEF CacheHit, CacheRequired, NoConnection, Introspect, IntrospectFails,
                    GoesLive, Looking, Found, NotFound
<1>4. job[p] \in Jobs
  BY <1>3 DEF IInv, TypeOK, Inside
<1>5. \A info \in Infos : /\ Learned(job[p], d, info).kind = job[p].kind
                          /\ Lost(job[p], d).kind = job[p].kind
  BY <1>4, DiscoverType
<1>6. job'[p].kind = job[p].kind /\ \A q \in Procs \ {p} : job'[q] = job[q]
  BY <1>2, <1>3, <1>5 DEF IInv, TypeOK
<1>7. QED BY <1>3, <1>6

\* A step of a reload.
LEMMA WorkTell ==
  ASSUME IInv, TellInv, NEW p \in Procs, Work(p)
  PROVE  TellInv'
<1>1. /\ Inside(p) /\ job[p] \in Jobs /\ WellFormed(job[p])
      /\ \A q \in Procs \ {p} : ~Inside(q)
  BY WorkInside
<1>2. CASE Discover(p)
  BY <1>1, <1>2, DiscoverStep, QuietTell DEF Inside
<1>3. CASE Publish(p)
  <2> DEFINE e == NextEngine(job[p])
  <2>1. /\ pc[p] = "reload" /\ eng' = e /\ UNCHANGED job /\ news' = Outdated
        /\ pc'[p] = "fire" /\ \A q \in Procs \ {p} : pc'[q] = pc[q]
    BY <1>3 DEF Publish, Discovered, IInv, TypeOK
  <2>2. Told(eng.dbs) /\ job[p].base = eng
    BY <1>1, <2>1 DEF TellInv, Inside, IInv, NoLostUpdate
  <2>3. e.dbs \subseteq DBs
    BY <1>1, NextEngineType DEF Engines
  <2>4. job[p].kind # "withdb" =>
          \A d \in e.dbs \ Announces(job[p]) : d \in eng.dbs /\ e.info[d] = eng.info[d]
    BY <1>1, <2>2, <2>3, NotAnnouncedIsCloned
  <2> HIDE DEF e
  <2>5. ASSUME job[p].kind # "withdb"
        PROVE  Told(eng.dbs \ Announces(job[p]))'
    <3> SUFFICES ASSUME NEW d \in e.dbs \ Announces(job[p]), e.info[d] # None
                 PROVE  news'[d] # "owed"
      <4>1. Announces(job[p])' = Announces(job[p])
        BY <2>1 DEF Announces, Rebuilt
      <4>2. QED BY <2>1, <4>1 DEF Told
    <3>1. d \in DBs /\ d \in eng.dbs /\ e.info[d] = eng.info[d]
      BY <2>3, <2>4, <2>5
    <3>2. news[d] # "owed"
      BY <2>2, <3>1 DEF Told
    <3>3. news'[d] = news[d]
      BY <2>1, <3>1 DEF Outdated
    <3>4. QED BY <3>2, <3>3
  <2>6. \A q \in Procs \ {p} : pc'[q] # "fire"
    BY <1>1, <2>1 DEF Inside
  <2>7. QED BY <2>1, <2>5, <2>6 DEF TellInv
<1>4. CASE Fail(p)
  <2>1. /\ pc'[p] = "idle" /\ UNCHANGED <<eng, news>>
        /\ \A q \in Procs \ {p} : pc'[q] = pc[q] /\ job'[q] = job[q]
        /\ pc[p] = "reload"
    BY <1>4 DEF Fail, Release, Discovered, IInv, TypeOK
  <2>2. QED BY <1>1, <2>1, QuietTell DEF Inside
<1>5. CASE Fire(p)
  <2>1. /\ pc[p] = "fire" /\ pc'[p] = "idle" /\ UNCHANGED eng
        /\ \A q \in Procs \ {p} : pc'[q] = pc[q]
    BY <1>5 DEF Fire, Release, IInv, TypeOK
  <2>2. \A q \in Procs : ~Inside(q)'
    BY <1>1, <2>1 DEF Inside
  <2>3. job[p].kind # "withdb" => Told(eng.dbs \ Announces(job[p]))
    BY <2>1 DEF TellInv
  <2>4. Told(eng.dbs)'
    <3> SUFFICES ASSUME NEW d \in eng.dbs, eng.info[d] # None
                 PROVE  news'[d] # "owed"
      BY <2>1 DEF Told
    <3>1. d \in DBs
      BY DEF IInv, TypeOK, Engines
    <3>2. news' = Called(job[p])
      BY <1>5 DEF Fire
    <3>3. CASE d \in Announces(job[p])
      BY <3>1, <3>2, <3>3 DEF Called
    <3>4. CASE d \notin Announces(job[p]) /\ job[p].kind = "withdb"
      BY <3>1, <3>2, <3>4 DEF Called
    <3>5. CASE d \notin Announces(job[p]) /\ job[p].kind # "withdb"
      <4>1. news[d] # "owed"
        BY <2>3, <3>5 DEF Told
      <4>2. QED BY <3>1, <3>2, <3>5, <4>1 DEF Called
    <3>6. QED BY <3>3, <3>4, <3>5
  <2>5. QED BY <2>2, <2>4 DEF TellInv, Inside
<1>6. QED BY <1>2, <1>3, <1>4, <1>5 DEF Work

\* The reload entry points.
LEMMA CallTell ==
  ASSUME IInv, TellInv, NEW p \in Callers, Call(p)
  PROVE  TellInv'
<1>1. p \in Procs
  BY DEF Procs
<1>2. \E j : Lock(p, j)
  BY DEF Call, Reload, ReloadWithDB, ReloadFromRuntimeSchemaCache, ReloadDatabase,
         ReloadConfigDatabases
<1>3. QED BY <1>1, <1>2, LockTell

\* Every step keeps it.
LEMMA NextTell ==
  ASSUME IInv, TellInv, [Next]_vars
  PROVE  TellInv'
<1>1. ASSUME NEW p \in Callers, Call(p)
      PROVE  TellInv'
  BY <1>1, CallTell
<1>2. ASSUME NEW p \in Procs, Work(p)
      PROVE  TellInv'
  BY <1>2, WorkTell
<1>3. CASE WatchReload
  <2>1. Watcher \in Procs
    BY DEF Procs
  <2>2. QED BY <1>3, <2>1, LockTell DEF WatchReload
<1>4. CASE WatchTick \/ WatchSkip \/ WatchStop
  <2>1. /\ \A q \in Procs \ {Watcher} : pc'[q] = pc[q]
        /\ pc'[Watcher] \in {"idle", "due", "stopped"}
        /\ UNCHANGED <<eng, news, job>> /\ pc[Watcher] # "fire"
    BY <1>4 DEF WatchTick, WatchSkip, WatchStop, IInv, TypeOK, Procs
  <2>2. QED BY <2>1, QuietTell DEF Inside, TellInv
<1>5. ASSUME NEW opts \in OptionSets, SetOptions(opts)
      PROVE  TellInv'
  <2>1. /\ eng'.info = eng.info /\ eng'.dbs = eng.dbs /\ UNCHANGED <<pc, job, news>>
    BY <1>5 DEF SetOptions, IInv, TypeOK, Engines
  <2>2. QED BY <2>1, QuietTell DEF Inside, TellInv
<1>6. CASE UNCHANGED <<eng, pc, job, news>>
  BY <1>6, QuietTell DEF Inside, TellInv
<1>7. ASSUME NEW d \in DBs, Callback(d)
      PROVE  TellInv'
  <2>1. \A c \in DBs : news[c] # "owed" => news'[c] # "owed"
    BY <1>7 DEF Callback, IInv, TypeOK
  <2>2. eng.dbs \subseteq DBs /\ UNCHANGED <<eng, pc, job>>
    BY <1>7 DEF Callback, IInv, TypeOK, Engines
  <2>3. QED BY <2>1, <2>2, QuietTell
<1>8. QED BY <1>1, <1>2, <1>3, <1>4, <1>5, <1>6, <1>7 DEF Next, CreateTable, DropTable, Close, vars

\* The callbacks hear of the engine NewGraphJin stores.
LEMMA InitTell == Init => TellInv
<1> SUFFICES ASSUME Init PROVE TellInv
  OBVIOUS
<1>1. eng.dbs \subseteq DBs
  BY InitIInv DEF IInv, TypeOK, Engines
<1>2. \A d \in DBs : news[d] # "owed"
  BY DEF Init
<1>3. \A p \in Procs : pc[p] # "fire"
  BY DEF Init
<1>4. QED BY <1>1, <1>2, <1>3 DEF TellInv, Told

\* Whenever no reload runs, the callbacks have been told of every schema the
\* engine uses, or are about to be, or ReloadWithDB brought it.
THEOREM CallbacksTold == Spec => []Announced
<1>1. Init => IInv /\ TellInv
  BY InitIInv, InitTell
<1>2. IInv /\ TellInv /\ [Next]_vars => (IInv /\ TellInv)'
  BY NextIInv, NextTell
<1>3. IInv /\ TellInv => Announced
  <2> SUFFICES ASSUME IInv, TellInv, mu = None
               PROVE  Told(eng.dbs)
    BY DEF Announced, Told
  <2>1. \A p \in Procs : ~Inside(p)
    BY ReloadAssumption DEF IInv, Serialized, Procs
  <2>2. QED BY <2>1 DEF TellInv, Inside
<1>4. QED BY <1>1, <1>2, <1>3, PTL DEF Spec

-----------------------------------------------------------------------------
(* Full reloads start from the configuration of the engine they replace,    *)
(* entries that earlier discoveries added included.  Each of those has its  *)
(* table in the snapshot of its database, and a look at the database finds  *)
(* what the snapshot has, unless the table was dropped or a snapshot could  *)
(* not be written (gone): so no other entry makes a reload fail.            *)

Gone(d, t) == <<d, t>> \in gone

\* The tables not gone: a snapshot has only tables that are there, and what a
\* reload found of a database is what the snapshot has.
SnapshotsKeepUp ==
  /\ \A d \in DBs, t \in Tables : t \in Seen(snap, d) => t \in live[d] \/ Gone(d, t)
  /\ \A p \in Procs : pc[p] = "reload" =>
       \A d \in DBs : job[p].found[d] # None =>
         /\ d \notin job[p].todo
         /\ \A t \in Tables : ~Gone(d, t) =>
              (t \in Seen(job[p].found, d) <=> t \in Seen(snap, d))

\* An entry is the caller's, or its table is in the snapshot of its database.
EntriesBacked ==
  \A t \in Tables, d \in DBs :
    eng.conf[t] = d => UserConf[t] = d \/ t \in Seen(snap, d) \/ Gone(d, t)

GrowInv == SnapshotsKeepUp /\ EntriesBacked

\* At the start the snapshots hold what was found.
LEMMA InitGrow == Init => GrowInv
<1> SUFFICES ASSUME Init PROVE GrowInv
  OBVIOUS
<1>1. PICK opts \in OptionSets : eng = FullEngine(UserConf, FullDbs(opts), opts, live)
  BY DEF Init
<1>2. FullDbs(opts) \in SUBSET DBs
  BY BuildAssumption, ReloadAssumption DEF FullDbs, Options
<1>3. \A d \in DBs : snap[d] = IF d \in FullDbs(opts) THEN live[d] ELSE None
  BY <1>1 DEF Init, FullEngine
<1>4. \A d \in DBs : live[d] # None
  BY BuildAssumption DEF Init
<1>5. SnapshotsKeepUp
  BY <1>3, <1>4 DEF SnapshotsKeepUp, Init, Seen
<1>6. EntriesBacked
  <2> SUFFICES ASSUME NEW t \in Tables, NEW d \in DBs, eng.conf[t] = d
               PROVE  UserConf[t] = d \/ t \in Seen(snap, d)
    BY DEF EntriesBacked
  <2>1. eng.conf = AddDiscovered(UserConf, live, FullDbs(opts), DefaultFirst)
    BY <1>1 DEF FullEngine
  <2>2. UserConf[t] = d \/ (d \in FullDbs(opts) /\ t \in Seen(live, d))
    BY <1>2, <2>1, DerivedEntry
  <2>3. QED BY <1>3, <2>2 DEF Seen
<1>7. QED BY <1>5, <1>6 DEF GrowInv

\* A step that leaves the snapshots, the entries and what reloads found alone;
\* a table that goes is gone.
LEMMA QuietGrow ==
  ASSUME GrowInv, snap' = snap, eng'.conf = eng.conf, gone \subseteq gone',
         \A d \in DBs, t \in Tables : t \in live[d] => t \in live'[d] \/ Gone(d, t)',
         \A q \in Procs : pc'[q] = "reload" =>
           \/ pc[q] = "reload" /\ job'[q] = job[q]
           \/ job'[q].found = Nothing
  PROVE  GrowInv'
<1>1. SnapshotsKeepUp'
  <2>1. \A d \in DBs, t \in Tables : t \in Seen(snap', d) => t \in live'[d] \/ Gone(d, t)'
    BY DEF GrowInv, SnapshotsKeepUp, Seen, Gone
  <2>2. ASSUME NEW q \in Procs, pc'[q] = "reload",
               NEW d \in DBs, job'[q].found[d] # None
        PROVE  /\ d \notin job'[q].todo
               /\ \A t \in Tables : ~Gone(d, t)' =>
                    (t \in Seen(job'[q].found, d) <=> t \in Seen(snap', d))
    <3>1. pc[q] = "reload" /\ job'[q] = job[q]
      BY <2>2 DEF Nothing
    <3>2. QED BY <2>2, <3>1 DEF GrowInv, SnapshotsKeepUp, Gone
  <2>3. QED BY <2>1, <2>2 DEF SnapshotsKeepUp, Seen, Gone
<1>2. EntriesBacked'
  BY DEF GrowInv, EntriesBacked, Seen, Gone
<1>3. QED BY <1>1, <1>2 DEF GrowInv

\* Taking reloadMu: nothing is found yet.
LEMMA LockGrow ==
  ASSUME IInv, GrowInv, NEW p \in Procs, NEW j, j.found = Nothing, Lock(p, j)
  PROVE  GrowInv'
<1>1. job'[p] = j /\ \A q \in Procs \ {p} : pc'[q] = pc[q] /\ job'[q] = job[q]
  BY DEF IInv, TypeOK, Lock
<1>2. QED BY <1>1, QuietGrow DEF Lock

\* One database was looked at: found as its snapshot, which was its tables, or
\* became them, or could not be written.
LEMMA FoundGrow ==
  ASSUME IInv, GrowInv, NEW p \in Procs, NEW d \in DBs, NEW info \in Infos,
         Looking(p, d), Found(p, d, info),
         \/ UNCHANGED <<snap, gone>> /\ info \in {None, snap[d]}
         \/ snap' = [snap EXCEPT ![d] = live[d]] /\ gone' = gone /\ info = live[d]
         \/ snap' = snap /\ gone' = gone \cup {d} \X live[d] /\ info = live[d]
  PROVE  GrowInv'
<1> DEFINE k == Learned(job[p], d, info)
<1>1. /\ pc[p] = "reload" /\ job[p] \in Jobs /\ d \in job[p].todo
      /\ \A q \in Procs \ {p} : pc[q] # "reload"
  BY DEF Looking, IInv, TypeOK, Inside, Serialized
<1>2. /\ k.found = [job[p].found EXCEPT ![d] = info]
      /\ k.todo = job[p].todo \ {d}
  BY <1>1 DEF Learned, Jobs
<1>3. /\ job'[p] = k /\ \A q \in Procs \ {p} : job'[q] = job[q]
      /\ UNCHANGED <<live, eng, pc>>
  BY DEF Found, IInv, TypeOK
<1>4. /\ snap \in [DBs -> Infos] /\ live \in [DBs -> SUBSET Tables]
      /\ job[p].found \in [DBs -> Infos]
  BY <1>1 DEF IInv, TypeOK, Jobs
<1>5. live[d] # None
  BY <1>4, BuildAssumption
<1> HIDE DEF k
<1>6. /\ gone \subseteq gone'
      /\ \A e \in DBs \ {d} : /\ snap'[e] = snap[e]
                              /\ \A t \in Tables : Gone(e, t)' <=> Gone(e, t)
  BY <1>4 DEF Gone
<1>7. ASSUME NEW t \in Tables
      PROVE  /\ t \in Seen(snap', d) => t \in live[d] \/ Gone(d, t)'
             /\ t \in Seen(snap, d) => t \in Seen(snap', d) \/ Gone(d, t)'
             /\ info # None /\ ~Gone(d, t)' =>
                  (t \in (IF info = None THEN {} ELSE info) <=> t \in Seen(snap', d))
  <2>1. t \in Seen(snap, d) => t \in live[d] \/ Gone(d, t)
    BY DEF GrowInv, SnapshotsKeepUp
  <2>2. CASE UNCHANGED <<snap, gone>> /\ info \in {None, snap[d]}
    BY <2>1, <2>2 DEF Seen, Gone
  <2>3. CASE snap' = [snap EXCEPT ![d] = live[d]] /\ gone' = gone /\ info = live[d]
    <3>1. snap'[d] = live[d]
      BY <1>4, <2>3
    <3>2. Seen(snap', d) = live[d]
      BY <1>5, <3>1 DEF Seen
    <3>3. QED BY <1>5, <2>1, <2>3, <3>2 DEF Gone
  <2>4. CASE snap' = snap /\ gone' = gone \cup {d} \X live[d] /\ info = live[d]
    <3>1. t \in live[d] => Gone(d, t)'
      BY <2>4 DEF Gone
    <3>2. Gone(d, t) => Gone(d, t)'
      BY <2>4 DEF Gone
    <3>3. Seen(snap', d) = Seen(snap, d)
      BY <2>4 DEF Seen
    <3>4. QED BY <1>5, <2>1, <2>4, <3>1, <3>2, <3>3
  <2>5. QED BY <2>2, <2>3, <2>4
<1>8. \A e \in DBs, t \in Tables :
        /\ t \in Seen(snap', e) => t \in live[e] \/ Gone(e, t)'
        /\ t \in Seen(snap, e) => t \in Seen(snap', e) \/ Gone(e, t)'
  <2> SUFFICES ASSUME NEW e \in DBs, NEW t \in Tables
               PROVE  /\ t \in Seen(snap', e) => t \in live[e] \/ Gone(e, t)'
                      /\ t \in Seen(snap, e) => t \in Seen(snap', e) \/ Gone(e, t)'
    OBVIOUS
  <2>1. CASE e = d
    BY <1>7, <2>1
  <2>2. CASE e # d
    BY <1>6, <2>2 DEF GrowInv, SnapshotsKeepUp, Seen
  <2>3. QED BY <2>1, <2>2
<1>9. ASSUME NEW e \in DBs, k.found[e] # None
      PROVE  /\ e \notin k.todo
             /\ \A t \in Tables : ~Gone(e, t)' =>
                  (t \in Seen(k.found, e) <=> t \in Seen(snap', e))
  <2>1. CASE e = d
    <3>1. k.found[e] = info /\ e \notin k.todo
      BY <1>2, <1>4, <2>1
    <3>2. Seen(k.found, e) = IF info = None THEN {} ELSE info
      BY <3>1 DEF Seen
    <3>3. QED BY <1>7, <1>9, <2>1, <3>1, <3>2
  <2>2. CASE e # d
    <3>1. k.found[e] = job[p].found[e]
      BY <1>2, <1>4, <2>2
    <3>2. Seen(k.found, e) = Seen(job[p].found, e) /\ Seen(snap', e) = Seen(snap, e)
      BY <1>6, <2>2, <3>1 DEF Seen
    <3>3. QED BY <1>1, <1>2, <1>6, <1>9, <2>2, <3>1, <3>2 DEF GrowInv, SnapshotsKeepUp
  <2>3. QED BY <2>1, <2>2
<1>10. SnapshotsKeepUp'
  <2>1. \A q \in Procs : pc'[q] = "reload" => q = p
    BY <1>1, <1>3
  <2>2. QED BY <1>3, <1>8, <1>9, <2>1 DEF SnapshotsKeepUp, Seen, Gone
<1>11. EntriesBacked'
  <2>1. \A t \in Tables, e \in DBs :
          eng.conf[t] = e => UserConf[t] = e \/ t \in Seen(snap', e) \/ Gone(e, t)'
    BY <1>6, <1>8 DEF GrowInv, EntriesBacked, Gone
  <2>2. QED BY <1>3, <2>1 DEF EntriesBacked, Seen, Gone
<1>12. QED BY <1>10, <1>11 DEF GrowInv

\* One could not be looked at: nothing is found.
LEMMA LostGrow ==
  ASSUME IInv, GrowInv, NEW p \in Procs, NEW d \in DBs, Looking(p, d), NotFound(p, d)
  PROVE  GrowInv'
<1>1. /\ job[p] \in Jobs /\ pc[p] = "reload"
      /\ \A q \in Procs \ {p} : pc[q] # "reload"
  BY DEF Looking, IInv, TypeOK, Inside, Serialized
<1>2. job'[p] = Lost(job[p], d) /\ UNCHANGED <<live, snap, eng, pc, gone>>
  BY DEF NotFound, IInv, TypeOK
<1>3. job'[p].found = job[p].found /\ job'[p].todo \subseteq job[p].todo
  BY <1>1, <1>2 DEF Lost, Jobs
<1>4. \A q \in Procs : pc'[q] = "reload" => q = p
  BY <1>1, <1>2
<1>5. SnapshotsKeepUp'
  BY <1>1, <1>2, <1>3, <1>4 DEF GrowInv, SnapshotsKeepUp, Seen, Gone
<1>6. EntriesBacked'
  BY <1>2 DEF GrowInv, EntriesBacked, Seen, Gone
<1>7. QED BY <1>5, <1>6 DEF GrowInv

\* A step of a reload.
LEMMA WorkGrow ==
  ASSUME IInv, GrowInv, NEW p \in Procs, Work(p)
  PROVE  GrowInv'
<1>1. /\ job[p] \in Jobs /\ WellFormed(job[p])
      /\ \A q \in Procs \ {p} : ~Inside(q)
  BY WorkInside
<1>2. CASE Discover(p)
  <2>1. PICK d \in DBs : \/ CacheHit(p, d) \/ CacheRequired(p, d) \/ NoConnection(p, d)
                         \/ Introspect(p, d) \/ IntrospectFails(p, d)
    BY <1>2 DEF Discover
  <2>2. live[d] \in Infos /\ snap[d] \in Infos /\ None \in Infos
    BY DEF IInv, TypeOK, Infos
  <2>3. CASE CacheHit(p, d)
    BY <2>2, <2>3, FoundGrow DEF CacheHit
  <2>4. CASE CacheRequired(p, d)
    BY <2>4, LostGrow DEF CacheRequired
  <2>5. CASE NoConnection(p, d)
    BY <2>2, <2>5, FoundGrow DEF NoConnection, GoesLive
  <2>6. CASE Introspect(p, d)
    BY <2>2, <2>6, FoundGrow DEF Introspect, GoesLive
  <2>7. CASE IntrospectFails(p, d)
    <3>1. CASE snap[d] # None
      BY <2>2, <2>7, <3>1, FoundGrow DEF IntrospectFails, GoesLive
    <3>2. CASE snap[d] = None
      BY <2>7, <3>2, LostGrow DEF IntrospectFails, GoesLive
    <3>3. QED BY <3>1, <3>2
  <2>8. QED BY <2>1, <2>3, <2>4, <2>5, <2>6, <2>7
<1>3. CASE Publish(p)
  <2> DEFINE e == NextEngine(job[p])
  <2>1. /\ pc[p] = "reload" /\ eng' = e /\ UNCHANGED <<live, snap, job, gone>>
        /\ \A q \in Procs : pc'[q] # "reload"
    BY <1>1, <1>3 DEF Publish, Discovered, IInv, TypeOK, Inside
  <2>2. job[p].base = eng /\ job[p].found \in [DBs -> Infos]
    BY <1>1, <2>1 DEF IInv, NoLostUpdate, Jobs
  <2>3. ASSUME NEW t \in Tables, NEW d \in DBs, t \in Seen(job[p].found, d)
        PROVE  t \in Seen(snap, d) \/ Gone(d, t)
    <3>1. job[p].found[d] # None
      BY <2>3 DEF Seen
    <3>2. QED BY <2>1, <2>3, <3>1 DEF GrowInv, SnapshotsKeepUp
  <2>4. ASSUME NEW t \in Tables, NEW d \in DBs, e.conf[t] = d
        PROVE  UserConf[t] = d \/ t \in Seen(snap, d) \/ Gone(d, t)
    <3>1. eng.conf[t] = d \/ UserConf[t] = d \/ t \in Seen(job[p].found, d)
      BY <1>1, <2>2, <2>4, NextEntry
    <3>2. QED BY <2>3, <3>1 DEF GrowInv, EntriesBacked
  <2> HIDE DEF e
  <2>5. EntriesBacked'
    BY <2>1, <2>4 DEF EntriesBacked, Seen, Gone
  <2>6. SnapshotsKeepUp'
    BY <2>1 DEF GrowInv, SnapshotsKeepUp, Seen, Gone
  <2>7. QED BY <2>5, <2>6 DEF GrowInv
<1>4. CASE Fail(p) \/ Fire(p)
  <2>1. /\ UNCHANGED <<live, snap, eng, gone>> /\ pc'[p] = "idle"
        /\ \A q \in Procs \ {p} : pc'[q] = pc[q] /\ job'[q] = job[q]
    BY <1>4 DEF Fail, Fire, Release, IInv, TypeOK
  <2>2. QED BY <2>1, QuietGrow
<1>5. QED BY <1>2, <1>3, <1>4 DEF Work

\* The reload entry points.
LEMMA CallGrow ==
  ASSUME IInv, GrowInv, NEW p \in Callers, Call(p)
  PROVE  GrowInv'
<1>1. p \in Procs
  BY DEF Procs
<1>2. CASE Reload(p)
  BY <1>1, <1>2, LockGrow DEF Reload, FullJob
<1>3. CASE ReloadWithDB(p)
  BY <1>1, <1>3, LockGrow DEF ReloadWithDB, FullJob
<1>4. CASE ReloadFromRuntimeSchemaCache(p)
  BY <1>1, <1>4, LockGrow DEF ReloadFromRuntimeSchemaCache, FullJob
<1>5. ASSUME NEW d \in DBs, ReloadDatabase(p, d)
      PROVE  GrowInv'
  BY <1>1, <1>5, LockGrow DEF ReloadDatabase, OneJob
<1>6. ASSUME NEW names \in SUBSET DBs, NEW changed \in SUBSET DBs,
             NEW opts \in OptionSets \cup {eng.opts},
             ReloadConfigDatabases(p, names, changed, opts)
      PROVE  GrowInv'
  BY <1>1, <1>6, LockGrow DEF ReloadConfigDatabases, ConfJob
<1>7. QED BY <1>2, <1>3, <1>4, <1>5, <1>6 DEF Call

\* Every step keeps it.
LEMMA NextGrow ==
  ASSUME IInv, GrowInv, [Next]_vars
  PROVE  GrowInv'
<1>1. ASSUME NEW p \in Callers, Call(p)
      PROVE  GrowInv'
  BY <1>1, CallGrow
<1>2. ASSUME NEW p \in Procs, Work(p)
      PROVE  GrowInv'
  BY <1>2, WorkGrow
<1>3. CASE WatchReload
  <2>1. Watcher \in Procs
    BY DEF Procs
  <2>2. QED BY <1>3, <2>1, LockGrow DEF WatchReload, FullJob
<1>4. CASE WatchTick \/ WatchSkip \/ WatchStop
  <2>1. /\ \A q \in Procs : pc'[q] = "reload" => pc[q] = "reload" /\ job'[q] = job[q]
        /\ UNCHANGED <<live, snap, eng, gone>>
    BY <1>4 DEF WatchTick, WatchSkip, WatchStop, IInv, TypeOK
  <2>2. QED BY <2>1, QuietGrow
<1>5. ASSUME NEW opts \in OptionSets, SetOptions(opts)
      PROVE  GrowInv'
  <2>1. eng'.conf = eng.conf /\ UNCHANGED <<live, snap, pc, job, gone>>
    BY <1>5 DEF SetOptions, IInv, TypeOK, Engines
  <2>2. QED BY <2>1, QuietGrow
<1>6. ASSUME NEW d \in DBs, NEW t \in Tables, CreateTable(d, t)
      PROVE  GrowInv'
  <2>1. /\ \A e \in DBs : live[e] \subseteq live'[e]
        /\ UNCHANGED <<snap, eng, pc, job, gone>>
    BY <1>6 DEF CreateTable, IInv, TypeOK
  <2>2. QED BY <2>1, QuietGrow
<1>7. ASSUME NEW d \in DBs, NEW t \in Tables, DropTable(d, t)
      PROVE  GrowInv'
  <2>1. /\ \A e \in DBs, u \in Tables : u \in live[e] => u \in live'[e] \/ Gone(e, u)'
        /\ gone \subseteq gone' /\ UNCHANGED <<snap, eng, pc, job>>
    BY <1>7 DEF DropTable, IInv, TypeOK, Gone
  <2>2. QED BY <2>1, QuietGrow
<1>8. CASE UNCHANGED <<live, snap, eng, pc, job, gone>>
  BY <1>8, QuietGrow
<1>9. QED BY <1>1, <1>2, <1>3, <1>4, <1>5, <1>6, <1>7, <1>8
          DEF Next, Callback, Close, vars

\* A full reload fails only on what would make a restart fail, or for a table that
\* was dropped or is in no snapshot: no other entry that earlier reloads added to
\* the configuration is ever in its way.
THEOREM ReloadsLikeRestarts == Spec => []ReloadLikeRestart
<1>1. Init => IInv /\ GrowInv
  BY InitIInv, InitGrow
<1>2. IInv /\ GrowInv /\ [Next]_vars => (IInv /\ GrowInv)'
  BY NextIInv, NextGrow
<1>3. IInv /\ GrowInv => ReloadLikeRestart
  <2> SUFFICES ASSUME IInv, GrowInv, NEW p \in Procs, Discovered(p),
                      ~Sequential(job[p]), ~job[p].failed, ~Succeeds(job[p])
               PROVE  \E d \in FullDbs(job[p].opts) :
                        \/ Missing(UserConf, job[p].found, d)
                        \/ \E t \in Tables :
                             job[p].base.conf[t] = d /\ <<d, t>> \in gone
    BY DEF ReloadLikeRestart
  <2>1. pc[p] = "reload" /\ job[p] \in Jobs /\ job[p].base = eng
    BY DEF Discovered, IInv, TypeOK, Inside, NoLostUpdate
  <2>2. FullDbs(job[p].opts) \in SUBSET DBs /\ job[p].found \in [DBs -> Infos]
    BY <2>1, BuildAssumption DEF Jobs, Options, FullDbs
  <2>3. PICK d \in FullDbs(job[p].opts) : Missing(eng.conf, job[p].found, d)
    BY <2>1 DEF Succeeds, Rebuilt, Sequential, Rejects, JobConf
  <2>4. PICK t \in Tables : eng.conf[t] = d /\ t \notin job[p].found[d]
    BY <2>3 DEF Missing
  <2>5. d \in DBs /\ job[p].found[d] # None /\ t \notin Seen(job[p].found, d)
    BY <2>2, <2>3, <2>4 DEF Missing, Seen
  <2>6. CASE UserConf[t] = d
    BY <2>3, <2>4, <2>6 DEF Missing
  <2>7. CASE UserConf[t] # d
    <3>1. t \in Seen(snap, d) \/ Gone(d, t)
      BY <2>4, <2>5, <2>7 DEF GrowInv, EntriesBacked
    <3>2. Gone(d, t)
      BY <2>1, <2>5, <3>1 DEF GrowInv, SnapshotsKeepUp
    <3>3. QED BY <2>1, <2>4, <3>2 DEF Gone
  <2>8. QED BY <2>6, <2>7
<1>4. QED BY <1>1, <1>2, <1>3, PTL DEF Spec

-----------------------------------------------------------------------------
(* Reloads are atomic: EngineReload implements AtomicEngine, that is, what  *)
(* requests load changes as if every reload ran alone, and every reload     *)
(* gives what AtomicEngine asks of it.                                      *)

\* The instance's copies of EngineBuild's sets are EngineBuild's.
LEMMA SameSets == Atomic!Engines = Engines
BY DEF Atomic!Engines, Engines, Atomic!Confs, Confs, Atomic!Infos, Infos,
       Atomic!Options, Options

LEMMA HasTablesSeen ==
  ASSUME NEW e, NEW d
  PROVE  Atomic!HasTables(e, d) <=> Seen(e.info, d) # {}
BY DEF Atomic!HasTables, Seen

\* An engine that is whole is so for requests.
LEMMA AtomicWhole ==
  ASSUME NEW e \in Engines, Whole(e)
  PROVE  Atomic!Whole(e)
<1>1. e.ready = {d \in e.dbs : Atomic!HasTables(e, d)}
  BY HasTablesSeen DEF Whole, WithTables
<1>2. QED BY <1>1, SameSets DEF Whole, Atomic!Whole

\* What ensureDiscoveredTablesInConfig and addTables make of the databases D that
\* were looked at is what AtomicEngine asks: every table found there has a route,
\* a new route leads to a database with the table, old ones stay and have theirs.
LEMMA RoutesFound ==
  ASSUME NEW conf \in Confs, NEW found \in [DBs -> Infos], NEW D \in SUBSET DBs,
         NEW rank \in {Alpha, DefaultFirst}, NoneMissing(conf, found, D), NEW e,
         e.conf = AddDiscovered(conf, found, D, rank),
         \A d \in D : e.info[d] = found[d]
  PROVE  Atomic!Routes(conf, e, D) /\ Atomic!Backed(conf, e, D)
<1>1. \A d \in D : /\ Seen(e.info, d) = Seen(found, d)
                   /\ Atomic!HasTables(e, d) <=> Seen(found, d) # {}
                   /\ Seen(found, d) # {} => Seen(found, d) = e.info[d]
  BY HasTablesSeen DEF Seen
<1>2. ASSUME NEW t \in Tables, conf[t] # None
      PROVE  e.conf[t] = conf[t]
  BY <1>2 DEF AddDiscovered
<1>3. ASSUME NEW t \in Tables, conf[t] = None, NEW d \in D, t \in Seen(found, d)
      PROVE  e.conf[t] \in D /\ t \in Seen(found, e.conf[t])
  <2> DEFINE owners == {c \in D : t \in Seen(found, c)}
  <2>1. \E c \in owners : \A b \in owners : rank[c] <= rank[b]
    BY <1>3, FirstExists
  <2>2. (CHOOSE c \in owners : \A b \in owners : rank[c] <= rank[b]) \in owners
    BY <2>1
  <2>3. e.conf[t] = CHOOSE c \in owners : \A b \in owners : rank[c] <= rank[b]
    BY <1>3 DEF AddDiscovered
  <2> HIDE DEF owners
  <2>4. e.conf[t] \in owners
    BY <2>2, <2>3
  <2>5. QED BY <2>4 DEF owners
<1>4. ASSUME NEW t \in Tables, conf[t] = None, ~ \E d \in D : t \in Seen(found, d)
      PROVE  e.conf[t] = None
  BY <1>4 DEF AddDiscovered
<1>5. ASSUME NEW t \in Tables
      PROVE  \/ conf[t] # None /\ e.conf[t] = conf[t]
             \/ conf[t] = None /\ e.conf[t] = None
             \/ /\ conf[t] = None /\ e.conf[t] \in D
                /\ Atomic!HasTables(e, e.conf[t]) /\ t \in e.info[e.conf[t]]
  <2>1. CASE conf[t] = None /\ \E d \in D : t \in Seen(found, d)
    <3>1. e.conf[t] \in D /\ t \in Seen(found, e.conf[t])
      BY <1>3, <2>1
    <3>2. QED BY <1>1, <2>1, <3>1
  <2>2. QED BY <1>2, <1>4, <2>1
<1>6. ASSUME NEW d \in D, Atomic!HasTables(e, d), NEW t \in e.info[d]
      PROVE  e.conf[t] # None
  <2>1. t \in Seen(found, d) /\ t \in Tables
    BY <1>1, <1>6 DEF Infos, Seen
  <2>2. CASE conf[t] # None
    BY <1>2, <2>1, <2>2
  <2>3. CASE conf[t] = None
    <3>1. e.conf[t] \in D
      BY <1>3, <2>1, <2>3
    <3>2. QED BY <3>1, BuildAssumption
  <2>4. QED BY <2>2, <2>3
<1>7. Atomic!Routes(conf, e, D)
  BY <1>5, <1>6 DEF Atomic!Routes
<1>8. Atomic!Backed(conf, e, D)
  BY <1>1 DEF Atomic!Backed, NoneMissing, Missing
<1>9. QED BY <1>7, <1>8

\* NewGraphJin publishes what the abstract engine may start as.
LEMMA InitAtomic == Init => Atomic!Init
<1> SUFFICES ASSUME Init PROVE Atomic!Init
  OBVIOUS
<1>1. PICK opts \in OptionSets :
        /\ \A d \in FullDbs(opts) : ~Missing(UserConf, live, d)
        /\ eng = FullEngine(UserConf, FullDbs(opts), opts, live)
  BY DEF Init
<1>2. live \in [DBs -> Infos] /\ FullDbs(opts) \in SUBSET DBs
  BY BuildAssumption, ReloadAssumption DEF Init, Infos, FullDbs, Options
<1>3. eng \in Engines /\ Whole(eng)
  BY InitIInv DEF IInv, TypeOK, EngineWhole, Whole
<1>4. /\ eng.conf = AddDiscovered(UserConf, live, FullDbs(opts), DefaultFirst)
      /\ eng.dbs = FullDbs(opts) /\ eng.opts = opts
      /\ \A d \in FullDbs(opts) : eng.info[d] = live[d]
  BY <1>1, <1>2 DEF FullEngine
<1>5. Atomic!Routes(UserConf, eng, eng.dbs) /\ Atomic!Backed(UserConf, eng, eng.dbs)
  BY <1>1, <1>2, <1>4, UserConfType, RoutesFound DEF NoneMissing
<1>6. QED BY <1>3, <1>4, <1>5, AtomicWhole DEF Atomic!Init, FullDbs

\* A reload that publishes takes one abstract step: its base is the engine it
\* replaces, because no other reload and no SetOptions came in between.
LEMMA PublishAtomic ==
  ASSUME IInv, NEW p \in Procs, Publish(p)
  PROVE  Atomic!Next
<1> DEFINE j == job[p]
           e == NextEngine(j)
<1>1. j \in Jobs /\ WellFormed(j) /\ j.base = eng /\ Succeeds(j) /\ eng' = e
  BY DEF IInv, TypeOK, NoLostUpdate, Publish, Discovered, Inside
<1>2. /\ j.found \in [DBs -> Infos] /\ j.opts \in Options /\ j.names \in SUBSET DBs
      /\ eng \in Engines /\ eng.conf \in Confs /\ eng.dbs \in SUBSET DBs
      /\ eng.info \in [DBs -> Infos]
  BY <1>1 DEF Jobs, IInv, TypeOK, Engines
<1>3. Atomic!Whole(e)
  <2>1. e \in Engines
    BY <1>1, NextEngineType
  <2>2. Whole(e)
    BY <1>1, NextEngineWhole DEF IInv, EngineWhole, Whole
  <2>3. QED BY <2>1, <2>2, AtomicWhole
<1>4. NoneMissing(JobConf(j), j.found, Rebuilt(j))
  BY <1>1, SucceedsChecked
<1> HIDE DEF j, e
<1>5. CASE j.kind = "one"
  <2>1. PICK d \in eng.dbs : j.names = {d}
    BY <1>1, <1>5 DEF WellFormed
  <2>2. e = OneEngine(eng, d, j.found)
    BY <1>1, <1>5, <2>1, NextEngineCases DEF e, Named
  <2>3. /\ e.opts = eng.opts /\ e.dbs = eng.dbs /\ e.linked = eng.linked
        /\ e.conf = AddDiscovered(eng.conf, j.found, {d}, Alpha)
        /\ e.info = [eng.info EXCEPT ![d] = j.found[d]]
    BY <1>2, <2>2 DEF OneEngine, Engines
  <2>4. /\ {d} \in SUBSET DBs /\ NoneMissing(eng.conf, j.found, {d})
        /\ \A c \in {d} : e.info[c] = j.found[c]
    BY <1>1, <1>2, <1>4, <1>5, <2>1, <2>3 DEF Rebuilt, JobConf
  <2>5. Atomic!Routes(eng.conf, e, {d}) /\ Atomic!Backed(eng.conf, e, {d})
    BY <1>2, <2>3, <2>4, RoutesFound
  <2>6. \A c \in e.dbs \ {d} : e.info[c] = eng.info[c]
    BY <1>2, <2>3
  <2>7. Atomic!Looked(eng.conf, e, {d})
    BY <1>3, <2>5, <2>6 DEF Atomic!Looked
  <2>8. Atomic!ReplaceOne
    BY <1>1, <2>3, <2>7 DEF Atomic!ReplaceOne
  <2>9. QED BY <2>8 DEF Atomic!Next
<1>6. CASE j.kind = "conf"
  <2> DEFINE D == ConfReloads(eng, j.opts, j.names)
  <2>1. e = ConfEngine(eng, UserConf, j.opts, j.names, j.found)
    BY <1>1, <1>6, NextEngineCases DEF e
  <2>2. /\ D \subseteq j.opts.conns /\ D \in SUBSET DBs
        /\ j.opts.conns \ (eng.dbs \cap eng.linked) \subseteq D
    BY <1>2 DEF ConfReloads, Options
  <2>3. /\ e.dbs = j.opts.conns /\ e.linked = j.opts.conns /\ e.opts = j.opts
        /\ e.conf = AddDiscovered(UserConf, j.found, D, Alpha)
        /\ \A d \in D : e.info[d] = j.found[d]
        /\ \A d \in e.dbs \ D : e.info[d] = eng.info[d]
    BY <1>2, <2>1, <2>2 DEF ConfEngine, Options
  <2>4. NoneMissing(UserConf, j.found, D) /\ \A d \in D : Seen(j.found, d) # {}
    BY <1>1, <1>4, <1>6 DEF Rebuilt, JobConf, Succeeds, Rejects
  <2> HIDE DEF D
  <2>5. Atomic!Routes(UserConf, e, D) /\ Atomic!Backed(UserConf, e, D)
    BY <1>2, <2>2, <2>3, <2>4, UserConfType, RoutesFound
  <2>6. Atomic!Looked(UserConf, e, D)
    BY <1>3, <2>3, <2>5 DEF Atomic!Looked
  <2>7. \A d \in D : Atomic!HasTables(e, d)
    BY <2>3, <2>4, HasTablesSeen DEF Seen
  <2>8. Atomic!ReplaceConf
    BY <1>1, <2>2, <2>3, <2>6, <2>7 DEF Atomic!ReplaceConf
  <2>9. QED BY <2>8 DEF Atomic!Next
<1>7. CASE j.kind \notin {"one", "conf"}
  <2> DEFINE D == FullDbs(j.opts)
  <2>1. e = FullEngine(eng.conf, j.linked, j.opts, j.found)
    BY <1>1, <1>7, NextEngineCases DEF e
  <2>2. D \in SUBSET DBs
    BY <1>2, BuildAssumption DEF FullDbs, Options
  <2>3. /\ e.dbs = D /\ e.opts = j.opts
        /\ e.conf = AddDiscovered(eng.conf, j.found, D, DefaultFirst)
        /\ \A d \in D : e.info[d] = j.found[d]
    BY <2>1, <2>2 DEF FullEngine
  <2>4. NoneMissing(eng.conf, j.found, D)
    BY <1>1, <1>4, <1>7 DEF Rebuilt, JobConf
  <2>5. j.opts \in {eng.opts, FromCache(eng.opts)}
    BY <1>1, <1>7 DEF WellFormed, Sequential
  <2>6. D = eng.opts.conns \cup {Default}
    BY <1>2, <2>5 DEF FullDbs, FromCache, Engines, Options
  <2> HIDE DEF D
  <2>7. Atomic!Routes(eng.conf, e, D) /\ Atomic!Backed(eng.conf, e, D)
    BY <1>2, <2>2, <2>3, <2>4, RoutesFound
  <2>8. Atomic!Looked(eng.conf, e, D)
    BY <1>3, <2>3, <2>7 DEF Atomic!Looked
  <2>9. Atomic!ReplaceAll
    BY <1>1, <2>3, <2>5, <2>6, <2>8 DEF Atomic!ReplaceAll, FromCache
  <2>10. QED BY <2>9 DEF Atomic!Next
<1>8. QED BY <1>5, <1>6, <1>7

\* Every other step but SetOptions leaves the engine alone.
LEMMA StepAtomic == IInv /\ [Next]_vars => [Atomic!Next]_eng
<1> SUFFICES ASSUME IInv, [Next]_vars PROVE Atomic!Next \/ UNCHANGED eng
  OBVIOUS
<1>1. ASSUME NEW d \in DBs, NEW t \in Tables, CreateTable(d, t) \/ DropTable(d, t)
      PROVE  UNCHANGED eng
  BY <1>1 DEF CreateTable, DropTable
<1>2. ASSUME NEW p \in Callers, Call(p)
      PROVE  UNCHANGED eng
  BY <1>2 DEF Call, Reload, ReloadWithDB, ReloadFromRuntimeSchemaCache,
              ReloadDatabase, ReloadConfigDatabases, Lock
<1>3. ASSUME NEW p \in Procs, Work(p)
      PROVE  Atomic!Next \/ UNCHANGED eng
  <2>1. CASE Discover(p)
    BY <2>1 DEF Discover, CacheHit, CacheRequired, NoConnection, Introspect,
                IntrospectFails, Found, NotFound
  <2>2. CASE Publish(p)
    BY <2>2, PublishAtomic
  <2>3. CASE Fail(p) \/ Fire(p)
    BY <2>3 DEF Fail, Fire
  <2>4. QED BY <1>3, <2>1, <2>2, <2>3 DEF Work
<1>4. ASSUME NEW opts \in OptionSets, SetOptions(opts)
      PROVE  Atomic!Next \/ UNCHANGED eng
  BY <1>4 DEF SetOptions, Atomic!Next, Atomic!SetOptions
<1>5. CASE WatchTick \/ WatchReload \/ WatchSkip \/ WatchStop \/ Close
  BY <1>5 DEF WatchTick, WatchReload, WatchSkip, WatchStop, Close, Lock
<1>6. CASE UNCHANGED vars
  BY <1>6 DEF vars
<1>7. ASSUME NEW d \in DBs, Callback(d)
      PROVE  UNCHANGED eng
  BY <1>7 DEF Callback
<1>8. QED BY <1>1, <1>2, <1>3, <1>4, <1>5, <1>6, <1>7 DEF Next

\* Reloads are atomic: the engine that requests load (g.Load()) only ever goes
\* from one whole engine to one computed from it, whatever overlaps in time.
THEOREM Refinement == Spec => ReloadsAreAtomic
<1>1. Spec => Atomic!Init /\ [][Atomic!Next]_eng
  BY InitAtomic, StepAtomic, Invariance, PTL DEF Spec
<1>2. QED BY <1>1 DEF ReloadsAreAtomic, Atomic!Spec
=============================================================================
