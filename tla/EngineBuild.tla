----------------------------- MODULE EngineBuild -----------------------------
(***************************************************************************)
(* How a GraphJin engine (graphjinEngine) is computed from a configuration,*)
(* the options and what discovery found in each database: newGraphJin,     *)
(* newGraphJinReloadingDatabase, newGraphJinReloadingConfigDatabases and   *)
(* finalizeDatabaseSchema, as operators without state.                     *)
(*                                                                         *)
(* A schema is the set of its table names.  conf.Tables is a function from *)
(* a table name to the database of its entry (what groupRootsByDatabase    *)
(* looks up): None when no entry has the name, Unset when the entry leaves *)
(* its database out (nothing fills it in).                                 *)
(***************************************************************************)
EXTENDS Naturals

CONSTANTS DBs,       \* names of the configured databases
          Tables,    \* names of tables
          Default,   \* the default (primary) database
          Alpha,     \* alphabetical position of each database name
          UserConf,  \* conf.Tables as the caller wrote it
          Unset,     \* the database of an entry that names none
          None

ASSUME BuildAssumption ==
  /\ Default \in DBs
  /\ Alpha \in [DBs -> Nat \ {0}]
  /\ \A d, e \in DBs : Alpha[d] = Alpha[e] => d = e
  /\ \A D \in SUBSET DBs : D # {} => \E d \in D : \A e \in D : Alpha[d] <= Alpha[e]
  /\ UserConf \in [Tables -> DBs \cup {None, Unset}]
  /\ None \notin DBs \cup {Unset}
  /\ Unset \notin DBs
  /\ \A S \in SUBSET Tables : S # None

-----------------------------------------------------------------------------
\* ctx.dbinfo: None while nothing was discovered, else the tables found.
Infos == {None} \cup SUBSET Tables

\* The options that matter here: OptionSetDatabases and the two options of
\* the runtime schema cache.
Options == [conns : SUBSET DBs, first : BOOLEAN, required : BOOLEAN]

Confs == [Tables -> DBs \cup {None, Unset}]

Engines == [conf   : Confs,            \* gj.conf.Tables, derived entries too
            dbs    : SUBSET DBs,       \* keys of gj.databases
            linked : SUBSET DBs,       \* those whose context has a *sql.DB
            info   : [DBs -> Infos],   \* ctx.dbinfo
            ready  : SUBSET DBs,       \* those with ctx.schema # nil
            opts   : Options]

Seen(info, d) == IF info[d] = None THEN {} ELSE info[d]

\* finalizeDatabaseSchema gives a context a schema unless nothing was found.
WithTables(info, D) == {d \in D : Seen(info, d) # {}}

\* sortedDatabaseNames: the default database first, the others by name.
DefaultFirst == [d \in DBs |-> IF d = Default THEN 0 ELSE Alpha[d]]

\* ensureDiscoveredTablesInConfig, for the databases D finalized in the order
\* of rank: a table without an entry gets one for the first that has it.
AddDiscoveredDefaultOnly(conf, info, D, rank) ==
  [t \in Tables |->
     IF conf[t] = None /\ Default \in D /\ t \in Seen(info, Default)
     THEN Default ELSE conf[t]]

AddDiscovered(conf, info, D, rank) ==
  [t \in Tables |->
     LET owners == {d \in D : t \in Seen(info, d)} IN
     IF conf[t] = None /\ owners # {}
     THEN CHOOSE d \in owners : \A e \in owners : rank[d] <= rank[e]
     ELSE conf[t]]

\* addTables fails on an entry of d whose table was not found in d; it is
\* not reached for a database without tables.
MissingAny(conf, info, d) ==
  Seen(info, d) # {} /\ \E t \in Tables : conf[t] # None /\ t \notin info[d]

Missing(conf, info, d) ==
  Seen(info, d) # {} /\ \E t \in Tables : conf[t] = d /\ t \notin info[d]

-----------------------------------------------------------------------------
\* newGraphJin with the derived configuration of the engine it replaces: the
\* contexts are the default one and those of OptionSetDatabases.
FullDbs(opts) == opts.conns \cup {Default}

FullEngine(conf, linked, opts, found) ==
  [conf   |-> AddDiscovered(conf, found, FullDbs(opts), DefaultFirst),
   dbs    |-> FullDbs(opts),
   linked |-> linked,
   info   |-> [d \in DBs |-> IF d \in FullDbs(opts) THEN found[d] ELSE None],
   ready  |-> WithTables(found, FullDbs(opts)),
   opts   |-> opts]

\* newGraphJinReloadingDatabase: one context rebuilt, the others cloned.
OneEngineKeepsSchema(base, d, found) ==
  [base EXCEPT !.conf  = AddDiscovered(base.conf, found, {d}, Alpha),
               !.info  = [@ EXCEPT ![d] = found[d]],
               !.ready = @ \cup WithTables(found, {d})]

OneEngine(base, d, found) ==
  [base EXCEPT !.conf  = AddDiscovered(base.conf, found, {d}, Alpha),
               !.info  = [@ EXCEPT ![d] = found[d]],
               !.ready = (@ \ {d}) \cup WithTables(found, {d})]

\* newGraphJinReloadingConfigDatabases: the contexts are those the options
\* set, and no other.  One is rebuilt when its name is in reloadSet (the caller
\* gave it, or its configuration or its pool is not the base's), when the base has
\* no such context, or has one without the *sql.DB the options bring; else cloned.
ConfReloads(base, opts, names) ==
  opts.conns \cap (names \cup (DBs \ base.dbs) \cup (DBs \ base.linked))

ConfEngine(base, conf, opts, names, found) ==
  LET rebuilt == ConfReloads(base, opts, names) IN
  [conf   |-> AddDiscovered(conf, found, rebuilt, Alpha),
   dbs    |-> opts.conns,
   linked |-> opts.conns,
   info   |-> [d \in DBs |-> IF d \in rebuilt THEN found[d]
                             ELSE IF d \in opts.conns THEN base.info[d]
                             ELSE None],
   ready  |-> rebuilt \cup (opts.conns \cap base.ready),
   opts   |-> opts]
=============================================================================
