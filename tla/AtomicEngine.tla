---------------------------- MODULE AtomicEngine ----------------------------
(***************************************************************************)
(* What GraphJin promises of the engine its requests load, without saying   *)
(* how it is computed: it changes only in one step at a time, and what a    *)
(* step does not look at anew is as it was in the engine IT REPLACES: the   *)
(* options, the schemas of the other databases, the routes found earlier.   *)
(* Every engine is whole, and every table of a database that was looked at  *)
(* can be asked for.  Reloads that overlap in time look as if they had run  *)
(* one after the other.                                                     *)
(***************************************************************************)
EXTENDS EngineBuild

CONSTANT OptionSets  \* what OptionSetDatabases and SetOptions are given

VARIABLE eng         \* the engine in GraphJin's atomic.Value

-----------------------------------------------------------------------------
HasTables(e, d) == e.info[d] \notin {None, {}}

\* Exactly the databases with tables answer; others do not exist.
Whole(e) ==
  /\ e \in Engines
  /\ e.ready = {d \in e.dbs : HasTables(e, d)}
  /\ \A d \in DBs \ e.dbs : e.info[d] = None

\* Routes of conf stay; a new one leads to a database of D that has the table,
\* and after it every table of D has one.
Routes(conf, e, D) ==
  /\ \A t \in Tables :
       \/ conf[t] # None /\ e.conf[t] = conf[t]
       \/ conf[t] = None /\ e.conf[t] = None
       \/ conf[t] = None /\ e.conf[t] \in D /\ HasTables(e, e.conf[t]) /\ t \in e.info[e.conf[t]]
  /\ \A d \in D : HasTables(e, d) => \A t \in e.info[d] : e.conf[t] # None

\* None of D lacks a table that conf says it has, unless it is empty.
Backed(conf, e, D) ==
  \A t \in Tables : conf[t] \in D /\ HasTables(e, conf[t]) => t \in e.info[conf[t]]

\* The databases D of e have been looked at; those kept are the present ones.
Looked(conf, e, D) ==
  /\ Whole(e) /\ Routes(conf, e, D) /\ Backed(conf, e, D)
  /\ \A d \in e.dbs \ D : e.info[d] = eng.info[d]

-----------------------------------------------------------------------------
\* The first engine, of NewGraphJin: everything has been looked at once.
Init ==
  /\ eng.opts \in OptionSets
  /\ eng.dbs = eng.opts.conns \cup {Default}
  /\ Whole(eng) /\ Routes(UserConf, eng, eng.dbs) /\ Backed(UserConf, eng, eng.dbs)

\* Everything is looked at again; the options stay, but for the two that say
\* that the runtime schema cache comes first and is required.
ReplaceAll ==
  /\ eng'.opts \in {eng.opts, [eng.opts EXCEPT !.first = TRUE, !.required = TRUE]}
  /\ eng'.dbs = eng.opts.conns \cup {Default}
  /\ Looked(eng.conf, eng', eng'.dbs)

\* One database is looked at again; nothing else changes.
ReplaceOne ==
  \E d \in eng.dbs :
    /\ eng'.opts = eng.opts /\ eng'.dbs = eng.dbs /\ eng'.linked = eng.linked
    /\ Looked(eng.conf, eng', {d})

\* The caller gives options and a configuration of his own: databases new to the
\* engine are looked at, others may be.  The routes start from that configuration,
\* so that tables of the databases kept lose those found earlier.
ReplaceConf ==
  \E D \in SUBSET DBs :
    /\ eng'.dbs = eng'.opts.conns /\ eng'.linked = eng'.dbs
    /\ eng'.dbs \ (eng.dbs \cap eng.linked) \subseteq D
    /\ D \subseteq eng'.dbs
    /\ Looked(UserConf, eng', D)
    /\ \A d \in D : HasTables(eng', d)

SetOptions == \E opts \in OptionSets : eng' = [eng EXCEPT !.opts = opts]

\* A step that is not a stutter is one of these.
Next == SetOptions \/ ReplaceOne \/ ReplaceConf \/ ReplaceAll

Spec == Init /\ [][Next]_eng
=============================================================================
