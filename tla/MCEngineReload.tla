--------------------------- MODULE MCEngineReload ---------------------------
(***************************************************************************)
(* Small instances of EngineReload: the default database main and a second *)
(* one, aux, which sorts before it; two tables.                            *)
(***************************************************************************)
EXTENDS EngineReload

CONSTANTS main, aux, users, events

AuxFirst == [d \in DBs |-> IF d = aux THEN 1 ELSE 2]

\* The caller's configuration names no table, or one without its database.
NoTables   == [t \in Tables |-> None]

Live(conns) == [conns |-> conns, first |-> FALSE, required |-> FALSE]

\* Both databases may have the same table, or aux has one more of its own.
Anywhere  == DBs \X Tables
SharedOne == {<<main, users>>, <<aux, users>>, <<aux, events>>}

AuxUsers  == {<<aux, users>>}
AuxEvents == {<<aux, events>>}

\* OptionSetDatabases is not used, or names both databases.
Both     == {Live(DBs)}
OneOrTwo == {Live({}), Live(DBs)}
=============================================================================
