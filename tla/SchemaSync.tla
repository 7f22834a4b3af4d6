----------------------------- MODULE SchemaSync -----------------------------
(* Bringing databases in line with a schema file (core/schema/diff.go, ddl.go, *)
(* generate.go; graphql/schema.go reads the file). The library compares and    *)
(* renders statements; whoever calls it executes them, one by one, and starts  *)
(* over when one is refused. Several callers may do so at once.                *)
(*                                                                             *)
(* A database is                                                               *)
(*   tables   name -> sequence of [name, pk, notnull]                          *)
(*   fks      set of [table, col, ref, refcol]                                 *)
(*   indexes  set of [table, col, kind], kind "unique", "search" or "plain"    *)
(* and a DBInfo, by table name as discovered, or a sequence as read from the   *)
(* file, has                                                                   *)
(*   [name, database, cols: sequence of                                        *)
(*      [name, pk, notnull, uniq, search, index, fk]]                          *)
(* where fk is None or [table, col]. The file is a function from database and  *)
(* table to a type: in which order types come is lost when it is read. Types   *)
(* of columns, defaults and schemas are left out.                              *)
EXTENDS Integers, SequencesExt

CONSTANTS
  None, Runners,
  Cases,      \* [source, live: database name -> database, driver, destructive, multi, marks, unassigned]
  MaxCrashes

ASSUME BoundAssumption == MaxCrashes \in Nat

Elems(s) == {s[i] : i \in DOMAIN s}
Names(s) == {s[i].name : i \in DOMAIN s}

\* A database has finitely many tables, each with a list of columns; its keys
\* and indexes are on columns it has.
IsList(s) == s \in Seq(Elems(s))
IsDatabase(db) ==
  /\ db = [tables |-> db.tables, fks |-> db.fks, indexes |-> db.indexes]
  /\ db.tables = [t \in DOMAIN db.tables |-> db.tables[t]]
  /\ IsFiniteSet(DOMAIN db.tables)
  /\ \A t \in DOMAIN db.tables : IsList(db.tables[t])

HasColumn(db, t, c) == t \in DOMAIN db.tables /\ c \in Names(db.tables[t])
OnOwnColumns(db) ==
  /\ \A f \in db.fks : HasColumn(db, f.table, f.col)
  /\ \A x \in db.indexes : HasColumn(db, x.table, x.col)

\* The sources are the databases to sync; SchemaDiff takes one of them.
ASSUME CaseAssumption ==
  \A c \in Cases :
    /\ c.live = [d \in DOMAIN c.live |-> c.live[d]]
    /\ IsFiniteSet(DOMAIN c.live) /\ "" \notin DOMAIN c.live
    /\ DOMAIN c.source = DOMAIN c.live
    /\ ~c.multi => \E d \in DOMAIN c.live : DOMAIN c.live = {d}
    /\ \A d \in DOMAIN c.live :
         IsDatabase(c.live[d]) /\ IsDatabase(c.source[d]) /\ OnOwnColumns(c.source[d])
    /\ c.destructive \in BOOLEAN

VARIABLES case, file, live, pc, script, crashes, lost, refused
vars == <<case, file, live, pc, script, crashes, lost, refused>>

Databases == DOMAIN case.live
Orders(S) == {f \in [1..Cardinality(S) -> S] : Elems(f) = S}

-----------------------------------------------------------------------------
(* Discovery and the schema file.                                          *)

KeyOf(db, t, c) ==
  LET fks == {f \in db.fks : f.table = t /\ f.col = c}
  IN IF fks = {} THEN None
     ELSE LET f == CHOOSE x \in fks : TRUE IN [table |-> f.ref, col |-> f.refcol]

Unique(db, t, c) == [table |-> t, col |-> c, kind |-> "unique"] \in db.indexes

\* What a database is found to have. Indexes are not discovered.
GetDBInfo(db) ==
  [t \in DOMAIN db.tables |->
     [name |-> t, database |-> "",
      cols |-> [j \in DOMAIN db.tables[t] |->
                  LET c == db.tables[t][j]
                  IN [name |-> c.name, pk |-> c.pk, notnull |-> c.notnull,
                      uniq |-> c.pk \/ Unique(db, t, c.name),
                      search |-> FALSE, index |-> FALSE, fk |-> KeyOf(db, t, c.name)]]]]

\* Variant: unique columns are not marked in the file.
WriteSchemaUnmarked(info) ==
  [i \in DOMAIN info |->
     [type |-> info[i].name, database |-> info[i].database,
      fields |-> [j \in DOMAIN info[i].cols |->
        LET c == info[i].cols[j]
        IN [name |-> c.name, required |-> c.notnull, relation |-> c.fk,
            marks |-> {m \in {"id"} : c.pk} \cup {m \in {"search"} : c.search}]]]]

\* The file a database is saved to: the mark of a plain index is not written.
WriteSchema(info) ==
  [i \in DOMAIN info |->
     [type |-> info[i].name, database |-> info[i].database,
      fields |-> [j \in DOMAIN info[i].cols |->
        LET c == info[i].cols[j]
        IN [name |-> c.name, required |-> c.notnull, relation |-> c.fk,
            marks |-> {m \in {"id"} : c.pk} \cup {m \in {"unique"} : c.uniq}
                        \cup {m \in {"search"} : c.search}]]]]

\* And the file read again. Tables come out in the order of a Go map.
ParseFieldDirectives(f) ==
  [id |-> "id" \in f.marks, unique |-> "unique" \in f.marks, search |-> "search" \in f.marks,
   index |-> "index" \in f.marks, related |-> f.relation]

ParseColumns(type) ==
  [j \in DOMAIN type.fields |->
     LET f == type.fields[j]
         dir == ParseFieldDirectives(f)
     IN [name |-> f.name, pk |-> dir.id, notnull |-> f.required, uniq |-> dir.unique,
         search |-> dir.search, index |-> dir.index, fk |-> dir.related]]

ParseSchema(types, order) ==
  [i \in DOMAIN order |->
     LET t == types[order[i]]
     IN [name |-> t.type, database |-> t.database, cols |-> ParseColumns(t)]]

\* The file of a case: the sources saved, and then edited by hand: directives
\* @index and @search, and @database where there are several databases.
Edited(c, db, saved) ==
  LET marks(t, f) == {m.mark : m \in {n \in c.marks : n.table = t.type /\ n.col = f.name}}
      fields(t) == [j \in DOMAIN t.fields |->
                      [t.fields[j] EXCEPT !.marks = @ \cup marks(t, t.fields[j])]]
  IN [i \in DOMAIN saved |->
        [saved[i] EXCEPT !.database = IF c.multi /\ saved[i].type \notin c.unassigned THEN db ELSE "", !.fields = fields(saved[i])]]

FileOf(c) ==
  LET saved(db) == Edited(c, db, WriteSchema(GetDBInfo(c.source[db])))
  IN [x \in UNION {{db} \X DOMAIN c.source[db].tables : db \in DOMAIN c.source} |->
        saved(x[1])[x[2]]]

-----------------------------------------------------------------------------
(* Statements.                                                             *)

Statement(op, db, t, c) == [op |-> op, db |-> db, table |-> t, col |-> c]
CreateTable(db, t) == Statement("create_table", db, t.name, t.cols)
AddColumn(db, t, c) == Statement("add_column", db, t, c)
DropColumn(db, t, c) == Statement("drop_column", db, t, c)
DropTable(db, t) == Statement("drop_table", db, t, None)

\* SQLite cannot add a foreign key to a table, and its search index needs a
\* table of its own: no statement.
AddForeignKey(db, t, c) ==
  IF case.driver = "sqlite" \/ c.fk = None THEN <<>>
  ELSE <<Statement("add_constraint", db, t, c)>>

AddIndex(db, t, c, kind) ==
  [op |-> "add_index", db |-> db, table |-> t, col |-> c.name, kind |-> kind]

CreateIndexes(db, t, c) ==
  (IF c.search /\ case.driver # "sqlite" THEN <<AddIndex(db, t, c, "search")>> ELSE <<>>)
    \o (IF c.uniq /\ ~c.pk THEN <<AddIndex(db, t, c, "unique")>> ELSE <<>>)
    \o (IF c.index THEN <<AddIndex(db, t, c, "plain")>> ELSE <<>>)

-----------------------------------------------------------------------------
(* Tables in the order of their foreign keys.                              *)

\* A table waits for those it refers to, itself excepted.
Waits(t, done) ==
  \E j \in DOMAIN t.cols : t.cols[j].fk # None /\ t.cols[j].fk.table \notin done \cup {t.name}

\* Variant: the order of the file.
FileOrder(tables) == {tables}

\* Kahn's algorithm: those that wait for no table are queued in their order, and
\* the tables that a table was the last to hold back join the queue in the order
\* of a Go map. When some table waits for ever, as for one that is not in the
\* file, or for each other, all keep the order they have.
Ready(tables, done) == {t \in Elems(tables) : ~Waits(t, done)}

InOrder(q, tables) ==
  \A j \in DOMAIN q : \A i \in 1..(j - 1) :
    \E b \in DOMAIN tables : \E a \in 1..(b - 1) : q[i] = tables[a] /\ q[j] = tables[b]

Started(tables) ==
  {[queue |-> q, sorted |-> <<>>] : q \in {o \in Orders(Ready(tables, {})) : InOrder(o, tables)}}

Freed(tables, s) ==
  Ready(tables, Names(s.sorted) \cup {Head(s.queue).name}) \ Ready(tables, Names(s.sorted))

TakeNext(tables, s) ==
  IF s.queue = <<>> THEN {s}
  ELSE {[queue |-> Tail(s.queue) \o next, sorted |-> Append(s.sorted, Head(s.queue))] :
          next \in Orders(Freed(tables, s))}

SortTablesByDependency(tables) ==
  LET sorts[k \in 0..Len(tables)] ==
        IF k = 0 THEN Started(tables) ELSE UNION {TakeNext(tables, s) : s \in sorts[k - 1]}
  IN {IF Len(s.sorted) = Len(tables) THEN s.sorted ELSE tables : s \in sorts[Len(tables)]}

-----------------------------------------------------------------------------
(* The difference.                                                         *)

\* The sequences of a sequence, one after the other.
Concat(ss) ==
  LET n == Cardinality(DOMAIN ss)
      upto[i \in 0..n] == IF i = 0 THEN <<>> ELSE upto[i - 1] \o ss[i]
  IN upto[n]

\* Variant: dropped whatever the options are.
ExtraTablesAlways(db, expected, names) ==
  Concat([i \in DOMAIN names |->
            IF names[i] \in Names(expected) THEN <<>> ELSE <<DropTable(db, names[i])>>])

ExtraTables(db, expected, names) ==
  IF ~case.destructive THEN <<>>
  ELSE Concat([i \in DOMAIN names |->
                 IF names[i] \in Names(expected) THEN <<>> ELSE <<DropTable(db, names[i])>>])

ExtraColumns(db, t, cols) ==
  IF ~case.destructive THEN <<>>
  ELSE Concat([i \in DOMAIN cols |->
                 IF cols[i].name \in Names(t.cols) THEN <<>>
                 ELSE <<DropColumn(db, t.name, cols[i].name)>>])

NewColumn(db, t, c) ==
  <<AddColumn(db, t.name, c)>> \o AddForeignKey(db, t.name, c) \o CreateIndexes(db, t.name, c)

NewColumns(db, t, cols) ==
  Concat([i \in DOMAIN t.cols |->
            IF t.cols[i].name \in Names(cols) THEN <<>> ELSE NewColumn(db, t, t.cols[i])])

NewTable(db, t) ==
  <<CreateTable(db, t)>> \o Concat([i \in DOMAIN t.cols |-> CreateIndexes(db, t.name, t.cols[i])])

\* Tables to create with their indexes, columns to add with keys and indexes,
\* and, if asked for, columns and tables to drop. What is there on both sides is
\* not compared.
ComputeDiff(db, current, expected, sorted, names) ==
  Concat([i \in DOMAIN sorted |->
            IF sorted[i].name \in DOMAIN current THEN <<>> ELSE NewTable(db, sorted[i])])
    \o Concat([i \in DOMAIN expected |->
                 IF expected[i].name \notin DOMAIN current THEN <<>>
                 ELSE NewColumns(db, expected[i], current[expected[i].name].cols)
                        \o ExtraColumns(db, expected[i], current[expected[i].name].cols)])
    \o ExtraTables(db, expected, names)

\* The tables of the file that belong to a database.
ExpectedOf(db) == {x \in DOMAIN file : file[x].database = IF case.multi THEN db ELSE ""}

\* The statements for one database, in every order that maps can give.
SchemaDiff(db) ==
  UNION {{ComputeDiff(db, GetDBInfo(live[db]), expected, sorted, dropped) :
            sorted \in SortTablesByDependency(expected),
            dropped \in Orders(DOMAIN live[db].tables)} :
         expected \in {ParseSchema(file, order) : order \in Orders(ExpectedOf(db))}}

\* Of several databases, each table has to name its own.
Unassigned == case.multi /\ \E x \in DOMAIN file : file[x].database = ""

\* For several databases, one after the other: those that the file says nothing
\* of are left alone.
SchemaDiffMultiDB ==
  LET named == {db \in Databases : ~case.multi \/ \E x \in DOMAIN file : file[x].database = db}
      diffs == [db \in named |-> SchemaDiff(db)]
      picks == {p \in [named -> UNION {diffs[db] : db \in named}] :
                  \A db \in named : p[db] \in diffs[db]}
  IN {Concat([i \in DOMAIN order |-> p[order[i]]]) : order \in Orders(named), p \in picks}

-----------------------------------------------------------------------------
(* What the databases make of a statement.                                 *)

IsPrimary(db, t, c) == \E i \in DOMAIN db.tables[t] : db.tables[t][i].name = c /\ db.tables[t][i].pk
CanRefer(db, t, c) == HasColumn(db, t, c) /\ (IsPrimary(db, t, c) \/ Unique(db, t, c))
Primaries(cols) == {j \in DOMAIN cols : cols[j].pk}
Keyed(cols) == {cols[j] : j \in {k \in DOMAIN cols : cols[k].fk # None}}
FkOf(t, c) == [table |-> t, col |-> c.name, ref |-> c.fk.table, refcol |-> c.fk.col]
IndexOf(s) == [table |-> s.table, col |-> s.col, kind |-> s.kind]

Accepts(db, s) ==
  CASE s.op = "create_table" ->
         /\ s.table \notin DOMAIN db.tables /\ Cardinality(Primaries(s.col)) <= 1
         /\ \A c \in Keyed(s.col) :
              \/ case.driver = "sqlite"
              \/ c.fk.table = s.table /\ \E j \in Primaries(s.col) : s.col[j].name = c.fk.col
              \/ c.fk.table # s.table /\ CanRefer(db, c.fk.table, c.fk.col)
    [] s.op = "add_column" -> s.table \in DOMAIN db.tables /\ ~HasColumn(db, s.table, s.col.name)
    [] s.op = "add_constraint" ->
         /\ HasColumn(db, s.table, s.col.name) /\ KeyOf(db, s.table, s.col.name) = None
         /\ CanRefer(db, s.col.fk.table, s.col.fk.col)
    [] s.op = "add_index" -> HasColumn(db, s.table, s.col) /\ IndexOf(s) \notin db.indexes
    [] s.op = "drop_column" ->
         /\ HasColumn(db, s.table, s.col)
         /\ ~\E f \in db.fks : f.ref = s.table /\ f.refcol = s.col
         /\ case.driver = "sqlite" =>
              /\ ~IsPrimary(db, s.table, s.col) /\ KeyOf(db, s.table, s.col) = None
              /\ ~\E x \in db.indexes : x.table = s.table /\ x.col = s.col
    [] s.op = "drop_table" ->
         /\ s.table \in DOMAIN db.tables
         /\ ~\E f \in db.fks : f.ref = s.table /\ f.table # s.table

Stored(c) == [name |-> c.name, pk |-> c.pk, notnull |-> c.notnull]
On(x, t, c) == x.table = t /\ x.col = c
ColumnAt(cols, c) == CHOOSE i \in DOMAIN cols : cols[i].name = c

Apply(db, s) ==
  CASE s.op = "create_table" ->
         [db EXCEPT !.tables = [t \in DOMAIN @ \cup {s.table} |->
                                  IF t = s.table THEN [j \in DOMAIN s.col |-> Stored(s.col[j])]
                                  ELSE db.tables[t]],
                    !.fks = @ \cup {FkOf(s.table, c) : c \in Keyed(s.col)}]
    [] s.op = "add_column" ->
         [db EXCEPT !.tables[s.table] = Append(@, [Stored(s.col) EXCEPT !.pk = FALSE])]
    [] s.op = "add_constraint" -> [db EXCEPT !.fks = @ \cup {FkOf(s.table, s.col)}]
    [] s.op = "add_index" -> [db EXCEPT !.indexes = @ \cup {IndexOf(s)}]
    [] s.op = "drop_column" ->
         [db EXCEPT !.tables[s.table] = RemoveAt(@, ColumnAt(@, s.col)),
                    !.fks = {f \in @ : ~On(f, s.table, s.col)},
                    !.indexes = {x \in @ : ~On(x, s.table, s.col)}]
    [] s.op = "drop_table" ->
         [db EXCEPT !.tables = [t \in DOMAIN @ \ {s.table} |-> db.tables[t]],
                    !.fks = {f \in @ : f.table # s.table},
                    !.indexes = {x \in @ : x.table # s.table}]

\* Another caller has done already what a statement asks for.
Done(db, s) ==
  CASE s.op = "create_table" -> s.table \in DOMAIN db.tables
    [] s.op = "add_column" -> HasColumn(db, s.table, s.col.name)
    [] s.op = "add_constraint" -> KeyOf(db, s.table, s.col.name) # None
    [] s.op = "add_index" -> IndexOf(s) \in db.indexes
    [] s.op = "drop_column" -> ~HasColumn(db, s.table, s.col)
    [] s.op = "drop_table" -> s.table \notin DOMAIN db.tables

-----------------------------------------------------------------------------
(* The callers.                                                            *)

Init ==
  /\ case \in Cases /\ file = FileOf(case) /\ live = case.live
  /\ pc = [r \in Runners |-> "compare"] /\ script = [r \in Runners |-> <<>>]
  /\ crashes = 0 /\ lost = {} /\ refused = {}

Compare(r) ==
  /\ pc[r] = "compare"
  /\ IF Unassigned
     THEN pc' = [pc EXCEPT ![r] = "failed"] /\ UNCHANGED script
     ELSE /\ pc' = [pc EXCEPT ![r] = "execute"]
          /\ \E s \in SchemaDiffMultiDB : script' = [script EXCEPT ![r] = s]
  /\ UNCHANGED <<case, file, live, crashes, lost, refused>>

Execute(r) ==
  /\ pc[r] = "execute" /\ script[r] # <<>>
  /\ LET s == Head(script[r])
     IN Accepts(live[s.db], s) /\ live' = [live EXCEPT ![s.db] = Apply(@, s)]
  /\ script' = [script EXCEPT ![r] = Tail(@)]
  /\ UNCHANGED <<case, file, pc, crashes, lost, refused>>

\* Keys and indexes that the statements ahead would have added to what has just
\* been made.
Pending(s) ==
  LET n == CHOOSE k \in 0..Len(s) :
             /\ \A i \in 1..k : s[i].op \in {"add_index", "add_constraint"}
             /\ k < Len(s) => s[k + 1].op \notin {"add_index", "add_constraint"}
  IN {s[i] : i \in 1..n}

\* The databases refuse a statement: the caller starts over.
Refused(r) ==
  /\ pc[r] = "execute" /\ script[r] # <<>>
  /\ LET s == Head(script[r])
         done == Done(live[s.db], s)
     IN /\ ~Accepts(live[s.db], s) /\ refused' = refused \cup {<<s, done>>}
        /\ lost' = IF done THEN lost ELSE lost \cup Pending(script[r])
  /\ script' = [script EXCEPT ![r] = <<>>] /\ pc' = [pc EXCEPT ![r] = "compare"]
  /\ UNCHANGED <<case, file, live, crashes>>

Finish(r) ==
  /\ pc[r] = "execute" /\ script[r] = <<>>
  /\ pc' = [pc EXCEPT ![r] = "done"]
  /\ UNCHANGED <<case, file, live, script, crashes, lost, refused>>

\* A caller dies and is started again.
Crash(r) ==
  /\ pc[r] = "execute" /\ script[r] # <<>> /\ crashes < MaxCrashes
  /\ crashes' = crashes + 1 /\ lost' = lost \cup Pending(script[r])
  /\ script' = [script EXCEPT ![r] = <<>>] /\ pc' = [pc EXCEPT ![r] = "compare"]
  /\ UNCHANGED <<case, file, live, refused>>

Next == \E r \in Runners : Compare(r) \/ Execute(r) \/ Refused(r) \/ Finish(r) \/ Crash(r)

Spec == Init /\ [][Next]_vars
FairSpec ==
  Spec /\ \A r \in Runners : WF_vars(Compare(r) \/ Execute(r) \/ Refused(r) \/ Finish(r))

-----------------------------------------------------------------------------
(* Properties.                                                             *)

ColumnSet(db) == UNION {{<<t, c>> : c \in Elems(db.tables[t])} : t \in DOMAIN db.tables}
LostKeys(d) == {FkOf(s.table, s.col) : s \in {x \in lost : x.db = d /\ x.op = "add_constraint"}}
LostIndexes(d) == {IndexOf(s) : s \in {x \in lost : x.db = d /\ x.op = "add_index"}}

\* What the code cannot bring about. Only columns that were missing get keys and
\* indexes; SQLite cannot add a key, and no added column is a primary key.
Missing(d, x) == ~HasColumn(case.live[d], x.table, x.col)
There(d, t) == t \in DOMAIN case.live[d].tables
Goes(d, t, c) == HasColumn(case.live[d], t, c) /\ ~HasColumn(case.source[d], t, c)

\* The columns, keys and indexes that a database is to have: those it lacked, and
\* its own where the source has one too.
WantedColumns(d) ==
  {x \in ColumnSet(case.live[d]) : HasColumn(case.source[d], x[1], x[2].name)}
    \cup {<<x[1], IF There(d, x[1]) THEN [x[2] EXCEPT !.pk = FALSE] ELSE x[2]>> :
            x \in {y \in ColumnSet(case.source[d]) : ~HasColumn(case.live[d], y[1], y[2].name)}}
WantedKeys(d) ==
  (case.source[d].fks \cap case.live[d].fks)
    \cup {f \in case.source[d].fks :
            Missing(d, f) /\ ~(case.driver = "sqlite" /\ There(d, f.table))}
WantedIndexes(d) ==
  (case.source[d].indexes \cap case.live[d].indexes) \cup {x \in case.source[d].indexes : Missing(d, x)}

\* A table there that a key refers to before the column is there, or unique:
\* tables are made before columns are added (diff.go:225, :273), and columns
\* table by table in the order of a map (diff.go:285).
Early(d, t, c) == There(d, t) /\ ~CanRefer(case.live[d], t, c)

\* A new table that is never made: it has such a key, or one to a column of its
\* own that no index makes unique yet, or two primary keys, each column marking
\* its own (ddl.go:182).
NeverMade(d, t) ==
  \/ Cardinality(Primaries(case.source[d].tables[t])) > 1
  \/ /\ case.driver # "sqlite"
     /\ \E f \in {x \in case.source[d].fks : x.table = t} :
          IF f.ref = t THEN ~IsPrimary(case.source[d], t, f.refcol) ELSE Early(d, f.ref, f.refcol)

\* Something to drop that a key refers to which may come later or stay: tables
\* are dropped in the order of a map, and after columns (diff.go:344, :389).
HeldByKey(d, f) ==
  /\ Goes(d, f.ref, f.refcol)
  /\ ~(f.ref \notin DOMAIN case.source[d].tables
       /\ f.table # f.ref => f.table \in DOMAIN case.source[d].tables /\ Goes(d, f.table, f.col))

\* And SQLite drops no column that has a key or an index.
Held(d) ==
  /\ case.destructive
  /\ \/ \E f \in case.live[d].fks : HeldByKey(d, f)
     \/ /\ case.driver = "sqlite"
        /\ \E x \in case.live[d].fks \cup case.live[d].indexes :
             Goes(d, x.table, x.col) /\ x.table \in DOMAIN case.source[d].tables

\* Tables that refer to each other in a circle keep the order of a map
\* (diff.go:190), and only SQLite makes keys to tables that are not there.
Circular(d) ==
  /\ case.driver # "sqlite"
  /\ \E S \in SUBSET DOMAIN case.source[d].tables \ {{}} :
       \A t \in S : \E f \in case.source[d].fks : f.table = t /\ f.ref \in S \ {t}

Stuck ==
  \E d \in Databases :
    \/ Held(d) \/ Circular(d)
    \/ \E t \in DOMAIN case.source[d].tables : ~There(d, t) /\ NeverMade(d, t)

\* A database has what it is to have, but for keys and indexes of the one table
\* or column a caller was at that died or was refused too early; with the
\* destructive option it has nothing else.
Copies(d) ==
  /\ IF case.destructive THEN ColumnSet(live[d]) = WantedColumns(d)
     ELSE WantedColumns(d) \subseteq ColumnSet(live[d])
  /\ WantedKeys(d) \ LostKeys(d) \subseteq live[d].fks
  /\ WantedIndexes(d) \ LostIndexes(d) \subseteq live[d].indexes

\* In the end every caller is done and each database is a copy of its source,
\* whoever else does the same at the same time. SchemaDiff claims "the SQL
\* statements needed to sync the database with the schema file" (diff.go:31);
\* what it does not give is left out of WantedKeys and WantedIndexes, a key it
\* gives too early is refused once and never tried again (LostKeys), and where
\* it gives a statement that is always or may always be refused (Stuck), nothing
\* is said.
Copied ==
  Stuck \/
  <>[](IF Unassigned THEN \A r \in Runners : pc[r] = "failed"
       ELSE (\A d \in Databases : Copies(d)) /\ \A r \in Runners : pc[r] = "done")

\* A statement that comes before what it needs, or after what it must precede.
Misplaced(s) ==
  CASE s.op = "create_table" -> NeverMade(s.db, s.table) \/ Circular(s.db)
    [] s.op = "add_constraint" -> Early(s.db, s.col.fk.table, s.col.fk.col)
    [] s.op \in {"drop_column", "drop_table"} -> Held(s.db)
    [] OTHER -> FALSE

\* Statements come in an order the databases accept (sortTablesByDependency,
\* diff.go:131): one is refused only when another caller was faster, unless it is
\* among those that diff.go:225-404 do not order.
RefusedOnlyIfDone == \A x \in refused : x[2] \/ Misplaced(x[1])

DropsExtras(old, new, wanted) ==
  /\ old \ new # {} => case.destructive
  /\ (old \ new) \cap wanted = {}

\* No step takes a column, a key or an index away that the source has, and none
\* takes anything away unless it was asked for (DiffOptions, diff.go:14).
OnlyExtrasDropped ==
  [][\A d \in Databases :
       /\ DropsExtras(ColumnSet(live[d]), ColumnSet(live'[d]), ColumnSet(case.source[d]))
       /\ DropsExtras(live[d].fks, live'[d].fks, case.source[d].fks)
       /\ DropsExtras(live[d].indexes, live'[d].indexes, case.source[d].indexes)]_vars
=============================================================================
