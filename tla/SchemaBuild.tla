----------------------------- MODULE SchemaBuild -----------------------------
(* The life of one database's schema: discovery with retries (GetDBInfo), the  *)
(* configuration laid over it and the graph built from it                      *)
(* (finalizeDatabaseSchema, NewDBSchemaWithConfig), questions about join       *)
(* paths, and a restart from the snapshot of what was discovered.              *)
EXTENDS Introspection

CONSTANTS Cases,     \* [cat: a catalog, conf: a configuration, blocked: names of tables and
                     \* columns to hide, allowed: schemas to show, {} for all]
          Attempts,  \* len(retryDelays)
          MaxAsks,   \* bound: questions per graph
          Hints      \* bound: what a question may name to go through

VARIABLES
  case, phase,
  tries, todo, cmap,      \* discovery: attempts made, rows left, columns
  info, kept, origin,     \* DBInfo; which of the optional queries succeeded; where info is from
  waiting, build, at, columns,  \* tables without node; graph; table and columns at hand
  first,                  \* the relations of the graph built before the restart
  cache, asked            \* path cache; questions with their answers

vars == <<case, phase, tries, todo, cmap, info, kept, origin, waiting, build, at, columns,
          first, cache, asked>>

graph == build.graph
Built == phase = "ready"
NewBuild == [graph |-> EmptyGraph, done |-> NoCols]

Init ==
  /\ case \in Cases
  /\ phase = "discover" /\ tries = 1 /\ todo = Rows(case.cat) /\ cmap = NoCols
  /\ info = None /\ kept = [composite |-> TRUE, uniques |-> TRUE] /\ origin = None
  /\ waiting = {} /\ build = NewBuild /\ at = 0 /\ columns = {}
  /\ first = None /\ cache = NoCols /\ asked = <<>>

-----------------------------------------------------------------------------
(* Discovery.                                                              *)

\* A query fails with an error that is worth another attempt.
Retry ==
  /\ phase = "discover" /\ tries < Attempts
  /\ tries' = tries + 1 /\ todo' = Rows(case.cat) /\ cmap' = NoCols
  /\ UNCHANGED <<case, phase, info, kept, origin, waiting, build, at, columns, first, cache, asked>>

\* A query fails for good, or once more after the last attempt.
GiveUp ==
  /\ phase = "discover" /\ phase' = "failed"
  /\ UNCHANGED <<case, tries, todo, cmap, info, kept, origin, waiting, build, at, columns, first, cache, asked>>

ScanRow ==
  /\ phase = "discover"
  /\ \E r \in todo :
       /\ NextRow(todo, r)
       /\ todo' = todo \ {r} /\ cmap' = Scan(cmap, r)
  /\ UNCHANGED <<case, phase, tries, info, kept, origin, waiting, build, at, columns, first, cache, asked>>

\* A failure of one of the optional queries costs what it would have added.
Discovered ==
  /\ phase = "discover" /\ todo = {}
  /\ phase' = "overlay" /\ origin' = "database" /\ tries' = 0 /\ cmap' = NoCols
  /\ LET all == Columns(case.cat, cmap)
         composite == CompositeFKs(case.cat, all)
         uniques == UniqueKeys(case.cat)
     IN /\ kept' \in [composite : {TRUE, composite = {}}, uniques : {TRUE, uniques = {}}]
        /\ \E default \in DefaultSchemas(case.cat) :
             info' = NewDBInfo(case.cat, all, IF kept'.composite THEN composite ELSE {},
                               IF kept'.uniques THEN uniques ELSE {}, default)
  /\ UNCHANGED <<case, todo, waiting, build, at, columns, first, cache, asked>>

-----------------------------------------------------------------------------
(* The graph.                                                              *)

\* The tables of the info with the configuration laid over it; the info itself
\* is what the snapshot keeps.
Laid == Overlaid(info, case.conf)

Overlay ==
  /\ phase = "overlay"
  /\ phase' = IF Laid = None THEN "failed" ELSE "nodes"
  /\ waiting' = IF Laid = None THEN {} ELSE DOMAIN Laid.tables
  /\ UNCHANGED <<case, tries, todo, cmap, info, kept, origin, build, at, columns, first, cache, asked>>

AliasesOf(name) == {p[2] : p \in {q \in Aliases(case.conf) : q[1] = name}}

\* Tables come in the order of a Go map, those of the configuration last.
AddOneNode ==
  /\ phase = "nodes"
  /\ \E t \in waiting :
       /\ Laid.tables[t].kind # "" => \A o \in waiting : Laid.tables[o].kind # ""
       /\ waiting' = waiting \ {t}
       /\ build' = [build EXCEPT !.graph = AddNode(@, Laid.tables[t], AliasesOf(t[2]))]
  /\ UNCHANGED <<case, phase, tries, todo, cmap, info, kept, origin, at, columns, first, cache, asked>>

NodesAdded ==
  /\ phase = "nodes" /\ waiting = {}
  /\ phase' = "tables" /\ at' = 0
  /\ build' = [build EXCEPT !.graph =
       FoldLeft(LAMBDA g, v : VirtualNodes(g, v), @, SetToSeq(Laid.virtual))]
  /\ UNCHANGED <<case, tries, todo, cmap, info, kept, origin, waiting, columns, first, cache, asked>>

\* The next table: its own relation, then those of its columns.
NextTable ==
  /\ phase = "tables" /\ at < Len(graph.tables)
  /\ at' = at + 1
  /\ LET table == graph.tables[at']
         b == AddTableRel([graph |-> graph, done |-> NoCols], Laid, table)
     IN IF b = None THEN phase' = "failed" /\ UNCHANGED <<build, columns>>
        ELSE /\ build' = b /\ phase' = "columns"
             /\ columns' = {c \in DOMAIN table.cols : Refers(table.cols[c])}
  /\ UNCHANGED <<case, tries, todo, cmap, info, kept, origin, waiting, first, cache, asked>>

\* Columns come in any order as well.
AddOneColumn ==
  /\ phase = "columns"
  /\ \E c \in columns :
       LET table == graph.tables[at]
           col == table.cols[c]
           composite == CompositesOf(Laid, table.name, c)
       IN IF col.fkt \notin DOMAIN graph.index
             \/ col.fkc \notin DOMAIN graph.tables[graph.index[col.fkt]].cols
          THEN phase' = "failed" /\ UNCHANGED <<build, columns>>
          ELSE /\ \E f \in IF composite = {} THEN {None} ELSE composite :
                    build' = AddColumnRel(build, Laid, table, col, f)
               /\ columns' = columns \ {c} /\ UNCHANGED phase
  /\ UNCHANGED <<case, tries, todo, cmap, info, kept, origin, waiting, at, first, cache, asked>>

TableDone ==
  /\ phase = "columns" /\ columns = {}
  /\ phase' = "tables"
  /\ UNCHANGED <<case, tries, todo, cmap, info, kept, origin, waiting, build, at, columns, first, cache, asked>>

Finish ==
  /\ phase = "tables" /\ at = Len(graph.tables)
  /\ phase' = "ready"
  /\ build' = [graph |-> DuplicateNames(graph, Aliases(case.conf)), done |-> NoCols]
  /\ UNCHANGED <<case, tries, todo, cmap, info, kept, origin, waiting, at, columns, first, cache, asked>>

-----------------------------------------------------------------------------
(* Questions and restarts.                                                 *)

Ends(q) == {<<x.node, y.node>> : x \in Elems(graph.names[q.from]), y \in Elems(graph.names[q.to])}

\* A question. Two bounds: a second one follows an answer that was remembered,
\* about the same tables (only such questions share entries of the cache), and
\* the graph made from a snapshot, which is the first one over, is asked none.
Ask ==
  /\ Built /\ Len(asked) < MaxAsks /\ origin = "database"
  /\ asked # <<>> => cache # NoCols
  /\ \E from, to \in DOMAIN graph.names, kind \in {"table", "column"}, hint \in Hints \cup {""} :
       /\ kind = "column" => hint # ""
       /\ LET q == [from |-> from, to |-> to, opts |-> Options(graph, Laid, kind, hint)]
              r == FindPath(graph, cache, from, to, q.opts)
          IN /\ asked # <<>> => Ends(q) \cap Ends(asked[1]) # {}
             /\ asked' = Append(asked, q @@ r.answer)
             /\ cache' = r.cache
  /\ UNCHANGED <<case, phase, tries, todo, cmap, info, kept, origin, waiting, build, at, columns, first>>

PairsOf(e) == {<<e.l, e.r>>} \cup Elems(e.extra)
Joined(e) == {<<p[1].table, p[1].name, p[2].table, p[2].name>> : p \in PairsOf(e)}
Join(g, i) == <<g.edges[i].type, Joined(g.edges[i])>>

\* The relations of a graph, whatever the order it was built in. The name of a
\* key of several columns is that of the column that came first, and no two
\* graphs need to agree in it.
Relations(g) ==
  UNION {UNION {{<<IF g.edges[i].extra = <<>> THEN name ELSE "", g.tables[x.node].name, Join(g, i)>> :
                   i \in x.ids} : x \in Elems(g.names[name])} : name \in DOMAIN g.names}

\* Another engine starts from the snapshot of what was discovered.
Restart ==
  /\ Built /\ origin = "database" /\ asked = <<>>
  /\ phase' = "overlay" /\ origin' = "snapshot"
  /\ info' = Restored(info) /\ first' = Relations(graph)
  /\ build' = NewBuild /\ at' = 0
  /\ UNCHANGED <<case, tries, todo, cmap, kept, waiting, columns, cache, asked>>

Next ==
  \/ Retry \/ GiveUp \/ ScanRow \/ Discovered
  \/ Overlay \/ AddOneNode \/ NodesAdded \/ NextTable \/ AddOneColumn \/ TableDone \/ Finish
  \/ Ask \/ Restart

Spec == Init /\ [][Next]_vars

-----------------------------------------------------------------------------
(* Properties.                                                             *)

\* The keys the database and the configuration declare.
ConfKeys(conf) ==
  UNION {{[table |-> InDefault(Laid, conf[i].name), cols |-> <<c.name>>,
           ref |-> Target(Laid, c.fk), refs |-> <<c.fk[3]>>] :
             c \in {d \in Elems(conf[i].cols) : d.fk # None}} :
           i \in {j \in DOMAIN conf : conf[j].type # "polymorphic"}}
Keys == {[table |-> f.table, cols |-> f.cols, ref |-> f.ref, refs |-> f.refs] : f \in case.cat.fks}
          \cup ConfKeys(case.conf)
ThereOf(f) == {<<f.table, f.cols[i], f.ref, f.refs[i]>> : i \in DOMAIN f.cols}
BackOf(f) == {<<f.ref, f.refs[i], f.table, f.cols[i]>> : i \in DOMAIN f.cols}

\* Keys with a column that another key has as well: a column remembers one key.
Shared == {f \in Keys : \E o \in Keys \ {f} : o.table = f.table /\ Elems(o.cols) \cap Elems(f.cols) # {}}
Whole == Keys \ Shared

\* Keys of several columns between tables of one name: only the column that came
\* first is turned round on the way back.
HalfTurned(f) == Len(f.cols) > 1 /\ f.ref[2] = f.table[2]
Backs(f) ==
  IF ~HalfTurned(f) THEN {BackOf(f)}
  ELSE {{<<p[3], p[4], p[1], p[2]>>} \cup (ThereOf(f) \ {p}) : p \in ThereOf(f)}

\* Keys onto a tuple that is unique without being the primary key.
OntoUnique(f) == Len(f.cols) > 1 /\ f.ref # f.table /\ Elems(f.refs) # case.cat.tables[f.ref].pk
TypeOf(f, uniquesKnown) ==
  IF f.ref = f.table THEN "recursive" ELSE IF OntoUnique(f) /\ ~uniquesKnown THEN "many" ELSE "one"

\* Every key is one relation and its opposite, each of which joins on exactly
\* the key's columns, and leads to one row in the direction of the key; and
\* nothing else joins on key columns. The code keeps four exceptions, which its
\* own text does not make: a key of several columns whose query failed is a
\* relation per column (tables.go:804); keys that share a column join on some of
\* each other's columns (schema.go:386, one name per column); a key of several
\* columns onto its own table is turned round in its first column only, where
\* schema.go:440 says "with correct column orientation"; and one onto a unique
\* tuple leads to many rows if the unique keys are not known, always on SQLite
\* (uniquekeys.go:138 notes another schema), where schema.go:466 says "the
\* child belongs to one parent" (TestCompositeFKOnAUniqueKey).
EdgesJoinKeys ==
  Built /\ origin = "database" /\ kept.composite =>
    /\ \A f \in Whole :
         \A type \in {TypeOf(f, kept.uniques /\ case.cat.driver = "postgres")} :
           \E i, j \in DOMAIN graph.edges, back \in Backs(f) :
              /\ Join(graph, i) = <<type, ThereOf(f)>> /\ graph.edges[i].opp = j
              /\ Join(graph, j) = <<Opposite(type), back>> /\ graph.edges[j].opp = i
    /\ \A i \in DOMAIN graph.edges :
         graph.edges[i].type \in {"one", "many", "recursive"} =>
           \/ \E f \in Whole : Joined(graph.edges[i]) \in {ThereOf(f)} \cup Backs(f)
           \/ Joined(graph.edges[i]) \subseteq UNION {ThereOf(f) \cup BackOf(f) : f \in Shared}

\* A graph built from a snapshot has the same relations under the same names,
\* but for what the order of columns decides: names of keys of several columns,
\* keys that share a column, and which column of a key is turned round. The text
\* says of a snapshot that it holds "every discovery field needed to rebuild a
\* DBSchema" (snapshot.go:27); it leaves the unique keys out (tables.go:23), and
\* so a relation onto a unique tuple comes back as one to many rows.
SnapshotKeepsGraph ==
  LET onto == {f \in Whole : OntoUnique(f)}
      recounted(join) ==
        CASE join[2] \in {ThereOf(f) : f \in onto} -> <<"many", join[2]>>
          [] join[2] \in {BackOf(f) : f \in onto} -> <<"one", join[2]>>
          [] OTHER -> join
      ordered == Shared \cup {f \in Keys : HalfTurned(f)}
      settled(relations) ==
        {r \in relations : r[3][2] \cap UNION {ThereOf(f) \cup BackOf(f) : f \in ordered} = {}}
  IN Built /\ origin = "snapshot" =>
       settled(Relations(graph)) = {<<r[1], r[2], recounted(r[3])>> : r \in settled(first)}

\* The walks of at most n edges that a path may be: they start with an edge of
\* the name asked from, do not turn back on the spot, keep to the hint, and where
\* an edge of the name asked for leads to the end, they take such an edge.
Item(w) == [depth |-> Len(w), prev |-> IF w = <<>> THEN 0 ELSE w[Len(w)]]
Steps(w, from, to, opts) ==
  {i \in DOMAIN graph.edges :
     /\ graph.edges[i].from = IF w = <<>> THEN from.node ELSE graph.edges[w[Len(w)]].to
     /\ LineAllowed(graph, i, from, to, Item(w), opts, FALSE)}
Taken(steps, w, to) ==
  LET own == {i \in steps : graph.edges[i].to = to.node /\ i \in to.ids}
  IN IF w = <<>> \/ own = {} THEN steps
     ELSE {i \in steps : graph.edges[i].to # to.node \/ i \in own}
RECURSIVE Walks(_, _, _, _)
Walks(from, to, opts, n) ==
  IF n = 0 THEN {<<>>}
  ELSE UNION {{w} \cup
         (IF Len(w) < n - 1 THEN {}
          ELSE {Append(w, i) : i \in Taken(Steps(w, from, to, opts), w, to)}) :
         w \in Walks(from, to, opts, n - 1)}

Cost(w) == FoldLeft(LAMBDA s, i : s + graph.edges[i].weight, 0, w)
Reaches(w, from, to, opts) ==
  /\ w # <<>> /\ graph.edges[w[Len(w)]].to = to.node
  /\ opts.kind = "table" => from.node = opts.node \/ \E k \in DOMAIN w : graph.edges[w[k]].to = opts.node

\* When the last question was about names that stand for one table each, the
\* answer is a walk between the two tables that no other walk is cheaper than,
\* or there is no walk; an edge that joins the two directly answers for any
\* walk when a hint is given. Holds whatever was asked before.
PathsCheapest ==
  asked # <<>> => \A q \in {asked[Len(asked)]} :
    Len(graph.names[q.from]) = 1 /\ Len(graph.names[q.to]) = 1 =>
      \A from \in Elems(graph.names[q.from]), to \in Elems(graph.names[q.to]) :
        \A direct \in {DirectAnswer(graph, from, to, q.opts)},
           walks \in {{w \in Walks(from, to, q.opts, Len(graph.tables) + 2) : Reaches(w, from, to, q.opts)}} :
          /\ q.err = "no path" => direct = <<>> /\ walks = {}
          /\ q.err = "" /\ direct # <<>> => q.path = direct
          /\ q.err = "" /\ direct = <<>> =>
               q.path \in walks /\ \A w \in walks : Cost(q.path) <= Cost(w)

\* Whose direct relations are several keys is told so and not given one of
\* them, unless a hint was given. dwg.go:29 makes no exception; the code makes
\* one: from the table referred to, keys onto one column that is itself a key
\* all go by the name of that column (dwg.go:470), and the first is taken.
NoGuess ==
  \A k \in DOMAIN asked :
    LET q == asked[k]
        e == graph.edges[q.path[1]]
        others == {f \in Keys : {f.table, f.ref} = {graph.tables[e.from].name, graph.tables[e.to].name}}
        from == CHOOSE x \in Elems(graph.names[q.from]) : x.node = e.from
        meant == {f \in others : \E i \in from.ids : Joined(graph.edges[i]) \in {ThereOf(f), BackOf(f)}}
        renamed == Refers(e.l) /\ \A f \in meant : f.ref = e.l.table /\ e.l.name \in Elems(f.refs)
    IN q.err = "" /\ q.opts.kind = "none" /\ Len(q.path) = 1 => Cardinality(meant) <= 1 \/ renamed

\* What clients are told of the graph, whenever it is new.
Fresh == Built /\ asked = <<>>
Document == BuildIntrospection(graph, info.default, Aliases(case.conf), case.blocked, case.allowed)
Hidden ==
  {t[2] : t \in {u \in DOMAIN graph.index :
     u[2] \in case.blocked \/ ~IsAllowedSchema(info.default, case.allowed, u[1])}}

\* Every type that the description names is in it, whatever is hidden and
\* whatever the order of the tables (a client refuses a schema that is not
\* closed; intro.go:282); but for the inputs of hidden tables, which the inputs
\* of their neighbours go on to name.
IntroClosed ==
  Fresh => \A doc \in {Document} :
    UNION {doc[k].refs : k \in DOMAIN doc} \subseteq DOMAIN doc \cup {<<"update", t>> : t \in Hidden}

\* A field n of the type of table t that leads to a neighbour.
AnsweredAsTold(t, n) ==
  \A a \in {FindPath(graph, NoCols, n.name, t, Options(graph, Laid, "none", "")).answer} :
    a.err = "" /\ Len(a.path) = 1 =>
      \A type \in {graph.edges[a.path[1]].type} :
        type = "embedded" \/ n.list = (type \in {"one", "recursive"})

\* "Both directions of the relationship must appear no matter which table the
\* builder processes first" (intro_test.go:425), for every key between tables
\* that are shown and have no other names, unless it shares a column with
\* another key (as above); and a field for a neighbour is
\* declared a list if and only if the query for it answers a list
\* (qcode.go:758), unless it is for a JSON table.
FieldsAnswered ==
  Fresh => \A doc \in {Document},
              plain \in {DOMAIN graph.names \ (Hidden \cup {p[1] : p \in Aliases(case.conf)})} :
    /\ \A f \in Whole : {f.table[2], f.ref[2]} \subseteq plain =>
         \A e \in {<<f.table[2], f.ref[2]>>, <<f.ref[2], f.table[2]>>} :
           \E n \in doc[<<"", e[1]>>].near : n.to[2] = e[2]
    /\ \A t \in {u \in DOMAIN graph.names : <<"", u>> \in DOMAIN doc} :
         \A n \in doc[<<"", t>>].near : AnsweredAsTold(t, n)
=============================================================================
