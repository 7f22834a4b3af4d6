---------------------------- MODULE Introspection ----------------------------
(* The description of a schema that GraphQL clients are given                  *)
(* (core/schema/intro.go: BuildIntrospection over the graph of one database).  *)
(*                                                                             *)
(* The document is a function from the names of types, <<kind, name>>, to what *)
(* each type says: "refs" are all the types it names, "near" its fields for    *)
(* neighbours, "far" those for neighbours of neighbours. Kind "" is an object, *)
(* a scalar or an enum under its plain name; the others stand for the suffix   *)
(* or prefix the code adds ("where" for <name>WhereInput). Functions, remote   *)
(* tables, camel case, descriptions and locations are left out.                *)
EXTENDS SchemaGraph

Type(refs, near, far) == [refs |-> refs, near |-> near, far |-> far]
Plain(refs) == Type(refs, {}, {})

\* addType: a type replaces the one of its name.
AddType(doc, key, type) == [k \in DOMAIN doc \cup {key} |-> IF k = key THEN type ELSE doc[k]]
AddRefs(doc, key, refs) == [doc EXCEPT ![key].refs = @ \cup refs]

Scalars == {<<"", s>> : s \in {"Boolean", "Float", "Int", "String", "JSON", "ID", "Cursor"}}
Flag == <<"", "Boolean">>

\* The operators on a value of a type, and on a list.
ExpTypes ==
  [k \in {<<"exp", s>> : s \in {"ID", "String", "Int", "Boolean", "Float", "JSON"}}
           \cup {<<"listexp", s>> : s \in {"String", "Int", "Boolean", "Float"}} |->
     Plain({Flag, <<"", IF k[2] = "JSON" THEN "String" ELSE k[2]>>})]

StdTypes ==
  [k \in Scalars \cup {<<"", "Query">>, <<"", "Mutation">>, <<"", "FindSearchInput">>,
                       <<"", "OrderDirection">>} |-> Plain({})]

-----------------------------------------------------------------------------
(* Neighbours (core/sdata/schema.go).                                      *)

Visible(g, from, to) == SelectSeq(Between(g, from, to), LAMBDA i : g.edges[i].name # "")

RelNodes(g, from, to) ==
  {[name |-> g.edges[i].name, type |-> g.edges[i].type, table |-> g.tables[from].name[2]] :
     i \in Elems(Visible(g, from, to))}

FirstDegree(g, n) == UNION {RelNodes(g, id, n) : id \in Elems(Connections(g, n))}

\* The way back to the table itself is one only when two edges lead there.
SecondDegree(g, n) ==
  UNION {UNION {IF next = n /\ Len(Visible(g, n, id)) <= 1 THEN {} ELSE RelNodes(g, next, id) :
                  next \in Elems(Connections(g, id))} : id \in Elems(Connections(g, n))}

-----------------------------------------------------------------------------
(* Types of one table.                                                     *)

\* Variant: a field is given for every neighbour.
HasFieldAlways(doc, r) == TRUE

\* getTableField: a field for a neighbour whose type is known by now.
HasField(doc, r) == r.type = "recursive" \/ <<"", r.table>> \in DOMAIN doc

TableField(r) ==
  [name |-> r.name,
   to |-> <<IF r.type = "recursive" THEN "Recursive" ELSE "", r.table>>,
   list |-> r.type \in {"one", "recursive"}]

Fields(doc, nodes) == {TableField(r) : r \in {x \in nodes : HasField(doc, x)}}

ShownColumns(g, n, blocked) ==
  {g.tables[n].cols[c] : c \in DOMAIN g.tables[n].cols \ blocked}

\* getTypeFromColumn: columns are keys, JSON or numbers.
ScalarOf(g, n, c) ==
  IF c.pk THEN "ID"
  ELSE IF c.name \in g.tables[n].json THEN "JSON"
  ELSE "Int"

ColumnRefs(g, n, blocked) ==
  UNION {{<<"", ScalarOf(g, n, c)>>, <<"where", c.table[2]>>} : c \in ShownColumns(g, n, blocked)}

\* What a selection may be given: id, limit, first, after, orderBy, where.
ArgRefs(t) ==
  {<<"", a>> : a \in {"ID", "Int", "String", "Cursor"}} \cup {<<"order", t>>, <<"where", t>>}

\* count and sum, avg, min and max of the columns, which may be skipped.
AggregateRefs(t) == {<<"", "Int">>, <<"", "Float">>, <<"where", t>>}

AddColumnsEnumType(doc, t) == AddType(doc, <<"columns", t>>, Plain({}))
AddOrderByType(doc, t) == AddType(doc, <<"order", t>>, Plain({<<"", "OrderDirection">>}))
AddWhereType(doc, g, n, blocked) ==
  LET t == g.tables[n].name[2]
  IN AddType(doc, <<"where", t>>,
       Plain({<<"where", t>>} \cup {<<"exp", ScalarOf(g, n, c)>> : c \in ShownColumns(g, n, blocked)}))

\* addTableType: the enum of the columns, the type under a name, the inputs to
\* order and filter by, and a second type below a recursive key.
AddTableType(doc, g, n, name, blocked) ==
  LET t == g.tables[n].name[2]
      near == Fields(doc, FirstDegree(g, n))
      far == Fields(doc, SecondDegree(g, n))
      refs == ColumnRefs(g, n, blocked) \cup AggregateRefs(t) \cup ArgRefs(t)
                \cup {f.to : f \in near \cup far}
      helped == AddWhereType(AddOrderByType(AddColumnsEnumType(doc, t), t), g, n, blocked)
      typed == AddType(helped, <<"", name>>, Type(refs, near, far))
  IN IF \E c \in ShownColumns(g, n, blocked) : c.rec
     THEN AddType(typed, <<"Recursive", name>>,
                  Type(refs \cup {<<"", "FindSearchInput">>}, near, far))
     ELSE typed

\* addInputType. The list of the insert type's inputs is the one the update
\* type's are then written into: both name the update types of the neighbours.
AddInputTypes(doc, g, n, name, blocked) ==
  LET t == g.tables[n].name[2]
      own == {<<"", ScalarOf(g, n, c)>> : c \in ShownColumns(g, n, blocked)}
      nested == {<<"update", r.table>> : r \in
                   {x \in FirstDegree(g, n) \cup SecondDegree(g, n) :
                      x.type \notin {"polymorphic", "embedded"}}}
      inputs == AddType(AddType(AddType(doc, <<"upsert", t>>, Plain(own)),
                                <<"insert", t>>, Plain(own \cup nested)),
                        <<"update", t>>, Plain(own \cup nested \cup {<<"where", t>>}))
  IN AddRefs(inputs, <<"", "Mutation">>,
             {<<"", name>>, <<"upsert", t>>, <<"insert", t>>, <<"update", t>>, Flag} \cup ArgRefs(t))

\* addTable: a root field to query, one to change, and one by id. The type is
\* made twice, the second time knowing itself.
AddIntroTable(doc, g, n, name, blocked) ==
  LET t == g.tables[n].name[2]
      roots == {<<"", name>>, <<"", "Cursor">>} \cup ArgRefs(t)
      queried == AddRefs(AddTableType(doc, g, n, name, blocked), <<"", "Query">>, roots)
      again == AddTableType(AddInputTypes(queried, g, n, name, blocked), g, n, name, blocked)
  IN IF t \in blocked \/ DOMAIN g.tables[n].cols = {} THEN doc
     ELSE AddRefs(AddType(again, <<"ByID", name>>, again[<<"", name>>]),
                  <<"", "Query">>, {<<"ByID", name>>} \cup ArgRefs(t))

-----------------------------------------------------------------------------
(* The document.                                                           *)

\* A schema with default "default" of which only some may be seen; none named
\* means all.
IsAllowedSchema(default, allowed, s) == s = default \/ allowed = {} \/ s \in allowed
CrossSchemaAlias(default, t) == IF t[1] = default THEN t[2] ELSE t[2] \o "Of" \o t[1]

\* Variant: no type is known before its table comes.
SeedNothing(doc, g, aliased, blocked) == doc

\* Every table's type is known by its name before the tables come, but for those
\* that have another name.
Seed(doc, g, aliased, blocked) ==
  LET names == {g.tables[n].name[2] : n \in {m \in DOMAIN g.tables : DOMAIN g.tables[m].cols # {}}}
      new == {<<"", t>> : t \in names \ (aliased \cup blocked)} \ DOMAIN doc
  IN [k \in DOMAIN doc \cup new |-> IF k \in new THEN Plain({}) ELSE doc[k]]

\* A table under its name, and under that of its schema if it is another one.
AddBothNames(doc, g, n, default, blocked) ==
  LET t == g.tables[n].name
      bare == AddIntroTable(doc, g, n, t[2], blocked)
  IN IF CrossSchemaAlias(default, t) = t[2] THEN bare
     ELSE AddIntroTable(bare, g, n, CrossSchemaAlias(default, t), blocked)

\* The directives name scalars and the enum of the tables.
AddDirTypes(doc) == AddType(doc, <<"directives", "">>, Plain(Scalars \cup {<<"tables", "">>}))
FinalizeTablesEnum(doc) == AddType(doc, <<"tables", "">>, Plain({}))

\* aliases: pairs <<table, name>>; blocked: names of tables and columns.
BuildIntrospection(g, default, aliases, blocked, allowed) ==
  LET first == FoldSet(LAMBDA p, doc : AddIntroTable(doc, g, g.index[<<default, p[1]>>], p[2], blocked),
                       ExpTypes @@ StdTypes, {q \in aliases : <<default, q[1]>> \in DOMAIN g.index})
      seeded == Seed(first, g, {p[1] : p \in aliases}, blocked)
      all == FoldLeft(LAMBDA doc, n :
                        IF IsAllowedSchema(default, allowed, g.tables[n].name[1])
                        THEN AddBothNames(doc, g, n, default, blocked) ELSE doc,
                      seeded, [n \in DOMAIN g.tables |-> n])
  IN AddDirTypes(FinalizeTablesEnum(all))
=============================================================================
