---------------------------- MODULE SelectMeaning ----------------------------
(* SelectMeaning: what a request asks for, told without selects or SQL. The    *)
(* answer of a selection is worked out from its own arguments and the row it   *)
(* stands below.                                                               *)
EXTENDS SelectAnswer

Argument(f, name) == SelectSeq(f.args, LAMBDA a : a.name = name)
Given(f, name) == Argument(f, name) # <<>>
Arg(f, name) == Argument(f, name)[1]
Val(d, node) == IF IsVariable(node) THEN d.vars[node.val] ELSE node.val
DistinctOf(f) == LET a == Arg(f, "distinct") IN IF a.type = "str" THEN <<a.val>> ELSE ValuesOf(a)
Directed(f, name) == SelectSeq(f.dirs, LAMBDA x : x.name = name)

\* @include and @skip: the variable is true, or is not.
Asked(d, f) ==
  \A i \in DOMAIN f.dirs : \A k \in DOMAIN f.dirs[i].args :
    /\ f.dirs[i].name = "include" => d.vars[f.dirs[i].args[k].val] = TRUE
    /\ f.dirs[i].name = "skip" => d.vars[f.dirs[i].args[k].val] # TRUE

-----------------------------------------------------------------------------
(* How a row is reached from another.                                       *)

\* From a selection's own table to that of the one it stands in, if they are tied.
Way(db, f, pt) ==
  LET through == Directed(f, "through")
  IN IF through = <<>> THEN FindPath(db, f.name, pt, "table", "")
     ELSE FindPath(db, f.name, pt, through[1].args[1].name, through[1].args[1].val)

Alone(f, pt) == pt = None \/ Directed(f, "notRelated") # <<>>

Tied(rel, l, r) ==
  LET pairs == <<<<rel.lc, rel.rc>>>> \o rel.extra
  IN \A i \in DOMAIN pairs : l[pairs[i][1]] # None /\ l[pairs[i][1]] = r[pairs[i][2]]

\* The ways from a row of the last relation's right side back to a child row.
RECURSIVE Ways(_, _, _, _)
Ways(d, rels, child, row) ==
  LET rel == rels[1]
      mids == Rows(d, rel.rt)
      via(k) == IF Tied(rel, child, mids[k]) THEN Ways(d, Tail(rels), mids[k], row) ELSE 0
  IN IF Len(rels) = 1 THEN IF Tied(rel, child, row) THEN 1 ELSE 0
     ELSE SumOf([k \in DOMAIN mids |-> via(k)])

Reached(d, rels, row) ==
  LET rows == Rows(d, rels[1].lt)
  IN FlattenSeq([k \in DOMAIN rows |-> [w \in 1..Ways(d, rels, rows[k], row) |-> rows[k]]])

-----------------------------------------------------------------------------
(* Conditions.                                                              *)

RECURSIVE Holds(_, _, _, _, _)
AllHold(d, db, t, row, nodes) == And3({Holds(d, db, t, row, nodes[i]) : i \in DOMAIN nodes})

ColumnHolds(d, db, t, row, node) ==
  LET left == row[node.name]
      op == node.kids[1]
      operand == IF op.type = "col" THEN row[op.val] ELSE IF op.type = "list" THEN ValuesOf(op) ELSE Val(d, op)
      ops(k) == IF k.name = "" THEN k.kids ELSE <<k>>
      item(k) == AllHold(d, db, t, row, [j \in DOMAIN ops(k) |-> [node EXCEPT !.kids = <<ops(k)[j]>>]])
      items == {item(op.kids[i]) : i \in DOMAIN op.kids}
  IN IF node.type = "list" THEN Compare("in", left, ValuesOf(node))
     ELSE IF node.type # "obj" THEN Compare("eq", left, Val(d, node))
     ELSE IF op.name = "or" THEN Or3(items)
     ELSE IF op.name = "and" THEN And3(items)
     ELSE IF op.name = "not" THEN Not3(And3(items))
     ELSE Compare(op.name, left, operand)

Holds(d, db, t, row, node) ==
  LET some(rels) == \E r \in Elems(Reached(d, rels, row)) : AllHold(d, db, rels[1].lt, r, node.kids) = TRUE
  IN IF node.name \in {"", "and"} THEN AllHold(d, db, t, row, node.kids)
     ELSE IF node.name = "or" THEN Or3({Holds(d, db, t, row, node.kids[i]) : i \in DOMAIN node.kids})
     ELSE IF node.name = "not" THEN Not3(AllHold(d, db, t, row, node.kids))
     ELSE IF HasColumn(db, t, node.name) THEN ColumnHolds(d, db, t, row, node)
     ELSE some(FindPath(db, node.name, t, "none", ""))

HasId(d, db, t, row, node) ==
  LET pk == db.pk[t]
  IN IF node.type = "obj" THEN \A i \in DOMAIN node.kids : row[node.kids[i].name] = Val(d, node.kids[i])
     ELSE row[pk[1]] = Val(d, node)

RECURSIVE Mentions(_, _)
Mentions(node, c) == node.name = c \/ \E i \in DOMAIN node.kids : Mentions(node.kids[i], c)

InPartition(db, t, f, row) ==
  LET part == db.part[t]
  IN part # None /\ part.bound # None /\ (~Given(f, "where") \/ ~Mentions(Arg(f, "where"), part.col))
       => row[part.col] >= part.bound

Wanted(d, db, t, f, row) ==
  /\ Asked(d, f)
  /\ Given(f, "where") => AllHold(d, db, t, row, Arg(f, "where").kids) = TRUE
  /\ Given(f, "id") => HasId(d, db, t, row, Arg(f, "id"))
  /\ InPartition(db, t, f, row)

-----------------------------------------------------------------------------
(* Descent and ascent along a relation of a table with itself.               *)

RECURSIVE Below(_, _, _, _)
Below(d, rel, up, rows) ==
  LET next(r) == SelectSeq(Rows(d, rel.lt), LAMBDA x : IF up THEN Tied(rel, r, x) ELSE Tied(rel, x, r))
      level == FlattenSeq([k \in DOMAIN rows |-> next(rows[k])])
  IN IF rows = <<>> THEN <<>> ELSE level \o Below(d, rel, up, level)

-----------------------------------------------------------------------------
(* Order, page and fields.                                                  *)

Total(t, agg, group) == Function(agg.fn, t, agg.col, [i \in DOMAIN group |-> At(NoEnv, t, 0, group[i])])

\* Aggregates among the fields, or in the order, are of rows alike.
IsAggregate(db, t, k) == ~HasColumn(db, t, k.name) /\ AggregateOf(k) # None
Aggregated(db, t, f) ==
  \/ \E i \in DOMAIN Leaves(f) : IsAggregate(db, t, Leaves(f)[i])
  \/ Given(f, "order_by") /\ \E n \in Elems(Arg(f, "order_by").kids) :
       n.type # "obj" /\ ~HasColumn(db, t, n.name) /\ n.name \in DOMAIN Aggregates

\* The rows of a page come in the order of their keys where no other tells.
Tie(db, t, f) == (Given(f, "first") \/ Given(f, "last")) /\ ~Aggregated(db, t, f)

\* What a row, or a group of rows, is ordered by.
Key(d, db, t, f, group) ==
  LET nodes == Arg(f, "order_by").kids
      related(n) == Reached(d, FindPath(db, n.name, t, "none", ""), group[1])
      named(n) == SelectSeq(f.kids, LAMBDA k : FieldName(k) = n)
      of(n) == IF n.type = "obj"
                 THEN (IF related(n) = <<>> THEN None ELSE related(n)[1][n.kids[1].name])
               ELSE IF HasColumn(db, t, n.name) THEN group[1][n.name]
               ELSE IF n.name \in DOMAIN Aggregates THEN Total(t, Aggregates[n.name], group)
               ELSE Total(t, AggregateOf(named(n.name)[1]), group)
      keys == IF Given(f, "order_by") THEN [i \in DOMAIN nodes |-> of(nodes[i])] ELSE <<>>
      tie == IF Tie(db, t, f)
             THEN [i \in DOMAIN db.pk[t] |-> group[1][db.pk[t][i]]] ELSE <<>>
  IN keys \o tie

\* The last rows of an order are the first of the order turned round.
Turned(dir) ==
  CASE dir = "asc" -> "desc" [] dir = "desc" -> "asc"
    [] dir = "asc_nulls_first" -> "desc_nulls_last" [] dir = "desc_nulls_first" -> "asc_nulls_last"
    [] dir = "asc_nulls_last" -> "desc_nulls_first" [] dir = "desc_nulls_last" -> "asc_nulls_first"

Direction(db, t, f) ==
  LET nodes == Arg(f, "order_by").kids
      dir(n) == IF n.type = "obj" THEN n.kids[1].val ELSE n.val
      asked == IF Given(f, "order_by") THEN [i \in DOMAIN nodes |-> dir(nodes[i])] ELSE <<>>
      dirs == asked \o IF Tie(db, t, f) THEN [i \in DOMAIN db.pk[t] |-> "asc"] ELSE <<>>
  IN [i \in DOMAIN dirs |-> [dir |-> IF Given(f, "last") THEN Turned(dirs[i]) ELSE dirs[i]]]

Arranged(d, db, t, f, groups) ==
  LET key(g) == Key(d, db, t, f, g) IN InOrder(d, Direction(db, t, f), groups, key)

\* How many rows are asked for; the configuration has the last word on
\* PostgreSQL where the request has none of its own.
Page(d, f, rows) ==
  LET given == SelectSeq(f.args, LAMBDA a : a.name \in {"limit", "first", "last"})
      own == Val(d, given[1])
      most == IF Directed(f, "object") # <<>> THEN 1 ELSE DefaultLimit
      limit == IF given = <<>> THEN most
               ELSE IF given[1].type = "var" /\ Postgres(d) THEN Least(own, most)
               ELSE own
  IN Taken(rows, IF Given(f, "offset") THEN Val(d, Arg(f, "offset")) ELSE 0, limit)

\* The columns the selections inside one go by.
Hung(db, t, f) ==
  LET tied == SelectSeq(Nested(f), LAMBDA k : ~Alone(k, t))
      by(k) == RightColumns(Last(Way(db, k, t)))
  IN FlattenSeq([i \in DOMAIN tied |-> by(tied[i])])

\* Rows with aggregates among their fields stand for all rows alike in what is
\* distinct, or else in their other fields and in what is asked of one row.
Likeness(db, t, f) ==
  LET plain == SelectSeq(Leaves(f), LAMBDA k : ~IsAggregate(db, t, k))
  IN IF Given(f, "distinct") THEN DistinctOf(f)
     ELSE [i \in DOMAIN plain |-> plain[i].name] \o Hung(db, t, f)

Groups(d, db, t, f, rows) ==
  LET cols == Likeness(db, t, f)
      key(row) == [i \in DOMAIN cols |-> row[cols[i]]]
  IN IF ~Aggregated(db, t, f) THEN [i \in DOMAIN rows |-> <<rows[i]>>]
     ELSE IF cols = <<>> THEN <<rows>> ELSE GroupsOn(rows, key)

\* One row for each value of what is distinct, the first in the order.
Firsts(db, t, f, groups) ==
  LET cols == DistinctOf(f)
      key(g) == [i \in DOMAIN cols |-> g[1][cols[i]]]
      first == Distinct([i \in DOMAIN groups |-> key(groups[i])])
  IN IF ~Given(f, "distinct") \/ Aggregated(db, t, f) THEN groups
     ELSE [k \in DOMAIN first |-> groups[first[k][1]]]

Shown(d, db, t, k, group) ==
  /\ Asked(d, k)
  /\ Given(k, "includeIf") => AllHold(d, db, t, group[1], Arg(k, "includeIf").kids) = TRUE
  /\ Given(k, "skipIf") => AllHold(d, db, t, group[1], Arg(k, "skipIf").kids) = FALSE

Leaf(d, db, t, k, group) ==
  IF ~Shown(d, db, t, k, group) THEN None
  ELSE IF IsAggregate(db, t, k) THEN Total(t, AggregateOf(k), group)
  ELSE group[1][k.name]

RECURSIVE Meaning(_, _, _, _, _)
Object(d, db, t, f, group) ==
  LET kid(n) == SelectSeq(f.kids, LAMBDA k : FieldName(k) = n)[1]
      of(k) == IF k.kids = <<>> THEN Leaf(d, db, t, k, group) ELSE Meaning(d, db, k, t, group[1])
  IN [n \in {FieldName(k) : k \in {x \in Elems(f.kids) : x.kind # "keyword"}} |-> of(kid(n))]

\* The rows of a table a selection asks for, out of some.
Objects(d, db, t, f, from, one) ==
  LET wanted == SelectSeq(from, LAMBDA r : Wanted(d, db, t, f, r))
      answer(groups) == IF one THEN (IF groups = <<>> THEN None ELSE Object(d, db, t, f, groups[1]))
                        ELSE IF ~Asked(d, f) THEN None
                        ELSE [k \in DOMAIN groups |-> Object(d, db, t, f, groups[k])]
  IN answer(Page(d, f, Firsts(db, t, f, Arranged(d, db, t, f, Groups(d, db, t, f, wanted)))))

\* One object is answered for a root asked for by its key, for @object and for
\* the parent a row refers to.
Single(f) == Given(f, "id") \/ Directed(f, "object") # <<>>
Meaning(d, db, f, pt, prow) ==
  LET along(rels) ==
        LET from == IF rels[1].type = "recursive" THEN Below(d, rels[1], Arg(f, "find").val = "parents", <<prow>>)
                    ELSE Reached(d, rels, prow)
        IN Objects(d, db, rels[1].lt, f, from, Single(f) \/ (Len(rels) = 1 /\ rels[1].type = "many"))
  IN IF Alone(f, pt) THEN Objects(d, db, f.name, f, Rows(d, f.name), Single(f))
     ELSE along(Way(db, f, pt))

\* The answer to a request.
Means(d, db, op) ==
  LET roots == SelectSeq(op, LAMBDA f : f.kind # "keyword")
  IN [n \in {FieldName(roots[i]) : i \in DOMAIN roots} |->
        Meaning(d, db, SelectSeq(roots, LAMBDA f : FieldName(f) = n)[1], None, None)]

-----------------------------------------------------------------------------
(* What the code answers otherwise, each time without a word to the caller.  *)

\* Conditions side by side in an element of `or`, or in `not`, hold together by
\* the dialect (graphql-dialect.md:268); the code makes alternatives of the first
\* (exp.go:129) and keeps one of the others (sqlgen/exp.go:111), and of
\* several operators of a column in an element the first (exp.go:291).
Lumped(node) ==
  LET several == \E k \in Elems(node.kids) : k.name = "" /\ Len(k.kids) > 1
  IN CASE node.name = "or" -> several
       [] node.name = "not" -> several \/ Len(node.kids) > 1
       [] OTHER -> FALSE

\* A relation among several conditions on a relation, or that leads back to the
\* table of the selection (exp.go:1022), is looked for from that table
\* (exp.go:1004), although all conditions "apply to the same related row"
\* (exp.go:158). here: a relation would go on from the row at hand.
Leads(db, node) ==
  /\ node.type = "obj" /\ node.name \notin Connectives \cup Operators \cup {""}
  /\ \A t \in DOMAIN db.pk : ~HasColumn(db, t, node.name)

RECURSIVE Misread(_, _, _, _)
Misread(db, t, here, node) ==
  LET only == node.kids[1]
      on == IF ~Leads(db, node) THEN here
            ELSE Len(node.kids) = 1 /\ Leads(db, only) /\ only.name # t
  IN \/ Lumped(node)
     \/ Leads(db, node) /\ ~here
     \/ \E k \in Elems(node.kids) : Misread(db, t, on, k)

Conditions == {"where", "includeIf", "skipIf"}
AnyMisread(db, t, f) ==
  \E a \in Elems(f.args) : a.name \in Conditions /\ \E k \in Elems(a.kids) : Misread(db, t, TRUE, k)

\* The condition of a column is asked of what the inner SELECT has (args.go:294):
\* it finds no other column, and no other row.
Columnless(db, f, k) ==
  \E a \in Elems(k.args) : a.name \in Conditions /\
    \E c \in Elems(a.kids) : Leads(db, c) \/ c.name \notin {x.name : x \in Elems(Leaves(f)) \ {k}}

\* An id takes the place of the filters before it (args.go:174), of @include and
\* @skip too, although it "is exactly" one more of them (graphql-dialect.md:305).
Overwritten(f) ==
  /\ Given(f, "id")
  /\ \/ \E i, j \in DOMAIN f.args : i < j /\ f.args[i].name = "where" /\ f.args[j].name = "id"
     \/ Directed(f, "include") \o Directed(f, "skip") # <<>>

\* The order asked for is not turned round for the last rows (fields.go:449),
\* although `last` "walks backwards" (graphql-dialect.md:418).
Unturned(f) == Given(f, "last") /\ Given(f, "order_by")

\* Ordered by a column of another table, a row with no row there is lost and one
\* with several comes several times (orderby.go:85).
Astray(d, db, t, f, row) ==
  Given(f, "order_by") /\ \E n \in Elems(Arg(f, "order_by").kids) :
    n.type = "obj" /\ Len(Reached(d, FindPath(db, n.name, t, "none", ""), row)) # 1

Multiplied(d, db, t, f) == \E r \in Elems(Rows(d, t)) : Astray(d, db, t, f, r)

\* The key is not added to an order with a column of that name in another table
\* (fields.go:459), and a cursor has the key for that column (fields.go:526): the
\* order does not tell all rows apart, and pages go on from elsewhere.
Untied(db, t, f) ==
  Tie(db, t, f) /\ Given(f, "order_by") /\ \E n \in Elems(Arg(f, "order_by").kids) :
    n.type = "obj" /\ n.kids[1].name \in Elems(db.pk[t])

\* SQLite has no DISTINCT ON (dialect/sqlite.go:228).
NotDistinct(d, db, t, f) == Given(f, "distinct") /\ ~Aggregated(db, t, f) /\ ~Postgres(d)

\* Recursive lists are neither ordered nor made distinct (sqlgen/recur.go:7), and
\* go no further down than a row the filter drops (sqlgen/recur.go:88).
CutShort(f) ==
  Given(f, "find") /\ \E n \in {"where", "order_by", "distinct", "first", "last"} : Given(f, n)

\* Groups are made by columns ordered by as well; and the one row of a whole
\* table is there whatever the limit (fields.go:261), on SQLite whatever the
\* offset (dialect/sqlite.go:56).
Regrouped(d, db, t, f) ==
  /\ Aggregated(db, t, f)
  /\ \/ Likeness(db, t, f) = <<>> /\ (Given(f, "limit") \/ (~Postgres(d) /\ Given(f, "offset")))
     \/ Given(f, "order_by") /\ \E n \in Elems(Arg(f, "order_by").kids) :
          HasColumn(db, t, n.name) /\ n.name \notin {k.name : k \in Elems(Leaves(f))}

RECURSIVE Departs(_, _, _, _)
Departs(d, db, f, pt) ==
  LET t == IF Alone(f, pt) THEN f.name ELSE Way(db, f, pt)[1].lt
  IN \/ AnyMisread(db, t, f) \/ Overwritten(f) \/ Unturned(f) \/ CutShort(f)
     \/ Multiplied(d, db, t, f) \/ Untied(db, t, f) \/ NotDistinct(d, db, t, f)
     \/ Regrouped(d, db, t, f)
     \/ \E k \in Elems(Leaves(f)) : AnyMisread(db, t, k) \/ Columnless(db, f, k)
     \/ \E k \in Elems(Nested(f)) : Departs(d, db, k, t)
=============================================================================
