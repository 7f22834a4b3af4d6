------------------------------- MODULE Filters -------------------------------
(* Filters: how the tree a caller writes becomes an expression                 *)
(* (graphql/exp.go), and what the expression says once it is SQL               *)
(* (core/sqlgen/exp.go).                                                       *)
(*                                                                             *)
(* db is what the compiler has: [graph, info: of SchemaGraph, pk: table ->     *)
(* columns in order, hidden: tables, secret: <<table, column>>s]. A node of    *)
(* the tree is [name, type, val, kids]; the items of a list have no name. An   *)
(* expression is [op, l, r, kids, joins]. An environment gives <<table, id>>   *)
(* the row at hand; id is that of a selection, or 0 for the table itself.      *)
EXTENDS Integers, SequencesExt

CONSTANTS None,       \* no value, and SQL's NULL
          RelNames    \* of SchemaGraph

Graph == INSTANCE SchemaGraph

Elems(s) == {s[i] : i \in DOMAIN s}
Has(db, t) == <<db.info.default, t>> \in DOMAIN db.graph.index
TableOf(db, t) == db.graph.tables[db.graph.index[<<db.info.default, t>>]]
HasColumn(db, t, c) == c \in DOMAIN TableOf(db, t).cols

-----------------------------------------------------------------------------
(* Relations and expressions.                                              *)

PathToRel(e) ==
  [type |-> e.type, lt |-> e.l.table[2], lc |-> e.l.name, rt |-> e.r.table[2], rc |-> e.r.name,
   extra |-> [i \in DOMAIN e.extra |-> <<e.extra[i][1].name, e.extra[i][2].name>>]]

\* The relations on the way from one table to another, None if there is no way.
FindPath(db, from, to, kind, through) ==
  LET rels(a) == IF a.err # "" THEN None
                 ELSE [i \in DOMAIN a.path |-> PathToRel(db.graph.edges[a.path[i]])]
  IN rels(Graph!FindPath(db.graph, Graph!NoCols, from, to,
                         Graph!Options(db.graph, db.info, kind, through)).answer)

ColumnOf(t, c, id) == [kind |-> "col", table |-> t, col |-> c, id |-> id]
Value(v) == [kind |-> "val", val |-> v]
Variable(n) == [kind |-> "var", name |-> n]
Listed(s) == [kind |-> "list", vals |-> s]

Exp(op, l, r) == [op |-> op, l |-> l, r |-> r, kids |-> <<>>, joins |-> <<>>]
BoolExp(op, kids) == [op |-> op, l |-> None, r |-> None, kids |-> kids, joins |-> <<>>]
Refused == Exp("refused", None, None)

RECURSIVE IsRefused(_)
IsRefused(e) == e.op = "refused" \/ \E i \in DOMAIN e.kids : IsRefused(e.kids[i])

AddAndFilter(filter, ex) == IF filter = None THEN ex ELSE BoolExp("and", <<ex, filter>>)
AddAndFilterLast(filter, ex) == IF filter = None THEN ex ELSE BoolExp("and", <<filter, ex>>)
AddNotFilter(filter, ex) == AddAndFilter(filter, BoolExp("not", <<ex>>))

\* What joins two tables; the one on the right may be that of another
\* selection.
BuildFilter(rel, id) ==
  LET equal(l, r) == Exp("eq", ColumnOf(rel.lt, l, 0), ColumnOf(rel.rt, r, id))
      primary == equal(rel.lc, rel.rc)
  IN IF rel.extra = <<>> THEN primary
     ELSE BoolExp("and", <<primary>> \o [i \in DOMAIN rel.extra |-> equal(rel.extra[i][1], rel.extra[i][2])])

JoinOn(rel, id) == [rel |-> rel, filter |-> BuildFilter(rel, id), local |-> FALSE]
JoinsOn(rels) == [i \in DOMAIN rels |-> JoinOn(rels[Len(rels) + 1 - i], 0)]

-----------------------------------------------------------------------------
(* From the tree to an expression: root is the table of the selection, t the  *)
(* one that names stand for at this place.                                    *)

Connectives == {"and", "or", "not"}
Comparisons == {"eq", "neq", "gt", "lt", "gte", "lte", "dis", "ndis"}
Operators == Comparisons \cup {"in", "nin", "is_null"}

ValuesOf(node) == [i \in DOMAIN node.kids |-> node.kids[i].val]

\* An operator and what stands to its right: a column of the selection's
\* table, a list, a value or a variable. A label (null) is none of these.
ProcessOpAndVal(db, root, left, node) ==
  IF node.name \notin Operators THEN Refused
  ELSE IF node.type = "col" THEN
         (IF node.name \in Comparisons /\ HasColumn(db, root, node.val)
            THEN Exp(node.name, left, ColumnOf(root, node.val, 0)) ELSE Refused)
  ELSE IF node.type = "list" THEN Exp(node.name, left, Listed(ValuesOf(node)))
  ELSE IF node.type = "var" THEN Exp(node.name, left, Variable(node.val))
  ELSE IF node.type \in {"num", "bool"} THEN Exp(node.name, left, Value(node.val))
  ELSE Refused

\* { column: { or: [{ op: value }, ...] } }: the column goes before each item.
Attached(column, node) ==
  LET item(v) == IF v.name = "" /\ v.kids # <<>> THEN v.kids[1] ELSE v
  IN [node EXCEPT !.kids = [i \in DOMAIN @ |-> [column EXCEPT !.kids = <<item(node.kids[i])>>]]]

\* Relations nested in one another are one chain of joins, down to a node of
\* several conditions, a column, or a name that leads nowhere.
RECURSIVE Chain(_, _, _, _, _, _)
Chain(db, t, prev, node, last, joins) ==
  LET stop == [node |-> last, joins |-> joins]
      go(more) == IF Len(node.kids) # 1 THEN [node |-> node, joins |-> more]
                  ELSE Chain(db, t, node.name, node.kids[1], node, more)
      along(rels) == IF rels = None THEN stop ELSE go(joins \o JoinsOn(rels))
  IN IF \/ node.kids = <<>> \/ node.name \in Connectives \cup {"", t}
        \/ HasColumn(db, prev, node.name)
     THEN stop ELSE along(FindPath(db, node.name, prev, "none", ""))

\* The expressions a node stands for. Nodes wait on a stack, so children come
\* last first; the conditions of an object without a name belong to the
\* expression above it.
RECURSIVE ParseNode(_, _, _, _, _)
PushChildren(db, root, t, node, id) ==
  FlattenSeq([i \in DOMAIN node.kids |->
    ParseNode(db, root, t, node.kids[Len(node.kids) + 1 - i], id)])

ProcessBoolOps(db, root, t, node, id) ==
  IF Len(node.kids) < (IF node.name = "not" THEN 1 ELSE 2) THEN Refused
  ELSE BoolExp(node.name, PushChildren(db, root, t, node, id))

ProcessColumn(db, root, t, node, id) ==
  LET left == ColumnOf(t, node.name, id)
      op == node.kids[1]
  IN IF ~HasColumn(db, t, node.name) THEN Refused
     ELSE IF node.type = "list" THEN Exp("in", left, Listed(ValuesOf(node)))
     ELSE IF node.type = "var" THEN Exp("eq", left, Variable(node.val))
     ELSE IF node.type \in {"num", "bool"} THEN Exp("eq", left, Value(node.val))
     ELSE IF node.type # "obj" \/ Len(node.kids) # 1 THEN Refused
     ELSE IF op.name \in Connectives THEN ProcessBoolOps(db, root, t, Attached(node, op), id)
     ELSE ProcessOpAndVal(db, root, left, op)

ParseNode(db, root, t, node, id) ==
  LET exists(c) == [BoolExp("exists", PushChildren(db, root, c.joins[Len(c.joins)].rel.lt, c.node, id))
                    EXCEPT !.joins = c.joins]
      related(c) == IF c.joins = <<>> THEN <<ProcessColumn(db, root, t, node, id)>> ELSE <<exists(c)>>
  IN IF node.name = "" THEN PushChildren(db, root, t, node, id)
     ELSE IF node.name \in Connectives THEN <<ProcessBoolOps(db, root, t, node, id)>>
     ELSE IF node.type = "obj" /\ ~HasColumn(db, t, node.name) THEN
            related(Chain(db, t, root, node, node, <<>>))
     ELSE <<ProcessColumn(db, root, t, node, id)>>

\* Conditions side by side hold together.
CompileExpNode(db, t, node, id) ==
  LET all(tops) == IF tops = <<>> THEN Refused
                   ELSE FoldLeft(LAMBDA e, top : BoolExp("and", <<e, top>>), tops[1], Tail(tops))
  IN IF node.type # "obj" THEN Refused ELSE all(PushChildren(db, t, t, node, id))

ColumnsNamed(e) == {o \in {e.l, e.r} : o # None /\ o.kind = "col"}

\* A filter names no column that is hidden.
RECURSIVE ValidateUserFilter(_, _)
ValidateUserFilter(db, e) ==
  /\ \A o \in ColumnsNamed(e) : <<o.table, o.col>> \notin db.secret
  /\ \A i \in DOMAIN e.kids : ValidateUserFilter(db, e.kids[i])

CompileArgFilter(db, t, node, id) ==
  LET valid(ex) == IF IsRefused(ex) \/ ~ValidateUserFilter(db, ex) THEN Refused ELSE ex
  IN valid(CompileExpNode(db, t, node, id))

RECURSIVE HasFilterOnColumn(_, _)
HasFilterOnColumn(e, c) ==
  e # None /\ (\/ e.l # None /\ e.l.col = c
               \/ \E i \in DOMAIN e.kids : HasFilterOnColumn(e.kids[i], c))

\* The variables an expression is a parameter for.
RECURSIVE VariablesOf(_)
VariablesOf(e) ==
  IF e = None THEN {}
  ELSE {o.name : o \in {p \in {e.r} : p # None /\ p.kind = "var"}}
         \cup UNION {VariablesOf(e.kids[i]) : i \in DOMAIN e.kids}

-----------------------------------------------------------------------------
(* What an expression says, of d = [rows, vars] and an environment: TRUE,    *)
(* FALSE or None.                                                            *)

And3(S) == IF FALSE \in S THEN FALSE ELSE IF None \in S THEN None ELSE TRUE
Or3(S) == IF TRUE \in S THEN TRUE ELSE IF None \in S THEN None ELSE FALSE
Not3(v) == IF v = None THEN None ELSE ~v

At(env, t, id, row) ==
  [k \in DOMAIN env \cup {<<t, id>>} |-> IF k = <<t, id>> THEN row ELSE env[k]]

Read(env, t, id, c) ==
  IF <<t, id>> \in DOMAIN env /\ c \in DOMAIN env[<<t, id>>] THEN env[<<t, id>>][c] ELSE None

ValueOf(d, env, o) ==
  IF o = None THEN None
  ELSE CASE o.kind = "col" -> Read(env, o.table, o.id, o.col)
         [] o.kind = "val" -> o.val
         [] o.kind = "var" -> d.vars[o.name]
         [] o.kind = "list" -> o.vals

Compare(op, a, b) ==
  IF op = "is_null" THEN (a = None) = b
  ELSE IF op = "is_true" THEN b = TRUE
  ELSE IF op = "is_not_true" THEN b # TRUE
  ELSE IF op = "dis" THEN a # b
  ELSE IF op = "ndis" THEN a = b
  ELSE IF a = None \/ b = None THEN None
  ELSE CASE op = "eq" -> a = b
         [] op = "neq" -> a # b
         [] op = "gt" -> a > b
         [] op = "lt" -> a < b
         [] op = "gte" -> a >= b
         [] op = "lte" -> a <= b
         [] op = "in" -> a \in Elems(b)
         [] op = "nin" -> a \notin Elems(b)

\* A relation is asked for in the place its first join is made: EXISTS, over
\* the joined tables, with the first join's condition and the filter's.
RECURSIVE Truth(_, _, _)
RECURSIVE RenderNestedExp(_, _, _, _)
RenderNestedExp(d, env, e, i) ==
  IF i > Len(e.joins)
  THEN And3({Truth(d, env, e.joins[1].filter)}
              \cup {Truth(d, env, e.kids[k]) : k \in DOMAIN e.kids}) = TRUE
  ELSE \E k \in DOMAIN d.rows[e.joins[i].rel.lt] :
         LET t == e.joins[i].rel.lt
             inner == At(env, t, 0, d.rows[t][k])
         IN /\ i > 1 => Truth(d, inner, e.joins[i].filter) = TRUE
            /\ RenderNestedExp(d, inner, e, i + 1)

\* NOT takes the first of its conditions.
Truth(d, env, e) ==
  CASE e.op = "and" -> And3({Truth(d, env, e.kids[i]) : i \in DOMAIN e.kids})
    [] e.op = "or" -> Or3({Truth(d, env, e.kids[i]) : i \in DOMAIN e.kids})
    [] e.op = "not" -> Not3(Truth(d, env, e.kids[1]))
    [] e.op = "exists" -> RenderNestedExp(d, env, e, 1)
    [] OTHER -> Compare(e.op, ValueOf(d, env, e.l), ValueOf(d, env, e.r))

Satisfies(d, env, filter) == filter = None \/ Truth(d, env, filter) = TRUE
=============================================================================
