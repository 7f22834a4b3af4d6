---------------------------- MODULE SelectCompile ----------------------------
(* SelectCompile: from the selections of a request to the selects SQL is made  *)
(* of (graphql/qcode.go, fields.go, args.go, orderby.go, dir.go and fn.go).    *)
(*                                                                             *)
(* A selection is [name, alias, kind, args, dirs, kids]: kind is "keyword" for *)
(* a name that asks for no data, args are nodes (Filters), dirs are            *)
(* [name, args]. A select has a place in the list of selects; 0 stands for the *)
(* request. None stands for a request that is refused.                         *)
EXTENDS Filters

CONSTANTS Aggregates,    \* the name of an aggregate and its column -> [fn, col]
          DefaultLimit,  \* Config.DefaultLimit
          MaxSelectors   \* how many selects a request may have

Nullable(db, t, c) == <<t, c>> \in db.nullable
Secret(db, t, c) == <<t, c>> \in db.secret
FieldName(f) == IF f.alias = "" THEN f.name ELSE f.alias
IsVariable(node) == node.type = "var"

\* A stage is for a select that none refused before.
Then(sel, Stage(_)) == IF sel = None THEN None ELSE Stage(sel)
Check(ok, sel) == IF ok THEN sel ELSE None

\* Stages in turn, for the items of a list.
RECURSIVE InTurn(_, _, _)
InTurn(Stage(_, _), sel, items) ==
  IF sel = None \/ items = <<>> THEN sel ELSE InTurn(Stage, Stage(sel, items[1]), Tail(items))

NewSelect(id, parent, f) ==
  [id |-> id, parent |-> parent, name |-> f.name, fname |-> FieldName(f), table |-> "",
   rel |-> None, unrelated |-> FALSE, kind |-> "table", through |-> "", singular |-> FALSE,
   joins |-> <<>>, where |-> None, filter |-> None, find |-> "",
   order |-> <<>>, dir |-> "", limit |-> 0, nolimit |-> FALSE, limitvar |-> "",
   offset |-> 0, offsetvar |-> "", cursor |-> FALSE, ptype |-> "offset", curvar |-> "cursor",
   fields |-> <<>>, bcols |-> <<>>, distinct |-> <<>>, group |-> FALSE, global |-> FALSE]

-----------------------------------------------------------------------------
(* Directives.                                                             *)

SkipInclude(dir, arg) ==
  Exp(IF dir.name = "skip" THEN "is_not_true" ELSE "is_true", None, Variable(arg.val))

\* @include and @skip of a selection show in its filter and in its rows.
SkipIncludeSelect(sel, dir) ==
  LET one(s, arg) == Check(arg.name = "ifVar" /\ IsVariable(arg),
        [s EXCEPT !.filter = AddAndFilter(@, SkipInclude(dir, arg)),
                  !.where = AddAndFilter(@, SkipInclude(dir, arg))])
  IN Check(dir.args # <<>>, InTurn(one, sel, dir.args))

Through(sel, dir) ==
  Check(dir.args # <<>> /\ dir.args[1].name \in {"table", "column"},
        [sel EXCEPT !.kind = dir.args[1].name, !.through = dir.args[1].val])

CompileSelectorDirective(sel, dir) ==
  CASE dir.name \in {"include", "skip"} -> SkipIncludeSelect(sel, dir)
    [] dir.name = "notRelated" -> [sel EXCEPT !.unrelated = TRUE]
    [] dir.name = "through" -> Through(sel, dir)
    [] dir.name = "object" -> [sel EXCEPT !.singular = TRUE, !.limit = 1]
    [] OTHER -> None

CompileSelectorDirectives(sel, dirs) == InTurn(CompileSelectorDirective, sel, dirs)

CompileFieldDirective(field, dir) ==
  LET one(f, arg) == Check(arg.name = "ifVar" /\ IsVariable(arg),
                           [f EXCEPT !.filter = AddAndFilter(@, SkipInclude(dir, arg))])
  IN Check(dir.name \in {"include", "skip"} /\ dir.args # <<>>, InTurn(one, field, dir.args))

-----------------------------------------------------------------------------
(* Which table, and how its rows belong to those of the parent.            *)

\* The relation is the first step from the child, the joins are the others,
\* the one that touches the parent first.
Related(db, sel, psel) ==
  LET along(rels) ==
        [sel EXCEPT !.rel = rels[1], !.table = rels[1].lt,
           !.joins = [i \in 1..(Len(rels) - 1) |->
                        JoinOn(rels[Len(rels) + 1 - i], IF i = 1 THEN sel.parent ELSE 0)]]
  IN Then(FindPath(db, sel.name, psel.name, sel.kind, sel.through), along)

SetSingular(sel) ==
  [sel EXCEPT !.singular = \/ sel.singular
                           \/ sel.joins = <<>> /\ sel.rel # None /\ sel.rel.type = "many"]

AddRelInfo(db, selects, sel) ==
  LET found == IF sel.parent = 0 \/ sel.unrelated
               THEN Check(Has(db, sel.name), [sel EXCEPT !.table = sel.name])
               ELSE Related(db, sel, selects[sel.parent])
      shown(s) == Check(s.table \notin db.hidden, SetSingular(s))
  IN Then(found, shown)

SetLimit(sel) ==
  IF sel.limit # 0 \/ sel.nolimit THEN sel ELSE [sel EXCEPT !.limit = DefaultLimit]

-----------------------------------------------------------------------------
(* Arguments.                                                              *)

IdEquals(sel, c, node) ==
  Exp("eq", ColumnOf(sel.table, c, 0), IF IsVariable(node) THEN Variable(node.val) ELSE Value(node.val))

\* The keys of a composite key come by name; the rest of the filter is lost.
CompileArgID(db, sel, arg) ==
  LET pk == db.pk[sel.table]
      given(c) == SelectSeq(arg.kids, LAMBDA k : k.name = c)
      composite == arg.type = "obj" /\ Len(pk) > 1
      each == [i \in DOMAIN pk |-> IdEquals(sel, pk[i], given(pk[i])[1])]
      by(ex) == [sel EXCEPT !.where = ex, !.singular = TRUE]
  IN IF sel.parent # 0 \/ pk = <<>> THEN None
     ELSE IF composite
     THEN Check(\A i \in DOMAIN pk : given(pk[i]) # <<>> /\ given(pk[i])[1].type \in {"num", "str", "var"},
                by(BoolExp("and", each)))
     ELSE Check(arg.type \in {"num", "str", "var"}, by(IdEquals(sel, pk[1], arg)))

CompileArgWhere(db, sel, arg) ==
  LET filter(ex) == Check(~IsRefused(ex), [sel EXCEPT !.where = AddAndFilterLast(@, ex)])
  IN IF arg.type # "obj" THEN None ELSE filter(CompileArgFilter(db, sel.table, arg, 0))

Orders == {"asc", "desc", "asc_nulls_first", "desc_nulls_first", "asc_nulls_last", "desc_nulls_last"}
Descending(dir) == dir \in {"desc", "desc_nulls_first", "desc_nulls_last"}
OrderBy(t, c, fn, alias, dir) == [table |-> t, col |-> c, fn |-> fn, alias |-> alias, dir |-> dir]

\* A column, an aggregate of one, or else the name of a field to come.
SetOrderByColName(db, t, name, dir) ==
  CASE HasColumn(db, t, name) -> OrderBy(t, name, "", "", dir)
    [] ~HasColumn(db, t, name) /\ name \in DOMAIN Aggregates ->
         Check(HasColumn(db, t, Aggregates[name].col),
               OrderBy(t, Aggregates[name].col, Aggregates[name].fn, "", dir))
    [] OTHER -> OrderBy("", "", "", name, dir)

\* One entry of order_by: by a column of a related table, its joins are made.
AddOrderBy(sel, joins, ob) ==
  Check(\A i \in DOMAIN sel.order : <<sel.order[i].col, sel.order[i].alias>> # <<ob.col, ob.alias>>,
        [sel EXCEPT !.order = Append(@, ob), !.joins = joins \o @])

CompileArgOrderByEntry(db, sel, node) ==
  LET entry(t, leaf, joins) ==
        LET add(ob) == AddOrderBy(sel, joins, ob)
        IN Then(Check(leaf.val \in Orders, SetOrderByColName(db, t, leaf.name, leaf.val)), add)
      along(rels) ==
        entry(rels[1].lt, node.kids[1], [i \in DOMAIN rels |-> [JoinsOn(rels)[i] EXCEPT !.local = TRUE]])
  IN IF node.type = "obj" THEN Then(FindPath(db, node.name, sel.table, "none", ""), along)
     ELSE entry(sel.table, node, <<>>)

CompileArgOrderByObj(db, sel, arg) ==
  LET entry(s, node) == CompileArgOrderByEntry(db, s, node)
      whole(s) == [s EXCEPT !.joins = sel.joins \o @]
  IN IF arg.type # "obj" THEN None ELSE Then(InTurn(entry, [sel EXCEPT !.joins = <<>>], arg.kids), whole)

CompileArgDistinctOn(db, sel, arg) ==
  LET names == IF arg.type = "str" THEN <<arg.val>> ELSE ValuesOf(arg)
  IN Check(arg.type \in {"str", "list"} /\ \A i \in DOMAIN names : HasColumn(db, sel.table, names[i]),
           [sel EXCEPT !.distinct = @ \o names])

CompileArgLimit(sel, arg) ==
  CASE arg.type = "num" -> [sel EXCEPT !.limit = arg.val, !.nolimit = FALSE]
    [] arg.type = "var" -> [sel EXCEPT !.limitvar = arg.val, !.nolimit = FALSE]
    [] OTHER -> None

CompileArgOffset(sel, arg) ==
  CASE arg.type = "num" -> [sel EXCEPT !.offset = arg.val]
    [] arg.type = "var" -> [sel EXCEPT !.offsetvar = arg.val]
    [] OTHER -> None

CompileArgFirstLast(sel, arg) ==
  LET paged(s) == [s EXCEPT !.cursor = @ \/ ~s.singular, !.dir = IF arg.name = "last" THEN "desc" ELSE "asc"]
  IN Then(CompileArgLimit(sel, arg), paged)

CompileArgAfterBefore(sel, arg) ==
  Check(IsVariable(arg) /\ arg.val \in {"cursor", sel.fname \o "_cursor"},
        [sel EXCEPT !.ptype = arg.name, !.curvar = arg.val, !.cursor = @ \/ ~sel.singular])

CompileArgFind(sel, arg) ==
  Check(sel.rel # None /\ sel.rel.lt = sel.rel.rt /\ arg.val \in {"parents", "children"},
        [sel EXCEPT !.find = arg.val])

CompileSelectArg(db, sel, arg) ==
  CASE arg.name = "id" -> CompileArgID(db, sel, arg)
    [] arg.name = "where" -> CompileArgWhere(db, sel, arg)
    [] arg.name = "order_by" -> CompileArgOrderByObj(db, sel, arg)
    [] arg.name = "distinct" -> CompileArgDistinctOn(db, sel, arg)
    [] arg.name = "limit" -> CompileArgLimit(sel, arg)
    [] arg.name = "offset" -> CompileArgOffset(sel, arg)
    [] arg.name \in {"first", "last"} -> CompileArgFirstLast(sel, arg)
    [] arg.name \in {"after", "before"} -> CompileArgAfterBefore(sel, arg)
    [] arg.name = "find" -> CompileArgFind(sel, arg)
    [] OTHER -> None

CompileSelectArgs(db, sel, args) ==
  LET one(s, arg) == CompileSelectArg(db, s, arg) IN InTurn(one, sel, args)

-----------------------------------------------------------------------------
(* Fields and the columns they need. bcols are what the inner SELECT has.   *)

ColumnField(f) == [name |-> FieldName(f), fn |-> "", col |-> f.name, filter |-> None]

AddBaseCol(sel, t, c) ==
  IF \E i \in DOMAIN sel.bcols : sel.bcols[i].col = c THEN sel
  ELSE [sel EXCEPT !.bcols = Append(@, [table |-> t, col |-> c])]

AddBaseCols(sel, t, cols) ==
  LET one(s, c) == AddBaseCol(s, t, c) IN InTurn(one, sel, cols)

AddField(sel, field) ==
  LET s == IF field.fn = "" THEN AddBaseCol(sel, sel.table, field.col) ELSE sel
  IN IF \E i \in DOMAIN s.fields : s.fields[i].name = field.name THEN s
     ELSE [s EXCEPT !.fields = Append(@, field)]

\* sum_price and sum(column: price) are one aggregate.
AggregateNames == {Aggregates[n].fn : n \in DOMAIN Aggregates}
ColumnArg(f) == SelectSeq(f.args, LAMBDA a : a.name = "column")
AggregateOf(f) ==
  IF f.name \in AggregateNames /\ ColumnArg(f) # <<>>
  THEN [fn |-> f.name, col |-> ColumnArg(f)[1].val]
  ELSE IF f.name \in DOMAIN Aggregates THEN Aggregates[f.name] ELSE None

IsFunction(db, sel, f) ==
  LET agg == AggregateOf(f)
  IN IF agg = None THEN None
     ELSE Check(HasColumn(db, sel.table, agg.col),
                [name |-> FieldName(f), fn |-> agg.fn, col |-> agg.col, filter |-> None])

\* includeIf and skipIf: of a function they are asked of the inner SELECT.
CompileFieldArg(db, sel, field, arg) ==
  LET filter(ex) == Check(~IsRefused(ex),
        [field EXCEPT !.filter = IF arg.name = "skipIf" THEN AddNotFilter(@, ex) ELSE AddAndFilter(@, ex)])
  IN CASE arg.name = "column" -> Check(field.fn # "", field)
       [] arg.name \in {"includeIf", "skipIf"} ->
            IF arg.type # "obj" THEN None
            ELSE filter(CompileArgFilter(db, sel.table, arg, IF field.fn = "" THEN sel.id ELSE 0))
       [] OTHER -> None

CompileField(db, sel, f) ==
  LET arg(field, a) == CompileFieldArg(db, sel, field, a)
      args(field) == InTurn(arg, field, f.args)
      shown(field) == Check(field.fn # "" \/ ~Secret(db, sel.table, field.col), field)
      plain == IF HasColumn(db, sel.table, f.name) THEN ColumnField(f) ELSE IsFunction(db, sel, f)
  IN Then(Then(InTurn(CompileFieldDirective, plain, f.dirs), args), shown)

\* An aggregate under a recursive relation is worked out a level above.
IsRecursive(sel) == sel.rel # None /\ sel.rel.type = "recursive"
CompileChildColumn(db, sel, f) ==
  LET add(field) ==
        AddField(IF field.fn # "" /\ IsRecursive(sel) THEN AddBaseCol(sel, sel.table, field.col) ELSE sel, field)
  IN Then(CompileField(db, sel, f), add)

Leaves(f) == SelectSeq(f.kids, LAMBDA k : k.kids = <<>> /\ k.kind # "keyword")
Nested(f) == SelectSeq(f.kids, LAMBDA k : k.kids # <<>>)
HasAggregate(sel) == \E i \in DOMAIN sel.fields : sel.fields[i].fn # ""
HasNonAggField(sel) == \E i \in DOMAIN sel.fields : sel.fields[i].fn = ""

\* Nothing but aggregates of a whole table is one row, whatever the limit.
Grouped(sel) ==
  LET global == sel.distinct = <<>> /\ sel.rel = None /\ ~HasNonAggField(sel)
  IN IF ~HasAggregate(sel) THEN sel
     ELSE IF global THEN [sel EXCEPT !.group = TRUE, !.global = TRUE, !.nolimit = TRUE, !.limit = 0]
     ELSE [sel EXCEPT !.group = TRUE]

CompileChildColumns(db, sel, f) ==
  LET one(s, k) == CompileChildColumn(db, s, k) IN Then(InTurn(one, sel, Leaves(f)), Grouped)

\* The columns of the parent a relation goes by; a recursive one goes by columns
\* of the select itself.
RightColumns(rel) == <<rel.rc>> \o [i \in DOMAIN rel.extra |-> rel.extra[i][2]]
ColumnsRel(sel) ==
  CASE sel.joins = <<>> -> sel.rel
    [] sel.joins # <<>> /\ sel.joins[1].local -> None
    [] OTHER -> sel.joins[1].rel

AddRelColumns(psel, rel) ==
  IF rel = None \/ rel.type = "recursive" THEN psel ELSE AddBaseCols(psel, rel.rt, RightColumns(rel))

AddOwnColumns(sel) ==
  LET rel == ColumnsRel(sel)
      plain(o) == o.fn = "" /\ o.alias = ""
      one(s, o) == IF plain(o) THEN AddBaseCol(s, o.table, o.col) ELSE s
      own == IF rel # None /\ rel.type = "recursive" THEN AddBaseCols(sel, sel.table, <<rel.lc, rel.rc>>) ELSE sel
  IN InTurn(one, own, sel.order)

GroupedByOrder(sel) == [sel EXCEPT !.group = @ \/ \E i \in DOMAIN sel.order : sel.order[i].fn # ""]

CompileFields(db, sel, f) ==
  LET rest(s) == AddOwnColumns(GroupedByOrder(s)) IN Then(CompileChildColumns(db, sel, f), rest)

\* Every alias ordered by is a field's, and no column ordered by or made
\* distinct is hidden.
ValidateOrderBy(db, sel) ==
  LET known(o) == IF o.alias # "" THEN \E i \in DOMAIN sel.fields : sel.fields[i].name = o.alias
                  ELSE ~Secret(db, o.table, o.col)
  IN Check(/\ \A i \in DOMAIN sel.order : known(sel.order[i])
           /\ \A i \in DOMAIN sel.distinct : ~Secret(db, sel.table, sel.distinct[i]), sel)

-----------------------------------------------------------------------------
(* What the compiler adds to the filter and the order.                     *)

\* Of a table in partitions the last ones, unless the filter says which.
CheckPartitionFilter(db, sel) ==
  LET part == db.part[sel.table]
      bound == Exp("gte", ColumnOf(sel.table, part.col, 0), Value(part.bound))
  IN IF part = None THEN sel
     ELSE IF HasFilterOnColumn(sel.where, part.col) \/ part.bound = None THEN sel
     ELSE [sel EXCEPT !.where = AddAndFilter(@, bound)]

\* The primary key makes the order of a page total.
OrderByColumn(sel, c) ==
  LET s == AddBaseCol(sel, sel.table, c)
  IN IF \E i \in DOMAIN s.order : s.order[i].col = c THEN s
     ELSE [s EXCEPT !.order = Append(@, OrderBy(s.table, c, "", "", s.dir))]

\* Variant: only a page that has no order gets one.
OrderByIDColUnordered(db, sel) ==
  IF sel.order # <<>> THEN sel ELSE InTurn(OrderByColumn, sel, db.pk[sel.table])
OrderByIDCol(db, sel) == Check(db.pk[sel.table] # <<>>, InTurn(OrderByColumn, sel, db.pk[sel.table]))

IsNull(t, c) == Exp("is_null", ColumnOf(t, c, 0), Value(TRUE))
Cur(c) == ColumnOf("__cur", c, 0)

\* Behind the cursor: in the first column, or equal up to one and behind in it.
\* A column that may be null lets in what the alternatives before it do.
SeekOp(op, dir) == IF op # "" THEN op ELSE IF Descending(dir) THEN "lt" ELSE "gt"
SeekColumn(db, ob, op, before) ==
  LET f == Exp(SeekOp(op, ob.dir), ColumnOf(ob.table, ob.col, 0), Cur(ob.col))
  IN IF ~Nullable(db, ob.table, ob.col) THEN f
     ELSE BoolExp("or", before \o <<IsNull("__cur", ob.col), IsNull(ob.table, ob.col), f>>)

RECURSIVE SeekFrom(_, _, _, _)
SeekFrom(db, order, i, before) ==
  LET upto == [n \in 1..i |-> SeekColumn(db, order[n], IF n < i THEN "eq" ELSE "", before)]
  IN IF i > Len(order) THEN before
     ELSE SeekFrom(db, order, i + 1, Append(before, IF i = 1 THEN upto[1] ELSE BoolExp("and", upto)))

AddSeekPredicate(db, sel) ==
  [sel EXCEPT !.where = AddAndFilter(@,
     BoolExp("or", SeekFrom(db, sel.order, 1, <<IsNull("__cur", sel.order[1].col)>>)))]

\* Groups have no keys to go on from.
Paged(db, sel) ==
  LET seek(s) == IF s.ptype = "offset" THEN s ELSE AddSeekPredicate(db, s)
  IN IF ~sel.cursor THEN sel
     ELSE IF sel.group THEN [sel EXCEPT !.cursor = FALSE]
     ELSE Then(OrderByIDCol(db, sel), seek)

\* A level of a recursive relation is made from the one before it.
Rcte(rel) == "__rcte_" \o rel.rt
RecursiveFilter(sel) ==
  LET rel == sel.rel
      up == sel.find = "parents"
      key(t) == ColumnOf(t, rel.lc, 0)
      ref(t) == ColumnOf(t, rel.rc, 0)
      self == IF up THEN Rcte(rel) ELSE rel.lt
  IN BoolExp("and", <<Exp("is_null", key(self), Value(FALSE)),
                      Exp("neq", key(self), ref(self)),
                      IF up THEN Exp("eq", ref(rel.lt), key(Rcte(rel)))
                      ELSE Exp("eq", key(rel.lt), ref(Rcte(rel)))>>)

\* Variant: the place of the parent stays when there are joins on the way.
SetRelFiltersOfParent(sel) ==
  IF sel.rel = None THEN sel
  ELSE IF sel.rel.type = "recursive" THEN [sel EXCEPT !.where = AddAndFilter(@, RecursiveFilter(sel))]
  ELSE [sel EXCEPT !.where = AddAndFilter(@, BuildFilter(sel.rel, sel.parent))]

SetRelFilters(sel) ==
  IF sel.rel = None THEN sel
  ELSE IF sel.rel.type = "recursive" THEN [sel EXCEPT !.where = AddAndFilter(@, RecursiveFilter(sel))]
  ELSE [sel EXCEPT !.where =
          AddAndFilter(@, BuildFilter(sel.rel, IF sel.joins = <<>> THEN sel.parent ELSE 0))]

ValidateSelect(sel) == Check(IsRecursive(sel) => sel.find # "", sel)

-----------------------------------------------------------------------------
(* A select of a request, and the request as a whole.                      *)

CompileSelect(db, selects, parent, f) ==
  LET new == NewSelect(Len(selects) + 1, parent, f)
      args(s) == CompileSelectArgs(db, SetLimit(s), f.args)
      fields(s) == CompileFields(db, s, f)
      checked(s) == ValidateOrderBy(db, s)
      paged(s) == Paged(db, CheckPartitionFilter(db, s))
      related(s) == AddRelInfo(db, selects, s)
  IN Then(Then(Then(Then(Then(Then(Then(CompileSelectorDirectives(new, f.dirs),
       related), args), fields), checked), paged), SetRelFilters), ValidateSelect)

\* The selects with a new one, and with what it needs of its parent.
AddSelect(selects, sel) ==
  Append([i \in DOMAIN selects |->
            IF i = sel.parent THEN AddRelColumns(selects[i], ColumnsRel(sel)) ELSE selects[i]], sel)

\* Rows grouped by some columns have one value only for those.
ValidateGroupByJoinShape(selects) ==
  \A i \in DOMAIN selects :
    LET child == selects[i]
        touching == IF child.joins # <<>> THEN child.joins[1].rel ELSE child.rel
        parent == selects[child.parent]
    IN child.parent # 0 /\ child.rel # None /\ parent.group /\ parent.distinct # <<>>
         => touching.rc \in Elems(parent.distinct)
=============================================================================
