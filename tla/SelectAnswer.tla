---------------------------- MODULE SelectAnswer -----------------------------
(* SelectAnswer: what the database answers to the SQL of a request's selects   *)
(* (core/sqlgen/query.go, columns.go and recur.go, with the dialects of        *)
(* PostgreSQL and SQLite), and its cursors, which leave sealed                 *)
(* (core/runtime/crypt.go).                                                    *)
(*                                                                             *)
(* d is [driver, rows: table -> rows in the order of the file, back: whether   *)
(* a scan goes backward, vars]: rows that no ORDER BY tells apart come as the  *)
(* scan has them. An object is a function from names to values; lists are      *)
(* sequences. A value that is not there is None.                               *)
EXTENDS SelectCompile

Rows(d, t) == IF d.back THEN Reverse(d.rows[t]) ELSE d.rows[t]
Postgres(d) == d.driver = "postgres"

-----------------------------------------------------------------------------
(* The variables of a request.                                             *)

ParamsOf(sel) ==
  UNION {VariablesOf(e) : e \in {sel.where, sel.filter}
                                  \cup {sel.fields[i].filter : i \in DOMAIN sel.fields}
                                  \cup {sel.joins[i].filter : i \in DOMAIN sel.joins}}
    \cup ({sel.limitvar, sel.offsetvar} \ {""})

\* A variable the statement has a parameter for is never taken to be NULL;
\* cursors are the exception.
ArgsGiven(d, selects) ==
  \A i \in DOMAIN selects : \A v \in ParamsOf(selects[i]) : v \in DOMAIN d.vars

CursorArg(d, sel) == IF sel.curvar \in DOMAIN d.vars THEN d.vars[sel.curvar] ELSE None

\* The parts of a cursor behind the number of its select.
CursorRow(cursor, order) ==
  [c \in {order[i].col : i \in DOMAIN order} |->
     LET i == CHOOSE k \in DOMAIN order : order[k].col = c
     IN IF cursor = None \/ i + 1 > Len(cursor) THEN None ELSE cursor[i + 1]]

-----------------------------------------------------------------------------
(* FROM, JOIN and WHERE: the environments that are left.                    *)

RECURSIVE RenderJoins(_, _, _)
RenderJoins(d, env, joins) ==
  LET t == joins[1].rel.lt
      with == [k \in DOMAIN Rows(d, t) |-> At(env, t, 0, Rows(d, t)[k])]
      kept == SelectSeq(with, LAMBDA e : Truth(d, e, joins[1].filter) = TRUE)
  IN IF joins = <<>> THEN <<env>>
     ELSE FlattenSeq([k \in DOMAIN kept |-> RenderJoins(d, kept[k], Tail(joins))])

RenderFrom(d, env, sel) ==
  LET cur == IF sel.cursor THEN At(env, "__cur", 0, CursorRow(CursorArg(d, sel), sel.order)) ELSE env
      rows == Rows(d, sel.table)
      joined == FlattenSeq([k \in DOMAIN rows |-> RenderJoins(d, At(cur, sel.table, 0, rows[k]), sel.joins)])
  IN SelectSeq(joined, LAMBDA e : Satisfies(d, e, sel.where))

-----------------------------------------------------------------------------
(* GROUP BY. A group is a sequence of environments, never an empty one but   *)
(* where there is nothing to group by.                                       *)

Distinct(s) == SelectSeq([i \in DOMAIN s |-> <<i, s[i]>>], LAMBDA p : ~\E j \in 1..(p[1] - 1) : s[j] = p[2])

GroupsOn(envs, Key(_)) ==
  LET by(keys) == [k \in DOMAIN keys |-> SelectSeq(envs, LAMBDA e : Key(e) = keys[k][2])]
  IN by(Distinct([i \in DOMAIN envs |-> Key(envs[i])]))

\* By what is distinct, else by all the inner SELECT has.
GroupColumns(sel) ==
  IF sel.distinct = <<>> THEN sel.bcols
  ELSE [i \in DOMAIN sel.distinct |-> [table |-> sel.table, col |-> sel.distinct[i]]]

RenderGroupBy(sel, envs) ==
  LET key(e) == [i \in DOMAIN GroupColumns(sel) |-> Read(e, sel.table, 0, GroupColumns(sel)[i].col)]
  IN IF ~sel.group THEN [i \in DOMAIN envs |-> <<envs[i]>>]
     ELSE IF sel.bcols = <<>> THEN <<envs>>
     ELSE GroupsOn(envs, key)

\* count counts what is there, sum and max of nothing are NULL.
SumOf(s) == FoldLeft(LAMBDA a, v : a + v, 0, s)
Function(fn, t, c, group) ==
  LET vals == SelectSeq([i \in DOMAIN group |-> Read(group[i], t, 0, c)], LAMBDA v : v # None)
  IN IF fn = "count" THEN Len(vals)
     ELSE IF vals = <<>> THEN None
     ELSE IF fn = "sum" THEN SumOf(vals)
     ELSE CHOOSE v \in Elems(vals) : \A w \in Elems(vals) : v >= w

-----------------------------------------------------------------------------
(* The columns of the inner SELECT, and of the outer one.                   *)

BaseColumns(sel) ==
  IF sel.group /\ sel.distinct # <<>> THEN SelectSeq(sel.bcols, LAMBDA b : b.col \in Elems(sel.distinct))
  ELSE IF sel.global THEN <<>> ELSE sel.bcols

RowEnv(env, group) == IF group = <<>> THEN env ELSE group[1]
FunctionFields(sel) == SelectSeq(sel.fields, LAMBDA f : f.fn # "")

RenderBaseColumns(d, env, sel, group) ==
  LET e == RowEnv(env, group)
      cols == BaseColumns(sel)
      fns == FunctionFields(sel)
      of(f) == IF Satisfies(d, e, f.filter) THEN Function(f.fn, sel.table, f.col, group) ELSE None
      col(c) == cols[CHOOSE i \in DOMAIN cols : cols[i].col = c]
      fn(n) == fns[CHOOSE i \in DOMAIN fns : fns[i].name = n]
      names == {fns[i].name : i \in DOMAIN fns}
  IN [n \in {cols[i].col : i \in DOMAIN cols} \cup names |->
        IF n \in names THEN of(fn(n)) ELSE Read(e, col(n).table, 0, n)]

RenderStdColumn(d, env, row, f) ==
  IF f.fn # "" THEN row[f.name]
  ELSE IF ~Satisfies(d, env, f.filter) THEN None
  ELSE row[f.col]

-----------------------------------------------------------------------------
(* ORDER BY, DISTINCT ON and LIMIT.                                         *)

NullsFirst(d, dir) ==
  \/ dir \in {"asc_nulls_first", "desc_nulls_first"}
  \/ Postgres(d) /\ dir = "desc"
  \/ ~Postgres(d) /\ dir \in {"", "asc"}

\* -1, 0 or 1: where a value goes from another.
Place(d, dir, a, b) ==
  IF a = b THEN 0
  ELSE IF a = None \/ b = None THEN IF (a = None) = NullsFirst(d, dir) THEN -1 ELSE 1
  ELSE IF (a < b) = Descending(dir) THEN 1 ELSE -1

\* The first key in which two rows differ.
Before(d, order, x, y) ==
  \E i \in DOMAIN order : /\ Place(d, order[i].dir, x[i], y[i]) = -1
                          /\ \A j \in 1..(i - 1) : Place(d, order[j].dir, x[j], y[j]) = 0

\* Rows in an order; those it does not tell apart stay as they are.
InOrder(d, order, rows, Key(_)) ==
  LET item(i) == [at |-> i, key |-> Key(rows[i]), row |-> rows[i]]
      first(p, q) == \/ Before(d, order, p.key, q.key)
                     \/ p.at < q.at /\ ~Before(d, order, q.key, p.key)
      out(items) == [k \in DOMAIN items |-> items[k].row]
  IN out(SortSeq([i \in DOMAIN rows |-> item(i)], first))

\* r is [row, group]: what it is ordered by. The name of a field is known where
\* the field is a function.
OrderKey(sel, r) ==
  [i \in DOMAIN sel.order |->
     LET o == sel.order[i]
     IN IF o.alias # "" THEN r.row[o.alias]
        ELSE IF o.fn # "" THEN Function(o.fn, sel.table, o.col, r.group)
        ELSE Read(r.group[1], o.table, 0, o.col)]

RenderOrderBy(d, sel, rows) ==
  LET key(r) == OrderKey(sel, r) IN InOrder(d, sel.order, rows, key)

RenderDistinctOn(d, sel, rows) ==
  LET key(r) == [i \in DOMAIN sel.distinct |-> Read(r.group[1], sel.table, 0, sel.distinct[i])]
      firsts == Distinct([i \in DOMAIN rows |-> key(rows[i])])
  IN IF sel.distinct = <<>> \/ sel.group \/ ~Postgres(d) THEN rows
     ELSE [k \in DOMAIN firsts |-> rows[firsts[k][1]]]

Least(a, b) == IF a = None \/ b < a THEN b ELSE a
Taken(s, from, n) == SubSeq(s, from + 1, IF from + n > Len(s) THEN Len(s) ELSE from + n)
OffsetOf(d, sel) == IF sel.offsetvar # "" THEN d.vars[sel.offsetvar] ELSE sel.offset

\* PostgreSQL holds a variable to the limit of the configuration.
LimitOf(d, sel) ==
  IF Postgres(d) /\ sel.singular THEN 1
  ELSE IF Postgres(d) /\ sel.limitvar # "" THEN Least(d.vars[sel.limitvar], sel.limit)
  ELSE IF sel.limitvar # "" THEN d.vars[sel.limitvar]
  ELSE sel.limit

RenderLimit(d, sel, rows) ==
  IF sel.nolimit THEN (IF Postgres(d) THEN Taken(rows, OffsetOf(d, sel), Len(rows)) ELSE rows)
  ELSE Taken(rows, OffsetOf(d, sel), LimitOf(d, sel))

\* The rows of the inner SELECT.
RenderBaseSelect(d, env, sel) ==
  LET inner(groups) == [k \in DOMAIN groups |->
        [row |-> RenderBaseColumns(d, env, sel, groups[k]), group |-> groups[k]]]
      outer(page) == [k \in DOMAIN page |-> page[k].row]
  IN outer(RenderLimit(d, sel, RenderDistinctOn(d, sel, RenderOrderBy(d, sel,
             inner(RenderGroupBy(sel, RenderFrom(d, env, sel)))))))

-----------------------------------------------------------------------------
(* Recursive relations: from the parent's row level by level; the parent is  *)
(* left out again. Neither order nor alias is rendered here.                 *)

OnlyColumns(row, cols) == [c \in {cols[i].col : i \in DOMAIN cols} |-> row[c]]

RECURSIVE RecursiveRows(_, _, _, _)
RecursiveRows(d, env, sel, level) ==
  LET rows == Rows(d, sel.table)
      below(r) == SelectSeq(rows, LAMBDA row :
                    Satisfies(d, At(At(env, sel.table, 0, row), Rcte(sel.rel), 0, r), sel.where))
      next == FlattenSeq([k \in DOMAIN level |->
                [i \in DOMAIN below(level[k]) |-> OnlyColumns(below(level[k])[i], sel.bcols)]])
  IN IF level = <<>> THEN <<>> ELSE level \o RecursiveRows(d, env, sel, next)

RenderRecursiveBaseSelect(d, env, db, psel, sel) ==
  LET pk == db.pk[sel.table]
      parent == env[<<psel.table, psel.id>>]
      seed == SelectSeq(Rows(d, sel.table), LAMBDA row : \A i \in DOMAIN pk : row[pk[i]] = parent[pk[i]])
      all == Tail(RecursiveRows(d, env, sel, <<OnlyColumns(seed[1], sel.bcols)>>))
      envs == [k \in DOMAIN all |-> At(env, sel.table, 0, all[k])]
      cols == SelectSeq(sel.fields, LAMBDA f : f.fn = "")
      key(e) == [i \in DOMAIN cols |-> Read(e, sel.table, 0, cols[i].col)]
      groups == IF ~sel.group THEN [i \in DOMAIN envs |-> <<envs[i]>>]
                ELSE IF cols = <<>> THEN <<envs>> ELSE GroupsOn(envs, key)
      value(g, f) == IF f.fn = "" THEN Read(g[1], sel.table, 0, f.col)
                     ELSE Function(f.fn, sel.table, f.col, g)
      field(n) == sel.fields[CHOOSE i \in DOMAIN sel.fields : sel.fields[i].name = n]
      row(g) == [n \in {sel.fields[i].name : i \in DOMAIN sel.fields} |-> value(g, field(n))]
  IN RenderLimit(d, sel, [k \in DOMAIN groups |-> row(groups[k])])

-----------------------------------------------------------------------------
(* The JSON of a select and of those below it.                              *)

Children(selects, sel) == {i \in DOMAIN selects : selects[i].parent = sel.id}

RECURSIVE RenderJSON(_, _, _, _, _)
RenderObject(d, env, db, selects, sel, row) ==
  LET here == At(env, sel.table, sel.id, row)
      child(n) == {i \in Children(selects, sel) : selects[i].fname = n}
      field(n) == sel.fields[CHOOSE i \in DOMAIN sel.fields : sel.fields[i].name = n]
      names == {sel.fields[i].name : i \in DOMAIN sel.fields}
  IN [n \in names \cup {selects[i].fname : i \in Children(selects, sel)} |->
        IF n \in names THEN RenderStdColumn(d, here, row, field(n))
        ELSE RenderJSON(d, here, db, selects, selects[CHOOSE i \in child(n) : TRUE])]

BaseRows(d, env, db, selects, sel) ==
  IF IsRecursive(sel)
  THEN RenderRecursiveBaseSelect(d, env, db, selects[sel.parent], sel)
  ELSE RenderBaseSelect(d, env, sel)

RenderRows(d, env, db, selects, sel, rows) ==
  IF sel.singular THEN (IF rows = <<>> THEN None ELSE RenderObject(d, env, db, selects, sel, rows[1]))
  ELSE IF ~Satisfies(d, env, sel.filter) THEN None
  ELSE [k \in DOMAIN rows |-> RenderObject(d, env, db, selects, sel, rows[k])]

RenderJSON(d, env, db, selects, sel) ==
  RenderRows(d, env, db, selects, sel, BaseRows(d, env, db, selects, sel))

NoEnv == [k \in {} |-> None]
Roots(selects) == {i \in DOMAIN selects : selects[i].parent = 0}

RenderJSONRoot(d, db, selects) ==
  [n \in {selects[i].fname : i \in Roots(selects)} |->
     RenderJSON(d, NoEnv, db, selects, selects[CHOOSE i \in Roots(selects) : selects[i].fname = n])]

-----------------------------------------------------------------------------
(* Cursors.                                                                 *)

\* The number of the select and what the last row of a page is ordered by.
\* PostgreSQL leaves out a NULL, SQLite has no cursor then.
RenderCursor(d, sel, rows) ==
  LET last == rows[Len(rows)]
      vals == [i \in DOMAIN sel.order |-> last[sel.order[i].col]]
      there == SelectSeq(vals, LAMBDA v : v # None)
  IN IF rows = <<>> THEN (IF Postgres(d) THEN <<sel.id>> ELSE None)
     ELSE IF Postgres(d) \/ there = vals THEN <<sel.id>> \o there
     ELSE None

\* A cursor leaves sealed with the key of the engine, and comes back in the
\* variables of another request.
EncryptValues(cursor) == IF cursor = None THEN None ELSE [sealed |-> cursor]
DecryptValues(v) == IF v = None THEN None ELSE v.sealed
=============================================================================
