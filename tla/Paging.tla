-------------------------------- MODULE Paging -------------------------------
(* Paging: a request is compiled select by select (compileQuery), then run; a  *)
(* request with a cursor is run again and again for the pages of a list, while *)
(* other callers insert and delete rows.                                       *)
EXTENDS SelectMeaning

CONSTANTS Cases,       \* a sequence of [db, op: selections, vars, rows: of each table,
                       \* fresh: rows to insert, refused: whether the request has to be]
          MaxChanges,  \* bound: rows that other callers insert or delete
          MaxPages     \* bound: pages fetched

VARIABLES
  request,              \* one of the cases
  phase,
  todo, selects,        \* compileQuery: the stack of [f, parent] and the selects so far
  rows,                 \* the database
  cursor, pages,        \* the client: the cursor to go on from, the pages it has
  answer,               \* the last answer, with what it is an answer to
  stayed, changes       \* rows there from the first to the last page; changes made

vars == <<request, phase, todo, selects, rows, cursor, pages, answer, stayed, changes>>

db == request.db
Pushed(parent, fs) == [i \in DOMAIN fs |-> [f |-> fs[i], parent |-> parent]]

Init ==
  /\ \E i \in DOMAIN Cases : request = Cases[i]
  /\ phase = "compile" /\ todo = Pushed(0, request.op) /\ selects = <<>>
  /\ rows = request.rows
  /\ cursor = None /\ pages = <<>> /\ answer = None
  /\ stayed = {} /\ changes = 0

-----------------------------------------------------------------------------
(* compileQuery.                                                           *)

\* A cursor asked for by name is no selection.
IsFull == Len(selects) >= MaxSelectors
SkipKeyword ==
  /\ phase = "compile" /\ todo # <<>> /\ ~IsFull /\ Last(todo).f.kind = "keyword"
  /\ todo' = Front(todo)
  /\ UNCHANGED <<request, phase, selects, rows, cursor, pages, answer, stayed, changes>>

CompileNext ==
  /\ phase = "compile" /\ todo # <<>> /\ (IsFull \/ Last(todo).f.kind # "keyword")
  /\ \E next \in {Last(todo)} :
     \E sel \in {IF IsFull THEN None
                 ELSE CompileSelect(db, selects, next.parent, next.f)} :
       IF sel = None THEN phase' = "refused" /\ UNCHANGED <<todo, selects>>
       ELSE /\ todo' = Front(todo) \o Pushed(sel.id, Nested(next.f))
            /\ selects' = AddSelect(selects, sel) /\ phase' = phase
  /\ UNCHANGED <<request, rows, cursor, pages, answer, stayed, changes>>

CompileDone ==
  /\ phase = "compile" /\ todo = <<>>
  /\ phase' = IF selects # <<>> /\ ValidateGroupByJoinShape(selects) THEN "ready" ELSE "refused"
  /\ UNCHANGED <<request, todo, selects, rows, cursor, pages, answer, stayed, changes>>

-----------------------------------------------------------------------------
(* The pages of the root that goes on from a cursor; other requests have one.  *)

PagedRoots == {i \in Roots(selects) : selects[i].cursor /\ selects[i].ptype # "offset"}
Root == CHOOSE i \in PagedRoots : TRUE
Table == selects[Root].table
KeyOf(row) == [i \in DOMAIN db.pk[Table] |-> row[db.pk[Table][i]]]
Keys(seq) == {KeyOf(seq[k]) : k \in DOMAIN seq}

\* The variables of a page: those of the request and the cursor.
VarsWith(v) ==
  IF PagedRoots = {} \/ v = None THEN request.vars
  ELSE [n \in DOMAIN request.vars \cup {selects[Root].curvar} |->
          IF n = selects[Root].curvar THEN DecryptValues(v) ELSE request.vars[n]]

Database(back) == [driver |-> db.driver, back |-> back, rows |-> rows, vars |-> VarsWith(cursor)]

Fetch ==
  /\ phase = "ready" /\ Len(pages) < MaxPages
  /\ \E back \in BOOLEAN :
     \E d \in {Database(back)} :
       IF ~ArgsGiven(d, selects)
       THEN phase' = "failed" /\ UNCHANGED <<answer, pages, cursor>>
       ELSE \E data \in {RenderJSONRoot(d, db, selects)} :
              /\ answer' = [data |-> data, d |-> d]
              /\ IF PagedRoots = {} THEN phase' = "done" /\ UNCHANGED <<pages, cursor>>
                 ELSE \E page \in {data[selects[Root].fname]} :
                        /\ pages' = Append(pages, page)
                        /\ cursor' = EncryptValues(RenderCursor(d, selects[Root], BaseRows(d, NoEnv, db, selects, selects[Root])))
                        /\ phase' = IF Len(page) < LimitOf(d, selects[Root]) THEN "done" ELSE "ready"
  /\ stayed' = IF PagedRoots # {} /\ pages = <<>> THEN Keys(rows[Table]) ELSE stayed
  /\ UNCHANGED <<request, todo, selects, rows, changes>>

\* Other callers, between two pages.
Insert ==
  /\ phase = "ready" /\ pages # <<>> /\ changes < MaxChanges
  /\ \E row \in request.fresh :
       /\ KeyOf(row) \notin Keys(rows[Table])
       /\ rows' = [rows EXCEPT ![Table] = Append(@, row)]
  /\ changes' = changes + 1
  /\ UNCHANGED <<request, phase, todo, selects, cursor, pages, answer, stayed>>

Delete ==
  /\ phase = "ready" /\ pages # <<>> /\ changes < MaxChanges
  /\ \E k \in DOMAIN rows[Table] :
       /\ rows' = [rows EXCEPT ![Table] = RemoveAt(@, k)]
       /\ stayed' = stayed \ {KeyOf(rows[Table][k])}
  /\ changes' = changes + 1
  /\ UNCHANGED <<request, phase, todo, selects, cursor, pages, answer>>

Next == SkipKeyword \/ CompileNext \/ CompileDone \/ Fetch \/ Insert \/ Delete

Spec == Init /\ [][Next]_vars

-----------------------------------------------------------------------------
\* A request is refused exactly if it asks for something it may not. What is
\* answered is what it asks for, worked out without selects, SQL or joins, except
\* for requests with something the code answers otherwise (Departs, which cites
\* the line of each): several conditions in an element of `or` or in `not`, an
\* `id` after other filters, a relation among other conditions on a relation,
\* `last` with an order, an order by the rows of another table, conditions on a
\* field, `distinct` on SQLite, filtered or ordered recursion, and aggregates
\* with a limit or ordered by another column. (Pages behind the first are
\* PagesCover's.)
AnswerMeans ==
  /\ phase = "refused" => request.refused
  /\ phase \in {"ready", "done"} => ~request.refused
  /\ /\ answer # None /\ Len(pages) <= 1
     /\ \A f \in Elems(request.op) : f.kind = "keyword" \/ ~Departs(answer.d, db, f, None)
     => answer.data = Means(answer.d, db, request.op)

Walked == FlattenSeq(pages)
Asking == request.op[1]
Here == Database(FALSE)
WantedRows == {q \in Elems(rows[Table]) : Wanted(Here, db, Table, Asking, q)}
PlaceOf(row) == Key(Here, db, Table, Asking, <<row>>)
Earlier(a, b) == Before(Here, Direction(db, Table, Asking), PlaceOf(a), PlaceOf(b))

\* A row with a NULL among the columns it is ordered by, and the pages up to one.
Blank(row) == None \in Range(PlaceOf(row))
Blanks == {k \in DOMAIN Walked : Blank(Walked[k])}
Sound == {i \in DOMAIN Walked : \A k \in Blanks : i < k}

\* Whether a page went on from a NULL before it came to a row.
Behind(row) == \E k \in Blanks : ~Earlier(row, Walked[k])
Lost(row) == Behind(row) \/ Astray(Here, db, Table, Asking, row)

\* A client that goes on from the cursor of each page until a page is short gets
\* every wanted row that was there all the time, none twice and in the order
\* asked for, whatever came and went in between and however the database breaks
\* ties. Four things the code does otherwise, without a word to the caller:
\*  - a cursor does not say where among the rows with a NULL it stands
\*    ("could be null needs to be handled", qcode.go:849; the value is left out,
\*    sqlgen/query.go:488, or there is no cursor, 433), so behind the first one
\*    rows are lost or come again, and there may be no last page;
\*  - `last` with `before` goes on in the order asked for (fields.go:465), though
\*    it "walks backwards" (graphql-dialect.md:418);
\*  - ordered by another table, rows with no row there are lost (orderby.go:85);
\*  - by a column of it named like a key, there is no order to go on in
\*    (fields.go:459).
PagesCover ==
  pages # <<>> /\ ~Untied(db, Table, Asking) =>
    /\ Len(pages) = MaxPages /\ Blanks = {} => phase = "done"
    /\ phase = "done" =>
         \A r \in WantedRows : KeyOf(r) \in stayed /\ ~Lost(r) => KeyOf(r) \in Keys(Walked)
    /\ \A i, j \in Sound : i < j => KeyOf(Walked[i]) # KeyOf(Walked[j])
    /\ ~Unturned(Asking) => \A i, j \in Sound : i < j => ~Earlier(Walked[j], Walked[i])
=============================================================================
