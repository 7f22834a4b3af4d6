---------------------------- MODULE JoinDocuments ----------------------------
(***************************************************************************)
(* The documents of a request over several databases: which selections     *)
(* another database answers (graphql/qcode.go, fields.go), what one        *)
(* database answers (core/sqlgen), the query for a placeholder and the     *)
(* stitching of the results (core/dbjoin, core/engine/dbjoin.go).  The     *)
(* goroutines that do this are in CrossJoin.                               *)
(***************************************************************************)
EXTENDS JoinMeaning

-----------------------------------------------------------------------------
(* Compiling: which selections another database has to answer.             *)

\* FindCrossDBPath, forward: the parent's table refers to the child's, which
\* lives in another database.
ForwardKeys(parent, child) == {f \in Fks : f.table = parent /\ f.ref = child}
Crosses(parent, child) ==
  /\ ForwardKeys(parent, child) # {}
  /\ Tables[parent] # Tables[child]
ForwardKey(parent, child) == CHOOSE f \in ForwardKeys(parent, child) : TRUE

\* compileQuery: roots are pushed in order and popped from the end, and so are
\* the selections below.  All below a joined selection is joined as well, in
\* the same database and without a key of its own.
RECURSIVE Compile(_, _)
Compile(stack, sels) ==
  LET top == Last(stack)
      below == top.parent # 0 /\ sels[top.parent].joined
      sel == [node   |-> top.node,
              parent |-> top.parent,
              below  |-> below,
              db     |-> IF below THEN sels[top.parent].db ELSE Tables[top.node.name],
              joined |-> \/ below
                         \/ top.parent # 0 /\ Crosses(sels[top.parent].node.name, top.node.name)]
      kids == [n \in 1..Len(top.node.kids) |->
                 [node |-> top.node.kids[n], parent |-> Len(sels) + 1]]
  IN  IF stack = <<>> THEN sels ELSE Compile(Front(stack) \o kids, Append(sels, sel))

Selects(q) == Compile([n \in 1..Len(q) |-> [node |-> q[n], parent |-> 0]], <<>>)

PlaceholderOf(sel)  == "__" \o sel.node.as \o "_db_join"
ChildrenOf(sels, i) == SelectSeq([j \in 1..Len(sels) |-> j],
                                 LAMBDA j : sels[j].parent = i)

\* addRelColumns, RelDatabaseJoin: the parent gets the column that refers to
\* the other database under the name of the placeholder.
JoinFields(sels, i) ==
  LET kids == SelectSeq(ChildrenOf(sels, i),
                        LAMBDA j : sels[j].joined /\ ~sels[i].joined)
  IN  [n \in 1..Len(kids) |->
         [as   |-> PlaceholderOf(sels[kids[n]]),
          name |-> ForwardKey(sels[i].node.name, sels[kids[n]].node.name).col]]

-----------------------------------------------------------------------------
(* What one database answers.                                              *)

\* The rows of selection j that belong to a row of its parent i.
RelatedRows(sels, i, j, row) ==
  LET p == sels[i].node.name
      c == sels[j].node.name
  IN  IF ForwardKeys(p, c) # {}
      THEN RowsWith(c, ForwardKey(p, c).refcol, row[ForwardKey(p, c).col])
      ELSE RowsWith(c, ForwardKey(c, p).col, row[ForwardKey(c, p).refcol])

\* A row as JSON: its columns, then the selections below that are rendered.
\* A row that the parent refers to is an object, others are lists.
RECURSIVE RowDocument(_, _, _)
RowDocument(sels, i, row) ==
  LET cols == sels[i].node.cols \o JoinFields(sels, i)
      kids == SelectSeq(ChildrenOf(sels, i), LAMBDA j : ~sels[j].joined)
      docs(j, rows) == [n \in 1..Len(rows) |-> RowDocument(sels, j, rows[n])]
      under(j) ==
        LET rows == RelatedRows(sels, i, j, row) IN
        CASE ForwardKeys(sels[i].node.name, sels[j].node.name) = {} ->
               ListOf(docs(j, rows))
          [] ForwardKeys(sels[i].node.name, sels[j].node.name) # {} ->
               IF rows = <<>> THEN NullValue ELSE RowDocument(sels, j, rows[1])
  IN  ObjectOf([n \in 1..Len(cols) |-> Member(cols[n].as, row[cols[n].name])]
               \o [n \in 1..Len(kids) |->
                     Member(sels[kids[n]].node.as, under(kids[n]))])

\* The document of a query; "keep" says which rows its roots have.
Document(q, keep(_, _)) ==
  LET sels  == Selects(q)
      roots == ChildrenOf(sels, 0)
      rows(i) == SelectSeq(Rows[sels[i].node.name],
                           LAMBDA row : keep(sels[i].node, row))
  IN  ObjectOf([n \in 1..Len(roots) |->
        Member(sels[roots[n]].node.as,
          ListOf([m \in 1..Len(rows(roots[n])) |->
                    RowDocument(sels, roots[n], rows(roots[n])[m])]))])

AllRows(node, row) == TRUE

\* WriteSelectFields: the query for the other database names every field by
\* the name it is answered under.
RECURSIVE Rewritten(_)
Rewritten(node) ==
  [name |-> node.as,
   as   |-> node.as,
   cols |-> [n \in 1..Len(node.cols) |->
               [name |-> node.cols[n].as, as |-> node.cols[n].as]],
   kids |-> [n \in 1..Len(node.kids) |-> Rewritten(node.kids[n])]]

\* BuildChildGraphQLQuery: the table itself, filtered by the parent's value.
ChildQuery(sel) == <<[Rewritten(sel.node) EXCEPT !.name = sel.node.name,
                                                 !.as   = sel.node.name]>>

\* The names it uses exist: aliases do not survive Rewritten.
RECURSIVE Compiles(_)
Compiles(node) ==
  /\ node.name \in DOMAIN Tables
  /\ \A n \in 1..Len(node.cols), m \in 1..Len(Rows[node.name]) :
       node.cols[n].name \in DOMAIN Rows[node.name][m]
  /\ \A n \in 1..Len(node.kids) : Compiles(node.kids[n])

-----------------------------------------------------------------------------
(* The goroutines of a request.                                            *)

\* A query to run on a database; or a value that is known without one.
Run(db, doc) == [db |-> db, doc |-> doc, st |-> "ready"]
Settled(doc) == [db |-> "", doc |-> doc, st |-> "done"]
Hopeless     == [db |-> "", doc |-> <<>>, st |-> "failed"]

\* groupRootsByDatabase: the databases the roots of a query are in.
Groups(q) == SetToSeq({Tables[q[n].name] : n \in 1..Len(q)})

\* BuildDatabaseQuery: the roots of one database with all below them.
PartOf(q, db) == SelectSeq(q, LAMBDA node : Tables[node.name] = db)

\* compileAndExecuteWrapper: one task per database; with a single one it is
\* the request's own goroutine.
RootTasks(q) ==
  [n \in 1..Len(Groups(q)) |->
     Run(Groups(q)[n], Document(PartOf(q, Groups(q)[n]), AllRows))]

\* DatabaseJoinFieldIDs: the placeholder of every joined selection.  Of two
\* with one name the later takes the place.
JoinIds(sels) == {i \in 1..Len(sels) : sels[i].joined}
JoinKeys(q)   == LET sels == Selects(q) IN {PlaceholderOf(sels[i]) : i \in JoinIds(sels)}
SelectOf(sels, key) ==
  CHOOSE i \in JoinIds(sels) :
    /\ PlaceholderOf(sels[i]) = key
    /\ \A j \in JoinIds(sels) : PlaceholderOf(sels[j]) = key => j <= i

\* executeDatabaseJoinQuery for one placeholder: a null or composite value
\* needs no query, one that does not compile has no result, nor has one for a
\* selection below a join, which filters by a column without a name.
JoinTask(q, pair) ==
  LET sels  == Selects(q)
      sel   == sels[SelectOf(sels, pair.key)]
      fk    == ForwardKey(sels[sel.parent].node.name, sel.node.name)
      id    == Value(pair.val)
      child == ChildQuery(sel)
      keep(node, row) == row[fk.refcol] = id
  IN  IF id = <<>> \/ id = NullValue THEN Settled(NullValue)
      ELSE IF sel.below \/ ~Compiles(child[1]) THEN Hopeless
      ELSE Run(sel.db, Document(child, keep))

\* resolveDatabaseJoins: the database of a placeholder is not there.
Unknown(q, pair) ==
  LET sels == Selects(q) IN sels[SelectOf(sels, pair.key)].db \notin Connected

\* The pair put in the place of a placeholder: jsn.Strip takes the value out
\* of the child's answer.
Joined(q, pair, doc) ==
  LET sels == Selects(q)
      sel  == sels[SelectOf(sels, pair.key)]
  IN  [key |-> sel.node.as, val |-> Strip(doc, <<sel.node.name>>)]

-----------------------------------------------------------------------------
(* What the request is answered.                                           *)

\* What the query means; but where results are put into a document that ends in
\* a list of strings, what is written breaks off there (replace.go:221, 231).
AnswerGiven(q) ==
  LET root == RootTasks(q)[1].doc
  IN  IF Len(RootTasks(q)) = 1 /\ Get(root, JoinKeys(q)) # <<>> /\ Trailing(root)
      THEN CutOff ELSE QueryAnswer(q)
=============================================================================
