----------------------------- MODULE JoinMeaning -----------------------------
(***************************************************************************)
(* What a query is answered over the rows of all databases: the reference  *)
(* that the stitched documents of JoinDocuments are held against.          *)
(*                                                                         *)
(* A query is a sequence of selections.  A selection has the name of a     *)
(* table, the name it is answered under ("as"), columns and selections     *)
(* below it.  Where the databases border shows in the answer is kept: a    *)
(* row the parent refers to comes as an object from its own database and   *)
(* as a list from another one.                                             *)
(*                                                                         *)
(* The text says that nested results are stitched (architecture.md:56).    *)
(* Where the code does otherwise the reference does as the code, and each  *)
(* such definition says so: PassedOver, AsAsked, Meant, Left.              *)
(***************************************************************************)
EXTENDS Json

CONSTANTS
  Tables,      \* table -> the database it lives in
  Fks,         \* foreign keys [table, col, ref, refcol]
  Rows,        \* table -> its rows, functions from columns to JSON
  Connected    \* the databases the engine has a connection to

\* The foreign key by which the one table refers to the other.
Refers(from, to)  == \E f \in Fks : f.table = from /\ f.ref = to
Key(from, to)     == CHOOSE f \in Fks : f.table = from /\ f.ref = to
SameDB(a, b)      == Tables[a] = Tables[b]
RowsWith(t, c, v) == SelectSeq(Rows[t], LAMBDA row : row[c] = v)
Known(name)       == name \in DOMAIN Tables
Across(node, k)   == Known(node.name) /\ Known(k.name)
                       /\ Refers(node.name, k.name) /\ ~SameDB(node.name, k.name)

\* In such a value, or document, the loop that puts results in takes a string of
\* a list for a key whose value is still to come (replace.go:221).
Trailing(v) ==
  \E i \in 2..Len(v) : /\ v[i].k = "str" /\ v[i - 1].k # ":"
                        /\ \A j \in i..Len(v) : v[j].k # ":"

\* The join that follows such a value in its row is passed over.
PassedOver(node, row, k) ==
  /\ node.cols # <<>> /\ Trailing(row[Last(node.cols).name])
  /\ k = node.kids[SelectLastInSeq(node.kids, LAMBDA o : Across(node, o))]

\* All below a join is asked for by the names it is to be answered under, which
\* need not be names of anything (dbjoin.go:283).
RECURSIVE AsAsked(_)
AsAsked(node) ==
  [name |-> node.as, as |-> node.as,
   cols |-> [n \in 1..Len(node.cols) |-> [name |-> node.cols[n].as, as |-> node.cols[n].as]],
   kids |-> [n \in 1..Len(node.kids) |-> AsAsked(node.kids[n])]]
RECURSIVE Askable(_)
Askable(node) ==
  /\ Known(node.name)
  /\ \A c \in ToSet(node.cols), row \in ToSet(Rows[node.name]) : c.name \in DOMAIN row
  /\ \A k \in ToSet(node.kids) : Askable(k)

\* The joins of a query in the order they are compiled in, those below joins
\* among them.
NoNode == [name |-> "", as |-> "", cols |-> <<>>, kids |-> <<>>]
RECURSIVE JoinsOf(_, _, _)
JoinsOf(parent, nodes, below) ==
  LET joins(k) == below \/ Across(parent, k)
      join(k) == IF joins(k) THEN <<[node |-> k, parent |-> parent, below |-> below]>> ELSE <<>>
  IN  FoldLeft(LAMBDA found, k : join(k) \o JoinsOf(k, k.kids, joins(k)) \o found, <<>>, nodes)

\* What the other database is asked for.
Child(j) == [AsAsked(j.node) EXCEPT !.name = j.node.name]

\* Of joins under one name the last is asked for in the place of all, though
\* the name of a placeholder is said to be "unique" (fields.go:427).
Meant(q, k) ==
  LET all == JoinsOf(NoNode, q, FALSE)
  IN  all[SelectLastInSeq(all, LAMBDA j : j.node.as = k.as)]

\* A join that is not made leaves the key of the row under the name of its
\* placeholder: one passed over, and all joins in the parts of a query over
\* several databases (executeParallelRoots) and below a join
\* (executeDatabaseJoinQuery), neither of which looks for joins.
Left(node, row, k, stitched) == Across(node, k) /\ (~stitched \/ PassedOver(node, row, k))
NameIn(node, row, k, stitched) ==
  IF Left(node, row, k, stitched) THEN "__" \o k.as \o "_db_join" ELSE k.as

RECURSIVE RowAnswer(_, _, _, _)
RowAnswer(q, node, row, stitched) ==
  LET cols == {c.as : c \in ToSet(node.cols)}
      name(k) == NameIn(node, row, k, stitched)
      kids == {name(k) : k \in ToSet(node.kids)}
      col(a) == CHOOSE c \in ToSet(node.cols) : c.as = a
      kid(a) == CHOOSE k \in ToSet(node.kids) : name(k) = a
      all(k, rows, s) == List([n \in 1..Len(rows) |-> RowAnswer(q, k, rows[n], s)])
      joined(m, id) ==
        IF id = NullValue \/ m.below \/ ~Askable(Child(m)) THEN Leaf(Mark("null"))
        ELSE all(Child(m), RowsWith(m.node.name, Key(m.parent.name, m.node.name).refcol, id), FALSE)
      own(k) ==
        LET f    == Key(node.name, k.name)
            rows == RowsWith(k.name, f.refcol, row[f.col])
        IN  IF rows = <<>> THEN Leaf(Mark("null")) ELSE RowAnswer(q, k, rows[1], stitched)
      under(k) ==
        CASE Left(node, row, k, stitched) -> Meaning(row[Key(node.name, k.name).col])
          [] Across(node, k) /\ ~Left(node, row, k, stitched) ->
               joined(Meant(q, k), row[Key(node.name, k.name).col])
          [] Refers(node.name, k.name) /\ SameDB(node.name, k.name) -> own(k)
          [] ~Refers(node.name, k.name) ->
               LET f == Key(k.name, node.name)
               IN  all(k, RowsWith(k.name, f.col, row[f.refcol]), stitched)
  IN  Obj([a \in cols \cup kids |->
             IF a \in cols THEN Meaning(row[col(a).name]) ELSE under(kid(a))])

\* The answer of a query: its root selections over all the rows.
OneDB(q) == \A m, n \in 1..Len(q) : SameDB(q[m].name, q[n].name)
QueryAnswer(q) ==
  Obj([a \in {q[n].as : n \in 1..Len(q)} |->
         LET root == q[CHOOSE n \in 1..Len(q) : q[n].as = a]
         IN  List([n \in 1..Len(Rows[root.name]) |->
                     RowAnswer(q, root, Rows[root.name][n], OneDB(q))])])

\* It cannot be answered: two roots under one name, a table of a database nobody
\* connected, or a join that is asked for by names that are not there or whose
\* place one below a join has taken.
RECURSIVE Uses(_)
Uses(node) == {Tables[node.name]} \cup UNION {Uses(k) : k \in ToSet(node.kids)}
NoAnswer(q) ==
  \/ \E m, n \in 1..Len(q) : m # n /\ q[m].as = q[n].as
  \/ \E n \in 1..Len(q) : ~(Uses(q[n]) \subseteq Connected)
  \/ \E j \in ToSet(JoinsOf(NoNode, q, FALSE)) :
       ~j.below /\ LET m == Meant(q, j.node) IN m.below \/ ~Askable(Child(m))
=============================================================================
