---------------------------- MODULE MutationTree ----------------------------
(***************************************************************************)
(* How a nested mutation becomes a list of writes and then one statement:  *)
(* compileMutation of graphql/mutate.go takes the payload tree apart with  *)
(* a stack, gives every write an id, decides which foreign key is bound to *)
(* which other write, and puts them in an order.  MutationScript has what  *)
(* is rendered from them.                                                  *)
(*                                                                         *)
(* Values and paths are left out.  Only relations of one step are          *)
(* modelled, with one foreign key between two tables.                      *)
(***************************************************************************)
EXTENDS Integers, SequencesExt

CONSTANTS
  Tables,      \* names of tables
  Refs,        \* foreign keys: <<t, p>> says that t refers to p
  Columns,     \* [Tables -> SUBSET STRING], the plain columns
  JsonColumns, \* [Tables -> SUBSET STRING], those that hold documents
  Payloads,    \* the trees requests are made of
  Requests     \* the mutations to compile

\* A payload (graph.Node): an object or list, a value, or a variable whose
\* only child is its value in this request.
Node(form, kids) == [form |-> form, kids |-> kids]
Kid(name, node) == [name |-> name, node |-> node]
Names(node) == {node.kids[i].name : i \in DOMAIN node.kids}
Member(node, name) ==
  node.kids[CHOOSE i \in DOMAIN node.kids : node.kids[i].name = name].node
IsTree(node) == node.form \in {"obj", "list"}

IsList(s) == s \in Seq({s[i] : i \in DOMAIN s})

\* These are trees, and these requests are made of them.
AreTrees(nodes) ==
  \A node \in nodes : /\ IsList(node.kids)
                      /\ \A i \in DOMAIN node.kids : node.kids[i].node \in nodes
AreMadeOf(requests, nodes) ==
  \A r \in requests : /\ IsList(r.roots)
                      /\ \A n \in DOMAIN r.roots : /\ r.roots[n].table \in Tables
                                                   /\ r.roots[n].data \in nodes

ASSUME RequestAssumption ==
  /\ AreTrees(Payloads) /\ Node("val", <<>>) \in Payloads
  /\ AreMadeOf(Requests, Payloads)
ASSUME TableAssumption ==
  /\ Refs \subseteq Tables \X Tables
  /\ IsFiniteSet(Tables) /\ \A t \in Tables : IsFiniteSet(Columns[t])

VARIABLES
  req,      \* the request: stype, roots
  stack,    \* ms.st
  mutates,  \* the rendered items, in order
  mmap,     \* id given while walking -> index in mutates
  nextId,   \* ms.id
  phase     \* "roots", "walk", "reindex", "done" or "refused"

vars == <<req, stack, mutates, mmap, nextId, phase>>

-----------------------------------------------------------------------------
(* Relations *)

PkCol(t) == <<t, "id">>
FkCol(t, p) == <<t, p \o "_id">>
ColumnsOf(t) == {"id"} \cup Columns[t] \cup {p \o "_id" : p \in {q \in Tables : <<t, q>> \in Refs}}

NoCol == <<"", "">>
NoRel == [type |-> "none", lt |-> "", lc |-> NoCol, rt |-> "", rc |-> NoCol]
Rel(type, lt, lc, rt, rc) ==
  [type |-> type, lt |-> lt, lc |-> lc, rt |-> rt, rc |-> rc]

\* FindPath(k, t, ""): the edge from a table that refers to t, from one that t
\* refers to, or of t with itself.
Relation(k, t) ==
  IF k = t THEN
    (IF <<t, t>> \in Refs THEN Rel("recursive", t, FkCol(t, t), t, PkCol(t)) ELSE NoRel)
  ELSE IF <<k, t>> \in Refs THEN Rel("one-to-one", k, FkCol(k, t), t, PkCol(t))
  ELSE IF <<t, k>> \in Refs THEN Rel("one-to-many", k, PkCol(k), t, FkCol(t, k))
  ELSE NoRel

ReverseRel(rel) ==
  Rel(CASE rel.type = "one-to-one" -> "one-to-many"
        [] rel.type = "one-to-many" -> "one-to-one"
        [] OTHER -> rel.type,
      rel.rt, rel.rc, rel.lt, rel.lc)

FlipRel(rel) == [rel EXCEPT !.lc = rel.rc, !.rc = rel.lc]

-----------------------------------------------------------------------------
(* Items of the walk (mutItem) *)

\* at is not in the code: the place in the request the item stands for.
Item(id, parent, sel, type, key, table, rel, node, json, var, at) ==
  [id |-> id, parent |-> parent, sel |-> sel, type |-> type, key |-> key,
   table |-> table, rel |-> rel, data |-> node, json |-> json, var |-> var,
   array |-> FALSE, deps |-> {}, rcols |-> <<>>, cols |-> {},
   render |-> FALSE, at |-> at]

\* The elements of a sequence at some of its places.
Only(s, places) ==
  LET upto[n \in 0..Len(s)] ==
        IF n = 0 THEN <<>>
        ELSE upto[n - 1] \o (IF n \in places THEN <<s[n]>> ELSE <<>>)
  IN  upto[Len(s)]

\* Every key that any element has, once.
WithNew(kids, more) ==
  kids \o Only(more, {n \in DOMAIN more : \A i \in DOMAIN kids : kids[i].name # more[n].name})
UnionOfElements(list) ==
  LET upto[n \in 0..Len(list.kids)] ==
        IF n = 0 THEN <<>> ELSE WithNew(upto[n - 1], list.kids[n].node.kids)
  IN  Node("obj", upto[Len(list.kids)])

EmptyPayload(t) ==
  Node("obj", [i \in 1..Cardinality(ColumnsOf(t)) |->
                 Kid(SetToSeq(ColumnsOf(t))[i], Node("val", <<>>))])

\* A list in a variable is one write of many rows; a list in the request's
\* text is one write for each element, with ids step apart.
Rows(m, step) ==
  IF m.json
    THEN <<[m EXCEPT !.array = TRUE,
              !.data = IF m.data.kids = <<>> THEN EmptyPayload(m.table)
                                             ELSE UnionOfElements(m.data)]>>
    ELSE [i \in DOMAIN m.data.kids |->
            [m EXCEPT !.data = m.data.kids[i].node, !.id = @ + step * (i - 1),
                      !.array = m.data.kids[i].node.form = "list",
                      !.at = Append(@, <<"", i>>)]]

ProcessList(m) == Rows(m, 1)

Items(m) == IF m.data.form = "list" THEN ProcessList(m) ELSE <<m>>

-----------------------------------------------------------------------------
(* The roots *)

\* parseMutationDataFromArg: the payload of a root; a variable has a value of
\* its own, and is remembered by name if there are several roots.
RootItem(n, id) ==
  LET root == req.roots[n]
      isVar == root.data.form = "var"
  IN  Item(id, -1, n - 1, req.stype, root.table, root.table, NoRel,
           IF isVar THEN root.data.kids[1].node ELSE root.data, isVar,
           isVar /\ Len(req.roots) > 1, <<<<"root", n>>>>)

RootRefused(root) ==
  \/ req.stype # "insert" /\ ~root.where
  \/ req.stype # "delete" /\ root.data.form = "var" /\ root.data.kids = <<>>

RootItems(n, id) ==
  LET m == RootItem(n, id)
  IN  IF req.stype = "delete" THEN <<[m EXCEPT !.render = TRUE]>> ELSE Items(m)

AddRoot(acc, n) ==
  LET ms == RootItems(n, acc.id)
  IN  [stack |-> acc.stack \o ms, id |-> acc.id + Len(ms)]

AllRoots ==
  LET upto[n \in 0..Len(req.roots)] ==
        IF n = 0 THEN [stack |-> <<>>, id |-> 0] ELSE AddRoot(upto[n - 1], n)
  IN  upto[Len(req.roots)]

AddRoots ==
  /\ phase = "roots"
  /\ \A n \in DOMAIN req.roots : ~RootRefused(req.roots[n])
  /\ LET all == AllRoots
         above == Len(all.stack) + 1
     IN  /\ stack' = all.stack
         /\ nextId' = IF all.id > above THEN all.id ELSE above
  /\ phase' = "walk"
  /\ UNCHANGED <<req, mutates, mmap>>

RefuseRoots ==
  /\ phase = "roots"
  /\ \E n \in DOMAIN req.roots : RootRefused(req.roots[n])
  /\ phase' = "refused"
  /\ UNCHANGED <<req, stack, mutates, mmap, nextId>>

-----------------------------------------------------------------------------
(* The walk: processNestedMutations *)

\* A key bound to a variable is what the variable's value is.
Resolved(node) ==
  IF node.form = "var" /\ node.kids # <<>> /\ IsTree(node.kids[1].node)
    THEN node.kids[1].node ELSE node

IsConnect(node) ==
  /\ node.form = "obj" /\ "connect" \in Names(node)
  /\ Member(node, "connect").form = "obj"

Keywords == {"connect", "find", "where", "disconnect"}

\* A connect under an insert is a lookup of the row its filter finds.
ConnectItem(m, id, key, rel, node) ==
  LET fromChild == rel.lt = m.table
      lookup == [rel EXCEPT !.lc = IF fromChild THEN rel.rc ELSE rel.lc,
                            !.rc = IF fromChild THEN rel.lc ELSE rel.rc]
  IN  Item(id, m.id, 0, "connect", key, IF fromChild THEN rel.rt ELSE rel.lt,
           lookup, Member(node, "connect"), FALSE, FALSE,
           Append(m.at, <<key, 0>>))

\* How far the id moves on for what one key gave.
After(items) == 1 + (IF Len(items) > 1 THEN Len(items) - 1 ELSE 0)

\* One key of the payload of m, with what the keys before it gave.
NestKey(m, acc, kid) ==
  LET node == Resolved(kid.node)
      key == kid.name
      mt == req.stype
      found == Relation(key, m.key)
      rel == IF node.form = "list" /\ mt = "insert" /\ found.type = "one-to-one"
               THEN ReverseRel(found) ELSE found
      toMany == rel.type = "one-to-many"
      isVar == kid.node.form = "var"
      item == Item(acc.id, m.id, 0,
                   IF toMany /\ mt = "update" THEN "connect" ELSE mt, key,
                   IF toMany /\ rel.rt # m.table THEN rel.rt ELSE rel.lt, rel,
                   node, m.json \/ isVar, m.var \/ isVar,
                   Append(m.at, <<key, 0>>))
      items == Items(item)
  IN  IF acc.error \/ ~IsTree(node) THEN acc
      ELSE IF found = NoRel THEN
        IF key \in ColumnsOf(m.table)
          THEN [acc EXCEPT !.error = key \notin JsonColumns[m.table]]
        ELSE IF key \in {"connect", "disconnect"}
                /\ (mt = "update" \/ (mt = "insert" /\ key = "connect"))
          THEN [acc EXCEPT !.id = @ + 1,
                 !.items = Append(@, Item(acc.id, m.parent, 0, key, key,
                   m.table, NoRel, node, m.json \/ isVar, FALSE,
                   Append(m.at, <<key, 0>>)))]
        ELSE [acc EXCEPT !.error =
                <<mt, key>> \notin {<<"insert", "find">>, <<"update", "find">>,
                                    <<"update", "where">>}]
      ELSE IF mt = "insert" /\ IsConnect(kid.node) THEN
        [acc EXCEPT !.id = @ + 1,
           !.items = Append(@, ConnectItem(m, acc.id, key, found, kid.node))]
      ELSE IF node.form = "list" /\ ~toMany THEN [acc EXCEPT !.error = TRUE]
      ELSE [acc EXCEPT !.nested = @ \cup {key}, !.items = @ \o items,
              !.id = @ + After(items)]

\* The relation of a table with itself is decided by the key "find", whose
\* value is the form of the node here.
Recursive(m) ==
  LET find == IF "find" \in Names(m.data) THEN Member(m.data, "find").form
              ELSE IF req.stype = "insert" THEN "child" ELSE "parent"
  IN  IF m.rel.type # "recursive" THEN m
      ELSE IF find \in {"child", "children"} THEN [m EXCEPT !.rel.type = "one-to-one"]
      ELSE IF find \in {"parent", "parents"}
        THEN [m EXCEPT !.rel = FlipRel([@ EXCEPT !.type = "one-to-many"])]
      ELSE m

Nest(m) ==
  LET upto[n \in 0..Len(m.data.kids)] ==
        IF n = 0 THEN [items |-> <<>>, id |-> nextId, nested |-> {}, error |-> FALSE]
        ELSE NestKey(m, upto[n - 1], m.data.kids[n])
      m2 == Recursive(m)
  IN  [upto[Len(m.data.kids)] EXCEPT
         !.error = @ \/ /\ m.rel.type = "recursive"
                        /\ m2.rel.type = "one-to-many"
                        /\ req.stype = "insert"]

(* addTablesAndColumns *)

RCol(col, value) == [col |-> col, value |-> value]

\* A variant that binds the key of the row found to the column that refers to it.
KeyOfSwapped(v) == RCol(v.rel.lc, v.rel.rc)

\* The column that refers to an item, and the column of the item it holds.
KeyOf(v) == RCol(v.rel.rc, v.rel.lc)

\* Which of the nested items are lookups, and which are rows with a relation.
Lookups(items) == {i \in DOMAIN items : items[i].type = "connect"}
Nested(items, type) ==
  {i \in DOMAIN items : items[i].type # "connect" /\ items[i].rel.type = type}

\* The foreign keys m binds to other writes, with the ids of those.
Bindings(m, items) ==
  LET of(places) == [i \in DOMAIN Only(items, places) |->
                       [on |-> Only(items, places)[i].id, rcol |-> KeyOf(Only(items, places)[i])]]
      up(col, value) == <<[on |-> m.parent, rcol |-> RCol(col, value)]>>
  IN  CASE m.type = "insert" ->
             (IF m.rel.type = "one-to-one" THEN up(m.rel.lc, m.rel.rc) ELSE <<>>)
             \o (IF /\ m.rel.type = "one-to-many" /\ m.parent # -1
                    /\ m.rel.lt # m.table
                   THEN up(m.rel.rc, m.rel.lc) ELSE <<>>)
             \o of(Lookups(items))
             \o of({i \in Nested(items, "one-to-many") : items[i].rel.rt = m.table})
        [] m.type = "update" /\ m.rel.type = "one-to-many" -> up(m.rel.lc, m.rel.rc)
        [] OTHER -> <<>>

DependsOn(m, items) ==
  {Bindings(m, items)[i].on : i \in DOMAIN Bindings(m, items)}
    \cup (IF \/ m.type = "update" /\ m.parent # -1
             \/ m.type \notin {"insert", "update"} /\ m.rel.type = "one-to-one"
            THEN {m.parent} ELSE {})

Bound(m, items) ==
  {Bindings(m, items)[i].rcol.col[2] : i \in DOMAIN Bindings(m, items)}

\* getColumnsFromData: the keys that are columns, and those that are nothing.
DataColumns(m, items, nested) ==
  (Names(m.data) \cap ColumnsOf(m.table)) \ (Bound(m, items) \cup nested)

UnknownKey(m, items, nested) ==
  \E i \in DOMAIN m.data.kids :
    LET kid == m.data.kids[i] IN
    /\ kid.name \notin ColumnsOf(m.table) \cup nested \cup Bound(m, items) \cup Keywords
    /\ ~IsTree(kid.node)

\* A variant that pushes only what is nested in lists.
PushesNoObjects(m, items) ==
  Only(items, Nested(items, "one-to-many")) \o <<m>> \o Only(items, Lookups(items))

\* newMutate: the order in which m and what it nests go on the stack, from
\* the bottom to the top.
Pushes(m, items) ==
  CASE m.type = "insert" ->
         Only(items, Nested(items, "one-to-many")) \o Only(items, Nested(items, "one-to-one"))
         \o <<m>> \o Only(items, Lookups(items))
    [] m.type = "update" -> Append(items, m)
    [] OTHER -> <<m>>

Top == stack[Len(stack)]

Render ==
  /\ phase = "walk" /\ stack # <<>> /\ Top.render
  /\ mmap' = [i \in DOMAIN mmap \cup {Top.id} |->
                IF i = Top.id THEN Len(mutates) ELSE mmap[i]]
  /\ mutates' = Append(mutates, Top)
  /\ stack' = Front(stack)
  /\ UNCHANGED <<req, nextId, phase>>

\* A lookup has no payload to process.
ExpandConnect ==
  /\ phase = "walk" /\ stack # <<>> /\ ~Top.render
  /\ Top.type \in {"connect", "disconnect"}
  /\ stack' = Append(Front(stack), [Top EXCEPT !.render = TRUE])
  /\ UNCHANGED <<req, mutates, mmap, nextId, phase>>

Expand ==
  /\ phase = "walk" /\ stack # <<>> /\ ~Top.render
  /\ Top.type \notin {"connect", "disconnect"}
  /\ LET walked == Nest(Top)
         m == Recursive(Top)
         bound == Bindings(m, walked.items)
         done == [m EXCEPT
           !.deps = DependsOn(m, walked.items),
           !.rcols = [i \in DOMAIN bound |-> bound[i].rcol],
           !.cols = DataColumns(m, walked.items, walked.nested),
           !.render = TRUE]
     IN  IF walked.error \/ UnknownKey(m, walked.items, walked.nested)
           THEN phase' = "refused" /\ UNCHANGED <<stack, nextId>>
           ELSE /\ stack' = Front(stack) \o Pushes(done, walked.items)
                /\ nextId' = walked.id
                /\ UNCHANGED phase
  /\ UNCHANGED <<req, mutates, mmap>>

-----------------------------------------------------------------------------
(* Once all is rendered: ids become indexes *)

Index(id) == IF id \in DOMAIN mmap THEN mmap[id] ELSE 0

\* The map DependsOn is changed while it is ranged over: each id that was in
\* it is taken out and replaced by its index, in any order, and an index that
\* equals an id still to come is taken out again.  (An index that is new takes a
\* free place of a map, which with up to eight entries has been visited.)
Replaced(s, id) == [todo |-> s.todo \ {id}, deps |-> (s.deps \ {id}) \cup {Index(id)}]
Reindexed(deps) ==
  LET after[n \in 0..Cardinality(deps)] ==
        IF n = 0 THEN {[todo |-> deps, deps |-> deps]}
        ELSE UNION {{Replaced(s, id) : id \in s.todo} : s \in after[n - 1]}
  IN  {s.deps : s \in after[Cardinality(deps)]}

StartReindex ==
  /\ phase = "walk" /\ stack = <<>>
  /\ phase' = "reindex"
  /\ nextId' = 1
  /\ UNCHANGED <<req, stack, mutates, mmap>>

\* nextId is not used any more and counts the items that have their index.
Reindex ==
  /\ phase = "reindex" /\ nextId <= Len(mutates)
  /\ \E deps \in Reindexed(mutates[nextId].deps) :
       mutates' = [mutates EXCEPT ![nextId].id = Index(@),
                                  ![nextId].parent = Index(@),
                                  ![nextId].deps = deps]
  /\ nextId' = nextId + 1
  /\ UNCHANGED <<req, stack, mmap, phase>>

Finish ==
  /\ phase = "reindex" /\ nextId > Len(mutates)
  /\ phase' = "done"
  /\ UNCHANGED <<req, stack, mutates, mmap, nextId>>

Mutates == {mutates[i] : i \in DOMAIN mutates}

\* The mutation with an index.
At(i) == mutates[i + 1]
Deps(m) == {At(i) : i \in {d \in m.deps : d \in 0..Len(mutates) - 1}}

-----------------------------------------------------------------------------

Init ==
  /\ req \in Requests
  /\ stack = <<>> /\ mutates = <<>>
  /\ mmap = [i \in {-1} |-> -1]
  /\ nextId = 0
  /\ phase = "roots"

Next ==
  \/ AddRoots \/ RefuseRoots
  \/ Render \/ ExpandConnect \/ Expand
  \/ StartReindex \/ Reindex \/ Finish

Spec == Init /\ [][Next]_vars

-----------------------------------------------------------------------------
(* Properties of the finished list *)

Done == phase = "done"

\* Every write knows its own place in the list and that of the write it is
\* nested under (compileMutation's ids, kept apart over lists, nested lists
\* and several roots).
IdsNamePlaces ==
  \A i \in DOMAIN mutates :
    /\ mutates[i].id = i - 1
    /\ mutates[i].parent # -1 =>
         /\ mutates[i].parent \in 0..Len(mutates) - 1
         /\ IsStrictPrefix(At(mutates[i].parent).at, mutates[i].at)

\* A connect under a row to a row that refers to it.
ConnectsDown(m, d) ==
  d.type = "connect" /\ d.table # m.table /\ <<d.table, m.table>> \in Refs

\* The column of m that holds a column of d, a write it is nested in or nests.
\* Under an insert, a connect to a row that refers to the new one sets the new
\* row's own key to that row's foreign key: newConnectMutate turns the columns
\* around for every connect whose table is not the child (mutate.go:595-606),
\* although "the child's foreign key is bound to it" (mutate.go:574-575).
KeyFrom(m, d) ==
  IF ConnectsDown(m, d) THEN RCol(PkCol(m.table), FkCol(d.table, m.table))
                        ELSE RCol(FkCol(m.table, d.table), PkCol(d.table))

\* A foreign key an insert sets is bound to the row of the very write above it,
\* or to one under it, that its connect found or that is written for it, and the
\* insert depends on that write.  There are two exceptions: a connect in the
\* payload of the row itself has no relation and binds no column
\* (mutate.go:790-802), and of ids that are taken for indexes while DependsOn is
\* replaced in place (mutate.go:212-215) a dependency can be lost, never its key:
\* the write then depends on fewer writes than it has keys.
KeysBound ==
  Done => IdsNamePlaces /\ (req.stype = "insert" =>
    \A m \in Mutates : \A i \in DOMAIN m.rcols :
      \/ m.rcols[i] = RCol(NoCol, NoCol) /\ "connect" \in Names(m.data)
      \/ \E d \in Mutates :
           /\ d.id = m.parent \/ d.parent = m.id
           /\ m.rcols[i] = KeyFrom(m, d)
           /\ Cardinality(m.deps) = Len(m.rcols) => d.id \in m.deps)

\* Every nested object and every element of a nested list of another table than
\* its parent's is written or looked up, and it has the foreign key of the row it
\* is nested under, or that row has its key (newMutate pushes no recursive item,
\* mutate.go:683); KeyFrom says what becomes of a connect to a row that refers to
\* the new one.
NothingDropped ==
  Done /\ req.stype = "insert" => \A m \in Mutates : m.type = "insert" =>
    \A k \in DOMAIN m.data.kids :
      LET key == m.data.kids[k].name
          node == Resolved(m.data.kids[k].node)
      IN  IsTree(node) /\ Relation(key, m.key) # NoRel =>
            LET kids == {n \in Mutates : n.parent = m.id /\ n.key = key}
                copies == IF node.form = "list" /\ ~(m.json \/ m.data.kids[k].node.form = "var")
                            THEN Len(node.kids) ELSE 1
            IN  /\ Cardinality(kids) = copies
                /\ \A n \in kids : ~ConnectsDown(m, n) =>
                     \E x \in {m, n} : \E y \in {m, n} :
                       \E i \in DOMAIN x.rcols :
                         x.rcols[i] = RCol(FkCol(x.table, y.table), PkCol(y.table))
=============================================================================
