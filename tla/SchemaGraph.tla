----------------------------- MODULE SchemaGraph -----------------------------
(* The graph of tables that DBSchema keeps (core/sdata/schema.go, dwg.go and   *)
(* core/util/graph.go) and the join paths it finds (path.go, graphmeta.go).    *)
(*                                                                             *)
(* Nodes are numbered as the tables were added, edges as they were added.      *)
(* "names" is edgesIndex: the nodes a name stands for, each with the edges     *)
(* that leave it under that name.                                              *)
EXTENDS Discovery

CONSTANT RelNames  \* GetRelName: a column name without its "id"

Weights == [one |-> 1, many |-> 1, recursive |-> 10, polymorphic |-> 15, embedded |-> 5]
Opposite(type) == CASE type = "one" -> "many" [] type = "many" -> "one" [] OTHER -> type

\* What FindPath gives back: an error, or edges.
Error(e) == [err |-> e, path |-> <<>>]
Path(p) == [err |-> "", path |-> p]

EmptyGraph == [tables |-> <<>>, index |-> NoCols, edges |-> <<>>, names |-> NoCols]

-----------------------------------------------------------------------------
(* Nodes.                                                                  *)

\* A table and the names the configuration gives it.
AddNode(g, table, aliases) ==
  LET n == Len(g.tables) + 1
      t == table.name
      keys == {t} \cup {<<t[1], a>> : a \in aliases}
  IN [g EXCEPT !.tables = Append(@, table),
               !.index = [k \in DOMAIN @ \cup keys |-> IF k \in keys THEN n ELSE @[k]]]

\* A node per table that has the columns of a polymorphic relation.
VirtualNodes(g, v) ==
  LET has(i) == {v.id, v.type, v.key} \subseteq DOMAIN g.tables[i].cols
      node(i) == LET t == g.tables[i].name
                 IN [name |-> <<t[1], v.name>>, cols |-> NoCols, prim |-> {}, json |-> {}, kind |-> "virtual",
                     left |-> [Column(Row(t, v.id)) EXCEPT !.fkt = g.tables[i].cols[v.type].table,
                                                          !.fkc = v.type],
                     right |-> Column(Row(t, v.key))]
  IN FoldLeft(LAMBDA h, i : IF has(i)
                            THEN AddNode(h, node(i), {}) ELSE h,
              g, [i \in DOMAIN g.tables |-> i])

-----------------------------------------------------------------------------
(* Edges.                                                                  *)

Between(g, from, to) == SelectSeq([i \in DOMAIN g.edges |-> i],
  LAMBDA i : g.edges[i].from = from /\ g.edges[i].to = to)

\* The neighbours of a node, in the order of the first edge to each.
Connections(g, n) ==
  LET firsts == SelectSeq([i \in DOMAIN g.edges |-> i],
        LAMBDA i : g.edges[i].from = n /\ \A j \in 1..(i - 1) :
                     ~(g.edges[j].from = n /\ g.edges[j].to = g.edges[i].to))
  IN [i \in DOMAIN firsts |-> g.edges[firsts[i]].to]

\* Edges that leave one node under one name are kept together.
AddEdgeInfo(names, key, node, id) ==
  LET old == IF key \in DOMAIN names THEN names[key] ELSE <<>>
      new == IF \E i \in DOMAIN old : old[i].node = node
             THEN [i \in DOMAIN old |->
                     IF old[i].node = node THEN [old[i] EXCEPT !.ids = @ \cup {id}] ELSE old[i]]
             ELSE Append(old, [node |-> node, ids |-> {id}])
  IN [k \in DOMAIN names \cup {key} |-> IF k = key THEN new ELSE names[k]]

\* An edge keeps its name only if it is to be seen.
AddEdge(g, key, edge, seen) ==
  [g EXCEPT !.edges = Append(@, [name |-> IF seen THEN key ELSE ""] @@ edge),
            !.names = AddEdgeInfo(@, key, edge.from, Len(g.edges) + 1)]

HasMultipleFKs(table, c) ==
  Refers(c) /\ Cardinality({d \in DOMAIN table.cols : table.cols[d].fkt = c.fkt}) > 1

\* The name a parent has its child under: that of the key without "id", unless
\* it is a column of the child already.
RelName(table, c, rt, parent) ==
  LET name == RelNames[c.name]
  IN CASE rt \in {"polymorphic", "embedded"} -> parent
       [] rt \in {"one", "many"} /\ name \in DOMAIN table.cols
            /\ ~HasMultipleFKs(table, c) /\ parent \notin DOMAIN table.cols -> parent
       [] OTHER -> name

Edge(from, to, rt, l, r, opp) ==
  [from |-> from, to |-> to, weight |-> Weights[rt], type |-> rt, l |-> l, r |-> r,
   opp |-> opp, extra |-> <<>>]

\* Variant: the edge back to the child is not turned round.
AddToGraphSameSides(g, left, l, right, r, rt) ==
  LET ln == g.index[left.name]
      rn == g.index[right.name]
      id == Len(g.edges) + 1
      one == AddEdge(g, left.name[2], Edge(ln, rn, rt, l, r, id + 1), TRUE)
      rel == RelName(left, l, rt, right.name[2])
      two == AddEdge(one, rel, Edge(rn, ln, Opposite(rt), l, r, id), TRUE)
  IN IF rel = right.name[2] THEN two
     ELSE AddEdge(two, right.name[2], Edge(rn, ln, Opposite(rt), l, r, None), FALSE)

\* From the table to the one its key refers to, and back under two names. The
\* third edge knows of no opposite.
AddToGraph(g, left, l, right, r, rt) ==
  LET ln == g.index[left.name]
      rn == g.index[right.name]
      id == Len(g.edges) + 1
      one == AddEdge(g, left.name[2], Edge(ln, rn, rt, l, r, id + 1), TRUE)
      rel == RelName(left, l, rt, right.name[2])
      two == AddEdge(one, rel, Edge(rn, ln, Opposite(rt), r, l, id), TRUE)
  IN IF rel = right.name[2] THEN two
     ELSE AddEdge(two, right.name[2], Edge(rn, ln, Opposite(rt), r, l, None), FALSE)

TupleIsUnique(info, table, cols) ==
  \/ Elems(cols) = table.prim /\ Len(cols) = Cardinality(table.prim)
  \/ \E u \in info.uniques :
       u.table = table.name /\ Elems(u.cols) = Elems(cols) /\ Len(u.cols) = Len(cols)

\* The keys of several columns that a column belongs to. The last one is taken,
\* in the order the database returned them or the snapshot sorted them.
CompositesOf(info, t, c) == {f \in info.composite : f.table = t /\ c \in Elems(f.cols)}

\* A later column of a key joins the edges of the first. Which way round an edge
\* goes is told by the name of the table on its left.
Attach(g, c, fc, ids) ==
  [g EXCEPT !.edges = [i \in DOMAIN @ |->
     IF i \notin ids THEN @[i]
     ELSE [@[i] EXCEPT !.extra =
             Append(@, IF g.edges[i].l.table[2] = c.table[2] THEN <<c, fc>> ELSE <<fc, c>>)]]]

ColumnType(info, ft, c, fc, f) ==
  IF c.rec THEN "recursive"
  ELSE IF f # None THEN (IF TupleIsUnique(info, ft, f.refs) THEN "one" ELSE "many")
  ELSE IF fc.uniq THEN "one"
  ELSE "many"

\* One column of a table, with b = [graph, done: the edges of the keys of
\* several columns met so far].
AddColumnRel(b, info, table, c, f) ==
  LET g == b.graph
      ft == g.tables[g.index[c.fkt]]
      fc == ft.cols[c.fkc]
      new == AddToGraph(g, table, c, ft, fc, ColumnType(info, ft, c, fc, f))
      ids == (Len(g.edges) + 1)..Len(new.edges)
  IN IF f # None /\ f \in DOMAIN b.done
     THEN [b EXCEPT !.graph = Attach(g, c, fc, b.done[f])]
     ELSE [graph |-> new,
           done |-> IF f = None THEN b.done
                    ELSE [k \in DOMAIN b.done \cup {f} |-> IF k = f THEN ids ELSE b.done[k]]]

\* Find: by schema and name, else by a name that is not ambiguous, else in the
\* default schema.
Find(g, info, t) ==
  LET all == {i \in DOMAIN g.tables : g.tables[i].name[2] = t[2]}
  IN IF t \in DOMAIN g.index THEN g.index[t]
     ELSE IF Cardinality(all) = 1 THEN CHOOSE i \in all : TRUE
     ELSE IF InDefault(info, t[2]) \in DOMAIN g.index THEN g.index[InDefault(info, t[2])]
     ELSE None

\* JSON and polymorphic tables are tied to the table they live in, or to
\* the table that holds the type.
AddTableRel(b, info, table) ==
  LET owner == Find(b.graph, info, IF table.kind = "json" THEN table.right.table ELSE table.left.fkt)
      ot == b.graph.tables[owner]
  IN IF table.kind = "" THEN b
     ELSE IF owner = None \/ table.right.name \notin DOMAIN ot.cols THEN None
     ELSE [b EXCEPT !.graph =
            AddToGraph(@, table, table.left, ot, ot.cols[table.right.name],
                       IF table.kind = "json" THEN "embedded" ELSE "polymorphic")]

\* The name of a table is a name for its other names' edges as well.
DuplicateNames(g, aliases) ==
  LET new == {p \in aliases : p[1] \in DOMAIN g.names /\ p[2] \notin DOMAIN g.names}
  IN [g EXCEPT !.names =
        [k \in DOMAIN @ \cup {p[2] : p \in new} |->
           IF k \in DOMAIN @ THEN @[k] ELSE @[(CHOOSE p \in new : p[2] = k)[1]]]]

-----------------------------------------------------------------------------
(* Reachability: breadth first, from the neighbours of a node.              *)

RECURSIVE Reached(_, _)
Reached(g, seen) ==
  LET more == {g.edges[i].to : i \in {j \in DOMAIN g.edges : g.edges[j].from \in seen}}
  IN IF more \subseteq seen THEN seen ELSE Reached(g, seen \cup more)

CanReach(g, from, to) == to \in Reached(g, Elems(Connections(g, from)))

-----------------------------------------------------------------------------
(* Paths. opts = [kind: "none", "table" or "column", through: a name,       *)
(* node: of the table].                                                     *)

Sides(e) == {e.l.name, e.r.name} \cup UNION {{p[1].name, p[2].name} : p \in Elems(e.extra)}
MatchesColumn(g, id, opts) == opts.kind = "column" => opts.through \in Sides(g.edges[id])

LineAllowed(g, id, from, to, item, opts, anchored) ==
  /\ g.edges[id].opp # item.prev
  /\ item.depth = 0 => id \in from.ids
  /\ anchored => id \in to.ids
  /\ MatchesColumn(g, id, opts)

Start(from, opts) ==
  [node |-> from.node, prev |-> 0, cost |-> 0, order |-> 0, depth |-> 0, path |-> <<>>,
   seen |-> opts.kind = "table" /\ from.node = opts.node]

Less(p, q) ==
  \/ p.cost < q.cost
  \/ p.cost = q.cost /\ p.depth < q.depth
  \/ p.cost = q.cost /\ p.depth = q.depth /\ p.order < q.order

\* The items that follow an item: an edge that ends a path has to be one of
\* the edges "to" stands for, if there is such a one.
Lines(g, item, from, to, opts) ==
  LET ending(next) == next = to.node /\ item.depth # 0
      ok(lines, anchored) == SelectSeq(lines, LAMBDA i : LineAllowed(g, i, from, to, item, opts, anchored))
      best(next, lines) == IF ending(next) /\ Elems(lines) \cap to.ids # {} THEN ok(lines, TRUE) ELSE lines
      allowed(next) == best(next, ok(Between(g, item.node, next), FALSE))
      all(nexts) == FlattenSeq([k \in DOMAIN nexts |-> allowed(nexts[k])])
  IN all(Connections(g, item.node))

Follow(g, item, opts, id, order) ==
  [node |-> g.edges[id].to, prev |-> id, cost |-> item.cost + g.edges[id].weight,
   order |-> order, depth |-> item.depth + 1, path |-> Append(item.path, id),
   seen |-> item.seen \/ (opts.kind = "table" /\ g.edges[id].to = opts.node)]

State(item) == <<item.node, item.prev, item.seen>>

\* How many items one search takes from the heap.
Limit(g) == Len(g.tables) * (IF g.edges = <<>> THEN 1 ELSE Len(g.edges)) * 4 + 1

RECURSIVE Search(_, _, _, _, _, _, _, _)
Search(g, from, to, opts, heap, settled, expanded, order) ==
  LET go(item, lines) ==
        Search(g, from, to, opts,
               (heap \ {item}) \cup {Follow(g, item, opts, lines[k], order + k) : k \in DOMAIN lines},
               settled \cup {State(item)}, expanded + 1, order + Len(lines))
      take(item) ==
        IF State(item) \in settled
        THEN Search(g, from, to, opts, heap \ {item}, settled, expanded + 1, order)
        ELSE IF item.node = to.node /\ item.depth # 0 /\ (opts.kind = "table" => item.seen)
        THEN Path(item.path)
        ELSE go(item, Lines(g, item, from, to, opts))
  IN IF heap = {} THEN Error("no path")
     ELSE IF expanded > Limit(g) THEN Error("limit")
     ELSE take(CHOOSE p \in heap : \A q \in heap \ {p} : Less(p, q))

ShortestPath(g, from, to, opts) == Search(g, from, to, opts, {Start(from, opts)}, {}, 0, 0)

\* The lightest edge from one node to another under the name asked for.
Direct(g, from, to, opts, types) ==
  LET lines == SelectSeq(Between(g, from.node, to.node), LAMBDA i :
                 i \in from.ids /\ MatchesColumn(g, i, opts) /\ g.edges[i].type \in types)
      lightest(ids) == SelectSeq(ids, LAMBDA i : \A j \in Elems(ids) : g.edges[i].weight <= g.edges[j].weight)
      first(ids) == IF ids = <<>> THEN <<>> ELSE <<ids[1]>>
  IN first(lightest(lines))

AnyType == DOMAIN Weights

\* The keys that make a direct relation ambiguous, by the name of a column that
\* refers to something: the left one, else the right one.
KeyColumn(e) == IF Refers(e.l) THEN e.l.name ELSE IF Refers(e.r) THEN e.r.name ELSE None

\* Variant: the two halves of a key are told apart by their ends.
CandidatesOneWay(g, from, to) ==
  {KeyColumn(g.edges[i]) : i \in {j \in from.ids : g.edges[j].to = to.node /\ Refers(g.edges[j].l)}}

Candidates(g, from, to) ==
  LET kept(lines) == {i \in lines : ~\E j \in lines : j < i /\ g.edges[i].opp = j}
      anchored(lines) == {i \in kept(lines) : {i, g.edges[i].opp} \cap from.ids # {}}
  IN {KeyColumn(g.edges[i]) : i \in anchored(Elems(Between(g, from.node, to.node)))} \ {None}

FirstOf(x, y) == IF x # <<>> THEN x ELSE y

\* Variant: the answer is remembered by the nodes and the hint alone.
CacheKeyOfNodes(from, to, opts) == <<from.node, {}, to.node, {}, opts>>

CacheKey(from, to, opts) == <<from.node, from.ids, to.node, to.ids, opts>>

\* The edge that answers without a search, if there is one.
DirectAnswer(g, from, to, opts) ==
  LET itself == IF from.node = to.node THEN Direct(g, from, from, opts, {"recursive"}) ELSE <<>>
  IN CASE opts.kind = "table" -> Direct(g, from, to, opts, AnyType)
       [] opts.kind = "none" -> FirstOf(itself, Direct(g, from, to, opts, {"embedded"}))
       [] opts.kind = "column" -> FirstOf(itself, Direct(g, from, to, opts, AnyType))

\* One pair of ends: the answer and the path cache after it.
ResolvePair(g, cache, from, to, opts) ==
  LET key == CacheKey(from, to, opts)
      answer(a) == [answer |-> a, cache |-> cache]
      remember(a) == [answer |-> a,
                      cache |-> [k \in DOMAIN cache \cup {key} |-> IF k = key THEN a.path ELSE cache[k]]]
      found(a) == IF a.err = "" THEN remember(a) ELSE answer(a)
      unlessDirect(path) ==
        IF path # <<>> THEN answer(Path(path))
        ELSE IF opts.kind = "table" /\ opts.node = None THEN answer(Error("no through"))
        ELSE IF ~CanReach(g, from.node, to.node) THEN answer(Error("no path"))
        ELSE IF key \in DOMAIN cache THEN answer(Path(cache[key]))
        ELSE found(ShortestPath(g, from, to, opts))
  IN IF opts.kind = "none" /\ Cardinality(Candidates(g, from, to)) > 1 THEN answer(Error("ambiguous"))
     ELSE unlessDirect(DirectAnswer(g, from, to, opts))

\* FindPath and FindPathByColumn: the ends a name stands for are tried in turn
\* until one pair has anything but no path.
RECURSIVE ResolvePairs(_, _, _, _)
ResolvePairs(g, cache, pairs, opts) ==
  LET orNext(r) == IF r.answer.err = "no path" THEN ResolvePairs(g, cache, Tail(pairs), opts) ELSE r
  IN IF pairs = <<>> THEN [answer |-> Error("no path"), cache |-> cache]
     ELSE orNext(ResolvePair(g, cache, pairs[1][1], pairs[1][2], opts))

Pairs(g, from, to) ==
  FlattenSeq([i \in DOMAIN g.names[from] |->
    [j \in DOMAIN g.names[to] |-> <<g.names[from][i], g.names[to][j]>>]])

Options(g, info, kind, through) ==
  [kind |-> IF kind = "table" /\ through = "" THEN "none" ELSE kind, through |-> through,
   node |-> IF kind = "table" /\ InDefault(info, through) \in DOMAIN g.index
            THEN g.index[InDefault(info, through)] ELSE None]

FindPath(g, cache, from, to, opts) ==
  IF from \notin DOMAIN g.names THEN [answer |-> Error("no from"), cache |-> cache]
  ELSE IF to \notin DOMAIN g.names THEN [answer |-> Error("no to"), cache |-> cache]
  ELSE ResolvePairs(g, cache, Pairs(g, from, to), opts)
=============================================================================
