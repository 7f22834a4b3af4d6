--------------------------- MODULE MutationScript ---------------------------
(***************************************************************************)
(* What core/sqlgen renders from the writes of a mutation (MutationTree):  *)
(* the common table expressions (CTEs) of one PostgreSQL statement or, for *)
(* the other databases, a script in dependency order.                      *)
(*                                                                         *)
(* The text of SQL is left out: a CTE is its name, the names it reads and  *)
(* the tables its body may mention.                                        *)
(***************************************************************************)
EXTENDS MutationTree

-----------------------------------------------------------------------------
(* Names *)

\* The writes one root makes to one table, and the tables several roots write.
Group(m) == {n \in Mutates : n.sel = m.sel /\ n.table = m.table}
Shared(t) == \E m, n \in Mutates : m.table = t /\ n.table = t /\ m.sel # n.sel
Multi(m) == Cardinality(Group(m)) > 1 \/ Shared(m.table)

\* Names of CTEs: of a table, of one write, of what a root wrote to a table.
Plain(t) == <<t, "", -1>>
Numbered(m) == <<m.table, "_", m.id>>
UnionName(m) == IF Shared(m.table) THEN <<m.table, "__", m.sel>> ELSE Plain(m.table)

CteName(m) ==
  IF Multi(m) \/ m.type \in {"connect", "disconnect"} THEN Numbered(m)
                                                      ELSE Plain(m.table)

WriteName(m) == IF Multi(m) THEN Numbered(m) ELSE Plain(m.table)

-----------------------------------------------------------------------------
(* The statement for PostgreSQL *)

Cte(name, reads, tables) == [name |-> name, reads |-> reads, tables |-> tables]

\* renderNestedRelTables: the CTEs of the dependencies, each under the name of
\* its table, through which the bound columns are read.
RelReads(m) == {CteName(d) : d \in Deps(m)}
RelTables(m) == {d.table : d \in Deps(m)}

\* renderOneToManyModifiers: the lookups of a write come right before it.
Modifiers(m) ==
  LET lookups == SetToSeq({d \in Deps(m) : d.type \in {"connect", "disconnect"}})
  IN  [i \in DOMAIN lookups |-> Cte(CteName(lookups[i]), {}, {lookups[i].table})]

WriteCte(m) ==
  Append(Modifiers(m), Cte(WriteName(m), RelReads(m), {m.table} \cup RelTables(m)))

\* One statement for each of its kind, in the order of the list.
Each(written(_), ctes(_)) ==
  FlattenSeq([i \in DOMAIN mutates |->
                IF written(mutates[i]) THEN ctes(mutates[i]) ELSE <<>>])

\* renderInsert: a connect is rendered by the insert that reads it.
InsertCtes == Each(LAMBDA m : m.type \in {"insert", "upsert"}, WriteCte)

\* renderUpdate
UpdateCte(m) ==
  IF m.type = "update" THEN WriteCte(m)
                       ELSE <<Cte(CteName(m), RelReads(m), RelTables(m))>>
UpdateCtes ==
  Each(LAMBDA m : \/ m.type = "update"
                  \/ /\ m.rel.type = "one-to-one"
                     /\ m.type \in {"connect", "disconnect"},
       UpdateCte)

\* renderUpsert
UpsertCtes ==
  Each(LAMBDA m : m.type \in {"insert", "upsert"},
       LAMBDA m : <<Cte(WriteName(m), RelReads(m), {m.table})>>)

\* renderDelete
DeleteCtes ==
  Each(LAMBDA m : m.type = "delete", LAMBDA m : <<Cte(WriteName(m), {}, {m.table})>>)

Writes ==
  CASE req.stype = "insert" -> InsertCtes
    [] req.stype = "update" -> UpdateCtes
    [] req.stype = "upsert" -> UpsertCtes
    [] OTHER -> DeleteCtes

\* GenericRenderMutationPostamble: what a root wrote to a table in several
\* writes is read back as one.
Unions ==
  LET firsts == {m \in Mutates : m.id = CHOOSE i \in {n.id : n \in Group(m)} :
                                          \A n \in Group(m) : i <= n.id}
      needed(m) == Cardinality(Group(m)) > 1 \/ UnionName(m) # WriteName(m)
      rows(m) == {n \in Group(m) : ~( /\ n.type \in {"connect", "disconnect"}
                                      /\ n.rel.type = "one-to-many")}
      todo == SetToSeq({m \in firsts : needed(m)})
  IN  [i \in DOMAIN todo |->
         Cte(UnionName(todo[i]), {WriteName(n) : n \in rows(todo[i])},
             {WriteName(n)[1] : n \in rows(todo[i])})]

\* renderMutationAuditCTE: the changed rows shown to the mutation hook.
Audited == {m \in Mutates : \/ m.type \in {"insert", "update", "upsert", "delete"}
                            \/ m.rel.type = "one-to-one"}
Audit == Cte(<<"__gj_audit", "", -1>>, {CteName(m) : m \in Audited}, {})

Ctes == Append(Writes \o Unions, Audit)

\* A variant that reads every root back under the name of its table.
ReadBackTable(n) == Plain(req.roots[n].table)

\* renderFrom: where the select of a root reads.
ReadBack(n) ==
  LET t == req.roots[n].table
      own == {m \in Mutates : m.sel = n - 1 /\ m.table = t}
  IN  IF own # {} THEN UnionName(CHOOSE m \in own : TRUE) ELSE Plain(t)

(* The script for databases that run one statement after the other:        *)
(* sortMutations, a depth-first visit that ranges over maps.               *)
RECURSIVE Visit(_, _), VisitAll(_, _)
Visit(s, i) ==
  IF i \in s.seen THEN {s}
  ELSE {[t EXCEPT !.order = Append(@, i)] :
          t \in VisitAll({[s EXCEPT !.seen = @ \cup {i}]}, At(i).deps)}
VisitAll(states, ids) ==
  IF ids = {} THEN states
  ELSE UNION {VisitAll(UNION {Visit(s, i) : s \in states}, ids \ {i}) : i \in ids}

Visits ==
  {s.order : s \in FoldLeft(LAMBDA states, i : UNION {Visit(s, i - 1) : s \in states},
                            {[seen |-> {}, order |-> <<>>]},
                            [i \in DOMAIN mutates |-> i])}

\* A variant that puts each write in front of those it visited.
SortedBackwards == {Reverse(order) : order \in Visits}

Sorted == Visits

-----------------------------------------------------------------------------
(* Properties of the finished statement *)

EmptyList(node) == node.form = "list" /\ node.kids = <<>>

\* The parent rows that m nests: newMutate puts them on the stack before m, so m
\* is rendered above them (mutate.go:683-701), although "users need to be created
\* before the products they own" (mutate.go:679-682) and "its CTE must render
\* before this mutate" (mutate.go:1095-1096).
RenderedLate(m) ==
  {d \in Deps(m) : d.type = "insert" /\ d.parent = m.id /\ d.rel.lt = d.table
                                     /\ d.rel.type = "one-to-many"}

\* The result sets of a root that only looks rows up in a table, more than once or
\* while another root writes to it: they are unions of nothing (dialect.go:263-266).
EmptyUnions ==
  {UnionName(m) : m \in {n \in Mutates : \A x \in Group(n) : x.type = "connect"}}

\* A CTE reads the payload, tables, and CTEs above it, and it reads something:
\* what is created first stands first, but for the parent rows a row nests.  What
\* reads nothing is no CTE, and the server refuses it: the EmptyUnions, and a
\* request whose lists in the text are all empty, although a bulk insert of an
\* empty list is to return one (graphql-dialect.md:587-588).
ReadsAbove ==
  LET ctes == Ctes
      late == UNION {{CteName(d) : d \in RenderedLate(m)} : m \in Mutates}
  IN \A i \in DOMAIN ctes :
    /\ \A name \in ctes[i].reads :
         \E j \in DOMAIN ctes : ctes[j].name = name /\ (name \notin late => j < i)
    /\ ctes[i].tables = {} =>
         \/ ctes[i].name \in EmptyUnions
         \/ i = Len(ctes) /\ (i = 1 => \A n \in DOMAIN req.roots : EmptyList(req.roots[n].data))
    /\ \A j \in 1..i - 1 : ctes[j].name # ctes[i].name

\* What a root reads back is what it wrote to its table, and no other root: "each
\* one returns its own rows" (graphql-dialect.md:727-729).  The code keeps this of
\* the rows that are not nested: a nested item has no SelID (mutate.go:800, 870),
\* so what a later root nests is read back by the first root if it is of that
\* root's table, and not by the later one.  An empty list in the text has no
\* write, and its root reads whatever has the name of its table.
RootReadsOwn ==
  Done => \A n \in DOMAIN req.roots : ~EmptyList(req.roots[n].data) =>
    LET all == {m \in Mutates : m.table = req.roots[n].table /\ m.type # "connect"}
        wrote == {m \in all : m.at[1] = <<"root", n>>}
        astray == {m \in all : m.parent # -1 /\ m.at[1] # <<"root", 1>>}
        name == ReadBack(n)
        ctes == Ctes
        through == {m \in all :
                      \/ WriteName(m) = name
                      \/ \E i \in DOMAIN ctes :
                           /\ ctes[i].name = name
                           /\ WriteName(m) \in ctes[i].reads}
    IN  through = IF n = 1 THEN wrote \cup astray ELSE wrote \ astray

\* Whatever a write refers to comes before it, in the one statement of
\* PostgreSQL and in every order of a script, if its dependencies are as many as
\* its keys (KeysBound): a script puts the parent rows that ReadsAbove excepts in
\* front of the rows that nest them.
ScriptInOrder ==
  Done => ReadsAbove /\ \A order \in Sorted :
    /\ Len(order) = Len(mutates)
    /\ \A i \in DOMAIN order :
         LET m == At(order[i])
             needed == {d \in Mutates : /\ d.id = m.parent \/ d.parent = m.id
                                        /\ \E k \in DOMAIN m.rcols : m.rcols[k] = KeyFrom(m, d)}
         IN  \A d \in m.deps \cup (IF Cardinality(m.deps) = Len(m.rcols)
                                    THEN {x.id : x \in needed} ELSE {}) :
               \E j \in 1..i - 1 : order[j] = d
=============================================================================
