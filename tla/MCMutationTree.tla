--------------------------- MODULE MCMutationTree ---------------------------
(* Small instances of MutationScript: users have products and products have  *)
(* comments.                                                                *)
EXTENDS MutationScript

SmallTables == {"users", "shops", "products", "comments"}
SmallRefs == {<<"products", "users">>, <<"products", "shops">>, <<"comments", "products">>}
SmallColumns == [t \in SmallTables |-> {"name", "doc"}]
SmallJson == [t \in SmallTables |-> {"doc"}]

V == Node("val", <<>>)
Obj(kids) == Node("obj", kids)
List(nodes) == Node("list", [i \in DOMAIN nodes |-> Kid("", nodes[i])])
Var(node) == Node("var", <<Kid("", node)>>)
Row == Obj(<<Kid("name", V)>>)
Connect == Obj(<<Kid("connect", Obj(<<Kid("id", V)>>))>>)

\* A row, rows, or rows in a variable; the last element of a list may differ.
Forms(rows) ==
  rows \cup {List(<<>>)} \cup {List(<<r, s>>) : r, s \in rows}
       \cup {Var(List(<<r>>)) : r \in rows}
Optional(key, nodes) == {<<>>} \cup {<<Kid(key, n)>> : n \in nodes}

RECURSIVE NoVar(_)
NoVar(node) == node.form # "var" /\ \A i \in DOMAIN node.kids : NoVar(node.kids[i].node)
Vars(nodes) == {Var(n) : n \in {m \in nodes : NoVar(m)}}

ProductRows == {Obj(c \o <<Kid("name", V)>>) : c \in Optional("comments", Forms({Row}))}
UserRows == {Obj(<<Kid("name", V)>> \o p) : p \in Optional("products", Forms(ProductRows))}
Lists(rows) == {List(<<>>)} \cup {List(<<r, s>>) : r, s \in rows}

Root(t, data, where) == [table |-> t, data |-> data, where |-> where]
Req(stype, roots) == [stype |-> stype, roots |-> roots]
Inserts(t, nodes) == {Req("insert", <<Root(t, n, FALSE)>>) : n \in nodes}
Products(rows) == {Obj(<<Kid("products", r), Kid("name", V)>>) : r \in rows}

\* Users with products with comments, alone, in lists and in variables.
Trees ==
  Inserts("users", UserRows \cup Vars(UserRows))
    \cup Inserts("users", Lists(UserRows) \cup Vars(Lists(UserRows)))

\* A product that connects to its user and shop, with comments.
Connected ==
  {Obj(u \o s \o c \o <<Kid("name", V)>>) :
     u \in Optional("users", {Connect}), s \in Optional("shops", {Connect}),
     c \in Optional("comments", Forms({Row}))}
Connects == Inserts("products", Connected \cup Vars(Connected))

\* Several roots, on one table or two.
Several(stype, nodes, where) ==
  {Req(stype, <<Root(t, n, where), Root(u, m, where)>>) :
     t, u \in {"users", "products"}, n, m \in nodes}
Roots ==
  Several("insert", {Row, List(<<Row, Row>>)} \cup Vars({Row} \cup Lists({Row})), FALSE)
    \cup Several("delete", {V}, TRUE) \cup Several("upsert", {Row}, TRUE)
    \cup Several("update", {Row, Var(Row)}, TRUE)
    \cup Several("update", {Row}, FALSE)

\* Keys that are columns or nothing, payloads that are missing, and updates
\* of what is nested.
Odd ==
  Inserts("users", {Node("var", <<>>), Obj(<<Kid("nokey", V)>>), Obj(<<Kid("nokey", Row)>>),
                    Obj(<<Kid("doc", Row)>>), Obj(<<Kid("name", Row)>>),
                    Obj(<<Kid("find", V), Kid("name", V)>>)})
    \cup {Req("update", <<Root(t, Obj(<<Kid("name", V), Kid(key, n)>>), TRUE)>>) :
             t \in {"users", "products"}, key \in {"products", "users", "comments"},
             n \in {Row, Obj(<<Kid("where", Row), Kid("name", V)>>)}}

\* Products with the user they belong to, written with them or looked up, and
\* with a shop; users that connect to a product.
Parents == {Row, Connect, List(<<Row>>), List(<<Row, Row>>), Obj(<<Kid("products", Connect), Kid("name", V)>>),
            Obj(<<Kid("products", Connect), Kid("shops", Row)>>)}
Owned ==
  {Obj(u \o s \o c \o <<Kid("name", V)>>) :
     u \in Optional("users", Parents), s \in Optional("shops", {Row, Connect}),
     c \in Optional("comments", {Row, List(<<Row, Row>>), Connect})}
Ups == Inserts("products", Owned) \cup Inserts("products", {List(<<r, s>>) : r \in Owned, s \in {Row, Obj(<<Kid("users", Connect)>>)}})
         \cup Inserts("comments", {Obj(<<Kid("name", V), Kid("products", r)>>) : r \in Owned})

\* Several roots that nest.
Nesting ==
  {Req("insert", <<Root(t, n, FALSE), Root(u, m, FALSE)>>) :
     t, u \in {"users", "products", "comments"},
     n, m \in {Row, List(<<>>), List(<<Row, Row>>),
                Obj(<<Kid("products", Row)>>), Obj(<<Kid("products", List(<<Row, Row>>)), Kid("name", V)>>),
                Obj(<<Kid("users", Row)>>), Obj(<<Kid("users", Connect)>>),
                Obj(<<Kid("products", Obj(<<Kid("users", Row)>>))>>)}}

\* Connects that have no relation.
Unrelated ==
  Inserts("users", {Connect, List(<<Connect, Row>>), Obj(<<Kid("products", List(<<Connect, Row>>))>>)})

PassRequests == Unrelated \cup Trees \cup Connects \cup Roots \cup Odd \cup Ups \cup Nesting

\* All trees in the requests, which are less than ten deep.
Children(nodes) == {k \in UNION {{n.kids[i].node : i \in DOMAIN n.kids} : n \in nodes} : TRUE}
Below[depth \in 0..9] ==
  IF depth = 0 THEN {V} \cup UNION {{r.roots[n].data : n \in DOMAIN r.roots} : r \in PassRequests}
  ELSE Children(Below[depth - 1])
PassPayloads == UNION {Below[depth] : depth \in 0..9}
=============================================================================
