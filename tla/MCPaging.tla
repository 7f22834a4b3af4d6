------------------------------- MODULE MCPaging -------------------------------
(* Small instances of Paging: a database of users, their posts and comments    *)
(* that answer each other, on both dialects, and requests for each of the      *)
(* arguments and directives a selection may have.                              *)
EXTENDS Paging

-----------------------------------------------------------------------------
(* The database, discovered from a catalog.                                 *)

Names == [user_id |-> "user", post_id |-> "post", reply_id |-> "reply", seat_row |-> "seat_row",
          seat_no |-> "seat_no", id |-> "id"]

Catalog(driver) ==
  LET in(t) == <<IF driver = "postgres" THEN "public" ELSE "main", t>>
      tab(cols, pk) == [cols |-> cols, pk |-> pk, json |-> {}, view |-> FALSE]
      fk(t, cols, ref, refs) == [name |-> <<t, cols>>, table |-> in(t), cols |-> cols, ref |-> in(ref), refs |-> refs]
  IN [driver |-> driver, uniques |-> {}, search |-> in("")[1],
      tables |-> in("users") :> tab({"id", "age", "mail"}, {"id"})
              @@ in("posts") :> tab({"id", "user_id", "likes", "rank"}, {"id"})
              @@ in("comments") :> tab({"id", "post_id", "reply_id"}, {"id"})
              @@ in("seats") :> tab({"row", "no", "user_id"}, {"row", "no"})
              @@ in("tickets") :> tab({"id", "seat_row", "seat_no"}, {"id"})
              @@ in("events") :> tab({"id", "day"}, {"id"})
              @@ in("logs") :> tab({"id"}, {"id"}),
      fks |-> {fk("posts", <<"user_id">>, "users", <<"id">>), fk("comments", <<"post_id">>, "posts", <<"id">>),
               fk("comments", <<"reply_id">>, "comments", <<"id">>), fk("seats", <<"user_id">>, "users", <<"id">>),
               fk("tickets", <<"seat_row", "seat_no">>, "seats", <<"row", "no">>)}]

\* Rows come by the place of the column in its key.
Scanned(all) ==
  LET scan(cmap, n) == FoldSet(LAMBDA r, m : Graph!Scan(m, r), cmap, {r \in all : r.ord = n})
  IN scan(scan(scan(Graph!NoCols, 0), 1), 2)

Info(cat) ==
  LET all == Graph!Columns(cat, Scanned(Graph!Rows(cat)))
  IN Graph!NewDBInfo(cat, all, Graph!CompositeFKs(cat, all), Graph!UniqueKeys(cat), cat.search)

GraphOf(info) ==
  LET tables == {info.tables[t] : t \in DOMAIN info.tables}
      nodes == FoldSet(LAMBDA t, g : Graph!AddNode(g, t, {}), Graph!EmptyGraph, tables)
      key(t, c) == LET of == Graph!CompositesOf(info, t.name, c)
                   IN IF of = {} THEN None ELSE CHOOSE f \in of : TRUE
      referring(t) == {t.cols[c] : c \in {x \in DOMAIN t.cols : Graph!Refers(t.cols[x])}}
      with(t, g) == FoldSet(LAMBDA c, b : Graph!AddColumnRel(b, info, t, c, key(t, c.name)),
                            [graph |-> g, done |-> Graph!NoCols], referring(t)).graph
  IN FoldSet(with, nodes, tables)

DB(driver) ==
  LET info == Info(Catalog(driver))
      tables == {t[2] : t \in DOMAIN info.tables}
  IN [driver |-> driver, info |-> info, graph |-> GraphOf(info),
      pk |-> [t \in tables |-> IF t = "seats" THEN <<"row", "no">> ELSE <<"id">>],
      hidden |-> {"logs"}, secret |-> {<<"users", "mail">>}, nullable |-> {<<"posts", "rank">>},
      part |-> [t \in tables |-> IF t = "events" THEN [col |-> "day", bound |-> 1] ELSE None]]

\* TLC keeps the functions of a value that was compared as tables.
Kept(v) == v
PG == Kept(DB("postgres"))
Lite == Kept(DB("sqlite"))

User(id, age) == [id |-> id, age |-> age, mail |-> 0]
Post(id, user, likes, rank) == [id |-> id, user_id |-> user, likes |-> likes, rank |-> rank]
Comment(id, post, reply) == [id |-> id, post_id |-> post, reply_id |-> reply]
Seat(r, n, user) == [row |-> r, no |-> n, user_id |-> user]
Ticket(id, r, n) == [id |-> id, seat_row |-> r, seat_no |-> n]

SomeRows ==
  [users |-> <<User(1, 1), User(2, 0), User(3, 1)>>,
   posts |-> <<Post(2, 1, 1, 0), Post(1, 1, 0, 1), Post(3, 2, 1, 1)>>,
   comments |-> <<Comment(1, 1, None), Comment(2, 1, 1), Comment(3, 3, 2), Comment(4, 2, 1)>>,
   seats |-> <<Seat(0, 1, 1), Seat(0, 0, 2), Seat(1, 0, 1)>>,
   tickets |-> <<Ticket(1, 0, 0), Ticket(2, 1, 0), Ticket(3, 1, 0), Ticket(4, 0, 1)>>,
   events |-> <<[id |-> 1, day |-> 0], [id |-> 2, day |-> 1], [id |-> 3, day |-> 2]>>,
   logs |-> <<[id |-> 1]>>]
Unranked == [SomeRows EXCEPT !.posts = <<Post(1, 1, 0, 1), Post(2, 1, 1, None), Post(3, 2, 0, 0), Post(4, None, 1, 1)>>]
FreshPosts == {Post(0, 1, 0, 1), Post(4, 2, 1, 0)}
FreshUnranked == {Post(0, 1, 0, 1), Post(5, 2, 1, None)}

-----------------------------------------------------------------------------
(* Requests.                                                                *)

Node(name, type, val, kids) == [name |-> name, type |-> type, val |-> val, kids |-> kids]
Obj(name, kids) == Node(name, "obj", "", kids)
Num(name, v) == Node(name, "num", v, <<>>)
Str(name, v) == Node(name, "str", v, <<>>)
Bool(name, v) == Node(name, "bool", v, <<>>)
Var(name, v) == Node(name, "var", v, <<>>)
Lab(name, v) == Node(name, "label", v, <<>>)
ColRef(name, v) == Node(name, "col", v, <<>>)
List(name, vals) == Node(name, "list", "", [i \in DOMAIN vals |-> Num("", vals[i])])
Columns(name, cols) == Node(name, "list", "", [i \in DOMAIN cols |-> Str("", cols[i])])
Items(name, objs) == Node(name, "list", "", objs)

Is(col, op, v) == Obj(col, <<Num(op, v)>>)
Where(conds) == Obj("where", conds)
By(entries) == Obj("order_by", entries)
After == Var("after", "cursor")

Dir(name, args) == [name |-> name, args |-> args]
If(name, v) == Dir(name, <<Var("ifVar", v)>>)
Field(name, args, dirs) == [name |-> name, alias |-> "", kind |-> "", args |-> args, dirs |-> dirs, kids |-> <<>>]
F(name) == Field(name, <<>>, <<>>)
Named(alias, f) == [f EXCEPT !.alias = alias]
Keyword(name) == [F(name) EXCEPT !.kind = "keyword"]
Select(name, args, dirs, kids) == [Field(name, args, dirs) EXCEPT !.kids = kids]
Get(name, args, kids) == Select(name, args, <<>>, kids)
Id == <<F("id")>>

NoVars == [v \in {} |-> None]
Ask(d, op) == [db |-> d, op |-> op, vars |-> NoVars, rows |-> SomeRows, fresh |-> {}, refused |-> FALSE]
Refuse(d, op) == [Ask(d, op) EXCEPT !.refused = TRUE]
With(given, c) == [c EXCEPT !.vars = given]
On(tables, c) == [c EXCEPT !.rows = tables]
Walk(c) == [c EXCEPT !.fresh = FreshPosts]
WalkUnranked(c) == [On(Unranked, c) EXCEPT !.fresh = FreshUnranked]

Posts(args) == <<Get("posts", args, Id)>>
PostsWhere(conds) == Posts(<<Where(conds)>>)
Users(args) == <<Get("users", args, Id)>>
UsersWhere(conds) == Users(<<Where(conds)>>)

Filtering ==
  <<PostsWhere(<<Is("likes", "gt", 0), Obj("user_id", <<List("in", <<1>>)>>)>>),
    PostsWhere(<<Items("or", <<Obj("", <<Is("id", "eq", 1)>>), Obj("", <<Is("likes", "neq", 0)>>)>>)>>),
    PostsWhere(<<Obj("not", <<Is("rank", "eq", 1)>>)>>),
    PostsWhere(<<Obj("rank", <<Bool("is_null", TRUE)>>)>>),
    PostsWhere(<<Obj("likes", <<Items("or", <<Obj("", <<Num("eq", 1)>>), Obj("", <<Num("lt", 0)>>)>>)>>)>>),
    PostsWhere(<<Obj("user_id", <<ColRef("eq", "id")>>)>>),
    PostsWhere(<<Obj("users", <<Is("age", "eq", 1), Is("id", "lt", 3)>>)>>),
    UsersWhere(<<Obj("posts", <<Obj("comments", <<Is("id", "gt", 2)>>)>>)>>),
    UsersWhere(<<Obj("comments", <<Is("id", "gt", 3)>>)>>),
    UsersWhere(<<Obj("not", <<Obj("posts", <<Is("likes", "eq", 1)>>)>>)>>),
    <<Get("tickets", <<Where(<<Obj("seats", <<Is("user_id", "eq", 1)>>)>>)>>, Id)>> >>

Nesting ==
  <<<<Get("users", <<>>, Id \o <<Get("posts", <<By(<<Lab("likes", "desc")>>), Num("limit", 1)>>,
                                     Id \o <<Get("comments", <<>>, Id)>>)>>)>>,
    <<Get("users", <<>>, Id \o <<Get("comments", <<>>, Id)>>)>>,
    <<Get("comments", <<>>, Id \o <<Get("users", <<>>, Id)>>)>>,
    <<Get("posts", <<>>, Id \o <<Get("user", <<>>, Id), Named("others", Select("users", <<>>, <<Dir("notRelated", <<>>)>>, Id))>>)>>,
    <<Get("seats", <<>>, <<F("row"), F("no"), Get("tickets", <<>>, Id)>>)>>,
    <<Get("comments", <<>>, Id \o <<Named("up", Get("comments", <<Str("find", "parents")>>, Id))>>)>>,
    <<Get("comments", <<>>, Id \o <<Named("down", Get("comments", <<Str("find", "children")>>, Id))>>)>>,
    <<Get("users", <<>>, Id \o <<Select("comments", <<>>, <<Dir("through", <<Str("table", "posts")>>)>>, Id)>>)>>,
    <<Get("users", <<Num("id", 1)>>, <<Named("key", F("id")), Get("posts", <<>>, <<F("count_id")>>)>>)>>,
    <<Get("seats", <<Obj("id", <<Num("no", 0), Num("row", 1)>>)>>, <<F("no"), Get("user", <<>>, Id)>>)>> >>

Shaping ==
  <<<<Get("posts", <<>>, <<F("sum_likes")>>)>>,
    <<Get("posts", <<>>, <<F("likes"), F("count_id"), Named("top", Field("max", <<Str("column", "id")>>, <<>>))>>)>>,
    <<Get("posts", <<Str("distinct", "likes")>>, <<F("likes"), F("sum_rank")>>)>>,
    <<Get("posts", <<By(<<Lab("n", "desc")>>)>>, <<F("likes"), Named("n", F("count_id"))>>)>>,
    Posts(<<By(<<Lab("rank", "desc_nulls_last"), Lab("id", "asc")>>), Num("limit", 2), Num("offset", 1)>>),
    Posts(<<By(<<Obj("users", <<Lab("age", "desc")>>), Lab("id", "desc")>>)>>),
    <<Select("posts", <<By(<<Lab("id", "desc")>>)>>, <<Dir("object", <<>>)>>, Id)>>,
    <<Get("events", <<>>, Id)>>,
    <<Get("events", <<Where(<<Is("day", "lt", 2)>>)>>, Id)>>,
    <<Keyword("posts_cursor"), Get("posts", <<Num("first", 2)>>, Id), Named("all", Get("users", <<>>, Id))>>,
    <<Get("posts", <<>>, <<F("likes"), Field("rank", <<Obj("includeIf", <<Is("likes", "eq", 1)>>)>>, <<>>),
                                 Named("r", Field("rank", <<Obj("skipIf", <<Is("likes", "eq", 1)>>)>>, <<>>))>>)>> >>

Depending ==
  <<<<Select("posts", <<>>, <<If("include", "on")>>, Id), Named("p", Select("posts", <<>>, <<If("skip", "on")>>, Id))>>,
    <<Get("posts", <<>>, Id \o <<Field("likes", <<>>, <<If("include", "on")>>), Field("sum_rank", <<>>, <<If("skip", "on")>>)>>)>>,
    Posts(<<Var("limit", "n"), Var("offset", "m"), By(<<Lab("id", "asc")>>)>>),
    Posts(<<Where(<<Obj("id", <<Var("gt", "n")>>)>>)>>),
    <<Get("users", <<Var("id", "n")>>, Id)>> >>
Given2 == [on |-> FALSE, n |-> 2, m |-> 1]
Given1 == [on |-> TRUE, n |-> 1, m |-> 0]

\* Conditions within conditions, and what the code answers otherwise than asked.
All(conds) == Obj("", conds)
Only(likes) == All(<<Is("likes", "eq", likes)>>)
Replies(args) == <<Get("comments", <<>>, Id \o <<Named("down", Get("comments", <<Str("find", "children")>> \o args, Id))>>)>>

Departing ==
  <<PostsWhere(<<Items("or", <<All(<<Is("likes", "eq", 1), Is("user_id", "eq", 2)>>), All(<<Is("id", "eq", 1)>>)>>)>>),
    PostsWhere(<<Items("and", <<All(<<Is("likes", "eq", 1), Is("user_id", "eq", 2)>>), All(<<Is("id", "gt", 1)>>)>>)>>),
    PostsWhere(<<Obj("not", <<Is("likes", "eq", 1), Is("user_id", "eq", 2)>>)>>),
    PostsWhere(<<Obj("likes", <<Obj("not", <<Num("eq", 1)>>)>>)>>),
    PostsWhere(<<Obj("id", <<Obj("not", <<Num("gt", 1), Num("lt", 3)>>)>>)>>),
    PostsWhere(<<Obj("id", <<Items("or", <<All(<<Num("gt", 1), Num("lt", 3)>>), All(<<Num("eq", 4)>>)>>)>>)>>),
    PostsWhere(<<Obj("id", <<Obj("or", <<Num("lt", 2), Num("gt", 3)>>)>>)>>),
    UsersWhere(<<Obj("posts", <<Is("likes", "eq", 0), Obj("comments", <<Is("id", "gt", 2)>>)>>)>>),
    UsersWhere(<<Obj("posts", <<Obj("users", <<Is("id", "gt", 1)>>)>>)>>),
    UsersWhere(<<Obj("posts", <<Items("or", <<Only(5), All(<<Obj("comments", <<Is("id", "gt", 2)>>)>>)>>), Is("rank", "eq", 1)>>)>>),
    UsersWhere(<<Obj("posts", <<Items("or", <<Only(0), All(<<Is("id", "eq", 2)>>)>>)>>)>>),
    UsersWhere(<<Obj("posts", <<Obj("not", <<Is("likes", "eq", 0)>>)>>)>>),
    Users(<<Num("id", 1), Where(<<Is("age", "eq", 0)>>)>>),
    Users(<<Where(<<Is("age", "eq", 0)>>), Num("id", 1)>>),
    <<Select("users", <<Num("id", 1)>>, <<If("include", "off")>>, Id)>>,
    <<Get("posts", <<Str("distinct", "likes"), By(<<Lab("likes", "asc"), Lab("id", "desc")>>)>>, Id \o <<F("likes")>>)>>,
    Posts(<<Num("last", 2)>>), Posts(<<Num("last", 2), By(<<Lab("likes", "asc")>>)>>),
    Replies(<<Num("limit", 1)>>), Replies(<<Where(<<Is("id", "gt", 2)>>)>>), Replies(<<By(<<Lab("id", "desc")>>)>>),
    Users(<<By(<<Obj("posts", <<Lab("id", "desc")>>)>>)>>), Posts(<<By(<<Obj("users", <<Lab("age", "desc")>>)>>)>>),
    <<Get("posts", <<By(<<Lab("count_id", "desc")>>)>>, <<F("likes")>>)>>,
    <<Get("posts", <<By(<<Lab("id", "desc")>>)>>, <<F("likes"), F("count_id")>>)>>,
    <<Get("posts", <<Num("first", 2)>>, <<F("likes"), F("count_id")>>)>>,
    <<Get("posts", <<>>, <<F("likes"), F("count_id"), Get("users", <<>>, Id)>>)>>,
    <<Get("posts", <<Num("limit", 0)>>, <<F("count_id")>>)>>, <<Get("posts", <<Num("offset", 1)>>, <<F("count_id")>>)>>,
    <<Get("posts", <<>>, <<F("likes"), Field("count_id", <<Obj("includeIf", <<Is("likes", "eq", 1)>>)>>, <<>>)>>)>>,
    <<Get("posts", <<>>, Id \o <<Field("likes", <<Obj("skipIf", <<Is("rank", "eq", 1)>>)>>, <<>>)>>)>> >>

Each(ops, As(_)) == [i \in DOMAIN ops |-> As(ops[i])]

\* A filter, an order and a limit of a list and of the lists below other rows.
Wheres == <<<<>>, <<Where(<<Is("likes", "gte", 1)>>)>>, <<Where(<<Obj("not", <<Obj("comments", <<Is("id", "lt", 3)>>)>>)>>)>>,
            <<Where(<<Items("or", <<Obj("", <<Is("rank", "eq", 0)>>), Obj("", <<Obj("users", <<Is("age", "eq", 0)>>)>>)>>)>>)>> >>
Sorts == <<<<>>, <<By(<<Lab("likes", "asc"), Lab("rank", "desc")>>)>>, <<By(<<Lab("rank", "asc_nulls_last"), Lab("id", "desc")>>)>> >>
Cuts == <<<<>>, <<Num("limit", 1)>>, <<Num("limit", 2), Num("offset", 1)>> >>
Mixes(cuts) == FlattenSeq([i \in DOMAIN Wheres |-> FlattenSeq([j \in DOMAIN Sorts |->
           [k \in DOMAIN cuts |-> Wheres[i] \o Sorts[j] \o cuts[k]]])])
Under(args) == <<Get("users", <<By(<<Lab("id", "desc")>>)>>, Id \o Posts(args))>>

Refusals ==
  <<<<Get("logs", <<>>, Id)>>, <<Get("users", <<>>, <<F("mail")>>)>>,
    <<Get("users", <<Where(<<Is("mail", "eq", 0)>>)>>, Id)>>,
    <<Get("users", <<By(<<Lab("mail", "asc")>>)>>, Id)>>,
    <<Get("users", <<Str("distinct", "mail")>>, Id)>>,
    <<Get("users", <<>>, Id \o <<Get("events", <<>>, Id)>>)>>,
    <<Get("comments", <<>>, Id \o <<Get("comments", <<>>, Id)>>)>>,
    Posts(<<By(<<Lab("n", "asc")>>)>>),
    PostsWhere(<<Items("or", <<Obj("", <<Is("id", "eq", 1)>>)>>)>>),
    <<Get("users", <<>>, Id \o <<Get("posts", <<Num("id", 1)>>, Id)>>)>>,
    <<Get("posts", <<Str("distinct", "likes")>>, <<F("count_id"), Get("comments", <<>>, Id)>>)>>,
    <<Get("users", <<>>, <<Get("posts", <<>>, <<Get("comments", <<>>, <<Get("posts", <<>>, Id)>>)>>)>>)>> >>

Pages(args) == <<Get("posts", args, <<F("id"), F("likes"), F("rank"), F("user_id")>>)>>
Walking ==
  <<Pages(<<Num("first", 1), After>>),
    Pages(<<Num("first", 2), After, By(<<Lab("likes", "desc")>>)>>),
    Pages(<<Num("first", 1), After, By(<<Lab("rank", "asc"), Lab("likes", "desc")>>)>>),
    Pages(<<Num("last", 1), Var("before", "posts_cursor")>>),
    Pages(<<Num("last", 1), Var("before", "cursor"), By(<<Lab("likes", "asc")>>)>>),
    Pages(<<Num("last", 1), Var("before", "cursor"), By(<<Lab("id", "desc")>>)>>),
    Pages(<<Num("first", 1), After, By(<<Obj("users", <<Lab("age", "asc")>>)>>)>>),
    Pages(<<Num("first", 1), After, By(<<Obj("users", <<Lab("id", "asc")>>)>>)>>),
    Pages(<<Num("first", 1), After, Where(<<Obj("users", <<Is("age", "eq", 1)>>)>>), By(<<Lab("likes", "asc")>>)>>) >>

\* Lists with a NULL in an ordered column, at either end and between others.
Unordered ==
  Each(<<<<Lab("rank", "asc")>>, <<Lab("rank", "desc")>>, <<Lab("rank", "asc_nulls_first"), Lab("likes", "desc")>>,
         <<Lab("likes", "asc"), Lab("rank", "asc")>>, <<Obj("users", <<Lab("age", "asc")>>)>>>>,
       LAMBDA by : Pages(<<Num("first", 1), After, By(by)>>))
    \o <<Pages(<<Num("first", 2), After, By(<<Lab("rank", "desc_nulls_last")>>)>>),
         Pages(<<Num("last", 1), Var("before", "cursor"), By(<<Lab("rank", "desc")>>)>>)>>

Seats == <<Get("seats", <<Var("first", "n"), After, By(<<Lab("user_id", "desc")>>)>>, <<F("row"), F("no"), F("user_id")>>)>>

On2(d) ==
  Each(Filtering, LAMBDA op : On(Unranked, Ask(d, op)))
    \o Each(Departing, LAMBDA op : On(Unranked, With([off |-> FALSE], Ask(d, op))))
    \o Each(Nesting, LAMBDA op : Ask(d, op)) \o Each(Shaping, LAMBDA op : Ask(d, op)) \o Each(Depending, LAMBDA op : With(Given2, Ask(d, op)))
    \o Each(Depending, LAMBDA op : With(Given1, Ask(d, op))) \o Each(Refusals, LAMBDA op : Refuse(d, op))
    \o Each(Walking, LAMBDA op : Walk(Ask(d, op))) \o Each(Unordered, LAMBDA op : WalkUnranked(Ask(d, op)))
    \o Each(Mixes(Cuts \o <<<<Num("first", 1)>>>>), LAMBDA args : On(Unranked, Ask(d, Posts(args))))
    \o Each(Mixes(Cuts), LAMBDA args : On(Unranked, Ask(d, Under(args))))
    \o <<[With(Given1, Ask(d, Seats)) EXCEPT !.fresh = {Seat(0, 2, 2), Seat(1, 1, 1)}],
         Ask(d, Posts(<<Var("limit", "n")>>))>>
Small == On2(PG) \o On2(Lite)

SmallAggregates ==
  [count_id |-> [fn |-> "count", col |-> "id"], sum_likes |-> [fn |-> "sum", col |-> "likes"],
   sum_rank |-> [fn |-> "sum", col |-> "rank"], max_id |-> [fn |-> "max", col |-> "id"]]
=============================================================================
