---------------------------- MODULE MCSchemaBuild ----------------------------
(* Small instances of SchemaBuild: two to four tables with the shapes of keys  *)
(* that path search and relation names have to tell apart.                     *)
EXTENDS SchemaBuild

U == <<"public", "users">>
P == <<"public", "posts">>
C == <<"public", "comments">>
V == <<"public", "recent">>
A == <<"app", "posts">>

Tab(cols, pk) == [cols |-> cols, pk |-> pk, json |-> {}, view |-> FALSE]
Fk(t, cols, ref, refs) == [name |-> <<t, cols>>, table |-> t, cols |-> cols, ref |-> ref, refs |-> refs]
One(t, col, ref) == Fk(t, <<col>>, ref, <<"id">>)
Cat(driver, tables, fks, uniques) ==
  [driver |-> driver, tables |-> tables, fks |-> fks, uniques |-> uniques,
   search |-> IF driver = "postgres" THEN "public" ELSE "main"]
Pg(tables, fks) == Cat("postgres", tables, fks, {})
Users == U :> Tab({"id"}, {"id"})
Case(cat, conf) == [cat |-> cat, conf |-> conf, blocked |-> {}, allowed |-> {}]
Hiding(cat, names) == [Case(cat, <<>>) EXCEPT !.blocked = names]

\* A chain and a triangle; comments are answered by comments.
Chain == Pg(Users @@ P :> Tab({"id", "user_id"}, {"id"}) @@ C :> Tab({"id", "post_id"}, {"id"}),
            {One(P, "user_id", U), One(C, "post_id", P)})
Triangle == Pg(Users @@ P :> Tab({"id", "user_id"}, {"id"}) @@ C :> Tab({"id", "post_id", "user_id"}, {"id"}),
               {One(P, "user_id", U), One(C, "post_id", P), One(C, "user_id", U)})
Answers == Pg(P :> Tab({"id"}, {"id"}) @@ C :> Tab({"id", "post_id", "reply_id"}, {"id"}),
              {One(C, "post_id", P), One(C, "reply_id", C)})

\* Two keys to one table, and a cycle of keys.
TwoKeys == Pg(Users @@ P :> Tab({"id", "author_id", "editor_id"}, {"id"}),
              {One(P, "author_id", U), One(P, "editor_id", U)})
Cycle == Pg(U :> Tab({"id", "post_id"}, {"id"}) @@ P :> Tab({"id", "user_id"}, {"id"}),
            {One(P, "user_id", U), One(U, "post_id", P)})

\* A key of two columns to a primary key of two columns, another table between.
Pairs2 == Fk(C, <<"post_id", "user_id">>, P, <<"id", "user_id">>)
Composite == Pg(Users @@ P :> Tab({"id", "user_id"}, {"id", "user_id"})
                  @@ C :> Tab({"id", "post_id", "user_id"}, {"id"}),
                {One(P, "user_id", U), Pairs2})

\* The name of a key without "id" is a column; a table of the same name in two
\* schemas; an empty search path.
Clash == Pg(Users @@ P :> Tab({"id", "user", "user_id"}, {"id"}), {One(P, "user_id", U)})
TwoSchemas == [Pg(Users @@ P :> Tab({"id", "user_id"}, {"id"}) @@ A :> Tab({"id", "user_id"}, {"id"}),
                  {One(P, "user_id", U), One(A, "user_id", U)}) EXCEPT !.search = ""]

\* A view, which has no keys but those inferred and configured.
Viewed == Pg(Users @@ P :> Tab({"id", "title", "user_id"}, {"id"})
               @@ V :> [Tab({"id", "title"}, {}) EXCEPT !.view = TRUE], {One(P, "user_id", U)})

\* SQLite, with a unique column that is referred to.
SU == <<"main", "users">>
SP == <<"main", "posts">>
Lite == Cat("sqlite", SU :> Tab({"id", "email"}, {"id"}) @@ SP :> Tab({"id", "email", "next_id"}, {"id"}),
            {Fk(SP, <<"email">>, SU, <<"email">>), One(SP, "next_id", SP)},
            {[table |-> SU, cols |-> <<"email">>]})

\* A key of two columns onto a unique tuple that is not the primary key, also in
\* SQLite; one of a table onto itself; one onto a table of the same name.
Worded == Tab({"id", "lang", "code"}, {"id"})
Word(c, t) == Fk(c, <<"lang", "code">>, t, <<"lang", "code">>)
Tuple(t) == [table |-> t, cols |-> <<"lang", "code">>]
OntoTuple == Cat("postgres", P :> Worded @@ C :> Worded, {Word(C, P)}, {Tuple(P)})
LiteTuple == Cat("sqlite", SU :> Worded @@ SP :> Worded, {Word(SP, SU)}, {Tuple(SU)})
Versions == Tab({"id", "lang", "next_id"}, {"id", "lang"})
Next2(t, ref) == Fk(t, <<"next_id", "lang">>, ref, <<"id", "lang">>)
OntoItself == Pg(P :> Versions, {Next2(P, P)})
OntoNamesake == Pg(P :> Versions @@ A :> Versions, {Next2(A, P)})

\* A column in two keys of two columns, and one in a key of one and one of two.
InLanguage(col) == Fk(C, <<"lang", col>>, P, <<"lang", "id">>)
SharedTwice == Pg(P :> Tab({"id", "lang"}, {"id", "lang"}) @@ C :> Tab({"lang", "author_id", "editor_id"}, {}),
                  {InLanguage("author_id"), InLanguage("editor_id")})
SharedOnce == [Composite EXCEPT !.fks = @ \cup {One(C, "user_id", U)}]

\* Two keys onto a column that is itself a key.
KeyOfKeys == Pg(Users @@ P :> Tab({"id"}, {"id"}) @@ C :> Tab({"author_id", "editor_id"}, {}),
                {One(P, "id", U), One(C, "author_id", P), One(C, "editor_id", P)})

Json == Pg(U :> [Tab({"id", "tags"}, {"id"}) EXCEPT !.json = {"tags"}] @@ P :> Tab({"id", "user_id"}, {"id"}),
           {One(P, "user_id", U)})

Entry(name, of, type, cols) == [name |-> name, of |-> of, type |-> type, cols |-> cols]
Col(name, primary, fk) == [name |-> name, primary |-> primary, fk |-> fk]
ViewKey == <<Entry("recent", "", "", <<Col("id", FALSE, <<"", "posts", "id">>)>>)>>
Alias == <<Entry("writers", "users", "", <<>>)>>
JsonTable == <<Entry("tags", "users", "json", <<Col("word", FALSE, None)>>)>>
Subject == <<Entry("subject", "", "polymorphic", <<Col("post_id", FALSE, <<"", "user_id", "id">>)>>)>>
Unknown == <<Entry("gone", "", "", <<>>)>>
UnknownKey == <<Entry("posts", "", "", <<Col("id", TRUE, <<"", "gone", "id">>)>>)>>

SmallCases ==
  {Case(cat, <<>>) : cat \in {Chain, Triangle, Answers, TwoKeys, Cycle, Composite, Clash, TwoSchemas,
                              Viewed, Lite, OntoTuple, LiteTuple, OntoItself, OntoNamesake,
                              SharedTwice, SharedOnce, KeyOfKeys}}
    \cup {Case(Viewed, ViewKey), Case(TwoKeys, Alias), Case(Chain, Alias), Case(Json, JsonTable),
          Case(Triangle, Subject), Case(Chain, Unknown), Case(Chain, UnknownKey),
          Hiding(Chain, {"posts"}), Hiding(TwoKeys, {"users", "editor_id"}),
          [Case(TwoSchemas, <<>>) EXCEPT !.allowed = {"public"}]}

Stripped ==
  [user_id |-> "user", post_id |-> "post", reply_id |-> "reply", author_id |-> "author",
   editor_id |-> "editor", next_id |-> "next", email |-> "email", id |-> "id",
   lang |-> "lang", code |-> "code"]
SmallHints == {"users", "posts", "user_id", "post_id"}
=============================================================================
