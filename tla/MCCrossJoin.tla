---------------------------- MODULE MCCrossJoin -----------------------------
EXTENDS CrossJoin, JoinDocuments

Num(s)    == Scalar("num", s)

MCTables == [users |-> "main", posts |-> "main", staff |-> "hr", teams |-> "hr"]
Fk(t, c, r) == [table |-> t, col |-> c, ref |-> r, refcol |-> "id"]
MCFks == {Fk("posts", "user", "users"), Fk("users", "emp", "staff"),
          Fk("staff", "acct", "users"), Fk("staff", "team", "teams")}

\* Users and posts have columns with lists: of numbers and objects, of strings.
RowsOf(tags, words) ==
  [users |-> <<[id |-> Num("1"), emp |-> Num("7"), tags |-> tags, words |-> words],
               [id |-> Num("2"), emp |-> NullValue, tags |-> tags, words |-> words]>>,
   posts |-> <<[id |-> Num("5"), user |-> Num("2"), words |-> words],
               [id |-> Num("6"), user |-> Num("1"), words |-> words]>>,
   staff |-> <<[id |-> Num("7"), team |-> Num("3"), acct |-> Num("2")],
               [id |-> Num("8"), team |-> Num("4"), acct |-> Num("9")]>>,
   teams |-> <<[id |-> Num("3")]>>]
Str(s)  == Scalar("str", s)
SmallRows == RowsOf(ListOf(<<Num("5"), ObjectOf(<<Member("id", Num("7"))>>)>>),
                       ListOf(<<Str("a"), Str("id")>>))

C(names) == [n \in 1..Len(names) |-> [name |-> names[n], as |-> names[n]]]
N(name, as, cols, kids) == [name |-> name, as |-> as, cols |-> C(cols), kids |-> kids]

Staff(cols)  == N("staff", "staff", cols, <<N("teams", "teams", <<"id">>, <<>>)>>)
Hr(cols, kids) == N("staff", "staff", cols, kids)
Hr1(col)     == [Hr(<<>>, <<>>) EXCEPT !.cols = <<col>>]
Posts(kids)  == <<N("posts", "posts", <<"id">>, kids)>>
Writers      == N("users", "writer", <<"id">>, <<Staff(<<"id">>)>>)

MCQueries ==
  { \* from main to hr, through a row of main, with hr's own nesting
    Posts(<<Writers>>),
    \* the joined selection next to one of the same database; a null id
    <<N("users", "users", <<"id", "tags">>, <<Staff(<<"id">>), N("posts", "posts", <<"id">>, <<>>)>>)>>,
    \* from hr to main, a row that is gone
    <<N("staff", "staff", <<"id">>, <<N("users", "account", <<"id">>, <<>>),
                                      N("teams", "teams", <<"id">>, <<>>)>>)>>,
    \* both databases at once; then under one name
    <<N("users", "users", <<"id">>, <<>>), N("teams", "teams", <<"id">>, <<>>)>>,
    <<N("users", "x", <<"id">>, <<>>), N("teams", "x", <<"id">>, <<>>)>>,
    \* a list of strings before the id, before the join, and last of all
    <<N("users", "users", <<"words", "id">>, <<Hr(<<"id">>, <<>>)>>)>>,
    <<N("users", "users", <<"id", "words">>, <<Hr(<<"id">>, <<>>)>>)>>,
    <<N("users", "users", <<"id">>, <<N("posts", "posts", <<"words">>, <<>>), Hr(<<"id">>, <<>>)>>)>>,
    \* a join in a query over both databases, and below a join
    <<N("users", "users", <<"id">>, <<Hr(<<"id">>, <<>>)>>), N("teams", "teams", <<"id">>, <<>>)>>,
    <<N("users", "users", <<"id">>, <<Hr(<<"id">>, <<N("users", "users", <<"id">>, <<>>)>>)>>)>>,
    \* two joins under one name, and one below the other
    <<N("users", "users", <<"id">>, <<Hr(<<"id">>, <<>>)>>),
      N("posts", "posts", <<"id">>, <<N("users", "writer", <<"id">>, <<Hr(<<"team">>, <<>>)>>)>>)>>,
    <<N("users", "users", <<"id">>, <<Hr(<<"id">>, <<N("teams", "staff", <<"id">>, <<>>)>>)>>)>>,
    \* other names for a column of a join: of another column, and of none
    <<N("users", "users", <<"id">>, <<Hr1([name |-> "team", as |-> "id"])>>)>>,
    <<N("users", "users", <<"id">>, <<Hr1([name |-> "id", as |-> "number"])>>)>> }

MCConnected == {"main", "hr"}
MCDatabases == {Tables[t] : t \in DOMAIN Tables}
=============================================================================
