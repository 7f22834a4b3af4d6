---------------------------- MODULE MCSchemaSync ----------------------------
(* Small instances of SchemaSync: empty and older databases, PostgreSQL and    *)
(* SQLite, one and two of them, and those the code does not get done.          *)
EXTENDS SchemaSync, TLC

Id == [name |-> "id", pk |-> TRUE, notnull |-> TRUE]
Plain(name) == [name |-> name, pk |-> FALSE, notnull |-> FALSE]
Fk(t, c, ref, refcol) == [table |-> t, col |-> c, ref |-> ref, refcol |-> refcol]
Index(t, c, kind) == [table |-> t, col |-> c, kind |-> kind]
Db(tables, fks, indexes) == [tables |-> tables, fks |-> fks, indexes |-> indexes]
Empty == Db([t \in {} |-> <<>>], {}, {})

\* Comments of posts of users; comments answer comments; users refer by mail.
Users == "users" :> <<Id, Plain("email")>>
Posts == "posts" :> <<Id, Plain("user_id")>>
Comments == "comments" :> <<Id, Plain("post_id"), Plain("reply_id")>>
UserKey == Fk("posts", "user_id", "users", "id")
PostKey == Fk("comments", "post_id", "posts", "id")
ReplyKey == Fk("comments", "reply_id", "comments", "id")
Mail == Index("users", "email", "unique")

Chain == Db(Users @@ Posts @@ Comments, {UserKey, PostKey, ReplyKey}, {Mail})
OnlyUsers == Db("users" :> <<Id>>, {}, {})
NoKeys == Db(Users @@ "posts" :> <<Id>>, {}, {Mail})
UsersPosts == Db(Users @@ Posts, {UserKey}, {Mail})
MoreThan == Db(Users @@ "posts" :> <<Id, Plain("user_id"), Plain("title")>> @@ "tags" :> <<Id, Plain("post_id")>>,
               {UserKey, Fk("tags", "post_id", "posts", "id")}, {Mail, Index("tags", "post_id", "plain")})

\* Keys onto unique columns: posts name users by mail, users name who invited them.
Named == Db(Users @@ "posts" :> <<Id, Plain("email")>>, {Fk("posts", "email", "users", "email")}, {Mail})
Invited == Db("users" :> <<Id, Plain("email"), Plain("by")>>, {Fk("users", "by", "users", "email")}, {Mail})
Shells == Db("users" :> <<Id>> @@ "posts" :> <<Id>>, {}, {})
NoIds == Db("users" :> <<Plain("email")>>, {}, {})
Loose == Db(Users @@ "posts" :> <<Id, [Plain("user_id") EXCEPT !.notnull = TRUE]>>, {}, {})
Mutual == Db(Users @@ "posts" :> <<Id, Plain("user_id")>> @@ "pins" :> <<Id, Plain("post_id")>>,
             {UserKey, Fk("users", "email", "pins", "id"), Fk("pins", "post_id", "posts", "id")}, {})
TwoIds == Db("users" :> <<Id, [Id EXCEPT !.name = "no"]>>, {}, {})
Tagged == Db("users" :> <<Id>> @@ "posts" :> <<Id, Plain("user_id")>> @@ "tags" :> <<Id, Plain("post_id")>>,
             {UserKey, Fk("tags", "post_id", "posts", "id")}, {})

Logs == Db("logs" :> <<Id, Plain("text")>>, {}, {})

Marks == {[table |-> "users", col |-> "email", mark |-> "search"], [table |-> "users", col |-> "email", mark |-> "index"]}
Case(src, old, driver, destructive, marks) ==
  [source |-> [main |-> src], live |-> [main |-> old], driver |-> driver, destructive |-> destructive,
   multi |-> FALSE, marks |-> marks, unassigned |-> {}]

Several(unassigned) ==
  [source |-> [main |-> UsersPosts, logs |-> Logs], live |-> [main |-> OnlyUsers, logs |-> Empty],
   driver |-> "postgres", destructive |-> FALSE, multi |-> TRUE, marks |-> {}, unassigned |-> unassigned]

SmallCases ==
  {Case(Chain, Empty, "postgres", FALSE, {}),
   Case(Chain, OnlyUsers, "postgres", FALSE, Marks),
   Case(UsersPosts, NoKeys, "postgres", FALSE, {}),
   Case(UsersPosts, MoreThan, "postgres", FALSE, {}),
   Case(UsersPosts, MoreThan, "postgres", TRUE, {}),
   Case(Chain, Empty, "sqlite", FALSE, Marks),
   Case(OnlyUsers, NoKeys, "sqlite", FALSE, {}),
   Case(Named, Shells, "postgres", FALSE, {}), Case(Named, OnlyUsers, "postgres", FALSE, {}),
   Case(Invited, Empty, "postgres", FALSE, {}),
   Case(UsersPosts, NoKeys, "sqlite", FALSE, {}), Case(UsersPosts, Loose, "postgres", FALSE, {}),
   Case(OnlyUsers, NoIds, "postgres", FALSE, {}), Case(TwoIds, Empty, "postgres", FALSE, {}),
   Case(Mutual, Empty, "postgres", FALSE, {}), Case(Mutual, Empty, "sqlite", FALSE, {}),
   Case(OnlyUsers, Tagged, "postgres", TRUE, {}), Case(UsersPosts, MoreThan, "sqlite", TRUE, {}),
   Case(OnlyUsers, UsersPosts, "sqlite", TRUE, {}),
   Several({}), Several({"logs"})}
=============================================================================
