------------------------------ MODULE Discovery ------------------------------
(* What introspection makes of a database (core/introspection/tables.go and    *)
(* uniquekeys.go, core/sdata/tables.go and snapshot.go) and what the           *)
(* configuration adds to it (core/engine/init.go).                             *)
(*                                                                             *)
(* A table is <<schema, name>>. A catalog is what the database really has:     *)
(*   driver   "postgres" or "sqlite"                                           *)
(*   tables   table -> [cols, pk: set of columns, json: set of columns, view]  *)
(*   fks      set of [table, cols, ref, refs]: cols[i] refers to refs[i]       *)
(*   uniques  set of [table, cols]                                             *)
(*   search   the default schema, "" with an empty search_path                 *)
EXTENDS Integers, SequencesExt

CONSTANT None

Elems(s) == {s[i] : i \in DOMAIN s}
NoCols == [k \in {} |-> None]

-----------------------------------------------------------------------------
(* The rows of the column queries.                                         *)

Row(t, c) ==
  [table |-> t, name |-> c, ord |-> 0, pk |-> FALSE, uniq |-> FALSE,
   fkt |-> None, fkc |-> None]

ColumnRows(cat) ==
  UNION {{Row(t, c) : c \in cat.tables[t].cols} : t \in DOMAIN cat.tables}

KeyRows(cat) ==
  UNION {{[Row(t, c) EXCEPT !.pk = TRUE] : c \in cat.tables[t].pk} : t \in DOMAIN cat.tables}
    \cup {[Row(u.table, u.cols[1]) EXCEPT !.uniq = TRUE] :
             u \in {v \in cat.uniques : Len(v.cols) = 1}}

FkRows(cat) ==
  UNION {{[Row(f.table, f.cols[i]) EXCEPT !.ord = i, !.fkt = f.ref, !.fkc = f.refs[i]] :
             i \in DOMAIN f.cols} : f \in cat.fks}

\* PostgreSQL is asked for columns and for constraints, SQLite for both at once:
\* a row per column and foreign key, with the keys of the column in it.
Rows(cat) ==
  IF cat.driver = "postgres" THEN KeyRows(cat) \cup FkRows(cat)
  ELSE LET Keyed(r) ==
             [r EXCEPT !.pk = r.name \in cat.tables[r.table].pk,
                       !.uniq = \E u \in cat.uniques :
                                  u.table = r.table /\ u.cols = <<r.name>>]
           fks == FkRows(cat)
       IN {Keyed([r EXCEPT !.ord = 0]) :
             r \in fks \cup {c \in ColumnRows(cat) :
                               ~\E f \in fks : f.table = c.table /\ f.name = c.name}}

\* The rows of a table come by the position of the column in its constraint,
\* those of different constraints in any order.
NextRow(todo, r) == \A q \in todo : q.table = r.table => r.ord <= q.ord

-----------------------------------------------------------------------------
(* Columns.                                                                *)

Key(r) == <<r.table, r.name>>
Refers(c) == c.fkt # None

Column(r) ==
  [table |-> r.table, name |-> r.name, pk |-> FALSE, uniq |-> FALSE,
   fkt |-> None, fkc |-> None, rec |-> FALSE]

\* What a row, or a column found by another query, adds to a column. The mark
\* of a recursive key is never taken back.
Merge(c, r) ==
  LET fkt == IF r.fkt = None THEN c.fkt ELSE r.fkt
  IN [c EXCEPT !.pk = @ \/ r.pk,
               !.uniq = @ \/ r.pk \/ r.uniq,
               !.fkt = fkt,
               !.fkc = IF r.fkc = None THEN @ ELSE r.fkc,
               !.rec = @ \/ fkt = c.table]

Scan(cmap, r) ==
  [k \in DOMAIN cmap \cup {Key(r)} |->
     IF k # Key(r) THEN cmap[k]
     ELSE Merge(IF k \in DOMAIN cmap THEN cmap[k] ELSE Column(r), r)]

Merged(dst, src) ==
  [k \in DOMAIN dst \cup DOMAIN src |->
     IF k \notin DOMAIN src THEN dst[k]
     ELSE IF k \notin DOMAIN dst THEN src[k] ELSE Merge(dst[k], src[k])]

BasicColumns(cat) ==
  [k \in {Key(r) : r \in ColumnRows(cat)} |-> Column(Row(k[1], k[2]))]

\* A table without primary key takes that of the one table of its schema that
\* it has most other columns in common with, if it has the key's columns.
InferViewPKs(cmap) ==
  LET tables == {k[1] : k \in DOMAIN cmap}
      cols(t) == {k[2] : k \in {l \in DOMAIN cmap : l[1] = t}}
      pks(t) == {c \in cols(t) : cmap[<<t, c>>].pk}
      overlap(v, b) == Cardinality((cols(b) \ pks(b)) \cap cols(v))
      bases(v) == {b \in tables \ {v} : b[1] = v[1] /\ pks(b) # {}
                                        /\ pks(b) \subseteq cols(v) /\ overlap(v, b) > 0}
      best(v) == {b \in bases(v) : \A o \in bases(v) : overlap(v, o) <= overlap(v, b)}
      inferred(t) == IF pks(t) = {} /\ Cardinality(best(t)) = 1
                     THEN UNION {pks(b) : b \in best(t)} ELSE {}
  IN [k \in DOMAIN cmap |->
        IF k[2] \in inferred(k[1])
        THEN [cmap[k] EXCEPT !.pk = TRUE, !.uniq = TRUE] ELSE cmap[k]]

HasViews(cat) == \E t \in DOMAIN cat.tables : cat.tables[t].view

Columns(cat, cmap) ==
  LET all == IF cat.driver = "postgres" THEN Merged(BasicColumns(cat), cmap) ELSE cmap
  IN IF HasViews(cat) THEN InferViewPKs(all) ELSE all

-----------------------------------------------------------------------------
(* Keys of several columns.                                                *)

HasCompositeFKCandidates(cmap) ==
  \E k, l \in DOMAIN cmap :
    k # l /\ k[1] = l[1] /\ Refers(cmap[k]) /\ cmap[k].fkt = cmap[l].fkt

CompositeFKs(cat, cmap) ==
  IF HasCompositeFKCandidates(cmap) THEN {f \in cat.fks : Len(f.cols) > 1} ELSE {}

\* SQLite's keys are recorded in a schema that its tables are not in.
UniqueKeys(cat) ==
  IF cat.driver = "postgres" THEN cat.uniques
  ELSE {[u EXCEPT !.table = <<"public", @[2]>>] : u \in cat.uniques}

\* The schemas an empty search_path can be replaced by: with the most tables.
DefaultSchemas(cat) ==
  LET size(s) == Cardinality({t \in DOMAIN cat.tables : t[1] = s})
      schemas == {t[1] : t \in DOMAIN cat.tables}
  IN IF cat.search # "" THEN {cat.search}
     ELSE {s \in schemas : \A o \in schemas : size(o) <= size(s)}

-----------------------------------------------------------------------------
(* DBInfo.                                                                 *)

Table(cmap, t, json) ==
  [name |-> t, cols |-> [c \in {k[2] : k \in {l \in DOMAIN cmap : l[1] = t}} |-> cmap[<<t, c>>]],
   prim |-> {k[2] : k \in {l \in DOMAIN cmap : l[1] = t /\ cmap[l].pk}},
   json |-> json, kind |-> "", left |-> None, right |-> None]

NewDBInfo(cat, cmap, composite, uniques, default) ==
  [tables |-> [t \in {k[1] : k \in DOMAIN cmap} |-> Table(cmap, t, cat.tables[t].json)],
   virtual |-> {}, composite |-> composite, uniques |-> uniques, default |-> default]

\* Variant: the keys of several columns are left out of the snapshot as well.
RestoredColumnsOnly(info) == [info EXCEPT !.composite = {}, !.uniques = {}]

\* What is left of a DBInfo in its snapshot: no unique keys of several columns.
Restored(info) ==
  [info EXCEPT !.uniques = {},
               !.tables = [t \in DOMAIN info.tables |->
                 [info.tables[t] EXCEPT
                    !.prim = {c \in DOMAIN info.tables[t].cols : info.tables[t].cols[c].pk}]]]

-----------------------------------------------------------------------------
(* The configuration: a sequence of                                        *)
(*   [name, of, type, cols: sequence of [name, primary, fk]]               *)
(* where fk is None, <<schema, table, column>>, or, with the default schema, *)
(* <<"", table, column>>. An operation gives an info, or None if it fails. *)

GetColumn(info, t, c) == t \in DOMAIN info.tables /\ c \in DOMAIN info.tables[t].cols
InDefault(info, name) == <<info.default, name>>
Target(info, fk) == <<IF fk[1] = "" THEN info.default ELSE fk[1], fk[2]>>
IsAliasEntry(e) == e.of # "" /\ e.type = ""

\* A column made a primary key here is not made a unique one.
UpdateTable(info, e) ==
  LET t == InDefault(info, e.name)
      prim == {e.cols[i].name : i \in {j \in DOMAIN e.cols : e.cols[j].primary}}
  IN IF t \notin DOMAIN info.tables
        \/ \E i \in DOMAIN e.cols : e.cols[i].name \notin DOMAIN info.tables[t].cols
     THEN None
     ELSE [info EXCEPT !.tables[t].prim = @ \cup prim,
                       !.tables[t].cols = [c \in DOMAIN @ |->
                          [@[c] EXCEPT !.pk = @ \/ c \in prim]]]

\* A JSON column of table e.of as a table of its own.
AddJsonTable(info, e) ==
  LET base == InDefault(info, e.of)
      t == <<base[1], e.name>>
      col(c) == Column(Row(t, c))
  IN IF ~GetColumn(info, base, e.name) \/ e.name \notin info.tables[base].json
     THEN None
     ELSE [info EXCEPT !.tables =
             [k \in DOMAIN @ \cup {t} |->
                IF k # t THEN @[k]
                ELSE [name |-> t, cols |-> [c \in {e.cols[i].name : i \in DOMAIN e.cols} |-> col(c)],
                      prim |-> {}, json |-> {}, kind |-> "json",
                      left |-> info.tables[base].cols[e.name],
                      right |-> info.tables[base].cols[CHOOSE c \in info.tables[base].prim : TRUE]]]]

\* A polymorphic table: whose row it is, is said by the columns fk[2] and fk[3].
AddVirtualTable(info, e) ==
  IF e.cols = <<>> \/ e.cols[1].fk = None THEN None
  ELSE [info EXCEPT !.virtual = @ \cup
          {[name |-> e.name, id |-> e.cols[1].name, type |-> e.cols[1].fk[2],
            key |-> e.cols[1].fk[3]]}]

AddTable(info, e) ==
  IF info = None \/ IsAliasEntry(e) THEN info
  ELSE IF e.type = "json" THEN AddJsonTable(info, e)
  ELSE IF e.type = "polymorphic" THEN AddVirtualTable(info, e)
  ELSE UpdateTable(info, e)

\* The key of a column that names a column of its own table belongs to a
\* polymorphic relation.
AddForeignKey(info, e, c) ==
  LET t == InDefault(info, e.name)
      ref == Target(info, c.fk)
      self == GetColumn(info, t, c.fk[2])
  IN IF info = None \/ c.fk = None THEN info
     ELSE IF ~GetColumn(info, t, c.name)
             \/ IF self THEN ~GetColumn(info, t, c.fk[3]) ELSE ~GetColumn(info, ref, c.fk[3])
     THEN None
     ELSE [info EXCEPT !.tables[t].cols[c.name] =
             [@ EXCEPT !.fkt = IF self THEN <<t[1], c.fk[2]>> ELSE ref,
                       !.fkc = c.fk[3],
                       !.rec = @ \/ (~self /\ ref = t)]]

AddForeignKeys(info, e) ==
  IF info = None \/ e.type = "polymorphic" THEN info
  ELSE FoldLeft(LAMBDA i, c : IF i = None THEN i ELSE AddForeignKey(i, e, c), info, e.cols)

Overlaid(info, conf) ==
  FoldLeft(AddForeignKeys, FoldLeft(AddTable, info, conf), conf)

Aliases(conf) ==
  {<<conf[i].of, conf[i].name>> : i \in {j \in DOMAIN conf : IsAliasEntry(conf[j])}}
=============================================================================
