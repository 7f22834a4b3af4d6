-------------------------------- MODULE Json --------------------------------
(***************************************************************************)
(* The JSON helpers of core/jsn that the engine stitches answers with:     *)
(* Get, Replace, Strip and Value.  They never parse a document.  One loop  *)
(* runs over the bytes, looking for a key, a colon and a value, in that    *)
(* order and whatever stands between them, and this is kept: a document is *)
(* a sequence of tokens, and NextPair finds the next string, then the next *)
(* colon, then the next value.                                             *)
(*                                                                         *)
(* A token stands for its bytes.  White space is left out, and no string   *)
(* holds a colon, a quote or a backslash.                                  *)
(***************************************************************************)
EXTENDS Integers, Sequences, FiniteSets, SequencesExt

Tok(kind, text) == [k |-> kind, v |-> text]
Mark(c)         == Tok(c, "")
Values          == {"str", "num", "null", "true", "{", "["}
IsComposite(t)  == t.k \in {"{", "["}

\* The value of a column as the database writes it.
Scalar(kind, text) == <<Tok(kind, text)>>
NullValue          == <<Mark("null")>>
Member(key, val)   == <<Tok("str", key), Mark(":")>> \o val

\* Pieces with a comma between them, and objects and lists made of them.
Commas(pieces) ==
  FoldLeft(LAMBDA acc, x : IF acc = <<>> THEN x ELSE acc \o <<Mark(",")>> \o x,
           <<>>, pieces)
ObjectOf(members) == <<Mark("{")>> \o Commas(members) \o <<Mark("}")>>
ListOf(items)     == <<Mark("[")>> \o Commas(items) \o <<Mark("]")>>

-----------------------------------------------------------------------------
\* The first token from i on that is of one of these kinds, 0 if none is.
FirstOf(b, i, kinds) ==
  LET at[j \in 1..(Len(b) + 1)] ==
        IF j > Len(b) THEN 0 ELSE IF b[j].k \in kinds THEN j ELSE at[j + 1]
  IN  at[i]

\* The last token of the value that starts at i, 0 if it was cut off: d of
\* the brackets opened before j are still open.
LastOf(b, i) ==
  LET open(j) == CASE b[j].k \in {"{", "["} -> 1
                   [] b[j].k \in {"}", "]"} -> -1
                   [] OTHER -> 0
      at[j \in 1..Len(b), d \in 0..Len(b)] ==
        IF d + open(j) = 0 THEN j
        ELSE IF j = Len(b) THEN 0 ELSE at[j + 1, d + open(j)]
  IN  at[i, 0]

\* The pair the loop reads next from i on.  No key left: key = 0.  A key and
\* no value after it, as when the string was the last one of a list: val = 0.
NextPair(b, i) ==
  LET key == FirstOf(b, i, {"str"})
      col == IF key = 0 THEN 0 ELSE FirstOf(b, key + 1, {":"})
      val == IF col = 0 THEN 0 ELSE FirstOf(b, col + 1, Values)
  IN  [key |-> key, val |-> val, last |-> IF val = 0 THEN 0 ELSE LastOf(b, val)]

ValueOf(b, p) == SubSeq(b, p.val, p.last)

\* Get: the pairs with one of these keys, at any depth.  An object is entered
\* after it was reported, a list only if an object opens right behind it.
Get(b, keys) ==
  LET from[i \in 1..(Len(b) + 1)] ==
        LET p    == NextPair(b, i)
            pair == [key |-> b[p.key].v, val |-> ValueOf(b, p)]
            next == IF \/ b[p.val].k = "{"
                       \/ b[p.val].k = "[" /\ b[p.val + 1].k = "{"
                    THEN p.val + 1 ELSE p.last + 1
        IN  CASE p.val = 0 -> <<>>
              [] p.val # 0 /\ pair.key \in keys -> <<pair>> \o from[next]
              [] p.val # 0 /\ pair.key \notin keys -> from[next]
  IN  from[1]

\* Value: what is left of a value for a literal; nothing of a composite one.
Value(val) == IF IsComposite(val[1]) THEN <<>> ELSE val

FieldMatchByKey(fields, key, val) ==
  SelectLastInSeq(fields, LAMBDA f : f.key = key)

\* Of the fields with this key and this value the hash finds the last one.
FieldMatch(fields, key, val) ==
  SelectLastInSeq(fields, LAMBDA f : f.key = key /\ f.val = val)

\* Replace: every pair that is in "from" becomes the pair of the same number
\* in "to"; one without a key is removed with its comma.  "ws" is the first
\* token not written yet.  An object or a list that is not replaced is
\* entered, a list of strings too: the loop then takes a string for a key, and
\* at the end of the document writes nothing from that string on.
Replace(b, from, to) ==
  LET out[i \in 1..(Len(b) + 1), ws \in 1..(Len(b) + 1)] ==
        LET p     == NextPair(b, i)
            n     == FieldMatch(from, b[p.key].v, ValueOf(b, p))
            end   == p.last + 1
            comma == end <= Len(b) /\ b[end].k = ","
            head  == SubSeq(b, ws, p.key - 1)
            bare  == IF head # <<>> /\ Last(head).k = "," THEN Front(head) ELSE head
            val   == IF to[n].val = <<>> THEN NullValue ELSE to[n].val
        IN  CASE p.key = 0            -> SubSeq(b, ws, Len(b))
              [] p.key # 0 /\ p.val = 0 -> head
              [] p.val # 0 /\ n = 0   -> out[IF IsComposite(b[p.val])
                                             THEN p.val + 1 ELSE end, ws]
              [] p.val # 0 /\ n # 0   ->
                   CASE to[n].key # "" -> head \o Member(to[n].key, val) \o out[end, end]
                     [] to[n].key = "" /\ comma  -> head \o out[end, end + 1]
                     [] to[n].key = "" /\ ~comma -> bare \o out[end, end]
  IN  IF from = <<>> THEN b ELSE out[1, 1]

\* Strip: the value at the end of a path of keys, the whole document if there
\* is none.  A composite value that does not match is passed over.  "pi" keys
\* of the path were matched, in the value that ends at "last".
Strip(b, path) ==
  LET at[i \in 1..(Len(b) + 1), pi \in 0..Len(path), last \in 1..Len(b)] ==
        LET p    == NextPair(SubSeq(b, 1, last), i)
            past == IF pi = Len(path) THEN 0 ELSE pi
            pm   == b[p.key].v = path[past + 1]
            now  == IF pm THEN past + 1 ELSE past
        IN  CASE p.val = 0 -> b
              [] p.val # 0 /\ pm /\ IsComposite(b[p.val]) /\ now = Len(path) ->
                   ValueOf(b, p)
              [] p.val # 0 /\ pm /\ IsComposite(b[p.val]) /\ now # Len(path) ->
                   at[p.val + 1, now, p.last]
              [] p.val # 0 /\ ~(pm /\ IsComposite(b[p.val])) ->
                   at[p.last + 1, now, last]
  IN  IF path = <<>> THEN b ELSE at[1, 0, Len(b)]

-----------------------------------------------------------------------------
(* What a document says, for the properties: members without their order.  *)

Leaf(t)    == [t |-> t.k, v |-> t.v, xs |-> <<>>, fs |-> <<>>]
Obj(f)     == [t |-> "obj", v |-> "", xs |-> <<>>, fs |-> f]
List(xs)   == [t |-> "list", v |-> "", xs |-> xs, fs |-> <<>>]
NoDocument == [t |-> "none", v |-> "", xs |-> <<>>, fs |-> <<>>]
CutOff     == [t |-> "cut off", v |-> "", xs |-> <<>>, fs |-> <<>>]

\* The starts of the items in the object or list that opens at i.
ItemsAt(b, i) ==
  LET starts[j \in 1..Len(b)] ==
        LET end == IF b[j + 1].k = ":" THEN LastOf(b, j + 2) ELSE LastOf(b, j)
        IN  CASE b[j].k \in {"}", "]"} -> <<>>
              [] OTHER -> <<j>> \o (IF b[end + 1].k = "," THEN starts[end + 2] ELSE <<>>)
  IN  starts[i + 1]

Meaning(b) ==
  LET read[i \in 1..Len(b)] ==
        LET items == ItemsAt(b, i)
            at(key) == CHOOSE j \in ToSet(items) : b[j].v = key
        IN  CASE b[i].k = "{" -> Obj([key \in {b[j].v : j \in ToSet(items)} |->
                                        read[at(key) + 2]])
              [] b[i].k = "[" -> List([n \in 1..Len(items) |-> read[items[n]]])
              [] OTHER -> Leaf(b[i])
  IN  IF b # <<>> /\ LastOf(b, 1) = Len(b) THEN read[1] ELSE CutOff
=============================================================================
