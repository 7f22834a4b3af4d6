------------------------- MODULE MutationTreeProofs -------------------------
(* Proofs about MutationTree for any tables, relations and requests: the ids   *)
(* given while a payload is taken apart become the places of the writes in the *)
(* list, every write knows the place of the write it is nested under, and what *)
(* is nested in a row that is inserted is written, as often as it is there,    *)
(* and has the foreign key that ties it to that row; and a foreign key that is *)
(* bound is that of a write next to the row.                                   *)
(*                                                                             *)
(* The walk is computed by recursion over sequences. The facts about the       *)
(* recursive functions are proved by induction over the naturals (Induction).  *)
EXTENDS MutationTree, TLAPS, WellFoundedInduction, FiniteSetTheorems

-----------------------------------------------------------------------------
(* The invariant.                                                          *)

\* The place up is above the place at.
Above(up, at) ==
  /\ IsList(up) /\ IsList(at)
  /\ Len(up) < Len(at) /\ \A i \in 1..Len(up) : up[i] = at[i]

\* What can be taken apart.
AreKids(s) == IsList(s) /\ \A i \in DOMAIN s : s[i].node \in Payloads
Open(node) == AreKids(node.kids)

Fields == {"id", "parent", "sel", "type", "key", "table", "rel", "data", "json", "var",
           "array", "deps", "rcols", "cols", "render", "at"}

IsItem(x) ==
  /\ DOMAIN x = Fields
  /\ x.id \in Nat /\ x.render \in BOOLEAN /\ IsList(x.at)
  /\ ~x.render => x.table \in Tables /\ Open(x.data)

\* Items with ids of their own from lo on and below hi, for places below at.
Batch(s, lo, hi, parents, at) ==
  /\ IsList(s)
  /\ \A i \in DOMAIN s : /\ IsItem(s[i]) /\ s[i].id \in lo..(hi - 1)
                         /\ s[i].parent \in parents /\ Above(at, s[i].at)
  /\ \A i, j \in DOMAIN s : s[i].id = s[j].id => i = j

\* The ids in use with the places they stand for.
PlacesOf(s) == {<<s[i].id, s[i].at>> : i \in DOMAIN s}
InPlace(x, places) ==
  x.parent = -1 \/ \E p \in places : p[1] = x.parent /\ Above(p[2], x.at)

\* The items of a sequence have ids of their own and parents with a place.
Sound(s, bound, places) ==
  /\ IsList(s)
  /\ \A i \in DOMAIN s : IsItem(s[i]) /\ s[i].id < bound /\ InPlace(s[i], places)
  /\ \A i, j \in DOMAIN s : s[i].id = s[j].id => i = j

Places == PlacesOf(stack) \cup PlacesOf(mutates)

\* The map has the place of every rendered item.
Mapped ==
  /\ DOMAIN mmap = {-1} \cup {mutates[i].id : i \in DOMAIN mutates}
  /\ mmap[-1] = -1
  /\ \A i \in DOMAIN mutates : mmap[mutates[i].id] = i - 1

WalkInv ==
  /\ nextId \in Nat
  /\ Sound(stack, nextId, Places) /\ Sound(mutates, nextId, Places)
  /\ \A i \in DOMAIN stack, j \in DOMAIN mutates : stack[i].id # mutates[j].id
  /\ Mapped

\* The item at i knows its place and that of its parent.
Placed(i) ==
  /\ mutates[i].id = i - 1
  /\ mutates[i].parent = -1
       \/ /\ mutates[i].parent \in 0..Len(mutates) - 1
          /\ Above(mutates[mutates[i].parent + 1].at, mutates[i].at)

\* The map does.
ToPlace(i) ==
  /\ mutates[i].id \in DOMAIN mmap /\ mmap[mutates[i].id] = i - 1
  /\ mutates[i].parent = -1
       \/ /\ mutates[i].parent \in DOMAIN mmap
          /\ mmap[mutates[i].parent] \in 0..Len(mutates) - 1
          /\ Above(mutates[mmap[mutates[i].parent] + 1].at, mutates[i].at)

ReindexInv ==
  /\ IsList(mutates) /\ nextId \in 1..(Len(mutates) + 1)
  /\ \A i \in DOMAIN mutates : /\ DOMAIN mutates[i] = Fields
                               /\ IF i < nextId THEN Placed(i) ELSE ToPlace(i)
  /\ -1 \in DOMAIN mmap /\ mmap[-1] = -1

IdsInv ==
  /\ req \in Requests
  /\ phase \in {"roots", "walk", "reindex", "done", "refused"}
  /\ phase = "roots" => /\ stack = <<>> /\ mutates = <<>> /\ nextId = 0
                        /\ mmap = [i \in {-1} |-> -1]
  /\ phase = "walk" => WalkInv
  /\ phase = "reindex" => ReindexInv
  /\ phase = "done" => IdsNamePlaces

-----------------------------------------------------------------------------
(* Recursion over sequences.                                               *)

\* Every non-empty set of naturals has a least element.
LEMMA LeastNat ==
  ASSUME NEW T \in SUBSET Nat, T # {}
  PROVE  \E n \in T : \A m \in T : n <= m
<1>1. PICK n \in T : \A m \in T : ~(<<m, n>> \in OpToRel(<, Nat))
  BY NatLessThanWellFounded, WFMin
<1>2. \A m \in T : ~(m < n)
  BY <1>1 DEF OpToRel
<1>3. QED BY <1>2

\* What holds of zero, and of each number if of the one before, holds up to N.
LEMMA Induction ==
  ASSUME NEW N \in Nat, NEW T \in SUBSET Nat, 0 \in T,
         \A n \in 1..N : n - 1 \in T => n \in T
  PROVE  0..N \subseteq T
<1> DEFINE U == (0..N) \ T
<1>1. SUFFICES ASSUME U # {} PROVE FALSE
  OBVIOUS
<1>2. PICK n \in U : \A m \in U : n <= m
  <2>1. U \in SUBSET Nat
    OBVIOUS
  <2> HIDE DEF U
  <2>2. QED BY <1>1, <2>1, LeastNat
<1>3. n \in 1..N /\ n - 1 \in 0..N /\ n \notin T
  BY <1>2
<1>4. n - 1 \in T
  BY <1>2, <1>3
<1>5. QED BY <1>3, <1>4

\* A function on 0..n - 1 can be given a value for n.
Longer(g, n, v) == [k \in 0..n |-> IF k < n THEN g[k] ELSE v]

LEMMA LongerValues ==
  ASSUME NEW n \in Nat \ {0}, NEW g, NEW v
  PROVE  /\ \A k \in 0..(n - 1) : Longer(g, n, v)[k] = g[k]
         /\ Longer(g, n, v)[n] = v
         /\ DOMAIN Longer(g, n, v) = 0..n
         /\ \A k \in 1..n : k - 1 \in 0..(n - 1) /\ Longer(g, n, v)[k - 1] = g[k - 1]
BY DEF Longer

-----------------------------------------------------------------------------
(* Lists.                                                                  *)

LEMMA ListLength ==
  ASSUME NEW s, IsList(s)
  PROVE  Len(s) \in Nat /\ DOMAIN s = 1..Len(s)
BY DEF IsList

LEMMA ListFromFunction ==
  ASSUME NEW s, NEW n \in Nat, s = [i \in 1..n |-> s[i]]
  PROVE  IsList(s) /\ Len(s) = n
<1> DEFINE X == {s[i] : i \in DOMAIN s}
<1>1. DOMAIN s = 1..n
  OBVIOUS
<1>2. s \in [1..n -> X]
  OBVIOUS
<1> HIDE DEF X
<1>3. s \in Seq(X) /\ Len(s) = n
  BY <1>1, <1>2
<1>4. QED BY <1>3 DEF IsList, X

\* The empty list and lists of one.
LEMMA ShortLists ==
  /\ IsList(<<>>) /\ Len(<<>>) = 0 /\ DOMAIN <<>> = {}
  /\ \A x : IsList(<<x>>) /\ Len(<<x>>) = 1 /\ <<x>>[1] = x /\ DOMAIN <<x>> = {1}
<1>1. IsList(<<>>) /\ Len(<<>>) = 0 /\ DOMAIN <<>> = {}
  BY DEF IsList
<1>2. ASSUME NEW x PROVE IsList(<<x>>) /\ Len(<<x>>) = 1 /\ <<x>>[1] = x /\ DOMAIN <<x>> = {1}
  <2>1. Len(<<x>>) = 1 /\ <<x>>[1] = x /\ DOMAIN <<x>> = {1}
    OBVIOUS
  <2>2. {<<x>>[i] : i \in DOMAIN <<x>>} = {x}
    BY <2>1
  <2>3. <<x>> \in Seq({x})
    OBVIOUS
  <2>4. QED BY <2>1, <2>2, <2>3 DEF IsList
<1>3. QED BY <1>1, <1>2

LEMMA ListConcat ==
  ASSUME NEW s, NEW t, IsList(s), IsList(t)
  PROVE  /\ IsList(s \o t) /\ Len(s \o t) = Len(s) + Len(t)
         /\ DOMAIN (s \o t) = 1..(Len(s) + Len(t))
         /\ \A i \in 1..(Len(s) + Len(t)) :
              (s \o t)[i] = IF i <= Len(s) THEN s[i] ELSE t[i - Len(s)]
<1> DEFINE S == {s[i] : i \in DOMAIN s}
           T == {t[i] : i \in DOMAIN t}
           X == S \cup T
<1>1. s \in Seq(S) /\ t \in Seq(T)
  BY DEF IsList
<1> HIDE DEF S, T
<1>2. s \in Seq(X) /\ t \in Seq(X)
  BY <1>1
<1> HIDE DEF X
<1> DEFINE r == s \o t
<1>3. r \in Seq(X) /\ Len(r) = Len(s) + Len(t) /\ DOMAIN r = 1..(Len(s) + Len(t))
  BY <1>2
<1>4. \A i \in 1..(Len(s) + Len(t)) : r[i] = IF i <= Len(s) THEN s[i] ELSE t[i - Len(s)]
  BY <1>2
<1> HIDE DEF r
<1>5. r = [i \in 1..Len(r) |-> r[i]] /\ Len(r) \in Nat
  BY <1>3
<1>6. IsList(r)
  BY <1>5, ListFromFunction
<1>7. QED BY <1>3, <1>4, <1>6 DEF r

LEMMA ListAppend ==
  ASSUME NEW s, NEW x, IsList(s)
  PROVE  /\ IsList(Append(s, x)) /\ Len(Append(s, x)) = Len(s) + 1
         /\ DOMAIN Append(s, x) = 1..(Len(s) + 1)
         /\ \A i \in 1..Len(s) : Append(s, x)[i] = s[i]
         /\ Append(s, x)[Len(s) + 1] = x
<1> DEFINE S == {s[i] : i \in DOMAIN s}
           X == S \cup {x}
<1>1. s \in Seq(S)
  BY DEF IsList
<1> HIDE DEF S
<1>2. s \in Seq(X) /\ x \in X
  BY <1>1
<1> HIDE DEF X
<1> DEFINE r == Append(s, x)
<1>3. r \in Seq(X) /\ Len(r) = Len(s) + 1 /\ DOMAIN r = 1..(Len(s) + 1)
  BY <1>2
<1>4. (\A i \in 1..Len(s) : r[i] = s[i]) /\ r[Len(s) + 1] = x
  BY <1>2
<1> HIDE DEF r
<1>5. r = [i \in 1..Len(r) |-> r[i]] /\ Len(r) \in Nat
  BY <1>3
<1>6. IsList(r)
  BY <1>5, ListFromFunction
<1>7. QED BY <1>3, <1>4, <1>6 DEF r

LEMMA ListFront ==
  ASSUME NEW s, IsList(s), s # <<>>
  PROVE  /\ IsList(Front(s)) /\ Len(Front(s)) = Len(s) - 1 /\ Len(s) \in Nat \ {0}
         /\ DOMAIN Front(s) = 1..(Len(s) - 1) /\ DOMAIN s = 1..Len(s)
         /\ \A i \in 1..(Len(s) - 1) : Front(s)[i] = s[i]
<1> DEFINE S == {s[i] : i \in DOMAIN s}
<1>1. s \in Seq(S)
  BY DEF IsList
<1> HIDE DEF S
<1>2. Len(s) \in Nat \ {0} /\ DOMAIN s = 1..Len(s)
  BY <1>1
<1> DEFINE r == Front(s)
<1>3. r = [i \in 1..(Len(s) - 1) |-> s[i]]
  BY <1>1, <1>2 DEF Front
<1>4. r = [i \in 1..(Len(s) - 1) |-> r[i]] /\ \A i \in 1..(Len(s) - 1) : r[i] = s[i]
  BY <1>3
<1>5. DOMAIN r = 1..(Len(s) - 1)
  BY <1>3
<1> HIDE DEF r
<1>6. IsList(r) /\ Len(r) = Len(s) - 1
  <2>1. Len(s) - 1 \in Nat
    BY <1>2
  <2>2. QED BY <1>4, <2>1, ListFromFunction
<1>7. QED BY <1>2, <1>4, <1>5, <1>6 DEF r

-----------------------------------------------------------------------------
(* Places.                                                                 *)

\* A step down.
LEMMA AboveStep ==
  ASSUME NEW at, NEW x, IsList(at)
  PROVE  Above(at, Append(at, x)) /\ \A up : Above(up, at) => Above(up, Append(at, x))
<1>1. /\ IsList(Append(at, x)) /\ Len(Append(at, x)) = Len(at) + 1 /\ Len(at) \in Nat
      /\ \A i \in 1..Len(at) : Append(at, x)[i] = at[i]
  BY ListAppend, ListLength
<1>2. Above(at, Append(at, x))
  BY <1>1 DEF Above
<1>3. ASSUME NEW up, Above(up, at) PROVE Above(up, Append(at, x))
  <2>1. Len(up) \in Nat /\ Len(up) < Len(at)
    BY <1>3, ListLength DEF Above
  <2>2. QED BY <1>1, <1>3, <2>1 DEF Above
<1>4. QED BY <1>2, <1>3

LEMMA AbovePrefix ==
  ASSUME NEW up, NEW at, Above(up, at)
  PROVE  IsStrictPrefix(up, at)
<1> DEFINE U == {up[i] : i \in DOMAIN up}
           A == {at[i] : i \in DOMAIN at}
<1>1. up \in Seq(U) /\ at \in Seq(A)
  BY DEF Above, IsList
<1> HIDE DEF U, A
<1>2. Len(up) \in Nat /\ Len(at) \in Nat /\ Len(up) < Len(at)
      /\ \A i \in 1..Len(up) : up[i] = at[i]
  BY <1>1 DEF Above
<1>3. SubSeq(up, 1, Len(up)) = [i \in 1..Len(up) |-> up[i]]
  BY <1>1, <1>2
<1>4. SubSeq(at, 1, Len(up)) = [i \in 1..Len(up) |-> at[i]]
  BY <1>1, <1>2
<1>5. SubSeq(up, 1, Len(up)) = SubSeq(at, 1, Len(up))
  BY <1>2, <1>3, <1>4
<1>6. up # at
  BY <1>2
<1>7. QED BY <1>2, <1>5, <1>6 DEF IsStrictPrefix, IsPrefix

-----------------------------------------------------------------------------
(* Parts of a list.                                                        *)

OnlyNext(q, s, places, k) == q \o (IF k \in places THEN <<s[k]>> ELSE <<>>)
IsOnly(s, places, n, g) ==
  g = [k \in 0..n |-> IF k = 0 THEN <<>> ELSE OnlyNext(g[k - 1], s, places, k)]

\* A list of elements of s at different places up to n.
PartOf(q, s, places, n) ==
  /\ IsList(q)
  /\ \E p \in [DOMAIN q -> (1..n) \cap places] :
       /\ \A i, j \in DOMAIN q : p[i] = p[j] => i = j
       /\ \A i \in DOMAIN q : q[i] = s[p[i]]

LEMMA OnlyExists ==
  ASSUME NEW s, NEW places, NEW N \in Nat
  PROVE  \E g : IsOnly(s, places, N, g)
<1> DEFINE T == {n \in 0..N : \E g : IsOnly(s, places, n, g)}
<1>1. 0 \in T
  <2>1. IsOnly(s, places, 0, [k \in 0..0 |-> <<>>])
    BY DEF IsOnly
  <2>2. QED BY <2>1
<1>2. ASSUME NEW n \in 1..N, n - 1 \in T PROVE n \in T
  <2>1. PICK g : IsOnly(s, places, n - 1, g)
    BY <1>2
  <2> DEFINE h == Longer(g, n, OnlyNext(g[n - 1], s, places, n))
  <2>2. /\ DOMAIN h = 0..n /\ h = [k \in 0..n |-> h[k]]
        /\ \A k \in 0..(n - 1) : h[k] = g[k]
        /\ h[n] = OnlyNext(g[n - 1], s, places, n)
        /\ \A k \in 1..n : k - 1 \in 0..(n - 1) /\ h[k - 1] = g[k - 1]
    BY DEF Longer
  <2> HIDE DEF h
  <2>3. ASSUME NEW k \in 0..n
        PROVE  h[k] = IF k = 0 THEN <<>> ELSE OnlyNext(h[k - 1], s, places, k)
    <3>1. CASE k < n
      <4>1. g[k] = IF k = 0 THEN <<>> ELSE OnlyNext(g[k - 1], s, places, k)
        BY <2>1, <3>1 DEF IsOnly
      <4>2. QED BY <2>2, <3>1, <4>1
    <3>2. CASE k = n
      <4>1. n # 0 /\ n - 1 \in 0..(n - 1)
        OBVIOUS
      <4>2. h[n - 1] = g[n - 1]
        BY <2>2, <4>1
      <4>3. QED BY <2>2, <3>2, <4>1, <4>2
    <3>3. QED BY <3>1, <3>2
  <2>4. IsOnly(s, places, n, h)
    BY <2>2, <2>3 DEF IsOnly
  <2>5. QED BY <2>4
<1>3. T \in SUBSET Nat
  OBVIOUS
<1> HIDE DEF T
<1>4. 0..N \subseteq T
  BY <1>1, <1>2, <1>3, Induction
<1>5. QED BY <1>4 DEF T

LEMMA OnlyPart ==
  ASSUME NEW s, IsList(s), NEW places
  PROVE  PartOf(Only(s, places), s, places, Len(s))
<1> DEFINE N == Len(s)
           P(g) == IsOnly(s, places, N, g)
<1>1. N \in Nat
  BY ListLength
<1> HIDE DEF N
<1>2. ASSUME NEW g, P(g) PROVE PartOf(g[N], s, places, N)
  <2> DEFINE T == {n \in 0..N : PartOf(g[n], s, places, n)}
  <2>1. \A k \in 0..N : g[k] = IF k = 0 THEN <<>> ELSE OnlyNext(g[k - 1], s, places, k)
    BY <1>2 DEF IsOnly
  <2>2. 0 \in T
    <3>1. g[0] = <<>>
      BY <1>1, <2>1
    <3>2. DOMAIN <<>> = {} /\ IsList(<<>>)
      BY ShortLists
    <3> DEFINE q == <<>>
               p == [i \in DOMAIN q |-> i]
    <3>3. p \in [DOMAIN q -> (1..0) \cap places]
      BY <3>2
    <3> HIDE DEF p
    <3>4. DOMAIN q = {} /\ IsList(q)
      BY <3>2
    <3> HIDE DEF q
    <3>5. PartOf(q, s, places, 0)
      BY <3>3, <3>4 DEF PartOf
    <3>6. QED BY <1>1, <3>1, <3>5 DEF q
  <2>3. ASSUME NEW n \in 1..N, n - 1 \in T PROVE n \in T
    <3> DEFINE q == g[n - 1]
               x == IF n \in places THEN <<s[n]>> ELSE <<>>
    <3>1. PartOf(q, s, places, n - 1) /\ g[n] = OnlyNext(q, s, places, n)
      BY <1>1, <2>1, <2>3
    <3>2. OnlyNext(q, s, places, n) = q \o x
      BY DEF OnlyNext
    <3>3. IsList(x) /\ Len(x) \in {0, 1} /\ (Len(x) = 1 => n \in places /\ x[1] = s[n])
      BY ShortLists
    <3> HIDE DEF q, x
    <3>4. IsList(q) /\ Len(q) \in Nat /\ DOMAIN q = 1..Len(q)
      BY <3>1, ListLength DEF PartOf
    <3> DEFINE r == q \o x
    <3>5. /\ IsList(r) /\ DOMAIN r = 1..(Len(q) + Len(x))
          /\ \A i \in 1..(Len(q) + Len(x)) : r[i] = IF i <= Len(q) THEN q[i] ELSE x[i - Len(q)]
      BY <3>3, <3>4, ListConcat
    <3> HIDE DEF r
    <3>6. PICK p \in [DOMAIN q -> (1..(n - 1)) \cap places] :
            /\ \A i, j \in DOMAIN q : p[i] = p[j] => i = j
            /\ \A i \in DOMAIN q : q[i] = s[p[i]]
      BY <3>1 DEF PartOf
    <3> DEFINE o == [i \in DOMAIN r |-> IF i <= Len(q) THEN p[i] ELSE n]
    <3>7. ASSUME NEW i \in DOMAIN r
          PROVE  o[i] \in (1..n) \cap places /\ r[i] = s[o[i]]
      <4>1. CASE i <= Len(q)
        <5>1. i \in DOMAIN q
          BY <3>4, <3>5, <4>1
        <5>2. QED BY <3>5, <3>6, <4>1, <5>1
      <4>2. CASE ~(i <= Len(q))
        <5>1. Len(x) = 1 /\ i - Len(q) = 1
          BY <3>3, <3>4, <3>5, <4>2
        <5>2. r[i] = x[1]
          BY <3>5, <4>2, <5>1
        <5>3. QED BY <3>3, <4>2, <5>1, <5>2
      <4>3. QED BY <4>1, <4>2
    <3>8. ASSUME NEW i \in DOMAIN r, NEW j \in DOMAIN r, o[i] = o[j]
          PROVE  i = j
      <4>1. i <= Len(q) => i \in DOMAIN q /\ p[i] < n
        BY <3>4, <3>5, <3>6
      <4>2. j <= Len(q) => j \in DOMAIN q /\ p[j] < n
        BY <3>4, <3>5, <3>6
      <4>3. CASE i <= Len(q) /\ j <= Len(q)
        BY <3>6, <3>8, <4>1, <4>2, <4>3
      <4>4. CASE ~(i <= Len(q)) /\ ~(j <= Len(q))
        BY <3>3, <3>4, <3>5, <4>4
      <4>5. QED BY <3>4, <3>5, <3>8, <4>1, <4>2, <4>3, <4>4
    <3>9. o \in [DOMAIN r -> (1..n) \cap places]
      BY <3>7
    <3> HIDE DEF o
    <3>10. PartOf(r, s, places, n)
      BY <3>5, <3>7, <3>8, <3>9 DEF PartOf
    <3>11. PartOf(g[n], s, places, n)
      BY <3>1, <3>2, <3>10 DEF r
    <3>12. QED BY <3>11
  <2>4. T \in SUBSET Nat
    OBVIOUS
  <2> HIDE DEF T
  <2>5. 0..N \subseteq T
    BY <1>1, <2>2, <2>3, <2>4, Induction
  <2>6. N \in T
    BY <1>1, <2>5
  <2>7. QED BY <2>6 DEF T
<1>3. \E g : P(g)
  BY <1>1, OnlyExists
<1>4. Only(s, places) = (CHOOSE g : P(g))[N]
  BY DEF Only, IsOnly, OnlyNext, N
<1> HIDE DEF P
<1>5. P(CHOOSE g : P(g))
  BY <1>3
<1>6. QED BY <1>2, <1>4, <1>5 DEF N

-----------------------------------------------------------------------------
(* Payloads.                                                               *)

LEMMA PayloadOpen ==
  ASSUME NEW node \in Payloads
  PROVE  Open(node)
BY RequestAssumption DEF AreTrees, Open, AreKids

LEMMA WithNewKids ==
  ASSUME NEW kids, NEW more, AreKids(kids), AreKids(more)
  PROVE  AreKids(WithNew(kids, more))
<1> DEFINE places == {n \in DOMAIN more : \A i \in DOMAIN kids : kids[i].name # more[n].name}
           new == Only(more, places)
<1>1. PartOf(new, more, places, Len(more))
  BY OnlyPart DEF AreKids
<1>2. WithNew(kids, more) = kids \o new
  BY DEF WithNew
<1> HIDE DEF places, new
<1>3. IsList(new) /\ \A i \in DOMAIN new : new[i].node \in Payloads
  <2>1. DOMAIN more = 1..Len(more)
    BY ListLength DEF AreKids
  <2>2. QED BY <1>1, <2>1 DEF PartOf, AreKids
<1>4. DOMAIN kids = 1..Len(kids) /\ Len(kids) \in Nat /\ DOMAIN new = 1..Len(new) /\ Len(new) \in Nat
  BY <1>3, ListLength DEF AreKids
<1>5. /\ IsList(kids \o new) /\ DOMAIN (kids \o new) = 1..(Len(kids) + Len(new))
      /\ \A i \in 1..(Len(kids) + Len(new)) :
           (kids \o new)[i] = IF i <= Len(kids) THEN kids[i] ELSE new[i - Len(kids)]
  BY <1>3, ListConcat DEF AreKids
<1> DEFINE r == kids \o new
<1>6. ASSUME NEW i \in 1..(Len(kids) + Len(new)) PROVE r[i].node \in Payloads
  <2>1. CASE i <= Len(kids)
    BY <1>4, <1>5, <2>1 DEF AreKids
  <2>2. CASE ~(i <= Len(kids))
    BY <1>3, <1>4, <1>5, <2>2
  <2>3. QED BY <2>1, <2>2
<1>7. QED BY <1>2, <1>5, <1>6 DEF AreKids

IsUnion(list, n, g) ==
  g = [k \in 0..n |-> IF k = 0 THEN <<>> ELSE WithNew(g[k - 1], list.kids[k].node.kids)]

LEMMA UnionExists ==
  ASSUME NEW list, NEW N \in Nat
  PROVE  \E g : IsUnion(list, N, g)
<1> DEFINE T == {n \in 0..N : \E g : IsUnion(list, n, g)}
<1>1. 0 \in T
  <2>1. IsUnion(list, 0, [k \in 0..0 |-> <<>>])
    BY DEF IsUnion
  <2>2. QED BY <2>1
<1>2. ASSUME NEW n \in 1..N, n - 1 \in T PROVE n \in T
  <2>1. PICK g : IsUnion(list, n - 1, g)
    BY <1>2
  <2> DEFINE h == Longer(g, n, WithNew(g[n - 1], list.kids[n].node.kids))
  <2>2. /\ DOMAIN h = 0..n /\ h = [k \in 0..n |-> h[k]]
        /\ \A k \in 0..(n - 1) : h[k] = g[k]
        /\ h[n] = WithNew(g[n - 1], list.kids[n].node.kids)
        /\ \A k \in 1..n : k - 1 \in 0..(n - 1) /\ h[k - 1] = g[k - 1]
    BY DEF Longer
  <2> HIDE DEF h
  <2>3. ASSUME NEW k \in 0..n
        PROVE  h[k] = IF k = 0 THEN <<>> ELSE WithNew(h[k - 1], list.kids[k].node.kids)
    <3>1. CASE k < n
      <4>1. g[k] = IF k = 0 THEN <<>> ELSE WithNew(g[k - 1], list.kids[k].node.kids)
        BY <2>1, <3>1 DEF IsUnion
      <4>2. QED BY <2>2, <3>1, <4>1
    <3>2. CASE k = n
      <4>1. n # 0 /\ n - 1 \in 0..(n - 1)
        OBVIOUS
      <4>2. h[n - 1] = g[n - 1]
        BY <2>2, <4>1
      <4>3. QED BY <2>2, <3>2, <4>1, <4>2
    <3>3. QED BY <3>1, <3>2
  <2>4. IsUnion(list, n, h)
    BY <2>2, <2>3 DEF IsUnion
  <2>5. QED BY <2>4
<1>3. T \in SUBSET Nat
  OBVIOUS
<1> HIDE DEF T
<1>4. 0..N \subseteq T
  BY <1>1, <1>2, <1>3, Induction
<1>5. QED BY <1>4 DEF T

\* The keys of several trees are those of a tree.
LEMMA UnionOpen ==
  ASSUME NEW list, Open(list)
  PROVE  Open(UnionOfElements(list))
<1> DEFINE N == Len(list.kids)
           P(g) == IsUnion(list, N, g)
<1>1. N \in Nat /\ DOMAIN list.kids = 1..N
  BY ListLength DEF Open, AreKids
<1> HIDE DEF N
<1>2. ASSUME NEW g, P(g) PROVE AreKids(g[N])
  <2> DEFINE T == {n \in 0..N : AreKids(g[n])}
  <2>1. \A k \in 0..N : g[k] = IF k = 0 THEN <<>> ELSE WithNew(g[k - 1], list.kids[k].node.kids)
    BY <1>2 DEF IsUnion
  <2>2. 0 \in T
    BY <1>1, <2>1, ShortLists DEF AreKids
  <2>3. ASSUME NEW n \in 1..N, n - 1 \in T PROVE n \in T
    <3>1. AreKids(g[n - 1]) /\ g[n] = WithNew(g[n - 1], list.kids[n].node.kids)
      BY <1>1, <2>1, <2>3
    <3>2. AreKids(list.kids[n].node.kids)
      BY <1>1, PayloadOpen DEF Open, AreKids
    <3>3. AreKids(g[n])
      BY <3>1, <3>2, WithNewKids
    <3>4. QED BY <3>3
  <2>4. T \in SUBSET Nat
    OBVIOUS
  <2> HIDE DEF T
  <2>5. 0..N \subseteq T
    BY <1>1, <2>2, <2>3, <2>4, Induction
  <2>6. N \in T
    BY <1>1, <2>5
  <2>7. QED BY <2>6 DEF T
<1>3. \E g : P(g)
  BY <1>1, UnionExists
<1>4. UnionOfElements(list).kids = (CHOOSE g : P(g))[N]
  BY DEF UnionOfElements, IsUnion, N, Node
<1> HIDE DEF P
<1>5. P(CHOOSE g : P(g))
  BY <1>3
<1>6. QED BY <1>2, <1>4, <1>5 DEF Open

LEMMA FiniteColumns ==
  ASSUME NEW t \in Tables
  PROVE  IsFiniteSet(ColumnsOf(t))
<1> DEFINE Q == {q \in Tables : <<t, q>> \in Refs}
           f == [p \in Q |-> p \o "_id"]
           F == {f[p] : p \in Q}
<1>1. IsFiniteSet(Q)
  BY TableAssumption, FS_Subset
<1>2. f \in Surjection(Q, F)
  BY DEF Surjection
<1>3. IsFiniteSet(F)
  BY <1>1, <1>2, FS_Surjection
<1>4. F = {p \o "_id" : p \in Q}
  OBVIOUS
<1>5. ColumnsOf(t) = ({"id"} \cup Columns[t]) \cup F
  BY <1>4 DEF ColumnsOf
<1> HIDE DEF F
<1>6. IsFiniteSet({"id"} \cup Columns[t])
  BY TableAssumption, FS_Singleton, FS_Union
<1>7. QED BY <1>3, <1>5, <1>6, FS_Union

LEMMA EmptyOpen ==
  ASSUME NEW t \in Tables
  PROVE  Open(EmptyPayload(t))
<1> DEFINE n == Cardinality(ColumnsOf(t))
           s == EmptyPayload(t).kids
<1>1. n \in Nat
  BY FiniteColumns, FS_CardinalityType
<1> HIDE DEF n
<1>2. s = [i \in 1..n |-> Kid(SetToSeq(ColumnsOf(t))[i], Node("val", <<>>))]
  BY DEF EmptyPayload, Node, n
<1>3. \A i \in 1..n : s[i].node \in Payloads
  BY <1>2, RequestAssumption DEF Kid
<1>4. s = [i \in 1..n |-> s[i]] /\ DOMAIN s = 1..n
  BY <1>2
<1> HIDE DEF s
<1>5. IsList(s)
  BY <1>1, <1>4, ListFromFunction
<1>6. QED BY <1>3, <1>4, <1>5 DEF Open, AreKids, s

-----------------------------------------------------------------------------
(* Batches.                                                                *)

LEMMA BatchOne ==
  ASSUME NEW x, IsItem(x), NEW parents, x.parent \in parents, NEW at, Above(at, x.at),
         NEW hi \in Nat, x.id < hi
  PROVE  Batch(<<x>>, x.id, hi, parents, at)
<1> DEFINE s == <<x>>
<1>1. IsList(s) /\ DOMAIN s = {1} /\ s[1] = x
  BY ShortLists
<1> HIDE DEF s
<1>2. x.id \in x.id..(hi - 1)
  BY DEF IsItem
<1>3. Batch(s, x.id, hi, parents, at)
  BY <1>1, <1>2 DEF Batch
<1>4. QED BY <1>3 DEF s

LEMMA BatchNone ==
  ASSUME NEW lo, NEW hi, NEW parents, NEW at
  PROVE  Batch(<<>>, lo, hi, parents, at)
<1> DEFINE s == <<>>
<1>1. IsList(s) /\ DOMAIN s = {}
  BY ShortLists
<1> HIDE DEF s
<1>2. Batch(s, lo, hi, parents, at)
  BY <1>1 DEF Batch
<1>3. QED BY <1>2 DEF s

LEMMA BatchConcat ==
  ASSUME NEW lo \in Nat, NEW mid \in Nat, NEW hi \in Nat, lo <= mid, mid <= hi,
         NEW parents, NEW at, NEW s, NEW t,
         Batch(s, lo, mid, parents, at), Batch(t, mid, hi, parents, at)
  PROVE  Batch(s \o t, lo, hi, parents, at)
<1> DEFINE r == s \o t
<1>1. /\ IsList(s) /\ Len(s) \in Nat /\ DOMAIN s = 1..Len(s)
      /\ IsList(t) /\ Len(t) \in Nat /\ DOMAIN t = 1..Len(t)
  BY ListLength DEF Batch
<1>2. /\ IsList(r) /\ DOMAIN r = 1..(Len(s) + Len(t))
      /\ \A i \in DOMAIN r : r[i] = IF i <= Len(s) THEN s[i] ELSE t[i - Len(s)]
  BY <1>1, ListConcat
<1> HIDE DEF r
<1>3. ASSUME NEW i \in DOMAIN r
      PROVE  \/ i \in DOMAIN s /\ r[i] = s[i]
             \/ i - Len(s) \in DOMAIN t /\ r[i] = t[i - Len(s)]
  BY <1>1, <1>2
<1>4. \A i \in DOMAIN s : IsItem(s[i]) /\ s[i].id \in lo..(mid - 1)
                          /\ s[i].parent \in parents /\ Above(at, s[i].at)
  BY DEF Batch
<1>5. \A i \in DOMAIN t : IsItem(t[i]) /\ t[i].id \in mid..(hi - 1)
                          /\ t[i].parent \in parents /\ Above(at, t[i].at)
  BY DEF Batch
<1>6. ASSUME NEW i \in DOMAIN r
      PROVE  /\ IsItem(r[i]) /\ r[i].id \in lo..(hi - 1)
             /\ r[i].parent \in parents /\ Above(at, r[i].at)
  <2>1. lo..(mid - 1) \subseteq lo..(hi - 1) /\ mid..(hi - 1) \subseteq lo..(hi - 1)
    OBVIOUS
  <2>2. QED BY <1>3, <1>4, <1>5, <2>1
<1>7. ASSUME NEW i \in DOMAIN r, NEW j \in DOMAIN r, r[i].id = r[j].id
      PROVE  i = j
  <2>1. CASE i \in DOMAIN s /\ r[i] = s[i] /\ j \in DOMAIN s /\ r[j] = s[j]
    BY <1>7, <2>1 DEF Batch
  <2>2. CASE i - Len(s) \in DOMAIN t /\ r[i] = t[i - Len(s)] /\ j - Len(s) \in DOMAIN t /\ r[j] = t[j - Len(s)]
    <3>1. i - Len(s) = j - Len(s)
      BY <1>7, <2>2 DEF Batch
    <3>2. QED BY <1>1, <1>2, <3>1
  <2>3. \A k \in DOMAIN s, l \in DOMAIN t : s[k].id # t[l].id
    BY <1>4, <1>5
  <2>4. QED BY <1>3, <1>7, <2>1, <2>2, <2>3
<1>8. QED BY <1>2, <1>6, <1>7 DEF Batch, r

\* There is room above.
LEMMA BatchWider ==
  ASSUME NEW lo \in Nat, NEW mid \in Nat, NEW hi \in Nat, mid <= hi,
         NEW parents, NEW at, NEW s, Batch(s, lo, mid, parents, at)
  PROVE  Batch(s, lo, hi, parents, at)
<1>1. lo..(mid - 1) \subseteq lo..(hi - 1)
  OBVIOUS
<1>2. QED BY <1>1 DEF Batch

\* The rows of a payload.
LEMMA ItemsBatch ==
  ASSUME NEW m, IsItem(m), ~m.render, NEW parents, m.parent \in parents, NEW at, Above(at, m.at)
  PROVE  /\ Len(Items(m)) \in Nat
         /\ Batch(Items(m), m.id, m.id + Len(Items(m)), parents, at)
<1>1. m.id \in Nat /\ m.id + 1 \in Nat /\ m.id < m.id + 1
  BY DEF IsItem
<1>2. CASE m.data.form # "list"
  <2>1. Items(m) = <<m>> /\ Len(<<m>>) = 1
    BY <1>2, ShortLists DEF Items
  <2>2. Batch(<<m>>, m.id, m.id + 1, parents, at)
    BY <1>1, BatchOne
  <2>3. QED BY <2>1, <2>2
<1>3. CASE m.data.form = "list" /\ m.json
  <2> DEFINE d == IF m.data.kids = <<>> THEN EmptyPayload(m.table) ELSE UnionOfElements(m.data)
             x == [m EXCEPT !.array = TRUE, !.data = d]
  <2>1. Open(d)
    BY EmptyOpen, UnionOpen DEF IsItem
  <2>2. Items(m) = <<x>> /\ Len(<<x>>) = 1
    BY <1>3, ShortLists DEF Items, ProcessList, Rows
  <2> HIDE DEF d
  <2>3. IsItem(x) /\ x.id = m.id /\ x.parent = m.parent /\ x.at = m.at
    BY <2>1 DEF IsItem, Fields
  <2> HIDE DEF x
  <2>4. Batch(<<x>>, m.id, m.id + 1, parents, at)
    BY <1>1, <2>3, BatchOne
  <2>5. QED BY <2>2, <2>4
<1>4. CASE m.data.form = "list" /\ ~m.json
  <2> DEFINE n == Len(m.data.kids)
             s == Items(m)
  <2>1. n \in Nat /\ DOMAIN m.data.kids = 1..n /\ \A i \in 1..n : m.data.kids[i].node \in Payloads
    BY ListLength DEF IsItem, Open, AreKids
  <2>2. s = [i \in 1..n |->
              [m EXCEPT !.data = m.data.kids[i].node, !.id = @ + 1 * (i - 1),
                        !.array = m.data.kids[i].node.form = "list",
                        !.at = Append(@, <<"", i>>)]]
    BY <1>4, <2>1 DEF Items, ProcessList, Rows
  <2> HIDE DEF n
  <2>3. s = [i \in 1..n |-> s[i]] /\ DOMAIN s = 1..n
    BY <2>2
  <2>4. IsList(s) /\ Len(s) = n
    <3> HIDE DEF s
    <3>1. QED BY <2>1, <2>3, ListFromFunction
  <2>5. ASSUME NEW i \in 1..n
        PROVE  /\ IsItem(s[i]) /\ s[i].id = m.id + (i - 1)
               /\ s[i].parent = m.parent /\ Above(at, s[i].at)
    <3> DEFINE d == m.data.kids[i].node
               x == s[i]
               p == Append(m.at, <<"", i>>)
    <3>1. x = [m EXCEPT !.data = d, !.id = @ + 1 * (i - 1), !.array = d.form = "list", !.at = Append(@, <<"", i>>)]
      BY <2>2
    <3>2. Open(d)
      BY <2>1, PayloadOpen
    <3>3. IsList(p) /\ Above(at, p)
      BY AboveStep, ListAppend DEF IsItem
    <3> HIDE DEF d, x, s
    <3>4. /\ DOMAIN x = Fields /\ x.id = m.id + 1 * (i - 1) /\ x.parent = m.parent
          /\ x.render = m.render /\ x.table = m.table /\ x.data = d /\ x.at = p
      BY <3>1 DEF IsItem, Fields
    <3> HIDE DEF p
    <3>5. m.id + 1 * (i - 1) = m.id + (i - 1) /\ m.id + (i - 1) \in Nat
      BY <1>1, <2>1
    <3>6. IsItem(x)
      BY <3>2, <3>3, <3>4, <3>5 DEF IsItem
    <3>7. QED BY <3>3, <3>4, <3>5, <3>6 DEF x
  <2> HIDE DEF s
  <2>6. \A i \in 1..n : m.id + (i - 1) \in m.id..((m.id + n) - 1)
    BY <1>1, <2>1
  <2>7. \A i, j \in 1..n : m.id + (i - 1) = m.id + (j - 1) => i = j
    BY <1>1, <2>1
  <2>8. Batch(s, m.id, m.id + n, parents, at)
    BY <2>3, <2>4, <2>5, <2>6, <2>7 DEF Batch
  <2>9. QED BY <2>1, <2>4, <2>8 DEF s
<1>5. QED BY <1>2, <1>3, <1>4

-----------------------------------------------------------------------------
(* What is nested.                                                         *)

\* What the keys of m so far have given.
Walked(m, acc) ==
  /\ DOMAIN acc = {"items", "id", "nested", "error"}
  /\ acc.id \in Nat /\ nextId <= acc.id
  /\ Batch(acc.items, nextId, acc.id, {m.id, m.parent}, m.at)

LEMMA RelationTables ==
  ASSUME NEW k, NEW t, Relation(k, t) # NoRel
  PROVE  /\ k \in Tables /\ t \in Tables
         /\ Relation(k, t).lt \in {k, t} /\ Relation(k, t).rt \in {k, t}
         /\ ReverseRel(Relation(k, t)).lt \in {k, t} /\ ReverseRel(Relation(k, t)).rt \in {k, t}
<1>1. \A e \in Refs : e \in Tables \X Tables
  BY TableAssumption
<1>2. CASE k = t /\ <<t, t>> \in Refs
  BY <1>1, <1>2 DEF Relation, ReverseRel, Rel
<1>3. CASE k # t /\ <<k, t>> \in Refs
  BY <1>1, <1>3 DEF Relation, ReverseRel, Rel
<1>4. CASE k # t /\ <<t, k>> \in Refs /\ ~(<<k, t>> \in Refs)
  BY <1>1, <1>4 DEF Relation, ReverseRel, Rel
<1>5. QED BY <1>2, <1>3, <1>4 DEF Relation

LEMMA ItemIs ==
  ASSUME NEW id \in Nat, NEW parent, NEW sel, NEW type, NEW key, NEW table \in Tables, NEW rel,
         NEW node, Open(node), NEW json, NEW var, NEW at, IsList(at),
         NEW x, x = Item(id, parent, sel, type, key, table, rel, node, json, var, at)
  PROVE  /\ IsItem(x) /\ x.id = id /\ x.parent = parent /\ x.at = at /\ ~x.render
BY DEF IsItem, Item, Fields

LEMMA ResolvedPayload ==
  ASSUME NEW node \in Payloads
  PROVE  /\ Resolved(node) \in Payloads
         /\ IsConnect(node) => Member(node, "connect") \in Payloads
<1>1. AreKids(node.kids)
  BY PayloadOpen DEF Open
<1>2. DOMAIN node.kids = 1..Len(node.kids) /\ Len(node.kids) \in Nat
  BY <1>1, ListLength DEF AreKids
<1>3. node.kids # <<>> => 1 \in DOMAIN node.kids
  <2> DEFINE q == node.kids
  <2>1. IsList(q)
    BY <1>1 DEF AreKids
  <2> HIDE DEF q
  <2>2. q # <<>> => 1 \in DOMAIN q
    BY <2>1 DEF IsList
  <2>3. QED BY <2>2 DEF q
<1>4. Resolved(node) \in Payloads
  BY <1>1, <1>3 DEF Resolved, AreKids
<1>5. ASSUME IsConnect(node) PROVE Member(node, "connect") \in Payloads
  <2>1. \E i \in DOMAIN node.kids : node.kids[i].name = "connect"
    BY <1>5 DEF IsConnect, Names
  <2> DEFINE c == CHOOSE i \in DOMAIN node.kids : node.kids[i].name = "connect"
  <2>2. c \in DOMAIN node.kids
    BY <2>1
  <2>3. QED BY <1>1, <2>2 DEF Member, AreKids
<1>6. QED BY <1>4, <1>5

LEMMA AppendIsConcat ==
  ASSUME NEW s, NEW x, IsList(s)
  PROVE  Append(s, x) = s \o <<x>>
<1> DEFINE X == {s[i] : i \in DOMAIN s} \cup {x}
<1>1. s \in Seq({s[i] : i \in DOMAIN s})
  BY DEF IsList
<1>2. s \in Seq(X) /\ x \in X
  BY <1>1
<1> HIDE DEF X
<1>3. QED BY <1>2

\* One more item, or the rows of one.
LEMMA WalkedOne ==
  ASSUME nextId \in Nat, NEW m, NEW acc, Walked(m, acc), NEW x, IsItem(x), x.id = acc.id,
         x.parent \in {m.id, m.parent}, Above(m.at, x.at)
  PROVE  Walked(m, [acc EXCEPT !.id = @ + 1, !.items = Append(@, x)])
<1> DEFINE parents == {m.id, m.parent}
           s == acc.items
<1>1. acc.id \in Nat /\ acc.id + 1 \in Nat /\ nextId <= acc.id /\ acc.id < acc.id + 1
  BY DEF Walked
<1>2. Batch(<<x>>, acc.id, acc.id + 1, parents, m.at)
  BY <1>1, BatchOne
<1>3. Batch(s, nextId, acc.id, parents, m.at)
  BY DEF Walked
<1> HIDE DEF parents
<1>4. Batch(s \o <<x>>, nextId, acc.id + 1, parents, m.at)
  BY <1>1, <1>2, <1>3, BatchConcat
<1>5. Append(s, x) = s \o <<x>>
  BY <1>3, AppendIsConcat DEF Batch
<1> DEFINE r == Append(s, x)
           b == [acc EXCEPT !.id = @ + 1, !.items = r]
<1>6. Batch(r, nextId, acc.id + 1, parents, m.at)
  BY <1>4, <1>5
<1>7. b = [acc EXCEPT !.id = @ + 1, !.items = Append(@, x)]
  OBVIOUS
<1> HIDE DEF r, s
<1>8. DOMAIN b = DOMAIN acc /\ b.id = acc.id + 1 /\ b.items = r
  BY DEF Walked
<1> HIDE DEF b
<1>9. Walked(m, b)
  BY <1>1, <1>6, <1>8 DEF Walked, parents
<1>10. QED BY <1>7, <1>9

LEMMA WalkedRows ==
  ASSUME nextId \in Nat, NEW m, NEW acc, Walked(m, acc), NEW x, IsItem(x), ~x.render,
         x.id = acc.id, x.parent \in {m.id, m.parent}, Above(m.at, x.at), NEW key
  PROVE  Walked(m, [acc EXCEPT !.nested = @ \cup {key}, !.items = @ \o Items(x),
                               !.id = @ + After(Items(x))])
<1> DEFINE parents == {m.id, m.parent}
           s == acc.items
           t == Items(x)
           a == After(t)
<1>1. acc.id \in Nat /\ nextId <= acc.id
  BY DEF Walked
<1>2. Len(t) \in Nat /\ Batch(t, acc.id, acc.id + Len(t), parents, m.at)
  BY ItemsBatch
<1>3. Batch(s, nextId, acc.id, parents, m.at)
  BY DEF Walked
<1> HIDE DEF parents, t
<1>4. a \in Nat /\ Len(t) <= a
  BY <1>2 DEF After
<1> HIDE DEF a
<1>5. acc.id + Len(t) \in Nat /\ acc.id + a \in Nat /\ acc.id + Len(t) <= acc.id + a
      /\ acc.id <= acc.id + a /\ nextId <= acc.id + a
  BY <1>1, <1>2, <1>4
<1>6. Batch(t, acc.id, acc.id + a, parents, m.at)
  BY <1>1, <1>2, <1>5, BatchWider
<1>7. Batch(s \o t, nextId, acc.id + a, parents, m.at)
  BY <1>1, <1>3, <1>5, <1>6, BatchConcat
<1> DEFINE r == s \o t
           b == [acc EXCEPT !.nested = @ \cup {key}, !.items = r, !.id = @ + a]
<1>8. b = [acc EXCEPT !.nested = @ \cup {key}, !.items = @ \o Items(x), !.id = @ + After(Items(x))]
  BY DEF t, a
<1>9. Batch(r, nextId, acc.id + a, parents, m.at)
  BY <1>7
<1> HIDE DEF r, s
<1>10. DOMAIN b = DOMAIN acc /\ b.id = acc.id + a /\ b.items = r
  BY DEF Walked
<1> HIDE DEF b
<1>11. Walked(m, b)
  BY <1>5, <1>9, <1>10 DEF Walked, parents
<1>12. QED BY <1>8, <1>11

LEMMA NestKeyWalked ==
  ASSUME nextId \in Nat, NEW m, IsItem(m), ~m.render, NEW acc, Walked(m, acc),
         NEW kid, kid.node \in Payloads
  PROVE  Walked(m, NestKey(m, acc, kid))
<1> DEFINE node == Resolved(kid.node)
           key == kid.name
           mt == req.stype
           found == Relation(key, m.key)
           rel == IF node.form = "list" /\ mt = "insert" /\ found.type = "one-to-one"
                    THEN ReverseRel(found) ELSE found
           toMany == rel.type = "one-to-many"
           isVar == kid.node.form = "var"
           table == IF toMany /\ rel.rt # m.table THEN rel.rt ELSE rel.lt
           at == Append(m.at, <<key, 0>>)
           item == Item(acc.id, m.id, 0, IF toMany /\ mt = "update" THEN "connect" ELSE mt, key,
                        table, rel, node, m.json \/ isVar, m.var \/ isVar, at)
           word == Item(acc.id, m.parent, 0, key, key, m.table, NoRel, node, m.json \/ isVar,
                        FALSE, at)
           lookup == ConnectItem(m, acc.id, key, found, kid.node)
           failing(e) == [acc EXCEPT !.error = e]
           one(x) == [acc EXCEPT !.id = @ + 1, !.items = Append(@, x)]
           rows == [acc EXCEPT !.nested = @ \cup {key}, !.items = @ \o Items(item),
                               !.id = @ + After(Items(item))]
<1>1. \/ NestKey(m, acc, kid) = acc
      \/ \E e : NestKey(m, acc, kid) = failing(e)
      \/ found = NoRel /\ NestKey(m, acc, kid) = one(word)
      \/ found # NoRel /\ IsConnect(kid.node) /\ NestKey(m, acc, kid) = one(lookup)
      \/ found # NoRel /\ NestKey(m, acc, kid) = rows
  BY Zenon DEF NestKey
<1>2. node \in Payloads /\ Open(node)
  BY ResolvedPayload, PayloadOpen
<1>3. acc.id \in Nat /\ m.table \in Tables /\ IsList(m.at)
  BY DEF Walked, IsItem
<1>4. IsList(at) /\ Above(m.at, at)
  BY <1>3, AboveStep, ListAppend
<1>5. found # NoRel =>
        /\ key \in Tables /\ found.lt \in {key, m.key} /\ found.rt \in {key, m.key}
        /\ m.key \in Tables /\ table \in Tables
  BY RelationTables
<1> HIDE DEF node, found, rel, toMany, isVar, table, at
<1>6. ASSUME NEW e PROVE Walked(m, failing(e))
  BY DEF Walked
<1>7. Walked(m, one(word))
  <2>1. IsItem(word) /\ word.id = acc.id /\ word.parent = m.parent /\ word.at = at
    BY <1>2, <1>3, <1>4 DEF IsItem, Item, Fields
  <2> HIDE DEF word
  <2>2. QED BY <1>4, <2>1, WalkedOne
<1>8. ASSUME found # NoRel PROVE Walked(m, rows)
  <2>1. IsItem(item) /\ item.id = acc.id /\ item.parent = m.id /\ item.at = at /\ ~item.render
    BY <1>2, <1>3, <1>4, <1>5, <1>8, ItemIs
  <2> HIDE DEF item
  <2>2. QED BY <1>4, <2>1, WalkedRows
<1>9. ASSUME found # NoRel, IsConnect(kid.node) PROVE Walked(m, one(lookup))
  <2> DEFINE t == IF found.lt = m.table THEN found.rt ELSE found.lt
             d == Member(kid.node, "connect")
             lrel == [found EXCEPT !.lc = IF found.lt = m.table THEN found.rc ELSE found.lc,
                                   !.rc = IF found.lt = m.table THEN found.lc ELSE found.rc]
  <2>1. lookup = Item(acc.id, m.id, 0, "connect", key, t, lrel, d, FALSE, FALSE, at)
    BY Zenon DEF ConnectItem, at
  <2>2. t \in Tables
    BY <1>5, <1>9
  <2>3. Open(d)
    BY <1>9, ResolvedPayload, PayloadOpen
  <2> HIDE DEF t, d, lrel, lookup
  <2>4. IsItem(lookup) /\ lookup.id = acc.id /\ lookup.parent = m.id /\ lookup.at = at
    BY <1>3, <1>4, <2>1, <2>2, <2>3 DEF IsItem, Item, Fields
  <2>5. QED BY <1>4, <2>4, WalkedOne
<1> HIDE DEF failing, one, rows, word, lookup
<1>10. QED BY <1>1, <1>6, <1>7, <1>8, <1>9

IsWalk(m, n, g) ==
  g = [k \in 0..n |->
         IF k = 0 THEN [items |-> <<>>, id |-> nextId, nested |-> {}, error |-> FALSE]
         ELSE NestKey(m, g[k - 1], m.data.kids[k])]

LEMMA WalkExists ==
  ASSUME NEW m, NEW N \in Nat
  PROVE  \E g : IsWalk(m, N, g)
<1> DEFINE T == {n \in 0..N : \E g : IsWalk(m, n, g)}
           none == [items |-> <<>>, id |-> nextId, nested |-> {}, error |-> FALSE]
<1>1. 0 \in T
  <2>1. IsWalk(m, 0, [k \in 0..0 |-> none])
    BY DEF IsWalk
  <2>2. QED BY <2>1
<1>2. ASSUME NEW n \in 1..N, n - 1 \in T PROVE n \in T
  <2>1. PICK g : IsWalk(m, n - 1, g)
    BY <1>2
  <2> DEFINE h == Longer(g, n, NestKey(m, g[n - 1], m.data.kids[n]))
  <2>2. /\ DOMAIN h = 0..n /\ h = [k \in 0..n |-> h[k]]
        /\ \A k \in 0..(n - 1) : h[k] = g[k]
        /\ h[n] = NestKey(m, g[n - 1], m.data.kids[n])
        /\ \A k \in 1..n : k - 1 \in 0..(n - 1) /\ h[k - 1] = g[k - 1]
    BY DEF Longer
  <2>3. \A k \in 0..(n - 1) : g[k] = IF k = 0 THEN none ELSE NestKey(m, g[k - 1], m.data.kids[k])
    BY <2>1 DEF IsWalk
  <2> HIDE DEF h, none
  <2>4. ASSUME NEW k \in 0..n
        PROVE  h[k] = IF k = 0 THEN none ELSE NestKey(m, h[k - 1], m.data.kids[k])
    <3>1. CASE k < n
      <4>1. k \in 0..(n - 1) /\ (k # 0 => k \in 1..n)
        BY <3>1
      <4>2. h[k] = g[k] /\ (k # 0 => h[k - 1] = g[k - 1])
        BY <2>2, <4>1
      <4>3. g[k] = IF k = 0 THEN none ELSE NestKey(m, g[k - 1], m.data.kids[k])
        BY <2>3, <4>1
      <4>4. QED BY <4>2, <4>3
    <3>2. CASE k = n
      <4>1. n # 0 /\ n - 1 \in 0..(n - 1)
        OBVIOUS
      <4>2. h[n - 1] = g[n - 1]
        BY <2>2, <4>1
      <4>3. QED BY <2>2, <3>2, <4>1, <4>2
    <3>3. QED BY <3>1, <3>2
  <2>5. IsWalk(m, n, h)
    BY <2>2, <2>4 DEF IsWalk, none
  <2>6. QED BY <2>5
<1>3. T \in SUBSET Nat
  OBVIOUS
<1> HIDE DEF T
<1>4. 0..N \subseteq T
  BY <1>1, <1>2, <1>3, Induction
<1>5. QED BY <1>4 DEF T

LEMMA NestWalked ==
  ASSUME nextId \in Nat, NEW m, IsItem(m), ~m.render
  PROVE  Walked(m, Nest(m))
<1> DEFINE N == Len(m.data.kids)
           P(g) == IsWalk(m, N, g)
<1>1. N \in Nat /\ DOMAIN m.data.kids = 1..N /\ \A n \in 1..N : m.data.kids[n].node \in Payloads
  BY ListLength DEF IsItem, Open, AreKids
<1> HIDE DEF N
<1>2. ASSUME NEW g, P(g) PROVE Walked(m, g[N])
  <2> DEFINE T == {n \in 0..N : Walked(m, g[n])}
             none == [items |-> <<>>, id |-> nextId, nested |-> {}, error |-> FALSE]
  <2>1. \A k \in 0..N : g[k] = IF k = 0 THEN none ELSE NestKey(m, g[k - 1], m.data.kids[k])
    BY <1>2 DEF IsWalk
  <2>2. 0 \in T
    <3>1. Batch(<<>>, nextId, nextId, {m.id, m.parent}, m.at)
      BY BatchNone
    <3>2. Walked(m, none)
      BY <3>1 DEF Walked
    <3> HIDE DEF none
    <3>3. QED BY <1>1, <2>1, <3>2
  <2> HIDE DEF none
  <2>3. ASSUME NEW n \in 1..N, n - 1 \in T PROVE n \in T
    <3>1. Walked(m, g[n - 1]) /\ g[n] = NestKey(m, g[n - 1], m.data.kids[n])
      BY <1>1, <2>1, <2>3
    <3>2. Walked(m, g[n])
      BY <1>1, <3>1, NestKeyWalked
    <3>3. QED BY <3>2
  <2>4. T \in SUBSET Nat
    OBVIOUS
  <2> HIDE DEF T
  <2>5. 0..N \subseteq T
    BY <1>1, <2>2, <2>3, <2>4, Induction
  <2>6. N \in T
    BY <1>1, <2>5
  <2>7. QED BY <2>6 DEF T
<1>3. \E g : P(g)
  BY <1>1, WalkExists
<1> DEFINE w == (CHOOSE g : P(g))[N]
<1>4. \E e : Nest(m) = [w EXCEPT !.error = e]
  BY DEF Nest, IsWalk, N
<1> HIDE DEF P
<1>5. P(CHOOSE g : P(g))
  BY <1>3
<1>6. Walked(m, w)
  BY <1>2, <1>5
<1> HIDE DEF w
<1>7. ASSUME NEW e PROVE Walked(m, [w EXCEPT !.error = e])
  BY <1>6 DEF Walked
<1>8. QED BY <1>4, <1>7

-----------------------------------------------------------------------------
(* The roots.                                                              *)

Rooted(acc) ==
  /\ DOMAIN acc = {"stack", "id"} /\ acc.id \in Nat
  /\ Batch(acc.stack, 0, acc.id, {-1}, <<>>)

LEMMA AboveRoot ==
  ASSUME NEW x
  PROVE  IsList(<<x>>) /\ Above(<<>>, <<x>>)
BY ShortLists DEF Above

LEMMA RootItemIs ==
  ASSUME req \in Requests, NEW n \in DOMAIN req.roots, NEW id \in Nat, NEW m, m = RootItem(n, id)
  PROVE  /\ DOMAIN m = Fields /\ m.id = id /\ m.parent = -1 /\ Above(<<>>, m.at) /\ ~m.render
         /\ req.stype # "delete" /\ ~RootRefused(req.roots[n]) => IsItem(m)
<1> DEFINE root == req.roots[n]
           data == IF root.data.form = "var" THEN root.data.kids[1].node ELSE root.data
           at == <<<<"root", n>>>>
<1>1. /\ DOMAIN m = Fields /\ m.id = id /\ m.parent = -1 /\ m.at = at /\ m.render = FALSE
      /\ m.table = root.table /\ m.data = data
  BY DEF RootItem, Item, Fields
<1>2. IsList(at) /\ Above(<<>>, at)
  BY AboveRoot
<1>3. root.table \in Tables /\ root.data \in Payloads
  BY RequestAssumption DEF AreMadeOf
<1>4. ASSUME req.stype # "delete", ~RootRefused(root) PROVE data \in Payloads
  <2>1. CASE root.data.form # "var"
    BY <1>3, <2>1
  <2>2. CASE root.data.form = "var"
    <3> DEFINE kids == root.data.kids
    <3>1. kids # <<>>
      BY <1>4, <2>2 DEF RootRefused
    <3>2. AreKids(kids)
      BY <1>3, PayloadOpen DEF Open
    <3> HIDE DEF kids
    <3>3. 1 \in DOMAIN kids
      BY <3>1, <3>2 DEF AreKids, IsList
    <3>4. kids[1].node \in Payloads
      BY <3>2, <3>3 DEF AreKids
    <3>5. QED BY <2>2, <3>4 DEF kids
  <2>3. QED BY <2>1, <2>2
<1> HIDE DEF at, data
<1>5. QED BY <1>1, <1>2, <1>3, <1>4, PayloadOpen DEF IsItem

LEMMA AddRootRooted ==
  ASSUME req \in Requests, NEW n \in DOMAIN req.roots, ~RootRefused(req.roots[n]),
         NEW acc, Rooted(acc)
  PROVE  Rooted(AddRoot(acc, n))
<1> DEFINE ms == RootItems(n, acc.id)
           m == RootItem(n, acc.id)
           s == acc.stack
<1>1. acc.id \in Nat /\ 0 <= acc.id /\ Batch(s, 0, acc.id, {-1}, <<>>)
  BY DEF Rooted
<1>2. /\ DOMAIN m = Fields /\ m.id = acc.id /\ m.parent = -1 /\ Above(<<>>, m.at) /\ ~m.render
      /\ req.stype # "delete" => IsItem(m)
  BY <1>1, RootItemIs
<1>3. Len(ms) \in Nat /\ Batch(ms, acc.id, acc.id + Len(ms), {-1}, <<>>)
  <2>1. CASE req.stype = "delete"
    <3> DEFINE x == [m EXCEPT !.render = TRUE]
    <3>1. ms = <<x>>
      BY <2>1 DEF RootItems
    <3> HIDE DEF m
    <3>2. IsItem(x) /\ x.id = acc.id /\ x.parent = -1 /\ Above(<<>>, x.at)
      BY <1>1, <1>2 DEF IsItem, Fields, Above
    <3> HIDE DEF x
    <3>3. Len(<<x>>) = 1
      BY ShortLists
    <3>4. x.id < acc.id + 1 /\ acc.id + 1 \in Nat /\ x.parent \in {-1}
      BY <1>1, <3>2
    <3>5. Batch(<<x>>, x.id, acc.id + 1, {-1}, <<>>)
      BY <3>2, <3>4, BatchOne
    <3> HIDE DEF ms
    <3>6. QED BY <3>1, <3>2, <3>3, <3>5
  <2>2. CASE req.stype # "delete"
    <3>1. ms = Items(m)
      BY <2>2 DEF RootItems
    <3> HIDE DEF m, ms
    <3>2. m.parent \in {-1} /\ IsItem(m)
      BY <1>2, <2>2
    <3>3. QED BY <1>2, <3>1, <3>2, ItemsBatch
  <2>3. QED BY <2>1, <2>2
<1> HIDE DEF ms, m
<1>4. acc.id + Len(ms) \in Nat /\ acc.id <= acc.id + Len(ms)
  BY <1>1, <1>3
<1>5. Batch(s \o ms, 0, acc.id + Len(ms), {-1}, <<>>)
  BY <1>1, <1>3, <1>4, BatchConcat
<1> DEFINE r == s \o ms
<1>6. AddRoot(acc, n) = [stack |-> r, id |-> acc.id + Len(ms)]
  BY DEF AddRoot, ms
<1>7. Batch(r, 0, acc.id + Len(ms), {-1}, <<>>)
  BY <1>5
<1> HIDE DEF r
<1>8. QED BY <1>4, <1>6, <1>7 DEF Rooted

IsRoots(n, g) ==
  g = [k \in 0..n |-> IF k = 0 THEN [stack |-> <<>>, id |-> 0] ELSE AddRoot(g[k - 1], k)]

LEMMA RootsExist ==
  ASSUME NEW N \in Nat
  PROVE  \E g : IsRoots(N, g)
<1> DEFINE T == {n \in 0..N : \E g : IsRoots(n, g)}
           none == [stack |-> <<>>, id |-> 0]
<1>1. 0 \in T
  <2>1. IsRoots(0, [k \in 0..0 |-> none])
    BY DEF IsRoots
  <2>2. QED BY <2>1
<1>2. ASSUME NEW n \in 1..N, n - 1 \in T PROVE n \in T
  <2>1. PICK g : IsRoots(n - 1, g)
    BY <1>2
  <2> DEFINE h == Longer(g, n, AddRoot(g[n - 1], n))
  <2>2. /\ DOMAIN h = 0..n /\ h = [k \in 0..n |-> h[k]]
        /\ \A k \in 0..(n - 1) : h[k] = g[k]
        /\ h[n] = AddRoot(g[n - 1], n)
        /\ \A k \in 1..n : k - 1 \in 0..(n - 1) /\ h[k - 1] = g[k - 1]
    BY DEF Longer
  <2>3. \A k \in 0..(n - 1) : g[k] = IF k = 0 THEN none ELSE AddRoot(g[k - 1], k)
    BY <2>1 DEF IsRoots
  <2> HIDE DEF h, none
  <2>4. ASSUME NEW k \in 0..n PROVE h[k] = IF k = 0 THEN none ELSE AddRoot(h[k - 1], k)
    <3>1. CASE k < n
      <4>1. k \in 0..(n - 1) /\ (k # 0 => k \in 1..n)
        BY <3>1
      <4>2. h[k] = g[k] /\ (k # 0 => h[k - 1] = g[k - 1])
        BY <2>2, <4>1
      <4>3. g[k] = IF k = 0 THEN none ELSE AddRoot(g[k - 1], k)
        BY <2>3, <4>1
      <4>4. QED BY <4>2, <4>3
    <3>2. CASE k = n
      <4>1. n # 0 /\ n - 1 \in 0..(n - 1)
        OBVIOUS
      <4>2. h[n - 1] = g[n - 1]
        BY <2>2, <4>1
      <4>3. QED BY <2>2, <3>2, <4>1, <4>2
    <3>3. QED BY <3>1, <3>2
  <2>5. IsRoots(n, h)
    BY <2>2, <2>4 DEF IsRoots, none
  <2>6. QED BY <2>5
<1>3. T \in SUBSET Nat
  OBVIOUS
<1> HIDE DEF T
<1>4. 0..N \subseteq T
  BY <1>1, <1>2, <1>3, Induction
<1>5. QED BY <1>4 DEF T

LEMMA AllRootsRooted ==
  ASSUME req \in Requests, \A n \in DOMAIN req.roots : ~RootRefused(req.roots[n])
  PROVE  Rooted(AllRoots)
<1> DEFINE N == Len(req.roots)
           P(g) == IsRoots(N, g)
<1>1. N \in Nat /\ DOMAIN req.roots = 1..N
  BY ListLength, RequestAssumption DEF AreMadeOf
<1> HIDE DEF N
<1>2. ASSUME NEW g, P(g) PROVE Rooted(g[N])
  <2> DEFINE T == {n \in 0..N : Rooted(g[n])}
             none == [stack |-> <<>>, id |-> 0]
  <2>1. \A k \in 0..N : g[k] = IF k = 0 THEN none ELSE AddRoot(g[k - 1], k)
    BY <1>2 DEF IsRoots
  <2>2. 0 \in T
    <3>1. Batch(<<>>, 0, 0, {-1}, <<>>)
      BY BatchNone
    <3>2. Rooted(none)
      BY <3>1 DEF Rooted
    <3> HIDE DEF none
    <3>3. QED BY <1>1, <2>1, <3>2
  <2> HIDE DEF none
  <2>3. ASSUME NEW n \in 1..N, n - 1 \in T PROVE n \in T
    <3>1. Rooted(g[n - 1]) /\ g[n] = AddRoot(g[n - 1], n)
      BY <1>1, <2>1, <2>3
    <3>2. Rooted(g[n])
      BY <1>1, <3>1, AddRootRooted
    <3>3. QED BY <3>2
  <2>4. T \in SUBSET Nat
    OBVIOUS
  <2> HIDE DEF T
  <2>5. 0..N \subseteq T
    BY <1>1, <2>2, <2>3, <2>4, Induction
  <2>6. N \in T
    BY <1>1, <2>5
  <2>7. QED BY <2>6 DEF T
<1>3. \E g : P(g)
  BY <1>1, RootsExist
<1>4. AllRoots = (CHOOSE g : P(g))[N]
  BY DEF AllRoots, IsRoots, N
<1> HIDE DEF P
<1>5. P(CHOOSE g : P(g))
  BY <1>3
<1>6. QED BY <1>2, <1>4, <1>5

-----------------------------------------------------------------------------
(* Items with places.                                                      *)

IdsOf(s) == {s[i].id : i \in DOMAIN s}

LEMMA AboveTrans ==
  ASSUME NEW u, NEW s, NEW t, Above(u, s), Above(s, t)
  PROVE  Above(u, t)
<1>1. Len(u) \in Nat /\ Len(s) \in Nat /\ Len(t) \in Nat
  BY ListLength DEF Above
<1>2. QED BY <1>1 DEF Above

\* The items of a batch are in place if those they may be nested under are.
LEMMA BatchSound ==
  ASSUME NEW lo \in Nat, NEW hi \in Nat, NEW parents, NEW at, NEW places, NEW s,
         Batch(s, lo, hi, parents, at),
         \A id \in parents :
           id = -1 \/ \E p \in places : p[1] = id /\ (p[2] = at \/ Above(p[2], at))
  PROVE  Sound(s, hi, places) /\ IdsOf(s) \subseteq lo..(hi - 1)
<1>1. ASSUME NEW i \in DOMAIN s
      PROVE  IsItem(s[i]) /\ s[i].id < hi /\ InPlace(s[i], places)
  <2>1. /\ IsItem(s[i]) /\ s[i].id \in lo..(hi - 1)
        /\ s[i].parent \in parents /\ Above(at, s[i].at)
    BY DEF Batch
  <2>2. ASSUME s[i].parent # -1
        PROVE  \E p \in places : p[1] = s[i].parent /\ Above(p[2], s[i].at)
    BY <2>1, <2>2, AboveTrans
  <2>3. QED BY <2>1, <2>2 DEF InPlace
<1>2. QED BY <1>1 DEF Batch, Sound, IdsOf

LEMMA SoundGrows ==
  ASSUME NEW s, NEW b \in Int, NEW c \in Int, b <= c, NEW P, NEW Q, P \subseteq Q,
         Sound(s, b, P)
  PROVE  Sound(s, c, Q)
<1>1. \A i \in DOMAIN s : s[i].id \in Nat
  BY DEF Sound, IsItem
<1>2. \A i \in DOMAIN s : InPlace(s[i], Q)
  BY DEF Sound, InPlace
<1>3. QED BY <1>1, <1>2 DEF Sound

LEMMA SoundOne ==
  ASSUME NEW x, IsItem(x), NEW b, x.id < b, NEW P, InPlace(x, P)
  PROVE  Sound(<<x>>, b, P) /\ IdsOf(<<x>>) = {x.id} /\ PlacesOf(<<x>>) = {<<x.id, x.at>>}
<1> DEFINE s == <<x>>
<1>1. IsList(s) /\ DOMAIN s = {1} /\ s[1] = x
  BY ShortLists
<1> HIDE DEF s
<1>2. Sound(s, b, P) /\ IdsOf(s) = {x.id} /\ PlacesOf(s) = {<<x.id, x.at>>}
  BY <1>1 DEF Sound, IdsOf, PlacesOf
<1>3. QED BY <1>2 DEF s

LEMMA SoundConcat ==
  ASSUME NEW s, NEW t, NEW b, NEW P, Sound(s, b, P), Sound(t, b, P), IdsOf(s) \cap IdsOf(t) = {}
  PROVE  /\ Sound(s \o t, b, P) /\ IdsOf(s \o t) = IdsOf(s) \cup IdsOf(t)
         /\ PlacesOf(s \o t) = PlacesOf(s) \cup PlacesOf(t)
<1> DEFINE r == s \o t
<1>1. /\ IsList(s) /\ Len(s) \in Nat /\ DOMAIN s = 1..Len(s)
      /\ IsList(t) /\ Len(t) \in Nat /\ DOMAIN t = 1..Len(t)
  BY ListLength DEF Sound
<1>2. /\ IsList(r) /\ DOMAIN r = 1..(Len(s) + Len(t))
      /\ \A i \in DOMAIN r : r[i] = IF i <= Len(s) THEN s[i] ELSE t[i - Len(s)]
  BY <1>1, ListConcat
<1> HIDE DEF r
<1>3. ASSUME NEW i \in DOMAIN r
      PROVE  \/ i \in DOMAIN s /\ r[i] = s[i]
             \/ i - Len(s) \in DOMAIN t /\ r[i] = t[i - Len(s)]
  BY <1>1, <1>2
<1>4. \A i \in DOMAIN s : i \in DOMAIN r /\ r[i] = s[i]
  BY <1>1, <1>2
<1>5. \A i \in DOMAIN t : i + Len(s) \in DOMAIN r /\ r[i + Len(s)] = t[i]
  BY <1>1, <1>2
<1>6. \A i \in DOMAIN r : IsItem(r[i]) /\ r[i].id < b /\ InPlace(r[i], P)
  BY <1>3 DEF Sound
<1>7. ASSUME NEW i \in DOMAIN r, NEW j \in DOMAIN r, r[i].id = r[j].id
      PROVE  i = j
  <2>1. CASE i \in DOMAIN s /\ r[i] = s[i] /\ j \in DOMAIN s /\ r[j] = s[j]
    BY <1>7, <2>1 DEF Sound
  <2>2. CASE i - Len(s) \in DOMAIN t /\ r[i] = t[i - Len(s)] /\ j - Len(s) \in DOMAIN t /\ r[j] = t[j - Len(s)]
    <3>1. i - Len(s) = j - Len(s)
      BY <1>7, <2>2 DEF Sound
    <3>2. QED BY <1>1, <1>2, <3>1
  <2>3. \A k \in DOMAIN s, l \in DOMAIN t : s[k].id # t[l].id
    BY DEF IdsOf
  <2>4. QED BY <1>3, <1>7, <2>1, <2>2, <2>3
<1>8. Sound(r, b, P)
  BY <1>2, <1>6, <1>7 DEF Sound
<1>9. IdsOf(r) = IdsOf(s) \cup IdsOf(t)
  BY <1>3, <1>4, <1>5 DEF IdsOf
<1>10. PlacesOf(r) = PlacesOf(s) \cup PlacesOf(t)
  BY <1>3, <1>4, <1>5 DEF PlacesOf
<1>11. QED BY <1>8, <1>9, <1>10 DEF r

\* The ids at some places.
IdsAt(s, places) == {s[i].id : i \in DOMAIN s \cap places}

LEMMA OnlySound ==
  ASSUME NEW s, NEW b, NEW P, Sound(s, b, P), NEW places
  PROVE  /\ Sound(Only(s, places), b, P)
         /\ IdsOf(Only(s, places)) \subseteq IdsAt(s, places)
<1> DEFINE q == Only(s, places)
<1>1. PartOf(q, s, places, Len(s)) /\ DOMAIN s = 1..Len(s)
  BY OnlyPart, ListLength DEF Sound
<1> HIDE DEF q
<1>2. PICK p \in [DOMAIN q -> (1..Len(s)) \cap places] :
        /\ \A i, j \in DOMAIN q : p[i] = p[j] => i = j
        /\ \A i \in DOMAIN q : q[i] = s[p[i]]
  BY <1>1 DEF PartOf
<1>3. \A i \in DOMAIN q : p[i] \in DOMAIN s \cap places
  BY <1>1, <1>2
<1>4. IsList(q)
  BY <1>1 DEF PartOf
<1>5. Sound(q, b, P)
  BY <1>2, <1>3, <1>4 DEF Sound
<1>6. IdsOf(q) \subseteq IdsAt(s, places)
  BY <1>2, <1>3 DEF IdsOf, IdsAt
<1>7. QED BY <1>5, <1>6 DEF q

\* What goes on the stack when m and what it nests is taken apart.
LEMMA PushesSound ==
  ASSUME NEW m, IsItem(m), NEW places, InPlace(m, places), <<m.id, m.at>> \in places,
         NEW lo \in Nat, NEW hi \in Nat, m.id < lo, lo <= hi,
         NEW items, Batch(items, lo, hi, {m.id, m.parent}, m.at)
  PROVE  /\ Sound(Pushes(m, items), hi, places)
         /\ <<m.id, m.at>> \in PlacesOf(Pushes(m, items))
         /\ IdsOf(Pushes(m, items)) \subseteq {m.id} \cup lo..(hi - 1)
<1>1. Sound(items, hi, places) /\ IdsOf(items) \subseteq lo..(hi - 1)
  <2> DEFINE parents == {m.id, m.parent}
             at == m.at
  <2>1. \A id \in parents :
          id = -1 \/ \E p \in places : p[1] = id /\ (p[2] = at \/ Above(p[2], at))
    BY DEF InPlace
  <2>2. Batch(items, lo, hi, parents, at)
    OBVIOUS
  <2> HIDE DEF parents, at
  <2>3. QED BY <2>1, <2>2, BatchSound
<1>2. m.id \in Nat /\ m.id < hi /\ m.id \notin IdsOf(items)
  BY <1>1 DEF IsItem
<1> DEFINE one == <<m>>
<1>3. Sound(one, hi, places) /\ IdsOf(one) = {m.id} /\ PlacesOf(one) = {<<m.id, m.at>>}
  BY <1>2, SoundOne
<1>4. CASE m.type = "insert"
  <2> DEFINE a == Only(items, Nested(items, "one-to-many"))
             b == Only(items, Nested(items, "one-to-one"))
             c == Only(items, Lookups(items))
             as == IdsAt(items, Nested(items, "one-to-many"))
             bs == IdsAt(items, Nested(items, "one-to-one"))
             cs == IdsAt(items, Lookups(items))
  <2>1. Sound(a, hi, places) /\ Sound(b, hi, places) /\ Sound(c, hi, places)
    BY <1>1, OnlySound
  <2>2. IdsOf(a) \subseteq as /\ IdsOf(b) \subseteq bs /\ IdsOf(c) \subseteq cs
    BY <1>1, OnlySound
  <2>3. \A i, j \in DOMAIN items : items[i].id = items[j].id => i = j
    BY DEF Batch
  <2>4. as \cap bs = {} /\ as \cap cs = {} /\ bs \cap cs = {}
    BY <2>3 DEF IdsAt, Nested, Lookups
  <2>5. as \cup bs \cup cs \subseteq IdsOf(items)
    BY DEF IdsAt, IdsOf
  <2>6. Pushes(m, items) = ((a \o b) \o one) \o c
    BY <1>4 DEF Pushes
  <2> HIDE DEF a, b, c, as, bs, cs, one
  <2> DEFINE d == a \o b
  <2>7. Sound(d, hi, places) /\ IdsOf(d) = IdsOf(a) \cup IdsOf(b)
    BY <2>1, <2>2, <2>4, SoundConcat
  <2> HIDE DEF d
  <2>8. IdsOf(d) \cap IdsOf(one) = {}
    BY <1>2, <1>3, <2>2, <2>5, <2>7
  <2> DEFINE e == d \o one
  <2>9. /\ Sound(e, hi, places) /\ IdsOf(e) = IdsOf(d) \cup IdsOf(one)
         /\ PlacesOf(e) = PlacesOf(d) \cup PlacesOf(one)
    BY <1>3, <2>7, <2>8, SoundConcat
  <2>10. /\ Sound(e, hi, places) /\ IdsOf(e) = IdsOf(d) \cup {m.id}
        /\ <<m.id, m.at>> \in PlacesOf(e)
    BY <1>3, <2>9
  <2> HIDE DEF e
  <2>11. IdsOf(e) \cap IdsOf(c) = {}
    BY <1>2, <2>2, <2>4, <2>5, <2>7, <2>10
  <2> DEFINE f == e \o c
  <2>12. /\ Sound(f, hi, places) /\ IdsOf(f) = IdsOf(e) \cup IdsOf(c)
        /\ PlacesOf(f) = PlacesOf(e) \cup PlacesOf(c)
    BY <2>1, <2>10, <2>11, SoundConcat
  <2>13. Pushes(m, items) = f
    BY <2>6 DEF d, e
  <2> HIDE DEF f
  <2>14. QED BY <1>1, <2>2, <2>5, <2>7, <2>10, <2>12, <2>13
<1>5. CASE m.type = "update"
  <2>1. Pushes(m, items) = items \o one
    BY <1>1, <1>5, AppendIsConcat DEF Pushes, Sound
  <2> HIDE DEF one
  <2> DEFINE f == items \o one
  <2>2. IdsOf(items) \cap IdsOf(one) = {}
    BY <1>2, <1>3
  <2>3. /\ Sound(f, hi, places) /\ IdsOf(f) = IdsOf(items) \cup {m.id}
        /\ PlacesOf(f) = PlacesOf(items) \cup PlacesOf(one)
    BY <1>1, <1>3, <2>2, SoundConcat
  <2> HIDE DEF f
  <2>4. QED BY <1>1, <1>3, <2>1, <2>3 DEF f
<1>6. CASE m.type \notin {"insert", "update"}
  <2>1. Pushes(m, items) = one
    BY <1>6 DEF Pushes
  <2> HIDE DEF one
  <2>2. QED BY <1>3, <2>1
<1>7. QED BY <1>4, <1>5, <1>6

-----------------------------------------------------------------------------
(* The steps of the walk.                                                  *)

LEMMA RecursiveItem ==
  ASSUME NEW m, IsItem(m)
  PROVE  /\ DOMAIN Recursive(m) = Fields /\ Recursive(m).id = m.id
         /\ Recursive(m).parent = m.parent /\ Recursive(m).at = m.at
<1> DEFINE r == FlipRel([m.rel EXCEPT !.type = "one-to-many"])
<1>1. \/ Recursive(m) = m
      \/ Recursive(m) = [m EXCEPT !.rel.type = "one-to-one"]
      \/ Recursive(m) = [m EXCEPT !.rel = r]
  BY DEF Recursive
<1> HIDE DEF r
<1>2. QED BY <1>1 DEF IsItem, Fields

\* The top of the stack and what is below it.
LEMMA StackTop ==
  ASSUME NEW b, NEW P, Sound(stack, b, P), stack # <<>>
  PROVE  /\ Sound(Front(stack), b, P)
         /\ IsItem(Top) /\ Top.id < b /\ InPlace(Top, P)
         /\ Top.id \notin IdsOf(Front(stack))
         /\ IdsOf(stack) = IdsOf(Front(stack)) \cup {Top.id}
         /\ PlacesOf(stack) = PlacesOf(Front(stack)) \cup {<<Top.id, Top.at>>}
<1> DEFINE f == Front(stack)
           n == Len(stack)
<1>1. /\ IsList(f) /\ n \in Nat \ {0} /\ DOMAIN f = 1..(n - 1) /\ DOMAIN stack = 1..n
      /\ \A i \in 1..(n - 1) : f[i] = stack[i]
  BY ListFront DEF Sound
<1>2. Top = stack[n] /\ n \in DOMAIN stack
  BY <1>1 DEF Top
<1> HIDE DEF f, n
<1>3. \A i \in DOMAIN stack : i = n \/ (i \in DOMAIN f /\ stack[i] = f[i])
  BY <1>1
<1>4. \A i \in DOMAIN f : i \in DOMAIN stack /\ i # n /\ f[i] = stack[i]
  BY <1>1
<1>5. Sound(f, b, P)
  BY <1>1, <1>4 DEF Sound
<1>6. IsItem(Top) /\ Top.id < b /\ InPlace(Top, P)
  BY <1>2 DEF Sound
<1>7. Top.id \notin IdsOf(f)
  BY <1>2, <1>4 DEF Sound, IdsOf
<1>8. IdsOf(stack) = IdsOf(f) \cup {Top.id}
  BY <1>2, <1>3, <1>4 DEF IdsOf
<1>9. PlacesOf(stack) = PlacesOf(f) \cup {<<Top.id, Top.at>>}
  BY <1>2, <1>3, <1>4 DEF PlacesOf
<1>10. QED BY <1>5, <1>6, <1>7, <1>8, <1>9 DEF f

\* The top of the stack gives way to itself and new items.
LEMMA PushStep ==
  ASSUME WalkInv, stack # <<>>, NEW xs, Sound(xs, nextId', Places),
         nextId' \in Nat, nextId <= nextId',
         <<Top.id, Top.at>> \in PlacesOf(xs), IdsOf(xs) \subseteq {Top.id} \cup nextId..(nextId' - 1),
         stack' = Front(stack) \o xs, UNCHANGED <<mutates, mmap>>
  PROVE  WalkInv'
<1> DEFINE f == Front(stack)
           P == Places
           Q == PlacesOf(stack') \cup PlacesOf(mutates)
<1>1. /\ nextId \in Nat /\ Sound(stack, nextId, P) /\ Sound(mutates, nextId, P)
      /\ IdsOf(stack) \cap IdsOf(mutates) = {}
  BY DEF WalkInv, IdsOf
<1>2. /\ Sound(f, nextId, P) /\ Top.id \notin IdsOf(f)
      /\ IdsOf(stack) = IdsOf(f) \cup {Top.id}
      /\ PlacesOf(stack) = PlacesOf(f) \cup {<<Top.id, Top.at>>}
  BY <1>1, StackTop
<1>3. P \subseteq P /\ nextId \in Int /\ nextId' \in Int
  BY <1>1
<1> HIDE DEF P
<1>4. Sound(f, nextId', P) /\ Sound(mutates, nextId', P) /\ Sound(xs, nextId', P)
  BY <1>1, <1>2, <1>3, SoundGrows DEF P
<1>5. \A i \in IdsOf(f) \cup IdsOf(mutates) : i < nextId
  BY <1>1, <1>2 DEF Sound, IdsOf
<1>6. \A i \in nextId..(nextId' - 1) : ~(i < nextId)
  BY <1>1
<1>7. IdsOf(f) \cap IdsOf(xs) = {}
  BY <1>2, <1>5, <1>6
<1>8. /\ Sound(stack', nextId', P) /\ IdsOf(stack') = IdsOf(f) \cup IdsOf(xs)
      /\ PlacesOf(stack') = PlacesOf(f) \cup PlacesOf(xs)
  BY <1>4, <1>7, SoundConcat
<1>9. IdsOf(stack') \cap IdsOf(mutates) = {}
  BY <1>1, <1>2, <1>5, <1>6, <1>8
<1>10. P \subseteq Q
  BY <1>2, <1>8 DEF P, Places
<1> HIDE DEF Q
<1>11. Sound(stack', nextId', Q) /\ Sound(mutates, nextId', Q)
  BY <1>3, <1>4, <1>8, <1>10, SoundGrows
<1>12. Places' = Q
  BY DEF Q, Places, PlacesOf
<1>13. Mapped'
  BY DEF WalkInv, Mapped
<1>14. \A i \in DOMAIN stack', j \in DOMAIN mutates' : stack'[i].id # mutates'[j].id
  BY <1>9 DEF IdsOf
<1>15. Sound(stack', nextId', Places') /\ Sound(mutates', nextId', Places')
  BY <1>11, <1>12
<1>16. QED BY <1>13, <1>14, <1>15 DEF WalkInv

\* The top of the stack gets its place in the list.
LEMMA RenderStep ==
  ASSUME WalkInv, stack # <<>>, stack' = Front(stack), mutates' = Append(mutates, Top),
         mmap' = [i \in DOMAIN mmap \cup {Top.id} |-> IF i = Top.id THEN Len(mutates) ELSE mmap[i]],
         UNCHANGED nextId
  PROVE  WalkInv'
<1> DEFINE f == Front(stack)
           P == Places
           one == <<Top>>
           r == Append(mutates, Top)
<1>1. /\ nextId \in Nat /\ Sound(stack, nextId, P) /\ Sound(mutates, nextId, P)
      /\ IdsOf(stack) \cap IdsOf(mutates) = {} /\ Mapped
  BY DEF WalkInv, IdsOf
<1>2. /\ Sound(f, nextId, P) /\ Top.id \notin IdsOf(f)
      /\ IsItem(Top) /\ Top.id < nextId /\ InPlace(Top, P)
      /\ IdsOf(stack) = IdsOf(f) \cup {Top.id}
      /\ PlacesOf(stack) = PlacesOf(f) \cup {<<Top.id, Top.at>>}
  BY <1>1, StackTop
<1> HIDE DEF P
<1>3. /\ Sound(one, nextId, P) /\ IdsOf(one) = {Top.id}
      /\ PlacesOf(one) = {<<Top.id, Top.at>>}
  BY <1>2, SoundOne
<1>4. r = mutates \o one
  BY <1>1, AppendIsConcat DEF Sound
<1>5. IdsOf(mutates) \cap IdsOf(one) = {}
  BY <1>1, <1>2, <1>3
<1> HIDE DEF one
<1> DEFINE c == mutates \o one
<1>6. /\ Sound(c, nextId, P) /\ IdsOf(c) = IdsOf(mutates) \cup IdsOf(one)
      /\ PlacesOf(c) = PlacesOf(mutates) \cup PlacesOf(one)
  BY <1>1, <1>3, <1>5, SoundConcat
<1>7. /\ Sound(r, nextId, P) /\ IdsOf(r) = IdsOf(mutates) \cup {Top.id}
      /\ PlacesOf(r) = PlacesOf(mutates) \cup {<<Top.id, Top.at>>}
  BY <1>3, <1>4, <1>6
<1> HIDE DEF c
<1>8. Places' = P
  <2>1. PlacesOf(f) \cup PlacesOf(r) = PlacesOf(stack) \cup PlacesOf(mutates)
    BY <1>2, <1>7
  <2>2. Places' = PlacesOf(f) \cup PlacesOf(r)
    BY DEF Places
  <2>3. QED BY <2>1, <2>2 DEF P, Places
<1>9. Len(mutates) \in Nat /\ DOMAIN mutates = 1..Len(mutates)
      /\ DOMAIN r = 1..(Len(mutates) + 1) /\ r[Len(mutates) + 1] = Top
      /\ \A i \in 1..Len(mutates) : r[i] = mutates[i]
  BY <1>1, ListLength, ListAppend DEF Sound
<1> HIDE DEF r, f
<1>10. mutates' = r /\ stack' = f
  BY DEF r, f
<1>11. Mapped'
  <2>1. Top.id # -1 /\ Top.id \notin IdsOf(mutates)
    BY <1>1, <1>2 DEF IsItem
  <2>2. DOMAIN mmap = {-1} \cup IdsOf(mutates)
    BY <1>1 DEF Mapped, IdsOf
  <2>3. DOMAIN mmap' = {-1} \cup IdsOf(r)
    BY <1>7, <2>2
  <2>4. mmap'[-1] = -1
    BY <1>1, <2>1 DEF Mapped
  <2>5. ASSUME NEW i \in DOMAIN r PROVE mmap'[r[i].id] = i - 1
    <3>1. CASE i \in 1..Len(mutates)
      <4>1. r[i].id = mutates[i].id /\ mutates[i].id \in IdsOf(mutates)
        BY <1>9, <3>1 DEF IdsOf
      <4>2. mmap[mutates[i].id] = i - 1
        BY <1>1, <1>9, <3>1 DEF Mapped
      <4>3. QED BY <2>1, <2>2, <4>1, <4>2
    <3>2. CASE i = Len(mutates) + 1
      BY <1>9, <3>2
    <3>3. QED BY <1>9, <3>1, <3>2
  <2>6. QED BY <1>10, <2>3, <2>4, <2>5 DEF Mapped, IdsOf
<1>12. \A i \in DOMAIN stack', j \in DOMAIN mutates' : stack'[i].id # mutates'[j].id
  <2>1. IdsOf(f) \cap IdsOf(r) = {}
    BY <1>1, <1>2, <1>7
  <2>2. QED BY <1>10, <2>1 DEF IdsOf
<1>13. Sound(stack', nextId', Places') /\ Sound(mutates', nextId', Places')
  BY <1>2, <1>7, <1>8, <1>10
<1>14. QED BY <1>1, <1>11, <1>12, <1>13 DEF WalkInv

\* The map from ids to places has what it takes.
LEMMA WalkDone ==
  ASSUME WalkInv, stack = <<>>, nextId' = 1, UNCHANGED <<mutates, mmap>>
  PROVE  ReindexInv'
<1>1. /\ IsList(mutates) /\ Len(mutates) \in Nat /\ DOMAIN mutates = 1..Len(mutates)
      /\ Sound(mutates, nextId, Places) /\ Mapped
  BY ListLength DEF WalkInv, Sound
<1>2. Places = PlacesOf(mutates)
  BY ShortLists DEF Places, PlacesOf
<1>3. ASSUME NEW i \in DOMAIN mutates
      PROVE  DOMAIN mutates[i] = Fields /\ ToPlace(i)
  <2>1. IsItem(mutates[i]) /\ InPlace(mutates[i], PlacesOf(mutates))
    BY <1>1, <1>2 DEF Sound
  <2>2. mutates[i].id \in DOMAIN mmap /\ mmap[mutates[i].id] = i - 1
    BY <1>1 DEF Mapped
  <2>3. ASSUME mutates[i].parent # -1
        PROVE  /\ mutates[i].parent \in DOMAIN mmap
               /\ mmap[mutates[i].parent] \in 0..(Len(mutates) - 1)
               /\ Above(mutates[mmap[mutates[i].parent] + 1].at, mutates[i].at)
    <3>1. PICK j \in DOMAIN mutates :
            mutates[j].id = mutates[i].parent /\ Above(mutates[j].at, mutates[i].at)
      BY <2>1, <2>3 DEF InPlace, PlacesOf
    <3>2. mutates[i].parent \in DOMAIN mmap /\ mmap[mutates[i].parent] = j - 1
      BY <1>1, <3>1 DEF Mapped
    <3>3. j - 1 \in 0..(Len(mutates) - 1) /\ (j - 1) + 1 = j
      BY <1>1
    <3>4. QED BY <3>1, <3>2, <3>3
  <2>4. QED BY <2>1, <2>2, <2>3 DEF IsItem, ToPlace
<1>4. \A i \in DOMAIN mutates : ~(i < 1)
  BY <1>1
<1>5. \A i \in DOMAIN mutates' : /\ DOMAIN mutates'[i] = Fields
                                 /\ IF i < nextId' THEN Placed(i)' ELSE ToPlace(i)'
  BY <1>3, <1>4 DEF ToPlace
<1>6. -1 \in DOMAIN mmap /\ mmap[-1] = -1
  BY <1>1 DEF Mapped
<1>7. IsList(mutates') /\ nextId' \in 1..(Len(mutates') + 1)
  BY <1>1
<1>8. QED BY <1>5, <1>6, <1>7 DEF ReindexInv

\* One more item knows its place.
LEMMA ReindexStep ==
  ASSUME ReindexInv, nextId <= Len(mutates), NEW deps,
         mutates' = [mutates EXCEPT ![nextId].id = Index(@), ![nextId].parent = Index(@),
                                    ![nextId].deps = deps],
         nextId' = nextId + 1, UNCHANGED mmap
  PROVE  ReindexInv'
<1> DEFINE n == nextId
           N == Len(mutates)
           x == mutates[n]
           y == [x EXCEPT !.id = Index(@), !.parent = Index(@), !.deps = deps]
<1>1. /\ IsList(mutates) /\ N \in Nat /\ DOMAIN mutates = 1..N /\ n \in 1..N
      /\ -1 \in DOMAIN mmap /\ mmap[-1] = -1
  BY ListLength DEF ReindexInv
<1>2. DOMAIN x = Fields /\ ToPlace(n)
  BY <1>1 DEF ReindexInv
<1>3. /\ DOMAIN y = Fields /\ y.id = Index(x.id) /\ y.parent = Index(x.parent) /\ y.at = x.at
  BY <1>2 DEF Fields
<1>4. mutates' = [mutates EXCEPT ![n] = y]
  BY <1>1, <1>2 DEF Fields
<1> HIDE DEF y
<1>5. /\ DOMAIN mutates' = 1..N /\ mutates'[n] = y
      /\ \A i \in 1..N : i # n => mutates'[i] = mutates[i]
      /\ mutates' = [i \in 1..N |-> mutates'[i]]
  BY <1>1, <1>4
<1>6. IsList(mutates') /\ Len(mutates') = N
  BY <1>1, <1>5, ListFromFunction
<1>7. \A i \in 1..N : mutates'[i].at = mutates[i].at /\ DOMAIN mutates'[i] = Fields
  BY <1>1, <1>3, <1>5 DEF ReindexInv
<1>8. y.id = n - 1 /\ (y.parent = -1 \/ /\ y.parent \in 0..(N - 1)
                                        /\ Above(mutates[y.parent + 1].at, x.at))
  BY <1>1, <1>2, <1>3 DEF ToPlace, Index
<1>9. \A k \in 0..(N - 1) : k + 1 \in 1..N
  BY <1>1
<1>10. ASSUME NEW i \in 1..N
       PROVE  IF i < n + 1 THEN Placed(i)' ELSE ToPlace(i)'
  <2>1. CASE i < n
    <3>1. Placed(i) /\ mutates'[i] = mutates[i]
      BY <1>1, <1>5, <2>1 DEF ReindexInv
    <3>2. Placed(i)'
      BY <1>6, <1>7, <1>9, <3>1 DEF Placed
    <3>3. QED BY <1>1, <2>1, <3>2
  <2>2. CASE i = n
    <3>1. Placed(i)'
      BY <1>1, <1>5, <1>6, <1>7, <1>8, <1>9, <2>2 DEF Placed
    <3>2. QED BY <1>1, <2>2, <3>1
  <2>3. CASE i > n
    <3>1. ToPlace(i) /\ mutates'[i] = mutates[i]
      BY <1>1, <1>5, <2>3 DEF ReindexInv
    <3>2. ToPlace(i)'
      BY <1>6, <1>7, <1>9, <3>1 DEF ToPlace
    <3>3. QED BY <1>1, <2>3, <3>2
  <2>4. QED BY <1>1, <2>1, <2>2, <2>3
<1>11. nextId' \in 1..(Len(mutates') + 1)
  BY <1>1, <1>6
<1>12. QED BY <1>1, <1>5, <1>6, <1>7, <1>10, <1>11 DEF ReindexInv

LEMMA AllReindexed ==
  ASSUME ReindexInv, nextId > Len(mutates)
  PROVE  IdsNamePlaces
<1>1. Len(mutates) \in Nat /\ DOMAIN mutates = 1..Len(mutates) /\ nextId \in Nat
  BY ListLength DEF ReindexInv
<1>2. ASSUME NEW i \in DOMAIN mutates PROVE Placed(i)
  BY <1>1 DEF ReindexInv
<1>3. ASSUME NEW i \in DOMAIN mutates, mutates[i].parent # -1
      PROVE  /\ mutates[i].parent \in 0..Len(mutates) - 1
             /\ IsStrictPrefix(At(mutates[i].parent).at, mutates[i].at)
  <2>1. Above(mutates[mutates[i].parent + 1].at, mutates[i].at)
    BY <1>2, <1>3 DEF Placed
  <2>2. QED BY <1>2, <1>3, <2>1, AbovePrefix DEF Placed, At
<1>4. QED BY <1>2, <1>3 DEF IdsNamePlaces, Placed

-----------------------------------------------------------------------------
(* The theorem.                                                            *)

LEMMA AddRootsStep ==
  ASSUME IdsInv, AddRoots
  PROVE  WalkInv'
<1> DEFINE s == AllRoots.stack
           Q == PlacesOf(stack') \cup PlacesOf(mutates)
<1>1. /\ phase = "roots" /\ req \in Requests /\ mutates = <<>> /\ mmap = [i \in {-1} |-> -1]
      /\ \A n \in DOMAIN req.roots : ~RootRefused(req.roots[n])
  BY DEF IdsInv, AddRoots
<1>2. AllRoots.id \in Nat /\ Batch(s, 0, AllRoots.id, {-1}, <<>>)
  BY <1>1, AllRootsRooted DEF Rooted
<1>3. /\ stack' = s /\ UNCHANGED <<mutates, mmap>>
      /\ nextId' = IF AllRoots.id > Len(s) + 1 THEN AllRoots.id ELSE Len(s) + 1
  BY DEF AddRoots
<1>4. Len(s) \in Nat
  BY <1>2, ListLength DEF Batch
<1> DEFINE id == AllRoots.id
<1> HIDE DEF s, id
<1>5. nextId' \in Nat /\ id \in Nat /\ id <= nextId'
  BY <1>2, <1>3, <1>4 DEF id
<1>6. Batch(s, 0, id, {-1}, <<>>)
  BY <1>2 DEF id
<1> HIDE DEF Q
<1>7. Sound(s, id, Q)
  <2> DEFINE parents == {-1}
             at == <<>>
  <2>1. \A k \in parents : k = -1
    OBVIOUS
  <2>2. Batch(s, 0, id, parents, at)
    BY <1>6
  <2> HIDE DEF parents, at
  <2>3. QED BY <1>5, <2>1, <2>2, BatchSound
<1>8. Sound(s, nextId', Q)
  BY <1>5, <1>7, SoundGrows
<1>9. IsList(mutates) /\ DOMAIN mutates = {}
  BY <1>1, ShortLists
<1>10. Sound(mutates, nextId', Q)
  BY <1>9 DEF Sound
<1>11. Places' = Q
  BY <1>3 DEF Q, Places, PlacesOf
<1>12. Mapped'
  BY <1>1, <1>3, <1>9 DEF Mapped
<1>13. Sound(stack', nextId', Places') /\ Sound(mutates', nextId', Places')
  BY <1>3, <1>8, <1>10, <1>11
<1>14. \A i \in DOMAIN stack', j \in DOMAIN mutates' : stack'[i].id # mutates'[j].id
  BY <1>3, <1>9
<1>15. QED BY <1>5, <1>12, <1>13, <1>14 DEF WalkInv

LEMMA ExpandConnectStep ==
  ASSUME WalkInv, ExpandConnect
  PROVE  WalkInv'
<1> DEFINE x == [Top EXCEPT !.render = TRUE]
           one == <<x>>
           P == Places
<1>1. /\ stack # <<>> /\ stack' = Append(Front(stack), x)
      /\ UNCHANGED <<mutates, mmap>> /\ nextId' = nextId
      /\ nextId \in Nat /\ Sound(stack, nextId, P)
  BY DEF ExpandConnect, WalkInv
<1>2. IsItem(Top) /\ Top.id < nextId /\ InPlace(Top, P) /\ IsList(Front(stack))
  BY <1>1, StackTop DEF Sound
<1>3. IsItem(x) /\ x.id = Top.id /\ x.at = Top.at /\ x.parent = Top.parent
  BY <1>2 DEF IsItem, Fields
<1>4. InPlace(x, P)
  BY <1>2, <1>3 DEF InPlace
<1> HIDE DEF x, P
<1>5. stack' = Front(stack) \o one
  <2> DEFINE f == Front(stack)
  <2>1. IsList(f) /\ stack' = Append(f, x)
    BY <1>1, <1>2
  <2> HIDE DEF f
  <2>2. stack' = f \o <<x>>
    BY <2>1, AppendIsConcat
  <2>3. QED BY <2>2 DEF f
<1>6. Sound(one, nextId, P) /\ IdsOf(one) = {x.id} /\ PlacesOf(one) = {<<x.id, x.at>>}
  BY <1>1, <1>2, <1>3, <1>4, SoundOne
<1> HIDE DEF one
<1>7. Sound(one, nextId', Places) /\ <<Top.id, Top.at>> \in PlacesOf(one)
      /\ IdsOf(one) \subseteq {Top.id} \cup nextId..(nextId' - 1)
  BY <1>1, <1>3, <1>6 DEF P
<1>8. nextId' \in Nat /\ nextId <= nextId'
  BY <1>1
<1>9. QED BY <1>1, <1>5, <1>7, <1>8, PushStep

LEMMA ExpandStep ==
  ASSUME WalkInv, Expand, phase' = "walk"
  PROVE  WalkInv'
<1> DEFINE w == Nest(Top)
           m == Recursive(Top)
           bound == Bindings(m, w.items)
           deps == DependsOn(m, w.items)
           rcols == [i \in DOMAIN bound |-> bound[i].rcol]
           cols == DataColumns(m, w.items, w.nested)
           x == [m EXCEPT !.deps = deps, !.rcols = rcols, !.cols = cols, !.render = TRUE]
           xs == Pushes(x, w.items)
           P == Places
<1>1. /\ stack # <<>> /\ ~Top.render /\ UNCHANGED <<mutates, mmap>>
      /\ stack' = Front(stack) \o xs /\ nextId' = w.id
  BY DEF Expand
<1>2. nextId \in Nat /\ Sound(stack, nextId, P)
  BY DEF WalkInv
<1>3. /\ IsItem(Top) /\ Top.id < nextId /\ InPlace(Top, P)
      /\ <<Top.id, Top.at>> \in P
  BY <1>1, <1>2, StackTop DEF Places
<1>4. Walked(Top, w)
  BY <1>1, <1>2, <1>3, NestWalked
<1>5. DOMAIN m = Fields /\ m.id = Top.id /\ m.parent = Top.parent /\ m.at = Top.at
  BY <1>3, RecursiveItem
<1> HIDE DEF w, m, deps, rcols, cols
<1>6. /\ DOMAIN x = Fields /\ x.id = Top.id /\ x.parent = Top.parent /\ x.at = Top.at
      /\ x.render = TRUE
  BY <1>5 DEF Fields
<1> HIDE DEF x, P
<1>7. IsItem(x) /\ InPlace(x, P) /\ <<x.id, x.at>> \in P
  BY <1>3, <1>6 DEF IsItem, InPlace
<1> DEFINE items == w.items
           hi == w.id
<1>8. hi \in Nat /\ nextId <= hi /\ Batch(items, nextId, hi, {x.id, x.parent}, x.at)
  BY <1>4, <1>6 DEF Walked
<1> HIDE DEF items, hi
<1>9. /\ Sound(Pushes(x, items), hi, P)
      /\ <<x.id, x.at>> \in PlacesOf(Pushes(x, items))
      /\ IdsOf(Pushes(x, items)) \subseteq {x.id} \cup nextId..(hi - 1)
  BY <1>2, <1>3, <1>6, <1>7, <1>8, PushesSound
<1>10. xs = Pushes(x, items) /\ nextId' = hi
  BY <1>1 DEF items, hi
<1> HIDE DEF xs
<1>11. /\ Sound(xs, nextId', Places) /\ nextId' \in Nat /\ nextId <= nextId'
       /\ <<Top.id, Top.at>> \in PlacesOf(xs)
       /\ IdsOf(xs) \subseteq {Top.id} \cup nextId..(nextId' - 1)
  BY <1>6, <1>8, <1>9, <1>10 DEF P
<1>12. QED BY <1>1, <1>11, PushStep

LEMMA IdsInit == Init => IdsInv
BY DEF Init, IdsInv

LEMMA IdsStep == IdsInv /\ [Next]_vars => IdsInv'
<1> SUFFICES ASSUME IdsInv, [Next]_vars PROVE IdsInv'
  OBVIOUS
<1>1. CASE AddRoots
  <2>1. WalkInv' /\ phase' = "walk" /\ req' = req
    BY <1>1, AddRootsStep DEF AddRoots
  <2>2. QED BY <2>1 DEF IdsInv
<1>2. CASE RefuseRoots
  BY <1>2 DEF RefuseRoots, IdsInv
<1>3. CASE Render
  <2>1. WalkInv
    BY <1>3 DEF Render, IdsInv
  <2>2. WalkInv' /\ phase' = "walk" /\ req' = req
    BY <1>3, <2>1, RenderStep DEF Render
  <2>3. QED BY <2>2 DEF IdsInv
<1>4. CASE ExpandConnect
  <2>1. WalkInv
    BY <1>4 DEF ExpandConnect, IdsInv
  <2>2. WalkInv' /\ phase' = "walk" /\ req' = req
    BY <1>4, <2>1, ExpandConnectStep DEF ExpandConnect
  <2>3. QED BY <2>2 DEF IdsInv
<1>5. CASE Expand
  <2>1. WalkInv /\ phase = "walk"
    BY <1>5 DEF Expand, IdsInv
  <2>2. req' = req /\ (phase' = "refused" \/ phase' = phase)
    BY <1>5 DEF Expand
  <2>3. CASE phase' = "refused"
    BY <2>2, <2>3 DEF IdsInv
  <2>4. CASE phase' = phase
    <3>1. WalkInv'
      BY <1>5, <2>1, <2>4, ExpandStep
    <3>2. QED BY <2>1, <2>2, <2>4, <3>1 DEF IdsInv
  <2>5. QED BY <2>2, <2>3, <2>4
<1>6. CASE StartReindex
  <2>1. ReindexInv' /\ phase' = "reindex" /\ req' = req
    BY <1>6, WalkDone DEF StartReindex, IdsInv
  <2>2. QED BY <2>1 DEF IdsInv
<1>7. CASE Reindex
  <2>1. ReindexInv
    BY <1>7 DEF Reindex, IdsInv
  <2>2. ReindexInv' /\ phase' = "reindex" /\ req' = req
    BY <1>7, <2>1, ReindexStep DEF Reindex
  <2>3. QED BY <2>2 DEF IdsInv
<1>8. CASE Finish
  <2>1. IdsNamePlaces
    BY <1>8, AllReindexed DEF Finish, IdsInv
  <2>2. IdsNamePlaces' /\ phase' = "done" /\ req' = req
    BY <1>8, <2>1 DEF Finish, IdsNamePlaces, At
  <2>3. QED BY <2>2 DEF IdsInv
<1>9. CASE UNCHANGED vars
  BY <1>9 DEF vars, IdsInv, WalkInv, Places, PlacesOf, Mapped, ReindexInv, Placed, ToPlace,
              IdsNamePlaces, At
<1>10. QED BY <1>1, <1>2, <1>3, <1>4, <1>5, <1>6, <1>7, <1>8, <1>9 DEF Next

\* Whatever the tables, their relations and the request, once compileMutation's
\* list is finished every write has its own place in it as its id, and its
\* parent is the place of a write for a place above it in the request.
THEOREM MutationIdsNamePlaces == Spec => [](Done => IdsNamePlaces)
<1>1. IdsInv => (Done => IdsNamePlaces)
  BY DEF IdsInv, Done
<1>2. QED BY <1>1, IdsInit, IdsStep, PTL DEF Spec

-----------------------------------------------------------------------------
(* Nothing that is nested in a row is dropped: the invariant.              *)

\* A key of the payload of m that nests something, and how often that is written.
Nests(kid, m) == IsTree(Resolved(kid.node)) /\ Relation(kid.name, m.key) # NoRel
Copies(kid, m) ==
  IF Resolved(kid.node).form = "list" /\ ~(m.json \/ kid.node.form = "var")
    THEN Len(Resolved(kid.node).kids) ELSE 1

\* No key is there twice, no row is nested in one of its own table, and connects
\* are to rows that the new row refers to.
RegularRow(m) ==
  \A i \in DOMAIN m.data.kids : LET kid == m.data.kids[i] IN Nests(kid, m) =>
    /\ kid.name # m.key
    /\ IsConnect(kid.node) => ~(<<kid.name, m.key>> \in Refs)
    /\ \A j \in DOMAIN m.data.kids :
         Nests(m.data.kids[j], m) /\ m.data.kids[j].name = kid.name => i = j
Regular == \A m \in Mutates : m.type = "insert" => RegularRow(m)

\* The foreign key of x to y is bound, or will be when n is taken apart.
KeyTo(x, y) == RCol(FkCol(x.table, y.table), PkCol(y.table))
Has(x, rcol) == \E i \in DOMAIN x.rcols : x.rcols[i] = rcol
Will(n, m) ==
  /\ n.type = "insert" /\ n.parent # -1
  /\ \/ n.rel.type = "one-to-one" /\ RCol(n.rel.lc, n.rel.rc) = KeyTo(n, m)
     \/ /\ n.rel.type = "one-to-many" /\ n.rel.lt # n.table
        /\ RCol(n.rel.rc, n.rel.lc) = KeyTo(n, m)
Tied(m, n) ==
  Has(m, KeyTo(m, n)) \/ IF n.render THEN Has(n, KeyTo(n, m)) ELSE Will(n, m)

\* All that is nested under m with a key, with ids in a row.
Under(all, m, name) == {n \in all : n.parent = m.id /\ n.key = name}
Ids(all) == {n.id : n \in all}
InARow(ids, count) == count \in Nat /\ \E lo \in Nat : ids = lo..(lo + count - 1)
KeptKey(all, m, kid) ==
  /\ InARow(Ids(Under(all, m, kid.name)), Copies(kid, m))
  /\ \A n \in Under(all, m, kid.name) : Tied(m, n)
Kept(all, m) ==
  \A i \in DOMAIN m.data.kids : Nests(m.data.kids[i], m) => KeptKey(all, m, m.data.kids[i])

\* Inserts and lookups; only the payload of an item already taken apart has given any.
Typed(x) == x.type \in {"insert", "connect"} /\ (x.type = "insert" => x.key = x.table)
All == ToSet(stack) \cup ToSet(mutates)
KeptInv ==
  /\ \A x \in All : Typed(x)
  /\ \A n, u \in All : u.type = "insert" /\ ~u.render => n.parent # u.id
  /\ \A m \in All : m.type = "insert" /\ m.render /\ RegularRow(m) => Kept(All, m)
  /\ \A i \in DOMAIN mutates : mutates[i].render

\* The same of a list in which up has the places of parents.
UnderPlace(s, up, i, name) == {j \in DOMAIN s : up[j] = i - 1 /\ s[j].key = name}
KeptAt(s, up, i) ==
  LET m == s[i] IN m.type = "insert" /\ RegularRow(m) =>
    \A k \in DOMAIN m.data.kids : LET kid == m.data.kids[k] IN Nests(kid, m) =>
      /\ Cardinality(UnderPlace(s, up, i, kid.name)) = Copies(kid, m)
      /\ \A j \in UnderPlace(s, up, i, kid.name) :
           Has(m, KeyTo(m, s[j])) \/ Has(s[j], KeyTo(s[j], m))
UpTo == [j \in DOMAIN mutates |->
           IF j < nextId THEN mutates[j].parent ELSE Index(mutates[j].parent)]

NestInv ==
  req.stype = "insert" =>
    /\ phase = "walk" => KeptInv
    /\ phase \in {"reindex", "done"} => \A i \in DOMAIN mutates : KeptAt(mutates, UpTo, i)
    /\ phase = "done" => IsList(mutates) /\ nextId \in Nat /\ nextId > Len(mutates)

-----------------------------------------------------------------------------
(* The elements of lists.                                                  *)

LEMMA SetNone == ToSet(<<>>) = {}
BY ShortLists DEF ToSet

LEMMA SetOne ==
  ASSUME NEW x
  PROVE  ToSet(<<x>>) = {x}
<1> DEFINE s == <<x>>
<1>1. DOMAIN s = {1} /\ s[1] = x
  BY ShortLists
<1> HIDE DEF s
<1>2. ToSet(s) = {x}
  BY <1>1 DEF ToSet
<1>3. QED BY <1>2 DEF s

LEMMA SetConcat ==
  ASSUME NEW s, NEW t, IsList(s), IsList(t)
  PROVE  IsList(s \o t) /\ ToSet(s \o t) = ToSet(s) \cup ToSet(t)
<1> DEFINE r == s \o t
<1>1. Len(s) \in Nat /\ DOMAIN s = 1..Len(s) /\ Len(t) \in Nat /\ DOMAIN t = 1..Len(t)
  BY ListLength
<1>2. /\ IsList(r) /\ DOMAIN r = 1..(Len(s) + Len(t))
      /\ \A i \in DOMAIN r : r[i] = IF i <= Len(s) THEN s[i] ELSE t[i - Len(s)]
  BY <1>1, ListConcat
<1> HIDE DEF r
<1>3. \A i \in DOMAIN r : \/ i \in DOMAIN s /\ r[i] = s[i]
                          \/ i - Len(s) \in DOMAIN t /\ r[i] = t[i - Len(s)]
  BY <1>1, <1>2
<1>4. \A i \in DOMAIN s : i \in DOMAIN r /\ r[i] = s[i]
  BY <1>1, <1>2
<1>5. \A i \in DOMAIN t : i + Len(s) \in DOMAIN r /\ r[i + Len(s)] = t[i]
  BY <1>1, <1>2
<1>6. ToSet(r) = ToSet(s) \cup ToSet(t)
  BY <1>3, <1>4, <1>5 DEF ToSet
<1>7. QED BY <1>2, <1>6 DEF r

LEMMA SetAppend ==
  ASSUME NEW s, NEW x, IsList(s)
  PROVE  IsList(Append(s, x)) /\ ToSet(Append(s, x)) = ToSet(s) \cup {x}
<1> DEFINE t == <<x>>
<1>1. Append(s, x) = s \o t
  BY AppendIsConcat
<1>2. IsList(t) /\ ToSet(t) = {x}
  BY ShortLists, SetOne
<1> HIDE DEF t
<1>3. QED BY <1>1, <1>2, SetConcat

LEMMA SetOnly ==
  ASSUME NEW s, IsList(s), NEW places
  PROVE  /\ IsList(Only(s, places))
         /\ ToSet(Only(s, places)) = {s[k] : k \in DOMAIN s \cap places}
<1> DEFINE N == Len(s)
           P(g) == IsOnly(s, places, N, g)
<1>1. N \in Nat /\ DOMAIN s = 1..N
  BY ListLength
<1> HIDE DEF N
<1>2. ASSUME NEW g, P(g)
      PROVE  IsList(g[N]) /\ ToSet(g[N]) = {s[k] : k \in (1..N) \cap places}
  <2> DEFINE T == {n \in 0..N : IsList(g[n]) /\ ToSet(g[n]) = {s[k] : k \in (1..n) \cap places}}
  <2>1. \A k \in 0..N : g[k] = IF k = 0 THEN <<>> ELSE OnlyNext(g[k - 1], s, places, k)
    BY <1>2 DEF IsOnly
  <2>2. 0 \in T
    <3>1. g[0] = <<>>
      BY <1>1, <2>1
    <3>2. IsList(<<>>) /\ ToSet(<<>>) = {}
      BY ShortLists, SetNone
    <3>3. {s[k] : k \in (1..0) \cap places} = {}
      OBVIOUS
    <3>4. QED BY <1>1, <3>1, <3>2, <3>3
  <2>3. ASSUME NEW n \in 1..N, n - 1 \in T PROVE n \in T
    <3> DEFINE q == g[n - 1]
               x == IF n \in places THEN <<s[n]>> ELSE <<>>
    <3>0. n \in 0..N /\ n # 0
      BY <1>1
    <3>1. IsList(q) /\ ToSet(q) = {s[k] : k \in (1..(n - 1)) \cap places} /\ g[n] = q \o x
      <4>1. g[n] = OnlyNext(q, s, places, n)
        BY <2>1, <3>0
      <4>2. IsList(q) /\ ToSet(q) = {s[k] : k \in (1..(n - 1)) \cap places}
        BY <2>3
      <4>3. QED BY <4>1, <4>2 DEF OnlyNext
    <3>2. IsList(x) /\ ToSet(x) = IF n \in places THEN {s[n]} ELSE {}
      BY ShortLists, SetNone, SetOne
    <3> HIDE DEF q, x
    <3>3. IsList(g[n]) /\ ToSet(g[n]) = ToSet(q) \cup ToSet(x)
      BY <3>1, <3>2, SetConcat
    <3>4. \A k : k \in 1..n <=> k \in 1..(n - 1) \/ k = n
      BY <1>1
    <3>5. ToSet(g[n]) = {s[k] : k \in (1..n) \cap places}
      BY <3>1, <3>2, <3>3, <3>4
    <3>6. QED BY <3>3, <3>5
  <2>4. T \in SUBSET Nat
    OBVIOUS
  <2> HIDE DEF T
  <2>5. N \in T
    BY <1>1, <2>2, <2>3, <2>4, Induction
  <2>6. QED BY <2>5 DEF T
<1>3. \E g : P(g)
  BY <1>1, OnlyExists
<1>4. Only(s, places) = (CHOOSE g : P(g))[N]
  BY DEF Only, IsOnly, OnlyNext, N
<1> HIDE DEF P
<1>5. P(CHOOSE g : P(g))
  BY <1>3
<1>6. QED BY <1>1, <1>2, <1>4, <1>5

-----------------------------------------------------------------------------
(* Rows, pushes and bindings.                                              *)

\* How many rows an item stands for.
Count(m) == IF m.data.form = "list" /\ ~m.json THEN Len(m.data.kids) ELSE 1

\* A row of m: what else the items of a list have is its own.
IsRow(x, m) ==
  /\ x.parent = m.parent /\ x.key = m.key /\ x.table = m.table /\ x.type = m.type
  /\ x.rel = m.rel /\ x.render = m.render /\ x.deps = m.deps /\ x.rcols = m.rcols

LEMMA ItemsRows ==
  ASSUME NEW m, IsItem(m), ~m.render
  PROVE  /\ IsList(Items(m)) /\ Len(Items(m)) = Count(m)
         /\ \A x \in ToSet(Items(m)) : IsRow(x, m)
         /\ Ids(ToSet(Items(m))) = m.id..(m.id + Count(m) - 1)
<1>1. m.id \in Nat /\ DOMAIN m = Fields
  BY DEF IsItem
<1>2. ASSUME NEW x, Items(m) = <<x>>, IsRow(x, m), x.id = m.id, Count(m) = 1
      PROVE  /\ IsList(Items(m)) /\ Len(Items(m)) = Count(m)
             /\ \A y \in ToSet(Items(m)) : IsRow(y, m)
             /\ Ids(ToSet(Items(m))) = m.id..(m.id + Count(m) - 1)
  <2>1. IsList(<<x>>) /\ Len(<<x>>) = 1 /\ ToSet(<<x>>) = {x}
    BY ShortLists, SetOne
  <2>2. Ids({x}) = m.id..(m.id + 1 - 1)
    BY <1>1, <1>2 DEF Ids
  <2>3. QED BY <1>2, <2>1, <2>2
<1>3. CASE m.data.form # "list"
  <2>1. Items(m) = <<m>> /\ IsRow(m, m) /\ Count(m) = 1
    BY <1>3 DEF Items, IsRow, Count
  <2>2. QED BY <1>2, <2>1
<1>4. CASE m.data.form = "list" /\ m.json
  <2> DEFINE d == IF m.data.kids = <<>> THEN EmptyPayload(m.table) ELSE UnionOfElements(m.data)
             x == [m EXCEPT !.array = TRUE, !.data = d]
  <2>1. Items(m) = <<x>> /\ Count(m) = 1
    BY <1>4 DEF Items, ProcessList, Rows, Count
  <2> HIDE DEF d
  <2>2. IsRow(x, m) /\ x.id = m.id
    BY <1>1 DEF IsRow, Fields
  <2> HIDE DEF x
  <2>3. QED BY <1>2, <2>1, <2>2
<1>5. CASE m.data.form = "list" /\ ~m.json
  <2> DEFINE n == Len(m.data.kids)
             s == Items(m)
  <2>1. n \in Nat /\ DOMAIN m.data.kids = 1..n /\ Count(m) = n
    BY <1>5, ListLength DEF IsItem, Open, AreKids, Count
  <2>2. s = [i \in 1..n |->
              [m EXCEPT !.data = m.data.kids[i].node, !.id = @ + 1 * (i - 1),
                        !.array = m.data.kids[i].node.form = "list",
                        !.at = Append(@, <<"", i>>)]]
    BY <1>5, <2>1 DEF Items, ProcessList, Rows
  <2> HIDE DEF n
  <2>3. s = [i \in 1..n |-> s[i]] /\ DOMAIN s = 1..n
    BY <2>2
  <2>4. IsList(s) /\ Len(s) = n
    <3> HIDE DEF s
    <3>1. QED BY <2>1, <2>3, ListFromFunction
  <2>5. ASSUME NEW i \in 1..n
        PROVE  IsRow(s[i], m) /\ s[i].id = m.id + (i - 1)
    <3> DEFINE d == m.data.kids[i].node
               x == s[i]
               p == Append(m.at, <<"", i>>)
    <3>1. x = [m EXCEPT !.data = d, !.id = @ + 1 * (i - 1), !.array = d.form = "list", !.at = Append(@, <<"", i>>)]
      BY <2>2
    <3> HIDE DEF d, x, s
    <3>2. IsRow(x, m) /\ x.id = m.id + 1 * (i - 1)
      BY <1>1, <3>1 DEF IsRow, Fields
    <3>3. m.id + 1 * (i - 1) = m.id + (i - 1)
      BY <1>1, <2>1
    <3>4. QED BY <3>2, <3>3 DEF x
  <2> HIDE DEF s
  <2>6. Ids(ToSet(s)) = {m.id + (i - 1) : i \in 1..n}
    BY <2>3, <2>5 DEF Ids, ToSet
  <2>7. {m.id + (i - 1) : i \in 1..n} = m.id..(m.id + n - 1)
    <3>1. \A k \in m.id..(m.id + n - 1) : k - m.id + 1 \in 1..n /\ k = m.id + ((k - m.id + 1) - 1)
      BY <1>1, <2>1
    <3>2. \A i \in 1..n : m.id + (i - 1) \in m.id..(m.id + n - 1)
      BY <1>1, <2>1
    <3>3. QED BY <3>1, <3>2
  <2>8. \A x \in ToSet(s) : IsRow(x, m)
    BY <2>3, <2>5 DEF ToSet
  <2>9. QED BY <2>1, <2>4, <2>6, <2>7, <2>8 DEF s
<1>6. QED BY <1>3, <1>4, <1>5

\* Of what a new row nests, only what has no relation of two tables is not pushed.
LEMMA PushesItems ==
  ASSUME NEW m, m.type = "insert", NEW items, IsList(items)
  PROVE  /\ IsList(Pushes(m, items))
         /\ ToSet(Pushes(m, items)) = {m} \cup
              {y \in ToSet(items) : y.type = "connect" \/ y.rel.type \in {"one-to-one", "one-to-many"}}
<1> DEFINE a == Only(items, Nested(items, "one-to-many"))
           b == Only(items, Nested(items, "one-to-one"))
           c == Only(items, Lookups(items))
           one == <<m>>
<1>1. IsList(a) /\ IsList(b) /\ IsList(c)
  BY SetOnly
<1>2. /\ ToSet(a) = {y \in ToSet(items) : y.type # "connect" /\ y.rel.type = "one-to-many"}
      /\ ToSet(b) = {y \in ToSet(items) : y.type # "connect" /\ y.rel.type = "one-to-one"}
      /\ ToSet(c) = {y \in ToSet(items) : y.type = "connect"}
  <2>1. ToSet(a) = {items[k] : k \in DOMAIN items \cap Nested(items, "one-to-many")}
    BY SetOnly
  <2>2. ToSet(b) = {items[k] : k \in DOMAIN items \cap Nested(items, "one-to-one")}
    BY SetOnly
  <2>3. ToSet(c) = {items[k] : k \in DOMAIN items \cap Lookups(items)}
    BY SetOnly
  <2> HIDE DEF a, b, c
  <2>4. ToSet(a) = {y \in ToSet(items) : y.type # "connect" /\ y.rel.type = "one-to-many"}
    BY <2>1 DEF ToSet, Nested
  <2>5. ToSet(b) = {y \in ToSet(items) : y.type # "connect" /\ y.rel.type = "one-to-one"}
    BY <2>2 DEF ToSet, Nested
  <2>6. ToSet(c) = {y \in ToSet(items) : y.type = "connect"}
    BY <2>3 DEF ToSet, Lookups
  <2>7. QED BY <2>4, <2>5, <2>6
<1>3. IsList(one) /\ ToSet(one) = {m}
  BY ShortLists, SetOne
<1>4. Pushes(m, items) = ((a \o b) \o one) \o c
  BY DEF Pushes
<1> HIDE DEF a, b, c, one
<1> DEFINE d == a \o b
<1>5. IsList(d) /\ ToSet(d) = ToSet(a) \cup ToSet(b)
  BY <1>1, SetConcat
<1> HIDE DEF d
<1> DEFINE e == d \o one
<1>6. IsList(e) /\ ToSet(e) = ToSet(d) \cup {m}
  BY <1>3, <1>5, SetConcat
<1> HIDE DEF e
<1> DEFINE f == e \o c
<1>7. IsList(f) /\ ToSet(f) = ToSet(e) \cup ToSet(c)
  BY <1>1, <1>6, SetConcat
<1>8. Pushes(m, items) = f
  BY <1>4 DEF d, e
<1> HIDE DEF f
<1>9. QED BY <1>2, <1>5, <1>6, <1>7, <1>8

\* What an insert binds: its own relation, its lookups and the rows it refers to.
Binds(bound, rcol) == \E i \in DOMAIN bound : bound[i].rcol = rcol

LEMMA BindsConcat ==
  ASSUME NEW s, NEW t, IsList(s), IsList(t), NEW rcol, Binds(s, rcol) \/ Binds(t, rcol)
  PROVE  IsList(s \o t) /\ Binds(s \o t, rcol)
<1> DEFINE r == s \o t
<1>1. IsList(r) /\ ToSet(r) = ToSet(s) \cup ToSet(t)
  BY SetConcat
<1> HIDE DEF r
<1>2. \E b \in ToSet(r) : b.rcol = rcol
  BY <1>1 DEF Binds, ToSet
<1>3. Binds(r, rcol)
  BY <1>2 DEF Binds, ToSet
<1>4. QED BY <1>1, <1>3 DEF r

LEMMA InsertBinds ==
  ASSUME NEW m, m.type = "insert", NEW items, IsList(items), NEW rcol,
         \/ m.rel.type = "one-to-one" /\ RCol(m.rel.lc, m.rel.rc) = rcol
         \/ /\ m.rel.type = "one-to-many" /\ m.parent # -1 /\ m.rel.lt # m.table
            /\ RCol(m.rel.rc, m.rel.lc) = rcol
         \/ \E y \in ToSet(items) : /\ KeyOf(y) = rcol
                                    /\ \/ y.type = "connect"
                                       \/ y.rel.type = "one-to-many" /\ y.rel.rt = m.table
  PROVE  Binds(Bindings(m, items), rcol)
<1> DEFINE of(places) == [i \in DOMAIN Only(items, places) |->
                            [on |-> Only(items, places)[i].id, rcol |-> KeyOf(Only(items, places)[i])]]
           up(col, value) == <<[on |-> m.parent, rcol |-> RCol(col, value)]>>
           many == {i \in Nested(items, "one-to-many") : items[i].rel.rt = m.table}
           a == IF m.rel.type = "one-to-one" THEN up(m.rel.lc, m.rel.rc) ELSE <<>>
           b == IF /\ m.rel.type = "one-to-many" /\ m.parent # -1
                   /\ m.rel.lt # m.table
                  THEN up(m.rel.rc, m.rel.lc) ELSE <<>>
           c == of(Lookups(items))
           d == of(many)
<1>1. Bindings(m, items) = ((a \o b) \o c) \o d
  BY DEF Bindings
<1>2. ASSUME NEW col, NEW value
      PROVE  IsList(up(col, value)) /\ Binds(up(col, value), RCol(col, value))
  <2> DEFINE x == [on |-> m.parent, rcol |-> RCol(col, value)]
             s == <<x>>
  <2>1. x.rcol = RCol(col, value)
    OBVIOUS
  <2>2. IsList(s) /\ DOMAIN s = {1} /\ s[1] = x
    BY ShortLists
  <2> HIDE DEF x, s
  <2>3. IsList(s) /\ Binds(s, RCol(col, value))
    BY <2>1, <2>2 DEF Binds
  <2>4. QED BY <2>3 DEF s, x
<1>3. ASSUME NEW places
      PROVE  /\ IsList(of(places))
             /\ \A k \in DOMAIN items \cap places : Binds(of(places), KeyOf(items[k]))
  <2> DEFINE o == Only(items, places)
             s == of(places)
  <2>1. IsList(o) /\ ToSet(o) = {items[k] : k \in DOMAIN items \cap places}
    BY SetOnly
  <2>2. s = [i \in DOMAIN o |-> [on |-> o[i].id, rcol |-> KeyOf(o[i])]]
    OBVIOUS
  <2> HIDE DEF o, s
  <2>3. Len(o) \in Nat /\ DOMAIN o = 1..Len(o)
    BY <2>1, ListLength
  <2>4. s = [i \in 1..Len(o) |-> s[i]] /\ DOMAIN s = DOMAIN o /\ \A i \in DOMAIN o : s[i].rcol = KeyOf(o[i])
    BY <2>2, <2>3
  <2>5. IsList(s)
    BY <2>3, <2>4, ListFromFunction
  <2>6. ASSUME NEW k \in DOMAIN items \cap places PROVE Binds(s, KeyOf(items[k]))
    <3>1. \E i \in DOMAIN o : o[i] = items[k]
      BY <2>1 DEF ToSet
    <3>2. QED BY <2>4, <3>1 DEF Binds
  <2>7. QED BY <2>5, <2>6 DEF s
<1>4. IsList(a) /\ (m.rel.type = "one-to-one" => Binds(a, RCol(m.rel.lc, m.rel.rc)))
  BY <1>2, ShortLists
<1>5. IsList(b) /\ (m.rel.type = "one-to-many" /\ m.parent # -1 /\ m.rel.lt # m.table
                      => Binds(b, RCol(m.rel.rc, m.rel.lc)))
  BY <1>2, ShortLists
<1>6. IsList(c) /\ \A k \in DOMAIN items \cap Lookups(items) : Binds(c, KeyOf(items[k]))
  BY <1>3
<1>7. IsList(d) /\ \A k \in DOMAIN items \cap many : Binds(d, KeyOf(items[k]))
  BY <1>3
<1> HIDE DEF a, b, c, d, of, up
<1>8. Binds(a, rcol) \/ Binds(b, rcol) \/ Binds(c, rcol) \/ Binds(d, rcol)
  <2>1. CASE \E y \in ToSet(items) : /\ KeyOf(y) = rcol
                                     /\ \/ y.type = "connect"
                                        \/ y.rel.type = "one-to-many" /\ y.rel.rt = m.table
    <3>1. PICK k \in DOMAIN items : /\ KeyOf(items[k]) = rcol
                                    /\ \/ items[k].type = "connect"
                                       \/ items[k].rel.type = "one-to-many" /\ items[k].rel.rt = m.table
      BY <2>1 DEF ToSet
    <3>2. k \in Lookups(items) \/ k \in many
      BY <3>1 DEF Lookups, Nested
    <3>3. QED BY <1>6, <1>7, <3>1, <3>2
  <2>2. QED BY <1>4, <1>5, <2>1
<1> DEFINE e == a \o b
           f == e \o c
           g == f \o d
<1>9. IsList(e) /\ (Binds(a, rcol) \/ Binds(b, rcol) => Binds(e, rcol))
  BY <1>4, <1>5, BindsConcat, SetConcat
<1> HIDE DEF e
<1>10. IsList(f) /\ (Binds(e, rcol) \/ Binds(c, rcol) => Binds(f, rcol))
  BY <1>6, <1>9, BindsConcat, SetConcat
<1> HIDE DEF f
<1>11. Binds(f, rcol) \/ Binds(d, rcol) => Binds(g, rcol)
  BY <1>7, <1>10, BindsConcat
<1>12. Bindings(m, items) = g
  BY <1>1 DEF e, f
<1> HIDE DEF g
<1>13. QED BY <1>8, <1>9, <1>10, <1>11, <1>12

-----------------------------------------------------------------------------
(* What the keys of a row nest.                                            *)

\* An item for what a key of m nests, and how the two will be tied.
Offspring(m, name, x) ==
  /\ x.parent = m.id /\ x.key = name
  /\ \/ x.type = "connect" /\ KeyOf(x) = KeyTo(m, x)
     \/ /\ x.type = "insert" /\ x.rel.type \in {"one-to-one", "one-to-many"}
        /\ \/ x.rel.type = "one-to-many" /\ x.rel.rt = m.table /\ KeyOf(x) = KeyTo(m, x)
           \/ Will(x, m)

\* What a connect in the payload of a row itself is bound to.
NoKey(m, rcol) == rcol = RCol(NoCol, NoCol) /\ "connect" \in Names(m.data)

\* The foreign keys that a row and the row or lookup it is nested in have for
\* each other are those of their tables.
RelTo(x, m) ==
  /\ x.rel.type = "one-to-one" => RCol(x.rel.lc, x.rel.rc) = KeyTo(x, m)
  /\ x.rel.type = "one-to-many" /\ x.rel.lt # x.table => RCol(x.rel.rc, x.rel.lc) = KeyTo(x, m)
  /\ x.rel.type = "one-to-many" /\ x.rel.rt = m.table => KeyOf(x) = KeyTo(m, x)
LinkedTo(m, x) ==
  /\ x.deps = {} /\ x.rcols = <<>>
  /\ x.type = "insert" => x.parent = m.id /\ RelTo(x, m)
  /\ x.type = "connect" => \/ NoKey(m, KeyOf(x))
                           \/ x.parent = m.id /\ KeyOf(x) = KeyFrom(m, x)

\* An item the payload of m may give: a connect at the top of it belongs to no key.
IsNew(m, x) ==
  /\ Typed(x) /\ ~x.render /\ LinkedTo(m, x)
  /\ x.parent = m.id \/ (x.parent = m.parent /\ x.key = "connect")

\* The keys of m up to n have given what they nest, each with ids in a row.
Given(m, all, n) ==
  /\ \A x \in all : IsNew(m, x)
  /\ RegularRow(m) =>
       /\ \A x \in all : x.key = "connect" \/ \E i \in 1..n :
            Nests(m.data.kids[i], m) /\ Offspring(m, m.data.kids[i].name, x)
       /\ \A i \in 1..n : Nests(m.data.kids[i], m) =>
            InARow(Ids(Under(all, m, m.data.kids[i].name)), Copies(m.data.kids[i], m))

LEMMA GivenMore ==
  ASSUME "connect" \notin Tables, NEW m, NEW all, NEW n \in DOMAIN m.data.kids, n \in Nat \ {0},
         1..n \subseteq DOMAIN m.data.kids, Given(m, all, n - 1), NEW more,
         \A x \in more : IsNew(m, x),
         RegularRow(m) =>
           \/ ~Nests(m.data.kids[n], m) /\ \A x \in more : x.key = "connect"
           \/ /\ Nests(m.data.kids[n], m)
              /\ \A x \in more : Offspring(m, m.data.kids[n].name, x)
              /\ InARow(Ids(more), Copies(m.data.kids[n], m))
  PROVE  Given(m, all \cup more, n)
<1> DEFINE kid(i) == m.data.kids[i]
           U == all \cup more
<1>1. \A x \in U : IsNew(m, x)
  BY DEF Given
<1>2. ASSUME RegularRow(m)
      PROVE  /\ \A x \in U : x.key = "connect" \/ \E i \in 1..n :
                  Nests(kid(i), m) /\ Offspring(m, kid(i).name, x)
             /\ \A i \in 1..n : Nests(kid(i), m) =>
                  InARow(Ids(Under(U, m, kid(i).name)), Copies(kid(i), m))
  <2>1. \A i \in 1..n : i = n \/ i \in 1..(n - 1)
    OBVIOUS
  <2>2. \A i \in 1..(n - 1) : i \in 1..n /\ i # n
    OBVIOUS
  <2>3. \A i, j \in 1..n : Nests(kid(i), m) /\ Nests(kid(j), m) /\ kid(i).name = kid(j).name => i = j
    BY <1>2 DEF RegularRow
  <2>4. \A i \in 1..n : Nests(kid(i), m) => kid(i).name # "connect"
    BY RelationTables DEF Nests
  <2>5. /\ \A x \in all : x.key = "connect" \/ \E i \in 1..(n - 1) :
             Nests(kid(i), m) /\ Offspring(m, kid(i).name, x)
        /\ \A i \in 1..(n - 1) : Nests(kid(i), m) =>
             InARow(Ids(Under(all, m, kid(i).name)), Copies(kid(i), m))
    BY <1>2 DEF Given
  <2>6. \/ ~Nests(kid(n), m) /\ \A x \in more : x.key = "connect"
        \/ /\ Nests(kid(n), m)
           /\ \A x \in more : Offspring(m, kid(n).name, x)
           /\ InARow(Ids(more), Copies(kid(n), m))
    BY <1>2
  <2> HIDE DEF kid
  <2>7. n \in 1..n
    OBVIOUS
  <2>8. \A x \in U : x.key = "connect" \/ \E i \in 1..n :
          Nests(kid(i), m) /\ Offspring(m, kid(i).name, x)
    BY <2>2, <2>5, <2>6, <2>7
  <2>9. ASSUME NEW i \in 1..n, Nests(kid(i), m)
        PROVE  InARow(Ids(Under(U, m, kid(i).name)), Copies(kid(i), m))
    <3>1. CASE i # n
      <4>1. \A x \in more : x.key # kid(i).name
        BY <2>3, <2>4, <2>6, <2>7, <2>9, <3>1 DEF Offspring
      <4>2. Under(U, m, kid(i).name) = Under(all, m, kid(i).name)
        BY <4>1 DEF Under
      <4>3. QED BY <2>1, <2>5, <2>9, <3>1, <4>2
    <3>2. CASE i = n
      <4>1. \A x \in all : x.key # kid(n).name
        BY <2>2, <2>3, <2>4, <2>5, <2>7, <2>9, <3>2 DEF Offspring
      <4>2. \A x \in more : x.parent = m.id /\ x.key = kid(n).name
        BY <2>6, <2>9, <3>2 DEF Offspring
      <4>3. Under(U, m, kid(n).name) = more
        BY <4>1, <4>2 DEF Under
      <4>4. QED BY <2>6, <2>9, <3>2, <4>3
    <3>3. QED BY <3>1, <3>2
  <2>10. QED BY <2>8, <2>9
<1>3. QED BY <1>1, <1>2 DEF Given

\* The relations of two tables.
LEMMA RelationKinds ==
  ASSUME NEW k, NEW t, Relation(k, t) # NoRel
  PROVE  \/ k = t /\ Relation(k, t) = Rel("recursive", t, FkCol(t, t), t, PkCol(t))
         \/ k # t /\ <<k, t>> \in Refs /\ Relation(k, t) = Rel("one-to-one", k, FkCol(k, t), t, PkCol(t))
         \/ k # t /\ Relation(k, t) = Rel("one-to-many", k, PkCol(k), t, FkCol(t, k))
BY DEF Relation

\* The rows of an item nested under m are tied to m.
LEMMA RowsTied ==
  ASSUME NEW m, m.id \in Nat, m.key = m.table, NEW node, NEW key,
         Relation(key, m.key) # NoRel,
         NEW rel, rel = IF node.form = "list" /\ Relation(key, m.key).type = "one-to-one"
                          THEN ReverseRel(Relation(key, m.key)) ELSE Relation(key, m.key),
         NEW x, x.parent = m.id, x.key = key, x.type = "insert", x.rel = rel,
         x.deps = {}, x.rcols = <<>>,
         x.table = IF rel.type = "one-to-many" /\ rel.rt # m.table THEN rel.rt ELSE rel.lt
  PROVE  Typed(x) /\ LinkedTo(m, x) /\ (key # m.key => Offspring(m, key, x))
<1> DEFINE t == m.key
<1>1. CASE key = t /\ Relation(key, t) = Rel("recursive", t, FkCol(t, t), t, PkCol(t))
  <2>1. rel.type = "recursive" /\ rel.lt = t
    BY <1>1 DEF Rel
  <2>2. QED BY <1>1, <2>1 DEF Typed, LinkedTo, RelTo
<1>2. CASE key # t /\ Relation(key, t) = Rel("one-to-many", key, PkCol(key), t, FkCol(t, key))
  <2>1. rel.type = "one-to-many" /\ rel.lt = key /\ rel.lc = PkCol(key) /\ rel.rt = t /\ rel.rc = FkCol(t, key)
    BY <1>2 DEF Rel
  <2>2. x.table = key
    BY <2>1
  <2>3. QED BY <1>2, <2>1, <2>2 DEF Typed, Offspring, KeyOf, KeyTo, LinkedTo, RelTo
<1>3. CASE key # t /\ Relation(key, t) = Rel("one-to-one", key, FkCol(key, t), t, PkCol(t))
  <2>1. CASE node.form = "list"
    <3>1. rel.type = "one-to-many" /\ rel.lt = t /\ rel.lc = PkCol(t) /\ rel.rt = key /\ rel.rc = FkCol(key, t)
      BY <1>3, <2>1 DEF Rel, ReverseRel
    <3>2. x.table = key
      BY <1>3, <3>1
    <3>3. QED BY <1>3, <3>1, <3>2 DEF Typed, Offspring, Will, KeyTo, LinkedTo, RelTo
  <2>2. CASE node.form # "list"
    <3>1. rel.type = "one-to-one" /\ rel.lt = key /\ rel.lc = FkCol(key, t) /\ rel.rt = t /\ rel.rc = PkCol(t)
      BY <1>3, <2>2 DEF Rel
    <3>2. x.table = key
      BY <3>1
    <3>3. QED BY <3>1, <3>2 DEF Typed, Offspring, Will, KeyTo, LinkedTo, RelTo
  <2>3. QED BY <2>1, <2>2
<1>4. QED BY <1>1, <1>2, <1>3, RelationKinds

LEMMA NestKeyGives ==
  ASSUME nextId \in Nat, "connect" \notin Tables, req.stype = "insert",
         NEW m, IsItem(m), ~m.render, m.key = m.table,
         NEW n \in Nat \ {0}, 1..n \subseteq DOMAIN m.data.kids, n \in DOMAIN m.data.kids,
         m.data.kids[n].node \in Payloads, NEW acc, Walked(m, acc),
         ~acc.error => Given(m, ToSet(acc.items), n - 1),
         ~NestKey(m, acc, m.data.kids[n]).error
  PROVE  Given(m, ToSet(NestKey(m, acc, m.data.kids[n]).items), n)
<1> DEFINE kid == m.data.kids[n]
           node == Resolved(kid.node)
           key == kid.name
           mt == req.stype
           found == Relation(key, m.key)
           rel == IF node.form = "list" /\ mt = "insert" /\ found.type = "one-to-one"
                    THEN ReverseRel(found) ELSE found
           toMany == rel.type = "one-to-many"
           isVar == kid.node.form = "var"
           table == IF toMany /\ rel.rt # m.table THEN rel.rt ELSE rel.lt
           at == Append(m.at, <<key, 0>>)
           item == Item(acc.id, m.id, 0, IF toMany /\ mt = "update" THEN "connect" ELSE mt, key,
                        table, rel, node, m.json \/ isVar, m.var \/ isVar, at)
           word == Item(acc.id, m.parent, 0, key, key, m.table, NoRel, node, m.json \/ isVar,
                        FALSE, at)
           lookup == ConnectItem(m, acc.id, key, found, kid.node)
           failing(e) == [acc EXCEPT !.error = e]
           one(x) == [acc EXCEPT !.id = @ + 1, !.items = Append(@, x)]
           rows == [acc EXCEPT !.nested = @ \cup {key}, !.items = @ \o Items(item),
                               !.id = @ + After(Items(item))]
           result == NestKey(m, acc, kid)
           all == ToSet(acc.items)
<1>1. \/ result = acc /\ (acc.error \/ ~IsTree(node))
      \/ ~acc.error /\ found = NoRel /\ \E e : result = failing(e)
      \/ ~acc.error /\ IsTree(node) /\ found = NoRel /\ key = "connect" /\ result = one(word)
      \/ ~acc.error /\ IsTree(node) /\ found # NoRel /\ IsConnect(kid.node) /\ result = one(lookup)
      \/ result = failing(TRUE)
      \/ ~acc.error /\ IsTree(node) /\ found # NoRel /\ result = rows
  <2>1. req.stype # "update"
    OBVIOUS
  <2>2. QED BY <2>1, Zenon DEF NestKey
<1>2. /\ acc.id \in Nat /\ DOMAIN acc = {"items", "id", "nested", "error"} /\ IsList(acc.items)
      /\ m.id \in Nat /\ m.table \in Tables /\ IsList(m.at)
  BY DEF Walked, IsItem, Batch
<1>3. Nests(kid, m) <=> IsTree(node) /\ found # NoRel
  BY DEF Nests
<1>4. node \in Payloads /\ Open(node)
  BY ResolvedPayload, PayloadOpen
<1>5. IsList(at)
  BY <1>2, ListAppend
<1>6. found # NoRel => key \in Tables /\ table \in Tables
  BY RelationTables
<1>7. RegularRow(m) /\ Nests(kid, m) =>
        key # m.key /\ (IsConnect(kid.node) => ~(<<key, m.key>> \in Refs))
  BY DEF RegularRow
<1>8. ASSUME result.items = acc.items, ~acc.error, ~Nests(kid, m)
      PROVE  Given(m, ToSet(result.items), n)
  <2>1. Given(m, all \cup {}, n)
    BY <1>8, GivenMore
  <2>2. QED BY <1>8, <2>1
<1>9. ASSUME NEW x, result = one(x), ~acc.error, IsNew(m, x), x.id = acc.id,
             RegularRow(m) => \/ ~Nests(kid, m) /\ x.key = "connect"
                              \/ Nests(kid, m) /\ Offspring(m, key, x) /\ Copies(kid, m) = 1
      PROVE  Given(m, ToSet(result.items), n)
  <2>1. result.items = Append(acc.items, x)
    BY <1>2, <1>9
  <2>2. ToSet(result.items) = all \cup {x}
    BY <1>2, <2>1, SetAppend
  <2>3. InARow(Ids({x}), 1)
    <3>1. Ids({x}) = acc.id..(acc.id + 1 - 1)
      BY <1>2, <1>9 DEF Ids
    <3>2. QED BY <1>2, <3>1 DEF InARow
  <2>4. Given(m, all \cup {x}, n)
    BY <1>9, <2>3, GivenMore
  <2>5. QED BY <2>2, <2>4
<1>10. CASE result = acc /\ (acc.error \/ ~IsTree(node))
  BY <1>3, <1>8, <1>10
<1>11. CASE ~acc.error /\ found = NoRel /\ \E e : result = failing(e)
  <2>1. result.items = acc.items
    BY <1>2, <1>11
  <2>2. QED BY <1>3, <1>8, <1>11, <2>1
<1>12. CASE ~acc.error /\ IsTree(node) /\ found = NoRel /\ key = "connect" /\ result = one(word)
  <2>1. NoKey(m, KeyOf(word))
    BY <1>12 DEF Item, NoRel, KeyOf, NoKey, Names
  <2>2. IsNew(m, word) /\ word.id = acc.id /\ word.key = "connect"
    BY <1>12, <2>1 DEF Item, Typed, IsNew, LinkedTo
  <2> HIDE DEF word
  <2>3. QED BY <1>3, <1>9, <1>12, <2>2
<1>13. CASE ~acc.error /\ IsTree(node) /\ found # NoRel /\ IsConnect(kid.node) /\ result = one(lookup)
  <2> DEFINE t == IF found.lt = m.table THEN found.rt ELSE found.lt
             d == Member(kid.node, "connect")
             lrel == [found EXCEPT !.lc = IF found.lt = m.table THEN found.rc ELSE found.lc,
                                   !.rc = IF found.lt = m.table THEN found.lc ELSE found.rc]
  <2>1. lookup = Item(acc.id, m.id, 0, "connect", key, t, lrel, d, FALSE, FALSE, at)
    BY Zenon DEF ConnectItem, at
  <2>2. /\ t = key
        /\ RCol(lrel.rc, lrel.lc) =
             IF key # m.table /\ <<key, m.table>> \in Refs
               THEN RCol(PkCol(m.table), FkCol(key, m.table))
               ELSE RCol(FkCol(m.table, key), PkCol(key))
    <3>1. \/ /\ key # m.key /\ ~(<<key, m.key>> \in Refs)
             /\ found = Rel("one-to-many", key, PkCol(key), m.key, FkCol(m.key, key))
          \/ /\ key # m.key /\ <<key, m.key>> \in Refs
             /\ found = Rel("one-to-one", key, FkCol(key, m.key), m.key, PkCol(m.key))
          \/ /\ key = m.key
             /\ found = Rel("recursive", key, FkCol(m.key, key), m.key, PkCol(key))
      BY <1>13 DEF Relation
    <3> HIDE DEF found
    <3>2. QED BY <3>1 DEF Rel
  <2> HIDE DEF t, d, lrel, found
  <2>3. /\ Typed(lookup) /\ ~lookup.render /\ lookup.parent = m.id /\ lookup.id = acc.id
        /\ lookup.key = key /\ lookup.type = "connect" /\ lookup.table = t /\ lookup.rel = lrel
        /\ lookup.deps = {} /\ lookup.rcols = <<>>
    BY <2>1 DEF Item, Typed
  <2> HIDE DEF lookup
  <2>4. ASSUME RegularRow(m) PROVE Offspring(m, key, lookup)
    <3>1. ~(<<key, m.table>> \in Refs)
      BY <1>3, <1>7, <1>13, <2>4
    <3>2. QED BY <2>2, <2>3, <3>1 DEF Offspring, KeyOf, KeyTo
  <2>5. IsNew(m, lookup)
    <3>1. KeyOf(lookup) = KeyFrom(m, lookup)
      BY <2>2, <2>3 DEF KeyOf, KeyFrom, ConnectsDown
    <3>2. QED BY <2>3, <3>1 DEF IsNew, LinkedTo
  <2>6. Copies(kid, m) = 1
    BY <1>13 DEF IsConnect, Resolved, Copies
  <2>7. QED BY <1>3, <1>9, <1>13, <2>3, <2>4, <2>5, <2>6
<1>14. CASE result = failing(TRUE)
  BY <1>2, <1>14
<1>15. CASE ~acc.error /\ IsTree(node) /\ found # NoRel /\ result = rows
  <2>1. /\ IsItem(item) /\ ~item.render /\ item.id = acc.id /\ item.parent = m.id
        /\ item.key = key /\ item.type = "insert" /\ item.rel = rel /\ item.table = table
        /\ item.deps = {} /\ item.rcols = <<>>
    BY <1>2, <1>4, <1>5, <1>6, <1>15 DEF IsItem, Item, Fields
  <2>2. Count(item) = Copies(kid, m)
    BY DEF Item, Count, Copies
  <2> DEFINE r == Items(item)
             more == ToSet(r)
             a == After(r)
  <2>3. rows = [acc EXCEPT !.nested = @ \cup {key}, !.items = @ \o r, !.id = @ + a]
    OBVIOUS
  <2> HIDE DEF item
  <2>4. /\ IsList(r) /\ Len(r) = Count(item) /\ \A x \in more : IsRow(x, item)
        /\ Ids(more) = item.id..(item.id + Count(item) - 1)
    BY <2>1, ItemsRows
  <2> HIDE DEF r, a
  <2>5. result.items = acc.items \o r
    BY <1>2, <1>15, <2>3
  <2>6. ToSet(result.items) = all \cup more
    BY <1>2, <2>4, <2>5, SetConcat
  <2>7. InARow(Ids(more), Copies(kid, m))
    <3>1. Copies(kid, m) \in Nat
      BY <2>1, <2>2, <2>4, ListLength
    <3>2. QED BY <1>2, <2>1, <2>2, <2>4, <3>1 DEF InARow
  <2>8. ASSUME NEW x \in more
        PROVE  IsNew(m, x) /\ (key # m.key => Offspring(m, key, x))
    <3>1. /\ x.parent = m.id /\ x.key = key /\ x.type = "insert" /\ x.rel = rel
          /\ x.table = table /\ ~x.render /\ x.deps = {} /\ x.rcols = <<>>
      BY <2>1, <2>4 DEF IsRow
    <3>2. rel = IF node.form = "list" /\ found.type = "one-to-one" THEN ReverseRel(found) ELSE found
      OBVIOUS
    <3>3. x.table = IF rel.type = "one-to-many" /\ rel.rt # m.table THEN rel.rt ELSE rel.lt
      BY <3>1
    <3> HIDE DEF rel, table, rows, more
    <3>4. Typed(x) /\ LinkedTo(m, x) /\ (key # m.key => Offspring(m, key, x))
      BY <1>2, <1>15, <3>1, <3>2, <3>3, RowsTied
    <3>5. QED BY <3>1, <3>4 DEF IsNew
  <2> HIDE DEF more
  <2>9. Nests(kid, m)
    BY <1>3, <1>15
  <2>10. Given(m, all \cup more, n)
    BY <1>7, <1>15, <2>7, <2>8, <2>9, GivenMore
  <2>11. QED BY <2>6, <2>10
<1> HIDE DEF failing, one, rows, word, lookup, item
<1>16. QED BY <1>1, <1>10, <1>11, <1>12, <1>13, <1>14, <1>15

\* All keys together.
LEMMA NestGives ==
  ASSUME nextId \in Nat, "connect" \notin Tables, req.stype = "insert",
         NEW m, IsItem(m), ~m.render, m.key = m.table, ~Nest(m).error
  PROVE  Given(m, ToSet(Nest(m).items), Len(m.data.kids))
<1> DEFINE N == Len(m.data.kids)
           P(g) == IsWalk(m, N, g)
           Q(acc, n) == Walked(m, acc) /\ (~acc.error => Given(m, ToSet(acc.items), n))
<1>1. N \in Nat /\ DOMAIN m.data.kids = 1..N /\ \A n \in 1..N : m.data.kids[n].node \in Payloads
  BY ListLength DEF IsItem, Open, AreKids
<1> HIDE DEF N
<1>2. ASSUME NEW g, P(g) PROVE Q(g[N], N)
  <2> DEFINE T == {n \in 0..N : Q(g[n], n)}
             none == [items |-> <<>>, id |-> nextId, nested |-> {}, error |-> FALSE]
  <2>1. \A k \in 0..N : g[k] = IF k = 0 THEN none ELSE NestKey(m, g[k - 1], m.data.kids[k])
    BY <1>2 DEF IsWalk
  <2>2. 0 \in T
    <3>1. Batch(<<>>, nextId, nextId, {m.id, m.parent}, m.at)
      BY BatchNone
    <3>2. Walked(m, none)
      BY <3>1 DEF Walked
    <3>3. ToSet(none.items) = {}
      BY SetNone
    <3> HIDE DEF none
    <3>4. Given(m, ToSet(none.items), 0)
      BY <3>3 DEF Given
    <3>5. QED BY <1>1, <2>1, <3>2, <3>4
  <2> HIDE DEF none
  <2>3. ASSUME NEW n \in 1..N, n - 1 \in T PROVE n \in T
    <3> DEFINE a == g[n - 1]
               b == NestKey(m, a, m.data.kids[n])
    <3>1. Q(a, n - 1) /\ g[n] = b /\ n \in Nat \ {0} /\ 1..n \subseteq 1..N
      BY <1>1, <2>1, <2>3
    <3> HIDE DEF a
    <3>2. Walked(m, b)
      BY <1>1, <3>1, NestKeyWalked
    <3>3. ASSUME ~b.error PROVE Given(m, ToSet(b.items), n)
      BY <1>1, <3>1, <3>3, NestKeyGives
    <3> HIDE DEF b
    <3>4. QED BY <3>1, <3>2, <3>3
  <2>4. T \in SUBSET Nat
    OBVIOUS
  <2> HIDE DEF T
  <2>5. 0..N \subseteq T
    BY <1>1, <2>2, <2>3, <2>4, Induction
  <2>6. N \in T
    BY <1>1, <2>5
  <2>7. QED BY <2>6 DEF T
<1>3. \E g : P(g)
  BY <1>1, WalkExists
<1> DEFINE w == (CHOOSE g : P(g))[N]
           more == /\ m.rel.type = "recursive"
                   /\ Recursive(m).rel.type = "one-to-many"
                   /\ req.stype = "insert"
<1>4. Nest(m) = [w EXCEPT !.error = @ \/ more]
  BY DEF Nest, IsWalk, N
<1> HIDE DEF P, more
<1>5. P(CHOOSE g : P(g))
  BY <1>3
<1>6. Q(w, N)
  BY <1>2, <1>5
<1> HIDE DEF w
<1>7. Nest(m).items = w.items /\ ~w.error
  <2>1. DOMAIN w = {"items", "id", "nested", "error"}
    BY <1>6 DEF Walked
  <2>2. Nest(m).items = w.items /\ Nest(m).error = (w.error \/ more)
    BY <1>4, <2>1
  <2>3. QED BY <2>2
<1>8. QED BY <1>6, <1>7 DEF N

-----------------------------------------------------------------------------
(* The roots.                                                              *)

IsRooted(x) ==
  /\ x.type = "insert" /\ x.key = x.table /\ ~x.render
  /\ x.rel = NoRel /\ x.deps = {} /\ x.rcols = <<>>

LEMMA AddRootGives ==
  ASSUME req \in Requests, req.stype = "insert", NEW n \in DOMAIN req.roots,
         ~RootRefused(req.roots[n]), NEW acc, Rooted(acc), \A x \in ToSet(acc.stack) : IsRooted(x)
  PROVE  \A x \in ToSet(AddRoot(acc, n).stack) : IsRooted(x)
<1> DEFINE ms == RootItems(n, acc.id)
           m == RootItem(n, acc.id)
           s == acc.stack
<1>1. acc.id \in Nat /\ IsList(s)
  BY DEF Rooted, Batch
<1>2. IsItem(m) /\ ~m.render
  BY <1>1, RootItemIs
<1>3. m.type = "insert" /\ m.key = m.table /\ m.rel = NoRel /\ m.deps = {} /\ m.rcols = <<>>
  BY DEF RootItem, Item
<1>4. ms = Items(m)
  BY DEF RootItems
<1>5. AddRoot(acc, n).stack = s \o ms
  BY DEF AddRoot
<1> HIDE DEF ms, m
<1>6. IsList(ms) /\ \A x \in ToSet(ms) : IsRow(x, m)
  BY <1>2, <1>4, ItemsRows
<1>7. \A x \in ToSet(ms) : IsRooted(x)
  BY <1>2, <1>3, <1>6 DEF IsRow, IsRooted
<1>8. ToSet(s \o ms) = ToSet(s) \cup ToSet(ms)
  BY <1>1, <1>6, SetConcat
<1>9. QED BY <1>5, <1>7, <1>8

LEMMA AllRootsGive ==
  ASSUME req \in Requests, req.stype = "insert", \A n \in DOMAIN req.roots : ~RootRefused(req.roots[n])
  PROVE  Rooted(AllRoots) /\ \A x \in ToSet(AllRoots.stack) : IsRooted(x)
<1> DEFINE N == Len(req.roots)
           P(g) == IsRoots(N, g)
           Q(acc) == Rooted(acc) /\ \A x \in ToSet(acc.stack) : IsRooted(x)
<1>1. N \in Nat /\ DOMAIN req.roots = 1..N
  BY ListLength, RequestAssumption DEF AreMadeOf
<1> HIDE DEF N
<1>2. ASSUME NEW g, P(g) PROVE Q(g[N])
  <2> DEFINE T == {n \in 0..N : Q(g[n])}
             none == [stack |-> <<>>, id |-> 0]
  <2>1. \A k \in 0..N : g[k] = IF k = 0 THEN none ELSE AddRoot(g[k - 1], k)
    BY <1>2 DEF IsRoots
  <2>2. 0 \in T
    <3>1. Batch(<<>>, 0, 0, {-1}, <<>>)
      BY BatchNone
    <3>2. Rooted(none) /\ ToSet(none.stack) = {}
      BY <3>1, SetNone DEF Rooted
    <3> HIDE DEF none
    <3>3. QED BY <1>1, <2>1, <3>2
  <2> HIDE DEF none
  <2>3. ASSUME NEW n \in 1..N, n - 1 \in T PROVE n \in T
    <3>1. Q(g[n - 1]) /\ g[n] = AddRoot(g[n - 1], n)
      BY <1>1, <2>1, <2>3
    <3>2. Q(g[n])
      BY <1>1, <3>1, AddRootRooted, AddRootGives
    <3>3. QED BY <3>2
  <2>4. T \in SUBSET Nat
    OBVIOUS
  <2> HIDE DEF T
  <2>5. 0..N \subseteq T
    BY <1>1, <2>2, <2>3, <2>4, Induction
  <2>6. N \in T
    BY <1>1, <2>5
  <2>7. QED BY <2>6 DEF T
<1>3. \E g : P(g)
  BY <1>1, RootsExist
<1>4. AllRoots = (CHOOSE g : P(g))[N]
  BY DEF AllRoots, IsRoots, N
<1> HIDE DEF P
<1>5. P(CHOOSE g : P(g))
  BY <1>3
<1>6. QED BY <1>2, <1>4, <1>5

\* At first nothing has been taken apart.
LEMMA RootsKept ==
  ASSUME req \in Requests, req.stype = "insert", AddRoots, mutates = <<>>
  PROVE  KeptInv'
<1> DEFINE s == AllRoots.stack
<1>1. Rooted(AllRoots) /\ \A x \in ToSet(s) : IsRooted(x)
  BY AllRootsGive DEF AddRoots
<1>2. stack' = s /\ mutates' = <<>>
  BY DEF AddRoots
<1>3. \A x \in ToSet(s) : x.parent = -1 /\ x.id \in Nat
  BY <1>1 DEF Rooted, Batch, IsItem, ToSet
<1> HIDE DEF s
<1>4. All' = ToSet(s)
  BY <1>2, SetNone DEF All
<1>5. DOMAIN mutates' = {}
  BY <1>2, ShortLists
<1>6. /\ \A x \in All' : Typed(x)
      /\ \A n, u \in All' : u.type = "insert" /\ ~u.render => n.parent # u.id
      /\ \A m \in All' : ~m.render
  BY <1>1, <1>3, <1>4 DEF IsRooted, Typed
<1>7. QED BY <1>5, <1>6 DEF KeptInv

-----------------------------------------------------------------------------
(* The steps of the walk.                                                  *)

LEMMA StackSet ==
  ASSUME IsList(stack), stack # <<>>
  PROVE  IsList(Front(stack)) /\ ToSet(stack) = ToSet(Front(stack)) \cup {Top}
<1> DEFINE f == Front(stack)
           n == Len(stack)
<1>1. /\ IsList(f) /\ n \in Nat \ {0} /\ DOMAIN f = 1..(n - 1) /\ DOMAIN stack = 1..n
      /\ \A i \in 1..(n - 1) : f[i] = stack[i]
  BY ListFront
<1>2. Top = stack[n] /\ n \in DOMAIN stack
  BY <1>1 DEF Top
<1> HIDE DEF f, n
<1>3. \A i \in DOMAIN stack : i = n \/ (i \in DOMAIN f /\ stack[i] = f[i])
  BY <1>1
<1>4. \A i \in DOMAIN f : i \in DOMAIN stack /\ f[i] = stack[i]
  BY <1>1
<1>5. ToSet(stack) = ToSet(f) \cup {Top}
  BY <1>2, <1>3, <1>4 DEF ToSet
<1>6. QED BY <1>1, <1>5 DEF f

LEMMA RenderKept ==
  ASSUME WalkInv, KeptInv, Render
  PROVE  KeptInv'
<1>1. IsList(stack) /\ IsList(mutates)
  BY DEF WalkInv, Sound
<1>2. stack # <<>> /\ stack' = Front(stack) /\ mutates' = Append(mutates, Top) /\ Top.render
  BY DEF Render
<1>3. ToSet(stack) = ToSet(stack') \cup {Top} /\ ToSet(mutates') = ToSet(mutates) \cup {Top}
  BY <1>1, <1>2, StackSet, SetAppend
<1>4. All' = All
  BY <1>3 DEF All
<1>5. \A x \in ToSet(mutates') : x.render
  BY <1>2, <1>3 DEF KeptInv, ToSet
<1>6. \A i \in DOMAIN mutates' : mutates'[i].render
  BY <1>5 DEF ToSet
<1>7. QED BY <1>4, <1>6 DEF KeptInv

\* The top of the stack is taken apart, into itself and what is new.
LEMMA TakenApart ==
  ASSUME "connect" \notin Tables, KeptInv, ~Top.render,
         NEW R, NEW x, NEW new, All = R \cup {Top}, All' = R \cup {x} \cup new,
         x.id = Top.id, x.parent = Top.parent, x.key = Top.key, x.type = Top.type,
         x.table = Top.table, x.render,
         \A r \in R : r.id # Top.id,
         \A n \in new : IsNew(Top, n) /\ \A r \in R \cup {x} : n.id # r.id /\ n.id # r.parent,
         \A m : Will(Top, m) => Has(x, KeyTo(x, m)),
         x.type = "insert" /\ RegularRow(x) => Kept(new, x),
         UNCHANGED mutates
  PROVE  KeptInv'
<1>1. \A y \in All' : Typed(y)
  BY DEF KeptInv, IsNew, Typed
<1>2. ASSUME NEW n \in All', NEW u \in All', u.type = "insert", ~u.render
      PROVE  n.parent # u.id
  <2>1. u \in R \/ u \in new
    BY <1>2
  <2>2. \A r \in R \cup {Top} : u \in R => r.parent # u.id
    BY <1>2 DEF KeptInv
  <2>3. CASE n \in R \cup {x}
    BY <2>1, <2>2, <2>3
  <2>4. CASE n \in new
    <3>1. n.parent = x.id \/ n.parent = x.parent
      BY <2>4 DEF IsNew
    <3>2. QED BY <2>1, <2>2, <3>1
  <2>5. QED BY <2>3, <2>4
<1>3. ASSUME NEW m \in All', m.type = "insert", m.render, RegularRow(m)
      PROVE  Kept(All', m)
  <2>1. CASE m \in R
    <3>1. Kept(All, m)
      BY <1>3, <2>1 DEF KeptInv
    <3>2. ASSUME NEW i \in DOMAIN m.data.kids, Nests(m.data.kids[i], m)
          PROVE  KeptKey(All', m, m.data.kids[i])
      <4> DEFINE kid == m.data.kids[i]
      <4>1. KeptKey(All, m, kid)
        BY <3>1, <3>2 DEF Kept
      <4>2. kid.name # "connect"
        BY <3>2, RelationTables DEF Nests
      <4> HIDE DEF kid
      <4>3. Under(All', m, kid.name) = Under(R \cup {x}, m, kid.name)
        <5>1. \A n \in new : ~(n.parent = m.id /\ n.key = kid.name)
          BY <2>1, <4>2 DEF IsNew
        <5>2. QED BY <5>1 DEF Under
      <4>4. Ids(Under(R \cup {x}, m, kid.name)) = Ids(Under(All, m, kid.name))
        BY DEF Under, Ids
      <4>5. ASSUME NEW n \in Under(R \cup {x}, m, kid.name) PROVE Tied(m, n)
        <5>1. CASE n \in R
          <6>1. n \in Under(All, m, kid.name)
            BY <4>5, <5>1 DEF Under
          <6>2. QED BY <4>1, <6>1 DEF KeptKey
        <5>2. CASE n = x
          <6>1. Top \in Under(All, m, kid.name)
            BY <4>5, <5>2 DEF Under
          <6>2. Has(m, KeyTo(m, Top)) \/ Will(Top, m)
            BY <4>1, <6>1 DEF KeptKey, Tied
          <6>3. KeyTo(m, Top) = KeyTo(m, x)
            BY DEF KeyTo
          <6>4. QED BY <5>2, <6>2, <6>3 DEF Tied
        <5>3. QED BY <4>5, <5>1, <5>2 DEF Under
      <4>6. KeptKey(All', m, kid)
        BY <4>1, <4>3, <4>4, <4>5 DEF KeptKey
      <4>7. QED BY <4>6 DEF kid
    <3>3. QED BY <3>2 DEF Kept
  <2>2. CASE m = x
    <3>1. Kept(new, x) /\ Top.type = "insert"
      BY <1>3, <2>2
    <3>2. \A r \in R \cup {Top} : r.parent # x.id
      BY <3>1 DEF KeptInv
    <3>3. ASSUME NEW name PROVE Under(All', x, name) = Under(new, x, name)
      BY <3>2 DEF Under
    <3>4. Kept(All', x)
      BY <3>1, <3>3 DEF Kept, KeptKey
    <3>5. QED BY <2>2, <3>4
  <2>3. CASE m \in new
    BY <1>3, <2>3 DEF IsNew
  <2>4. QED BY <2>1, <2>2, <2>3
<1>4. \A i \in DOMAIN mutates' : mutates'[i].render
  BY DEF KeptInv
<1>5. QED BY <1>1, <1>2, <1>3, <1>4 DEF KeptInv

\* What is below the top of the stack and in the list: its ids and parents are old.
Rest == ToSet(Front(stack)) \cup ToSet(mutates)

LEMMA RestIs ==
  ASSUME WalkInv, stack # <<>>
  PROVE  /\ All = Rest \cup {Top}
         /\ \A r \in Rest : r.id # Top.id
         /\ \A r \in Rest \cup {Top} : r.id < nextId /\ r.parent < nextId
<1>1. /\ nextId \in Nat /\ Sound(stack, nextId, Places) /\ Sound(mutates, nextId, Places)
      /\ \A i \in DOMAIN stack, j \in DOMAIN mutates : stack[i].id # mutates[j].id
      /\ IsList(stack)
  BY DEF WalkInv, Sound
<1>2. ToSet(stack) = ToSet(Front(stack)) \cup {Top}
  BY <1>1, StackSet
<1>3. All = Rest \cup {Top}
  BY <1>2 DEF All, Rest
<1>4. Top.id \notin IdsOf(Front(stack))
  BY <1>1, StackTop
<1>5. \A r \in ToSet(mutates) : r.id # Top.id
  <2>1. \E i \in DOMAIN stack : stack[i] = Top
    BY <1>2 DEF ToSet
  <2>2. QED BY <1>1, <2>1 DEF ToSet
<1>6. \A r \in Rest : r.id # Top.id
  BY <1>4, <1>5 DEF Rest, IdsOf, ToSet
<1>7. ASSUME NEW r \in All PROVE r.id < nextId /\ r.parent < nextId
  <2>1. r.id < nextId /\ InPlace(r, Places)
    BY <1>1 DEF All, ToSet, Sound
  <2>2. \A p \in Places : p[1] < nextId
    <3>1. \A i \in DOMAIN stack : stack[i].id < nextId
      BY <1>1 DEF Sound
    <3>2. \A i \in DOMAIN mutates : mutates[i].id < nextId
      BY <1>1 DEF Sound
    <3>3. QED BY <3>1, <3>2 DEF Places, PlacesOf
  <2>3. QED BY <1>1, <2>1, <2>2 DEF InPlace
<1>8. QED BY <1>3, <1>6, <1>7

LEMMA ExpandConnectKept ==
  ASSUME "connect" \notin Tables, req.stype = "insert", WalkInv, KeptInv, ExpandConnect
  PROVE  KeptInv'
<1> DEFINE x == [Top EXCEPT !.render = TRUE]
           new == {}
<1>1. /\ stack # <<>> /\ ~Top.render /\ stack' = Append(Front(stack), x)
      /\ Top.type \in {"connect", "disconnect"} /\ UNCHANGED mutates
      /\ IsList(stack) /\ Sound(stack, nextId, Places)
  BY DEF ExpandConnect, WalkInv, Sound
<1>2. IsItem(Top)
  BY <1>1, StackTop
<1>3. /\ x.id = Top.id /\ x.parent = Top.parent /\ x.key = Top.key /\ x.type = Top.type
      /\ x.table = Top.table /\ x.render
  BY <1>2 DEF IsItem, Fields
<1> HIDE DEF x
<1>4. All = Rest \cup {Top} /\ \A r \in Rest : r.id # Top.id
  BY <1>1, RestIs
<1>5. IsList(Front(stack))
  BY <1>1, StackSet
<1> DEFINE f == Front(stack)
<1>6. stack' = Append(f, x)
  BY <1>1
<1>7. Rest = ToSet(f) \cup ToSet(mutates) /\ IsList(f)
  BY <1>5 DEF Rest
<1> HIDE DEF f
<1>8. ToSet(stack') = ToSet(f) \cup {x}
  BY <1>6, <1>7, SetAppend
<1>9. All' = Rest \cup {x} \cup new
  BY <1>1, <1>7, <1>8 DEF All
<1>10. Top.type # "insert"
  BY <1>1
<1>11. \A m : ~Will(Top, m)
  BY <1>10 DEF Will
<1>12. \A n \in new : FALSE
  OBVIOUS
<1> HIDE DEF new
<1>13. QED BY <1>1, <1>3, <1>4, <1>9, <1>10, <1>11, <1>12, TakenApart

LEMMA RecursiveKeeps ==
  ASSUME NEW m, IsItem(m)
  PROVE  /\ Recursive(m).key = m.key /\ Recursive(m).table = m.table /\ Recursive(m).type = m.type
         /\ Recursive(m).data = m.data /\ Recursive(m).json = m.json
         /\ m.rel.type # "recursive" => Recursive(m) = m
<1> DEFINE r == FlipRel([m.rel EXCEPT !.type = "one-to-many"])
<1>1. \/ Recursive(m) = m
      \/ Recursive(m) = [m EXCEPT !.rel.type = "one-to-one"]
      \/ Recursive(m) = [m EXCEPT !.rel = r]
  BY DEF Recursive
<1> HIDE DEF r
<1>2. m.rel.type # "recursive" => Recursive(m) = m
  BY Zenon DEF Recursive
<1>3. QED BY <1>1, <1>2 DEF IsItem, Fields

\* What the keys of a row have given is kept, if it is tied.
LEMMA GivenKept ==
  ASSUME "connect" \notin Tables, NEW m, NEW all, NEW n, DOMAIN m.data.kids = 1..n,
         Given(m, all, n),
         NEW x, x.id = m.id, x.key = m.key, x.table = m.table, x.data = m.data, x.json = m.json,
         \A y \in all : \/ y.type = "connect"
                        \/ y.rel.type = "one-to-many" /\ y.rel.rt = m.table
                        => Has(x, KeyOf(y)),
         RegularRow(x)
  PROVE  Kept({y \in all : y.type = "connect" \/ y.rel.type \in {"one-to-one", "one-to-many"}}, x)
<1> DEFINE new == {y \in all : y.type = "connect" \/ y.rel.type \in {"one-to-one", "one-to-many"}}
<1>1. /\ \A kid : Nests(kid, x) = Nests(kid, m) /\ Copies(kid, x) = Copies(kid, m)
      /\ \A y : KeyTo(x, y) = KeyTo(m, y) /\ KeyTo(y, x) = KeyTo(y, m)
  BY DEF Nests, Copies, KeyTo
<1>2. RegularRow(m)
  BY <1>1 DEF RegularRow
<1>3. ASSUME NEW i \in 1..n, Nests(m.data.kids[i], m)
      PROVE  KeptKey(new, x, m.data.kids[i])
  <2> DEFINE kid == m.data.kids[i]
  <2>1. InARow(Ids(Under(all, m, kid.name)), Copies(kid, m))
    BY <1>2, <1>3 DEF Given
  <2>2. kid.name # "connect"
    BY <1>3, RelationTables DEF Nests
  <2>3. \A y \in Under(all, m, kid.name) : Offspring(m, kid.name, y) /\ ~y.render
    <3>1. \A y \in all : /\ ~y.render
                         /\ y.key = "connect" \/ \E j \in 1..n : Offspring(m, m.data.kids[j].name, y)
      BY <1>2 DEF Given, IsNew
    <3>2. \A y \in all : y.key = "connect" \/ Offspring(m, y.key, y)
      BY <3>1 DEF Offspring
    <3> HIDE DEF kid
    <3>3. QED BY <2>2, <3>1, <3>2 DEF Under
  <2> HIDE DEF kid
  <2>4. Under(new, x, kid.name) = Under(all, m, kid.name)
    BY <2>3 DEF Under, Offspring
  <2>5. ASSUME NEW y \in Under(all, m, kid.name) PROVE Tied(x, y)
    <3>1. Offspring(m, kid.name, y) /\ ~y.render /\ y \in all
      BY <2>3 DEF Under
    <3>2. CASE Will(y, m)
      <4>1. Will(y, x)
        BY <1>1, <3>2 DEF Will
      <4>2. QED BY <3>1, <4>1 DEF Tied
    <3>3. CASE ~Will(y, m)
      <4>1. /\ KeyOf(y) = KeyTo(m, y)
            /\ y.type = "connect" \/ (y.rel.type = "one-to-many" /\ y.rel.rt = m.table)
        BY <3>1, <3>3 DEF Offspring
      <4>2. Has(x, KeyTo(x, y))
        BY <1>1, <3>1, <4>1
      <4>3. QED BY <4>2 DEF Tied
    <3>4. QED BY <3>2, <3>3
  <2>6. KeptKey(new, x, kid)
    BY <1>1, <2>1, <2>4, <2>5 DEF KeptKey
  <2>7. QED BY <2>6 DEF kid
<1> HIDE DEF new
<1>4. Kept(new, x)
  BY <1>1, <1>3 DEF Kept
<1>5. QED BY <1>4 DEF new

LEMMA ExpandKept ==
  ASSUME "connect" \notin Tables, req.stype = "insert", WalkInv, KeptInv, Expand, phase' = "walk"
  PROVE  KeptInv'
<1> DEFINE w == Nest(Top)
           m == Recursive(Top)
           bound == Bindings(m, w.items)
           deps == DependsOn(m, w.items)
           rcols == [i \in DOMAIN bound |-> bound[i].rcol]
           cols == DataColumns(m, w.items, w.nested)
           x == [m EXCEPT !.deps = deps, !.rcols = rcols, !.cols = cols, !.render = TRUE]
           xs == Pushes(x, w.items)
           all == ToSet(w.items)
           new == {y \in all : y.type = "connect" \/ y.rel.type \in {"one-to-one", "one-to-many"}}
           f == Front(stack)
           N == Len(Top.data.kids)
<1>1. /\ phase = "walk" /\ stack # <<>> /\ ~Top.render /\ UNCHANGED mutates
      /\ stack' = f \o xs /\ nextId' = w.id /\ ~w.error
      /\ Top.type \notin {"connect", "disconnect"}
  BY DEF Expand
<1>2. /\ nextId \in Nat /\ Sound(stack, nextId, Places) /\ IsList(stack) /\ IsItem(Top)
  BY <1>1, StackTop DEF WalkInv, Sound
<1>3. All = Rest \cup {Top} /\ (\A r \in Rest : r.id # Top.id)
      /\ \A r \in Rest \cup {Top} : r.id < nextId /\ r.parent < nextId
  BY <1>1, RestIs
<1>4. Top.type = "insert" /\ Top.key = Top.table
  BY <1>1, <1>3 DEF KeptInv, Typed
<1>5. /\ DOMAIN m = Fields /\ m.id = Top.id /\ m.parent = Top.parent
      /\ m.key = Top.key /\ m.table = Top.table /\ m.type = "insert"
      /\ m.data = Top.data /\ m.json = Top.json
      /\ Top.rel.type # "recursive" => m = Top
  BY <1>2, <1>4, RecursiveItem, RecursiveKeeps
<1>6. Walked(Top, w) /\ Given(Top, all, N)
  BY <1>1, <1>2, <1>4, NestWalked, NestGives
<1>7. N \in Nat /\ DOMAIN Top.data.kids = 1..N
  BY <1>1, <1>2, ListLength DEF IsItem, Open, AreKids
<1>8. IsList(w.items) /\ \A y \in all : y.id \in nextId..(w.id - 1)
  BY <1>6 DEF Walked, Batch, ToSet
<1> DEFINE items == w.items
<1>9. ASSUME NEW rcol,
             \/ m.rel.type = "one-to-one" /\ RCol(m.rel.lc, m.rel.rc) = rcol
             \/ /\ m.rel.type = "one-to-many" /\ m.parent # -1 /\ m.rel.lt # m.table
                /\ RCol(m.rel.rc, m.rel.lc) = rcol
             \/ \E y \in ToSet(items) : /\ KeyOf(y) = rcol
                                        /\ \/ y.type = "connect"
                                           \/ y.rel.type = "one-to-many" /\ y.rel.rt = m.table
      PROVE  \E i \in DOMAIN rcols : rcols[i] = rcol
  <2>1. IsList(items)
    BY <1>8
  <2> HIDE DEF m, items
  <2>2. Binds(Bindings(m, items), rcol)
    BY <1>5, <1>9, <2>1, InsertBinds
  <2>3. bound = Bindings(m, items)
    BY DEF items
  <2> HIDE DEF bound
  <2>4. QED BY <2>2, <2>3 DEF Binds
<1> HIDE DEF w, m, deps, rcols, cols
<1>10. /\ x.id = Top.id /\ x.parent = Top.parent /\ x.key = Top.key /\ x.table = Top.table
       /\ x.type = "insert" /\ x.data = Top.data /\ x.json = Top.json /\ x.render = TRUE
       /\ x.rcols = rcols
  BY <1>5 DEF Fields
<1> HIDE DEF x
<1>11. ASSUME NEW u PROVE Will(Top, u) => Has(x, KeyTo(x, u))
  <2>1. Will(Top, u) => m = Top
    BY <1>5 DEF Will
  <2>2. KeyTo(x, u) = KeyTo(Top, u)
    BY <1>10 DEF KeyTo
  <2>3. QED BY <1>9, <1>10, <2>1, <2>2 DEF Will, Has
<1>12. \A y \in all : \/ y.type = "connect"
                      \/ y.rel.type = "one-to-many" /\ y.rel.rt = Top.table
                      => Has(x, KeyOf(y))
  BY <1>5, <1>9, <1>10 DEF Has
<1>13. RegularRow(x) => Kept(new, x)
  BY <1>6, <1>7, <1>10, <1>12, GivenKept
<1>14. IsList(xs) /\ ToSet(xs) = {x} \cup new
  <2>1. IsList(items)
    BY <1>8
  <2> HIDE DEF items
  <2>2. IsList(Pushes(x, items)) /\ ToSet(Pushes(x, items)) = {x} \cup
          {y \in ToSet(items) : y.type = "connect" \/ y.rel.type \in {"one-to-one", "one-to-many"}}
    BY <1>10, <2>1, PushesItems
  <2>3. QED BY <2>2 DEF items
<1>15. \A y \in new : IsNew(Top, y) /\ \A r \in Rest \cup {x} : y.id # r.id /\ y.id # r.parent
  <2>1. \A y \in all : IsNew(Top, y) /\ y.id >= nextId
    BY <1>6, <1>8 DEF Given
  <2>2. \A r \in Rest \cup {x} : r.id < nextId /\ r.parent < nextId
    BY <1>3, <1>10
  <2>3. ASSUME NEW y \in all, NEW r \in Rest \cup {x} PROVE y.id # r.id /\ y.id # r.parent
    <3>1. y.id \in Int /\ nextId <= y.id /\ r.id < nextId /\ r.parent < nextId
      BY <1>2, <1>8, <2>1, <2>2
    <3>2. QED BY <1>2, <3>1
  <2>4. QED BY <2>1, <2>3
<1>16. IsList(f)
  BY <1>1, <1>2, StackSet
<1>17. Rest = ToSet(f) \cup ToSet(mutates)
  BY DEF Rest
<1> HIDE DEF f, xs, new
<1>18. ToSet(stack') = ToSet(f) \cup ToSet(xs)
  BY <1>1, <1>14, <1>16, SetConcat
<1>19. All' = Rest \cup {x} \cup new
  BY <1>1, <1>14, <1>17, <1>18 DEF All
<1>20. x.type = Top.type /\ x.render
  BY <1>4, <1>10
<1>21. \A r \in Rest : r.id # Top.id
  BY <1>3
<1>22. All = Rest \cup {Top}
  BY <1>3
<1>23. x.type = "insert" /\ RegularRow(x) => Kept(new, x)
  BY <1>13
<1>24. QED BY <1>1, <1>10, <1>11, <1>15, <1>19, <1>20, <1>21, <1>22, <1>23, TakenApart

-----------------------------------------------------------------------------
(* The list while ids become indexes.                                      *)

LEMMA RowCardinality ==
  ASSUME NEW ids, NEW count, InARow(ids, count)
  PROVE  IsFiniteSet(ids) /\ Cardinality(ids) = count
<1>1. PICK lo \in Nat : ids = lo..(lo + count - 1)
  BY DEF InARow
<1>2. count \in Nat /\ lo + count - 1 \in Int /\ lo \in Int
  BY <1>1 DEF InARow
<1> DEFINE hi == lo + count - 1
<1>3. hi \in Int /\ (lo > hi => count = 0) /\ (lo <= hi => hi - lo + 1 = count)
  BY <1>2
<1>4. ids = lo..hi
  BY <1>1
<1> HIDE DEF hi
<1>5. QED BY <1>2, <1>3, <1>4, FS_Interval

\* Ids and places name the same.
LEMMA IndexOfParent ==
  ASSUME WalkInv, stack = <<>>, NEW i \in DOMAIN mutates, NEW j \in DOMAIN mutates
  PROVE  Index(mutates[j].parent) = i - 1 <=> mutates[j].parent = mutates[i].id
<1>1. /\ DOMAIN mutates = 1..Len(mutates) /\ Len(mutates) \in Nat
      /\ Sound(mutates, nextId, Places) /\ Mapped
  BY ListLength DEF WalkInv, Sound
<1>2. Places = PlacesOf(mutates)
  BY ShortLists DEF Places, PlacesOf
<1>3. \A k \in DOMAIN mutates : Index(mutates[k].id) = k - 1
  BY <1>1 DEF Mapped, Index
<1>4. Index(-1) = -1
  BY <1>1 DEF Mapped, Index
<1>5. mutates[j].parent = -1 \/ \E k \in DOMAIN mutates : mutates[j].parent = mutates[k].id
  BY <1>1, <1>2 DEF Sound, InPlace, PlacesOf
<1>6. QED BY <1>1, <1>3, <1>4, <1>5

LEMMA StartKept ==
  ASSUME WalkInv, KeptInv, stack = <<>>, nextId' = 1, UNCHANGED <<mutates, mmap>>
  PROVE  \A i \in DOMAIN mutates' : KeptAt(mutates', UpTo', i)
<1>1. /\ DOMAIN mutates = 1..Len(mutates) /\ Len(mutates) \in Nat
      /\ Sound(mutates, nextId, Places)
  BY ListLength DEF WalkInv, Sound
<1>2. All = ToSet(mutates)
  BY SetNone DEF All
<1>3. ASSUME NEW i \in DOMAIN mutates, mutates[i].type = "insert", RegularRow(mutates[i]),
             NEW k \in DOMAIN mutates[i].data.kids, Nests(mutates[i].data.kids[k], mutates[i])
      PROVE  LET m == mutates[i]
                 kid == m.data.kids[k]
             IN  /\ Cardinality(UnderPlace(mutates, UpTo', i, kid.name)) = Copies(kid, m)
                 /\ \A j \in UnderPlace(mutates, UpTo', i, kid.name) :
                      Has(m, KeyTo(m, mutates[j])) \/ Has(mutates[j], KeyTo(mutates[j], m))
  <2> DEFINE m == mutates[i]
             kid == m.data.kids[k]
             U == Under(All, m, kid.name)
             J == {j \in DOMAIN mutates : mutates[j].parent = m.id /\ mutates[j].key = kid.name}
             f == [j \in J |-> mutates[j].id]
  <2>1. m \in All /\ m.render
    BY <1>2 DEF ToSet, KeptInv
  <2>2. InARow(Ids(U), Copies(kid, m)) /\ \A n \in U : Tied(m, n)
    BY <1>3, <2>1 DEF KeptInv, Kept, KeptKey
  <2>3. UnderPlace(mutates, UpTo', i, kid.name) = J
    <3>1. \A j \in DOMAIN mutates : UpTo'[j] = Index(mutates[j].parent)
      BY <1>1 DEF UpTo, Index
    <3>2. \A j \in DOMAIN mutates : UpTo'[j] = i - 1 <=> mutates[j].parent = m.id
      BY <3>1, IndexOfParent
    <3>3. QED BY <3>2 DEF UnderPlace
  <2>4. IsFiniteSet(Ids(U)) /\ Cardinality(Ids(U)) = Copies(kid, m)
    BY <2>2, RowCardinality
  <2>5. \A j \in J : mutates[j] \in U
    BY <1>2 DEF ToSet, Under
  <2>6. \A n \in U : \E j \in J : mutates[j] = n
    BY <1>2 DEF ToSet, Under
  <2>7. \A a, b \in DOMAIN mutates : mutates[a].id = mutates[b].id => a = b
    BY <1>1 DEF Sound
  <2>8. \A j \in J : mutates[j].render
    BY DEF KeptInv
  <2>9. \A j \in J : j \in DOMAIN mutates
    OBVIOUS
  <2> DEFINE T == Ids(U)
  <2>10. \A j \in J : mutates[j].id \in T
    BY <2>5 DEF Ids
  <2>11. \A t \in T : \E j \in J : mutates[j].id = t
    BY <2>6 DEF Ids
  <2> HIDE DEF m, kid, U, J, T
  <2>12. f \in Injection(J, T) /\ f \in Surjection(J, T)
    BY <2>7, <2>9, <2>10, <2>11 DEF Injection, Surjection, IsInjective
  <2>13. Cardinality(J) = Copies(kid, m)
    <3> HIDE DEF f
    <3>1. IsFiniteSet(T) /\ Cardinality(T) = Copies(kid, m)
      BY <2>4 DEF T
    <3>2. QED BY <2>12, <3>1, FS_Injection
  <2>14. \A j \in J : Has(m, KeyTo(m, mutates[j])) \/ Has(mutates[j], KeyTo(mutates[j], m))
    BY <2>2, <2>5, <2>8 DEF Tied
  <2>15. QED BY <2>3, <2>13, <2>14 DEF m, kid
<1>4. ASSUME NEW i \in DOMAIN mutates PROVE KeptAt(mutates, UpTo', i)
  BY <1>3 DEF KeptAt
<1>5. QED BY <1>4

\* What KeptAt says of a write does not depend on its id, parent and DependsOn.
SameRow(x, y) ==
  /\ x.type = y.type /\ x.key = y.key /\ x.table = y.table /\ x.data = y.data
  /\ x.json = y.json /\ x.rcols = y.rcols

LEMMA SameKept ==
  ASSUME NEW s, NEW t, NEW up, DOMAIN t = DOMAIN s, \A i \in DOMAIN s : SameRow(s[i], t[i]),
         NEW i \in DOMAIN s, KeptAt(s, up, i)
  PROVE  KeptAt(t, up, i)
<1> DEFINE m == s[i]
           n == t[i]
<1>1. \A name : UnderPlace(t, up, i, name) = UnderPlace(s, up, i, name)
  BY DEF UnderPlace, SameRow
<1>2. SameRow(m, n)
  OBVIOUS
<1>3. /\ \A kid : Nests(kid, n) = Nests(kid, m) /\ Copies(kid, n) = Copies(kid, m)
      /\ n.data = m.data /\ n.type = m.type /\ n.key = m.key
  BY <1>2 DEF Nests, Copies, SameRow
<1>4. RegularRow(n) = RegularRow(m)
  BY <1>3 DEF RegularRow
<1>5. ASSUME NEW x, NEW y, NEW u, NEW v, SameRow(x, u), SameRow(y, v)
      PROVE  Has(u, KeyTo(u, v)) = Has(x, KeyTo(x, y))
  BY <1>5 DEF Has, KeyTo, SameRow
<1>6. \A j \in DOMAIN s : /\ Has(n, KeyTo(n, t[j])) = Has(m, KeyTo(m, s[j]))
                          /\ Has(t[j], KeyTo(t[j], n)) = Has(s[j], KeyTo(s[j], m))
  BY <1>2, <1>5
<1>7. \A name : \A j \in UnderPlace(s, up, i, name) : j \in DOMAIN s
  BY DEF UnderPlace
<1>8. QED BY <1>1, <1>3, <1>4, <1>6, <1>7 DEF KeptAt

LEMMA ReindexKept ==
  ASSUME ReindexInv, Reindex, \A i \in DOMAIN mutates : KeptAt(mutates, UpTo, i)
  PROVE  \A i \in DOMAIN mutates' : KeptAt(mutates', UpTo', i)
<1> DEFINE n == nextId
<1>1. PICK deps : /\ nextId <= Len(mutates) /\ nextId' = nextId + 1 /\ mmap' = mmap
                  /\ mutates' = [mutates EXCEPT ![n].id = Index(@), ![n].parent = Index(@), ![n].deps = deps]
  BY DEF Reindex
<1>2. /\ DOMAIN mutates = 1..Len(mutates) /\ Len(mutates) \in Nat /\ n \in DOMAIN mutates
      /\ \A i \in DOMAIN mutates : DOMAIN mutates[i] = Fields
  BY <1>1, ListLength DEF ReindexInv
<1> DEFINE x == mutates[n]
           y == [x EXCEPT !.id = Index(@), !.parent = Index(@), !.deps = deps]
<1>3. mutates' = [mutates EXCEPT ![n] = y]
  BY <1>1, <1>2 DEF Fields
<1>4. SameRow(x, y) /\ y.parent = Index(x.parent)
  BY <1>2 DEF Fields, SameRow
<1> HIDE DEF y
<1>5. /\ DOMAIN mutates' = DOMAIN mutates /\ mutates'[n] = y
      /\ \A i \in DOMAIN mutates : i # n => mutates'[i] = mutates[i]
  BY <1>2, <1>3
<1>6. \A i \in DOMAIN mutates : SameRow(mutates[i], mutates'[i])
  BY <1>4, <1>5 DEF SameRow
<1>7. ASSUME NEW i \in DOMAIN mutates PROVE UpTo'[i] = UpTo[i]
  <2>1. UpTo'[i] = IF i < n + 1 THEN mutates'[i].parent ELSE Index(mutates'[i].parent)
    BY <1>1, <1>5 DEF UpTo, Index
  <2>2. UpTo[i] = IF i < n THEN mutates[i].parent ELSE Index(mutates[i].parent)
    BY DEF UpTo
  <2>3. CASE i = n
    BY <1>2, <1>4, <1>5, <2>1, <2>2, <2>3
  <2>4. CASE i # n
    BY <1>2, <1>5, <2>1, <2>2, <2>4
  <2>5. QED BY <2>3, <2>4
<1>8. UpTo' = UpTo
  <2>1. DOMAIN UpTo' = DOMAIN mutates /\ DOMAIN UpTo = DOMAIN mutates
    BY <1>5 DEF UpTo
  <2>2. UpTo = [i \in DOMAIN UpTo |-> UpTo[i]] /\ UpTo' = [i \in DOMAIN UpTo' |-> UpTo'[i]]
    BY DEF UpTo
  <2>3. QED BY <1>7, <2>1, <2>2
<1>9. QED BY <1>5, <1>6, <1>8, SameKept

\* The finished list has it all.
LEMMA FinishKept ==
  ASSUME IdsNamePlaces, \A i \in DOMAIN mutates : KeptAt(mutates, UpTo, i), IsList(mutates),
         nextId \in Nat, nextId > Len(mutates)
  PROVE  Regular => NothingDropped
<1>1. DOMAIN mutates = 1..Len(mutates) /\ Len(mutates) \in Nat
  BY ListLength
<1>2. ASSUME Regular, NEW i \in DOMAIN mutates, mutates[i].type = "insert",
             NEW k \in DOMAIN mutates[i].data.kids, Nests(mutates[i].data.kids[k], mutates[i])
      PROVE  LET m == mutates[i]
                 kid == m.data.kids[k]
                 kids == {n \in Mutates : n.parent = m.id /\ n.key = kid.name}
             IN  /\ Cardinality(kids) = Copies(kid, m)
                 /\ \A n \in kids : Has(m, KeyTo(m, n)) \/ Has(n, KeyTo(n, m))
  <2> DEFINE m == mutates[i]
             kid == m.data.kids[k]
             kids == {n \in Mutates : n.parent = m.id /\ n.key = kid.name}
             J == {j \in DOMAIN mutates : mutates[j].parent = i - 1 /\ mutates[j].key = kid.name}
             f == [j \in J |-> mutates[j]]
  <2>1. RegularRow(m)
    BY <1>2 DEF Regular, Mutates
  <2>2. UnderPlace(mutates, UpTo, i, kid.name) = J
    <3>1. \A j \in DOMAIN mutates : UpTo[j] = mutates[j].parent
      BY <1>1 DEF UpTo
    <3>2. QED BY <3>1 DEF UnderPlace
  <2>3. /\ Cardinality(J) = Copies(kid, m)
        /\ \A j \in J : Has(m, KeyTo(m, mutates[j])) \/ Has(mutates[j], KeyTo(mutates[j], m))
    BY <1>2, <2>1, <2>2 DEF KeptAt
  <2>4. \A j \in DOMAIN mutates : mutates[j].id = j - 1
    BY DEF IdsNamePlaces
  <2>5. m.id = i - 1
    BY <2>4
  <2>6. /\ \A j \in J : mutates[j] \in kids
        /\ \A n \in kids : \E j \in J : mutates[j] = n
    BY <2>5 DEF Mutates
  <2>7. \A a, b \in J : mutates[a] = mutates[b] => a = b
    BY <1>1, <2>4
  <2>8. IsFiniteSet(J)
    <3>1. IsFiniteSet(1..Len(mutates))
      BY <1>1, FS_Interval
    <3>2. J \in SUBSET (1..Len(mutates))
      BY <1>1
    <3>3. QED BY <3>1, <3>2, FS_Subset
  <2> HIDE DEF m, kid, kids, J
  <2>9. f \in Injection(J, kids) /\ f \in Surjection(J, kids)
    BY <2>6, <2>7 DEF Injection, Surjection, IsInjective
  <2>10. Cardinality(kids) = Cardinality(J)
    <3> HIDE DEF f
    <3>1. QED BY <2>8, <2>9, FS_Surjection
  <2>11. \A n \in kids : Has(m, KeyTo(m, n)) \/ Has(n, KeyTo(n, m))
    BY <2>3, <2>6
  <2>12. QED BY <2>3, <2>10, <2>11 DEF m, kid, kids
<1>3. ASSUME NEW m, NEW n, Has(m, KeyTo(m, n)) \/ Has(n, KeyTo(n, m))
      PROVE  \E x \in {m, n} : \E y \in {m, n} : \E i \in DOMAIN x.rcols :
               x.rcols[i] = RCol(FkCol(x.table, y.table), PkCol(y.table))
  BY <1>3 DEF Has, KeyTo
<1>4. ASSUME Regular, NEW m \in Mutates, m.type = "insert", NEW k \in DOMAIN m.data.kids,
             Nests(m.data.kids[k], m)
      PROVE  LET kid == m.data.kids[k]
                 kids == {n \in Mutates : n.parent = m.id /\ n.key = kid.name}
             IN  /\ Cardinality(kids) = Copies(kid, m)
                 /\ \A n \in kids : Has(m, KeyTo(m, n)) \/ Has(n, KeyTo(n, m))
  BY <1>2, <1>4 DEF Mutates
<1>5. SUFFICES ASSUME Regular, NEW m \in Mutates, m.type = "insert", NEW k \in DOMAIN m.data.kids,
                      Nests(m.data.kids[k], m)
      PROVE  LET key == m.data.kids[k].name
                 kids == {n \in Mutates : n.parent = m.id /\ n.key = key}
             IN  /\ Cardinality(kids) = Copies(m.data.kids[k], m)
                 /\ \A n \in kids :
                      \E x \in {m, n} : \E y \in {m, n} :
                        \E i \in DOMAIN x.rcols :
                          x.rcols[i] = RCol(FkCol(x.table, y.table), PkCol(y.table))
  BY DEF NothingDropped, Nests, Copies
<1> DEFINE kid == m.data.kids[k]
           kids == {n \in Mutates : n.parent = m.id /\ n.key = kid.name}
<1>6. Cardinality(kids) = Copies(kid, m)
  BY <1>4, <1>5
<1>7. ASSUME NEW n \in kids PROVE Has(m, KeyTo(m, n)) \/ Has(n, KeyTo(n, m))
  BY <1>4, <1>5
<1>8. ASSUME NEW n \in kids
      PROVE  \E x \in {m, n} : \E y \in {m, n} : \E i \in DOMAIN x.rcols :
               x.rcols[i] = RCol(FkCol(x.table, y.table), PkCol(y.table))
  BY <1>3, <1>7
<1>9. QED BY <1>6, <1>8

-----------------------------------------------------------------------------
(* The theorem.                                                            *)

LEMMA NestInit == Init => NestInv
BY DEF Init, NestInv

LEMMA NestStep ==
  ASSUME "connect" \notin Tables
  PROVE  IdsInv /\ NestInv /\ [Next]_vars => NestInv'
<1> SUFFICES ASSUME IdsInv, NestInv, [Next]_vars, req'.stype = "insert" PROVE NestInv'
  BY DEF NestInv
<1>0. req' = req /\ req.stype = "insert"
  BY DEF Next, vars, AddRoots, RefuseRoots, Render, ExpandConnect, Expand, StartReindex, Reindex,
         Finish
<1>1. CASE AddRoots
  <2>1. req \in Requests /\ mutates = <<>> /\ phase' = "walk"
    BY <1>1 DEF AddRoots, IdsInv
  <2>2. KeptInv'
    BY <1>0, <1>1, <2>1, RootsKept
  <2>3. QED BY <2>1, <2>2 DEF NestInv
<1>2. CASE RefuseRoots
  <2>1. phase' = "refused"
    BY <1>2 DEF RefuseRoots
  <2>2. QED BY <2>1 DEF NestInv
<1>3. CASE Render
  <2>1. WalkInv /\ KeptInv /\ phase' = "walk"
    BY <1>0, <1>3 DEF Render, IdsInv, NestInv
  <2>2. KeptInv'
    BY <1>3, <2>1, RenderKept
  <2>3. QED BY <2>1, <2>2 DEF NestInv
<1>4. CASE ExpandConnect
  <2>1. WalkInv /\ KeptInv /\ phase' = "walk"
    BY <1>0, <1>4 DEF ExpandConnect, IdsInv, NestInv
  <2>2. KeptInv'
    BY <1>0, <1>4, <2>1, ExpandConnectKept
  <2>3. QED BY <2>1, <2>2 DEF NestInv
<1>5. CASE Expand
  <2>1. WalkInv /\ KeptInv /\ phase' \in {"walk", "refused"}
    BY <1>0, <1>5 DEF Expand, IdsInv, NestInv
  <2>2. ASSUME phase' = "walk" PROVE KeptInv'
    BY <1>0, <1>5, <2>1, <2>2, ExpandKept
  <2>3. QED BY <2>1, <2>2 DEF NestInv
<1>6. CASE StartReindex
  <2>1. /\ WalkInv /\ KeptInv /\ stack = <<>> /\ nextId' = 1 /\ UNCHANGED <<mutates, mmap>>
        /\ phase' = "reindex"
    BY <1>0, <1>6 DEF StartReindex, IdsInv, NestInv
  <2>2. \A i \in DOMAIN mutates' : KeptAt(mutates', UpTo', i)
    BY <2>1, StartKept
  <2>3. QED BY <2>1, <2>2 DEF NestInv
<1>7. CASE Reindex
  <2>1. /\ ReindexInv /\ \A i \in DOMAIN mutates : KeptAt(mutates, UpTo, i)
        /\ phase' = "reindex"
    BY <1>0, <1>7 DEF Reindex, IdsInv, NestInv
  <2>2. \A i \in DOMAIN mutates' : KeptAt(mutates', UpTo', i)
    BY <1>7, <2>1, ReindexKept
  <2>3. QED BY <2>1, <2>2 DEF NestInv
<1>8. CASE Finish
  <2>1. /\ ReindexInv /\ \A i \in DOMAIN mutates : KeptAt(mutates, UpTo, i)
        /\ nextId > Len(mutates) /\ phase' = "done" /\ UNCHANGED <<mutates, mmap, nextId>>
    BY <1>0, <1>8 DEF Finish, IdsInv, NestInv
  <2>2. UpTo' = UpTo
    BY <2>1 DEF UpTo, Index
  <2>3. IsList(mutates) /\ nextId \in Nat
    BY <2>1, ListLength DEF ReindexInv
  <2>4. QED BY <2>1, <2>2, <2>3 DEF NestInv
<1>9. CASE UNCHANGED vars
  <2>1. KeptInv' = KeptInv /\ UpTo' = UpTo
    BY <1>9 DEF vars, KeptInv, All, UpTo, Index
  <2>2. QED BY <1>0, <1>9, <2>1 DEF vars, NestInv
<1>10. QED BY <1>1, <1>2, <1>3, <1>4, <1>5, <1>6, <1>7, <1>8, <1>9 DEF Next

\* Whatever the tables and their relations, an insert that is finished has
\* written all that is nested in the payloads of its rows, once for each element
\* of a list, and a foreign key is bound between each of those writes and the
\* row it is nested in (newMutate and addTablesAndColumns).  What newMutate does
\* not push is left out: a row nested in a row of its own table.
THEOREM MutationNothingDropped ==
  ASSUME "connect" \notin Tables
  PROVE  Spec => [](Regular => NothingDropped)
<1>1. IdsInv /\ NestInv => (Regular => NothingDropped)
  <2> SUFFICES ASSUME IdsInv, NestInv, Done, req.stype = "insert"
               PROVE  Regular => NothingDropped
    BY DEF NothingDropped
  <2>1. /\ IdsNamePlaces /\ IsList(mutates) /\ nextId \in Nat /\ nextId > Len(mutates)
        /\ \A i \in DOMAIN mutates : KeptAt(mutates, UpTo, i)
    BY DEF IdsInv, NestInv, Done
  <2>2. QED BY <2>1, FinishKept
<1>2. IdsInv /\ NestInv /\ [Next]_vars => (IdsInv /\ NestInv)'
  BY IdsStep, NestStep
<1>3. Init => IdsInv /\ NestInv
  BY IdsInit, NestInit
<1>4. QED BY <1>1, <1>2, <1>3, PTL DEF Spec

-----------------------------------------------------------------------------
(* The foreign keys.                                                       *)

\* A row that has been taken apart: its foreign keys are those of writes there are.
Linked(all, m) ==
  /\ IsList(m.rcols)
  /\ IsFiniteSet(m.deps) /\ Cardinality(m.deps) <= Len(m.rcols)
  /\ m.type # "insert" => m.rcols = <<>>
  /\ \A k \in DOMAIN m.rcols : NoKey(m, m.rcols[k]) \/ \E d \in all :
       /\ d.id \in m.deps /\ m.rcols[k] = KeyFrom(m, d)
       /\ d.id = m.parent \/ d.parent = m.id

\* One that has not: its relation is with the row it is nested in.
Hangs(all, n) ==
  /\ n.deps = {} /\ n.rcols = <<>>
  /\ n.type = "insert" =>
       /\ n.rel.type # "recursive"
       /\ n.rel.type \in {"one-to-one", "one-to-many"} =>
            \E p \in all : p.id = n.parent /\ p.type = "insert" /\ RelTo(n, p)

LinkInv == \A m \in All : IF m.render THEN Linked(All, m) ELSE Hangs(All, m)

\* The same of the list, by places, while ids become indexes: up has the places
\* of the parents less one.
LinkedAt(s, up, i) ==
  LET m == s[i] IN
    /\ IsList(m.rcols)
    /\ m.type # "insert" => m.rcols = <<>>
    /\ i >= nextId => IsFiniteSet(m.deps) /\ Cardinality(m.deps) <= Len(m.rcols)
    /\ \A k \in DOMAIN m.rcols : NoKey(m, m.rcols[k]) \/ \E j \in DOMAIN s :
         /\ m.rcols[k] = KeyFrom(m, s[j])
         /\ up[i] = j - 1 \/ up[j] = i - 1
         /\ IF i < nextId THEN Cardinality(m.deps) = Len(m.rcols) => j - 1 \in m.deps
                          ELSE \E d \in m.deps : Index(d) = j - 1

KeysInv ==
  req.stype = "insert" =>
    /\ phase = "walk" => LinkInv
    /\ phase \in {"reindex", "done"} => \A i \in DOMAIN mutates : LinkedAt(mutates, UpTo, i)

-----------------------------------------------------------------------------
(* What an insert binds is one of these.                                   *)

Whence(m, items, b) ==
  \/ /\ m.rel.type = "one-to-one"
     /\ b.on = m.parent /\ b.rcol = RCol(m.rel.lc, m.rel.rc)
  \/ /\ m.rel.type = "one-to-many" /\ m.parent # -1 /\ m.rel.lt # m.table
     /\ b.on = m.parent /\ b.rcol = RCol(m.rel.rc, m.rel.lc)
  \/ \E y \in ToSet(items) :
       /\ b.on = y.id /\ b.rcol = KeyOf(y)
       /\ \/ y.type = "connect"
          \/ y.type # "connect" /\ y.rel.type = "one-to-many" /\ y.rel.rt = m.table

LEMMA BoundWhence ==
  ASSUME NEW m, m.type = "insert", NEW items, IsList(items)
  PROVE  /\ IsList(Bindings(m, items))
         /\ \A i \in DOMAIN Bindings(m, items) : Whence(m, items, Bindings(m, items)[i])
<1> DEFINE of(places) == [i \in DOMAIN Only(items, places) |->
                            [on |-> Only(items, places)[i].id, rcol |-> KeyOf(Only(items, places)[i])]]
           up(col, value) == <<[on |-> m.parent, rcol |-> RCol(col, value)]>>
           many == {i \in Nested(items, "one-to-many") : items[i].rel.rt = m.table}
           a == IF m.rel.type = "one-to-one" THEN up(m.rel.lc, m.rel.rc) ELSE <<>>
           b == IF /\ m.rel.type = "one-to-many" /\ m.parent # -1
                   /\ m.rel.lt # m.table
                  THEN up(m.rel.rc, m.rel.lc) ELSE <<>>
           c == of(Lookups(items))
           d == of(many)
           Good(s) == IsList(s) /\ \A x \in ToSet(s) : Whence(m, items, x)
<1>1. Bindings(m, items) = ((a \o b) \o c) \o d
  BY DEF Bindings
<1>2. ASSUME NEW col, NEW value
      PROVE  /\ IsList(up(col, value))
             /\ ToSet(up(col, value)) = {[on |-> m.parent, rcol |-> RCol(col, value)]}
  BY ShortLists, SetOne
<1>3. ASSUME NEW places, \A k \in DOMAIN items \cap places :
               \/ items[k].type = "connect"
               \/ /\ items[k].type # "connect" /\ items[k].rel.type = "one-to-many"
                  /\ items[k].rel.rt = m.table
      PROVE  Good(of(places))
  <2> DEFINE o == Only(items, places)
             s == of(places)
  <2>1. IsList(o) /\ ToSet(o) = {items[k] : k \in DOMAIN items \cap places}
    BY SetOnly
  <2>2. s = [i \in DOMAIN o |-> [on |-> o[i].id, rcol |-> KeyOf(o[i])]]
    OBVIOUS
  <2> HIDE DEF o, s, Good
  <2>3. Len(o) \in Nat /\ DOMAIN o = 1..Len(o)
    BY <2>1, ListLength
  <2>4. /\ s = [i \in 1..Len(o) |-> s[i]] /\ DOMAIN s = DOMAIN o
        /\ \A i \in DOMAIN o : s[i].rcol = KeyOf(o[i]) /\ s[i].on = o[i].id
    BY <2>2, <2>3
  <2>5. IsList(s)
    BY <2>3, <2>4, ListFromFunction
  <2>6. ASSUME NEW i \in DOMAIN o PROVE Whence(m, items, s[i])
    <3>1. PICK k \in DOMAIN items \cap places : o[i] = items[k]
      BY <2>1 DEF ToSet
    <3>2. items[k] \in ToSet(items)
      BY DEF ToSet
    <3>3. QED BY <1>3, <2>4, <3>1, <3>2 DEF Whence
  <2>7. Good(s)
    BY <2>4, <2>5, <2>6 DEF Good, ToSet
  <2>8. QED BY <2>7 DEF s
<1>4. Good(<<>>)
  BY ShortLists, SetNone
<1>5. Good(a)
  <2>1. CASE m.rel.type = "one-to-one"
    <3>1. a = up(m.rel.lc, m.rel.rc)
      BY <2>1
    <3>2. IsList(a) /\ ToSet(a) = {[on |-> m.parent, rcol |-> RCol(m.rel.lc, m.rel.rc)]}
      BY <1>2, <3>1
    <3> HIDE DEF a
    <3>3. QED BY <2>1, <3>2 DEF Whence
  <2>2. CASE m.rel.type # "one-to-one"
    BY <1>4, <2>2
  <2>3. QED BY <2>1, <2>2
<1>6. Good(b)
  <2> DEFINE has == m.rel.type = "one-to-many" /\ m.parent # -1 /\ m.rel.lt # m.table
  <2>1. CASE has
    <3>1. b = up(m.rel.rc, m.rel.lc)
      BY <2>1
    <3>2. IsList(b) /\ ToSet(b) = {[on |-> m.parent, rcol |-> RCol(m.rel.rc, m.rel.lc)]}
      BY <1>2, <3>1
    <3> HIDE DEF b
    <3>3. QED BY <2>1, <3>2 DEF Whence
  <2>2. CASE ~has
    BY <1>4, <2>2
  <2>3. QED BY <2>1, <2>2
<1>7. Good(c)
  <2>1. \A k \in DOMAIN items \cap Lookups(items) : items[k].type = "connect"
    BY DEF Lookups
  <2>2. QED BY <1>3, <2>1
<1>8. Good(d)
  <2>1. \A k \in DOMAIN items \cap many :
          /\ items[k].type # "connect" /\ items[k].rel.type = "one-to-many"
          /\ items[k].rel.rt = m.table
    BY DEF Nested
  <2> HIDE DEF many
  <2>2. QED BY <1>3, <2>1
<1> HIDE DEF a, b, c, d, of, up
<1>9. ASSUME NEW s, NEW t, Good(s), Good(t) PROVE Good(s \o t)
  BY <1>9, SetConcat
<1> HIDE DEF Good
<1>10. Good(Bindings(m, items))
  BY <1>1, <1>5, <1>6, <1>7, <1>8, <1>9
<1>11. QED BY <1>10 DEF Good, ToSet

\* No more writes are depended on than there are foreign keys.
LEMMA DependsFew ==
  ASSUME NEW m, m.type = "insert", NEW items, IsList(items)
  PROVE  LET bound == Bindings(m, items) IN
         /\ DependsOn(m, items) = {bound[i].on : i \in DOMAIN bound}
         /\ IsFiniteSet(DependsOn(m, items)) /\ Cardinality(DependsOn(m, items)) <= Len(bound)
<1> DEFINE bound == Bindings(m, items)
           D == DependsOn(m, items)
           f == [i \in DOMAIN bound |-> bound[i].on]
<1>1. D = {bound[i].on : i \in DOMAIN bound}
  BY DEF DependsOn
<1>2. IsList(bound)
  BY BoundWhence
<1> HIDE DEF D, bound
<1>3. DOMAIN bound = 1..Len(bound) /\ Len(bound) \in Nat
  BY <1>2, ListLength
<1>4. IsFiniteSet(1..Len(bound)) /\ Cardinality(1..Len(bound)) = Len(bound)
  <2> DEFINE n == Len(bound)
  <2>1. n \in Int /\ n \in Nat /\ 1 \in Int
    BY <1>3
  <2> HIDE DEF n
  <2>2. IsFiniteSet(1..n) /\ Cardinality(1..n) = IF 1 > n THEN 0 ELSE n - 1 + 1
    BY <2>1, FS_Interval
  <2>3. QED BY <2>1, <2>2 DEF n
<1>5. f \in Surjection(1..Len(bound), D)
  BY <1>1, <1>3 DEF Surjection
<1>6. IsFiniteSet(D) /\ Cardinality(D) <= Len(bound)
  <2> HIDE DEF f
  <2>1. QED BY <1>4, <1>5, FS_Surjection
<1>7. QED BY <1>1, <1>6 DEF D, bound

-----------------------------------------------------------------------------
(* The walk.                                                               *)

LEMMA RootsLinked ==
  ASSUME req \in Requests, req.stype = "insert", AddRoots, mutates = <<>>
  PROVE  LinkInv'
<1> DEFINE s == AllRoots.stack
<1>1. \A x \in ToSet(s) : IsRooted(x)
  BY AllRootsGive DEF AddRoots
<1>2. stack' = s /\ mutates' = <<>>
  BY DEF AddRoots
<1> HIDE DEF s
<1>3. All' = ToSet(s)
  BY <1>2, SetNone DEF All
<1>4. NoRel.type = "none"
  BY DEF NoRel
<1>5. ASSUME NEW x \in All' PROVE ~x.render /\ Hangs(All', x)
  <2>1. IsRooted(x)
    BY <1>1, <1>3, <1>5
  <2>2. QED BY <1>4, <2>1 DEF IsRooted, Hangs
<1>6. QED BY <1>5 DEF LinkInv

LEMMA RenderLinked ==
  ASSUME WalkInv, LinkInv, Render
  PROVE  LinkInv'
<1>1. IsList(stack) /\ IsList(mutates)
  BY DEF WalkInv, Sound
<1>2. stack # <<>> /\ stack' = Front(stack) /\ mutates' = Append(mutates, Top)
  BY DEF Render
<1>3. ToSet(stack) = ToSet(stack') \cup {Top} /\ ToSet(mutates') = ToSet(mutates) \cup {Top}
  BY <1>1, <1>2, StackSet, SetAppend
<1>4. All' = All
  BY <1>3 DEF All
<1>5. QED BY <1>4 DEF LinkInv

\* The top of the stack is taken apart: what was linked is.
LEMMA ApartLinked ==
  ASSUME LinkInv, NEW R, NEW x, NEW new, All = R \cup {Top}, All' = R \cup {x} \cup new,
         x.id = Top.id, x.parent = Top.parent, x.table = Top.table, x.type = Top.type, x.render,
         Linked(All', x),
         \A y \in new : ~y.render /\ Hangs(All', y)
  PROVE  LinkInv'
<1>1. \A d \in All : \E e \in All' :
        e.id = d.id /\ e.parent = d.parent /\ e.table = d.table /\ e.type = d.type
  OBVIOUS
<1>2. ASSUME NEW m, Linked(All, m) PROVE Linked(All', m)
  <2>1. ASSUME NEW k \in DOMAIN m.rcols, ~NoKey(m, m.rcols[k])
        PROVE  \E d \in All' : /\ d.id \in m.deps /\ m.rcols[k] = KeyFrom(m, d)
                               /\ d.id = m.parent \/ d.parent = m.id
    <3>1. PICK d \in All : /\ d.id \in m.deps /\ m.rcols[k] = KeyFrom(m, d)
                           /\ d.id = m.parent \/ d.parent = m.id
      BY <1>2, <2>1 DEF Linked
    <3>2. PICK e \in All' :
             e.id = d.id /\ e.parent = d.parent /\ e.table = d.table /\ e.type = d.type
      BY <1>1
    <3>3. KeyFrom(m, e) = KeyFrom(m, d)
      BY <3>2 DEF KeyFrom, ConnectsDown
    <3>4. QED BY <3>1, <3>2, <3>3
  <2>2. QED BY <1>2, <2>1 DEF Linked
<1>3. ASSUME NEW n, Hangs(All, n) PROVE Hangs(All', n)
  <2>1. ASSUME n.type = "insert", n.rel.type \in {"one-to-one", "one-to-many"}
        PROVE  \E p \in All' : p.id = n.parent /\ p.type = "insert" /\ RelTo(n, p)
    <3>1. PICK p \in All : p.id = n.parent /\ p.type = "insert" /\ RelTo(n, p)
      BY <1>3, <2>1 DEF Hangs
    <3>2. PICK e \in All' : e.id = p.id /\ e.table = p.table /\ e.type = p.type
      BY <1>1
    <3>3. RelTo(n, e)
      BY <3>1, <3>2 DEF RelTo, KeyTo
    <3>4. QED BY <3>1, <3>2, <3>3
  <2>2. QED BY <1>3, <2>1 DEF Hangs
<1>4. ASSUME NEW m \in All' PROVE IF m.render THEN Linked(All', m) ELSE Hangs(All', m)
  <2>1. CASE m \in R
    BY <1>2, <1>3, <2>1 DEF LinkInv
  <2>2. CASE m = x \/ m \in new
    BY <2>2
  <2>3. QED BY <1>4, <2>1, <2>2
<1>5. QED BY <1>4 DEF LinkInv

LEMMA NoneBound ==
  ASSUME NEW all, NEW x, x.deps = {}, x.rcols = <<>>
  PROVE  Linked(all, x)
<1>1. IsList(x.rcols) /\ Len(x.rcols) = 0 /\ DOMAIN x.rcols = {}
  BY ShortLists
<1>2. IsFiniteSet(x.deps) /\ Cardinality(x.deps) = 0
  BY FS_EmptySet
<1>3. QED BY <1>1, <1>2 DEF Linked

LEMMA ExpandConnectLinked ==
  ASSUME req.stype = "insert", WalkInv, LinkInv, ExpandConnect
  PROVE  LinkInv'
<1> DEFINE x == [Top EXCEPT !.render = TRUE]
           f == Front(stack)
           new == {}
<1>1. /\ stack # <<>> /\ ~Top.render /\ stack' = Append(f, x) /\ UNCHANGED mutates
      /\ IsList(stack) /\ Sound(stack, nextId, Places)
  BY DEF ExpandConnect, WalkInv, Sound
<1>2. IsItem(Top)
  BY <1>1, StackTop
<1>3. /\ x.id = Top.id /\ x.parent = Top.parent /\ x.table = Top.table /\ x.render
      /\ x.deps = Top.deps /\ x.rcols = Top.rcols /\ x.type = Top.type
  BY <1>2 DEF IsItem, Fields
<1> HIDE DEF x
<1>4. All = Rest \cup {Top}
  BY <1>1, RestIs
<1>5. Rest = ToSet(f) \cup ToSet(mutates) /\ IsList(f)
  BY <1>1, StackSet DEF Rest
<1> HIDE DEF f
<1>6. ToSet(stack') = ToSet(f) \cup {x}
  BY <1>1, <1>5, SetAppend
<1>7. All' = Rest \cup {x} \cup new
  BY <1>1, <1>5, <1>6 DEF All
<1>8. Linked(All', x)
  BY <1>1, <1>3, <1>4, NoneBound DEF LinkInv, Hangs
<1>9. \A y \in new : ~y.render /\ Hangs(All', y)
  OBVIOUS
<1> HIDE DEF new
<1>10. QED BY <1>3, <1>4, <1>7, <1>8, <1>9, ApartLinked

LEMMA ExpandLinked ==
  ASSUME "connect" \notin Tables, req.stype = "insert", WalkInv, KeptInv, LinkInv, Expand,
         phase' = "walk"
  PROVE  LinkInv'
<1> DEFINE w == Nest(Top)
           items == w.items
           m == Recursive(Top)
           bound == Bindings(m, items)
           deps == DependsOn(m, items)
           rcols == [i \in DOMAIN bound |-> bound[i].rcol]
           cols == DataColumns(m, items, w.nested)
           x == [m EXCEPT !.deps = deps, !.rcols = rcols, !.cols = cols, !.render = TRUE]
           xs == Pushes(x, items)
           all == ToSet(items)
           new == {y \in all : y.type = "connect" \/ y.rel.type \in {"one-to-one", "one-to-many"}}
           f == Front(stack)
           N == Len(Top.data.kids)
<1>1. /\ phase = "walk" /\ stack # <<>> /\ ~Top.render /\ UNCHANGED mutates
      /\ stack' = f \o xs /\ ~w.error
      /\ Top.type \notin {"connect", "disconnect"}
  BY DEF Expand
<1>2. /\ nextId \in Nat /\ Sound(stack, nextId, Places) /\ IsList(stack) /\ IsItem(Top)
  BY <1>1, StackTop DEF WalkInv, Sound
<1>3. All = Rest \cup {Top}
  BY <1>1, RestIs
<1>4. Top.type = "insert" /\ Top.key = Top.table /\ Hangs(All, Top)
  BY <1>1, <1>3 DEF KeptInv, LinkInv, Typed
<1>5. m = Top /\ DOMAIN Top = Fields
  BY <1>2, <1>4, RecursiveKeeps DEF Hangs, IsItem
<1>6. Walked(Top, w) /\ Given(Top, all, N)
  BY <1>1, <1>2, <1>4, NestWalked, NestGives
<1>7. IsList(items) /\ \A y \in all : IsNew(Top, y)
  BY <1>6 DEF Walked, Batch, Given
<1> HIDE DEF w, m, items, N
<1>8. IsList(bound) /\ \A i \in DOMAIN bound : Whence(Top, items, bound[i])
  BY <1>4, <1>5, <1>7, BoundWhence
<1>9. deps = {bound[i].on : i \in DOMAIN bound} /\ IsFiniteSet(deps) /\ Cardinality(deps) <= Len(bound)
  BY <1>4, <1>5, <1>7, DependsFew
<1> HIDE DEF bound, deps, cols
<1>10. /\ DOMAIN rcols = DOMAIN bound /\ IsList(rcols) /\ Len(rcols) = Len(bound)
       /\ \A i \in DOMAIN bound : rcols[i] = bound[i].rcol
  <2>1. Len(bound) \in Nat /\ DOMAIN bound = 1..Len(bound)
    BY <1>8, ListLength
  <2>2. rcols = [i \in 1..Len(bound) |-> rcols[i]] /\ DOMAIN rcols = DOMAIN bound
    BY <2>1
  <2>3. \A i \in DOMAIN bound : rcols[i] = bound[i].rcol
    OBVIOUS
  <2> HIDE DEF rcols
  <2>4. QED BY <2>1, <2>2, <2>3, ListFromFunction
<1> HIDE DEF rcols
<1>11. /\ x.id = Top.id /\ x.parent = Top.parent /\ x.table = Top.table /\ x.type = "insert"
       /\ x.data = Top.data /\ x.key = Top.key /\ x.render /\ x.deps = deps /\ x.rcols = rcols
  BY <1>4, <1>5 DEF Fields
<1> HIDE DEF x
<1>12. IsList(xs) /\ ToSet(xs) = {x} \cup new
  BY <1>7, <1>11, PushesItems
<1>13. IsList(f) /\ Rest = ToSet(f) \cup ToSet(mutates)
  BY <1>1, <1>2, StackSet DEF Rest
<1> HIDE DEF f, xs
<1>14. ToSet(stack') = ToSet(f) \cup ToSet(xs)
  BY <1>1, <1>12, <1>13, SetConcat
<1>15. All' = Rest \cup {x} \cup new
  BY <1>1, <1>12, <1>13, <1>14 DEF All
<1>16. ASSUME NEW y \in new PROVE ~y.render /\ Hangs(All', y)
  <2>1. IsNew(Top, y) /\ (y.type = "connect" \/ y.rel.type \in {"one-to-one", "one-to-many"})
    BY <1>7, <1>16
  <2>2. ~y.render /\ y.deps = {} /\ y.rcols = <<>>
        /\ (y.type = "insert" => y.parent = Top.id /\ RelTo(y, Top))
    BY <2>1 DEF IsNew, LinkedTo
  <2>3. y.type = "insert" => y.parent = x.id /\ RelTo(y, x)
    BY <1>11, <2>2 DEF RelTo, KeyTo
  <2>4. x \in All'
    BY <1>15
  <2>5. x.type = "insert"
    BY <1>11
  <2>6. QED BY <2>1, <2>2, <2>3, <2>4, <2>5 DEF Hangs
<1>17. ASSUME NEW k \in DOMAIN rcols, ~NoKey(x, rcols[k])
       PROVE  \E d \in All' : /\ d.id \in deps /\ rcols[k] = KeyFrom(x, d)
                              /\ d.id = x.parent \/ d.parent = x.id
  <2> DEFINE b == bound[k]
  <2>1. /\ k \in DOMAIN bound /\ Whence(Top, items, b) /\ rcols[k] = b.rcol /\ b.on \in deps
    BY <1>8, <1>9, <1>10, <1>17
  <2> HIDE DEF b
  <2>2. /\ ~NoKey(Top, b.rcol)
        /\ \A d : KeyFrom(Top, d) = KeyFrom(x, d)
        /\ \A d : d.type # "connect" => KeyFrom(x, d) = KeyTo(Top, d)
    BY <1>11, <1>17, <2>1 DEF NoKey, KeyTo, KeyFrom, ConnectsDown
  <2>3. CASE /\ b.on = Top.parent /\ Top.rel.type \in {"one-to-one", "one-to-many"}
             /\ \A p : RelTo(Top, p) => b.rcol = KeyTo(Top, p)
    <3>1. PICK p \in All : p.id = Top.parent /\ p.type = "insert" /\ RelTo(Top, p)
      BY <1>4, <2>3 DEF Hangs
    <3>2. PICK e \in All' : e.id = p.id /\ e.table = p.table /\ e.type = p.type
      BY <1>3, <1>4, <1>11, <1>15
    <3>3. KeyTo(Top, e) = KeyTo(Top, p)
      BY <3>2 DEF KeyTo
    <3>4. KeyFrom(x, e) = KeyTo(Top, e)
      BY <2>2, <3>1, <3>2
    <3>5. e.id \in deps /\ rcols[k] = KeyFrom(x, e) /\ e.id = x.parent
      BY <1>11, <2>1, <2>3, <3>1, <3>2, <3>3, <3>4
    <3>6. QED BY <3>5
  <2>4. CASE \E y \in all :
               /\ b.on = y.id /\ b.rcol = KeyOf(y)
               /\ \/ y.type = "connect"
                  \/ y.type # "connect" /\ y.rel.type = "one-to-many" /\ y.rel.rt = Top.table
    <3>1. PICK y \in all :
               /\ b.on = y.id /\ b.rcol = KeyOf(y)
               /\ \/ y.type = "connect"
                  \/ y.type # "connect" /\ y.rel.type = "one-to-many" /\ y.rel.rt = Top.table
      BY <2>4
    <3>2. y \in new /\ Typed(y) /\ LinkedTo(Top, y)
      BY <1>7, <3>1 DEF IsNew
    <3>3. y.parent = Top.id /\ KeyOf(y) = KeyFrom(x, y)
      <4>1. CASE y.type = "connect"
        BY <2>2, <3>1, <3>2, <4>1 DEF LinkedTo
      <4>2. CASE y.type # "connect"
        BY <2>2, <3>1, <3>2, <4>2 DEF Typed, LinkedTo, RelTo
      <4>3. QED BY <4>1, <4>2
    <3>4. y \in All' /\ y.id \in deps /\ rcols[k] = KeyFrom(x, y) /\ y.parent = x.id
      BY <1>11, <1>15, <2>1, <3>1, <3>2, <3>3
    <3>5. QED BY <3>4
  <2>5. QED BY <2>1, <2>3, <2>4 DEF Whence, RelTo
<1>18. Linked(All', x)
  BY <1>9, <1>10, <1>11, <1>17 DEF Linked
<1> HIDE DEF new
<1>19. QED BY <1>3, <1>4, <1>11, <1>15, <1>16, <1>18, ApartLinked

-----------------------------------------------------------------------------
(* Ids become indexes.                                                     *)

Indexes(deps) == {Index(d) : d \in deps}
AllToDo(deps) == {[todo |-> deps, deps |-> deps]}
ReindexNext(S) == UNION {{Replaced(s, id) : id \in s.todo} : s \in S}
IsReindex(deps, n, g) ==
  g = [k \in 0..n |-> IF k = 0 THEN AllToDo(deps) ELSE ReindexNext(g[k - 1])]

LEMMA ReindexExists ==
  ASSUME NEW deps, NEW N \in Nat
  PROVE  \E g : IsReindex(deps, N, g)
<1> DEFINE T == {n \in 0..N : \E g : IsReindex(deps, n, g)}
           first == AllToDo(deps)
<1>1. 0 \in T
  <2>1. IsReindex(deps, 0, [k \in 0..0 |-> first])
    BY DEF IsReindex
  <2>2. QED BY <2>1
<1>2. ASSUME NEW n \in 1..N, n - 1 \in T PROVE n \in T
  <2>1. PICK g : IsReindex(deps, n - 1, g)
    BY <1>2
  <2> DEFINE h == Longer(g, n, ReindexNext(g[n - 1]))
  <2>2. /\ DOMAIN h = 0..n /\ h = [k \in 0..n |-> h[k]]
        /\ \A k \in 0..(n - 1) : h[k] = g[k]
        /\ h[n] = ReindexNext(g[n - 1])
        /\ \A k \in 1..n : k - 1 \in 0..(n - 1) /\ h[k - 1] = g[k - 1]
    BY DEF Longer
  <2> HIDE DEF h
  <2>3. ASSUME NEW k \in 0..n
        PROVE  h[k] = IF k = 0 THEN first ELSE ReindexNext(h[k - 1])
    <3>1. CASE k < n
      <4>1. g[k] = IF k = 0 THEN first ELSE ReindexNext(g[k - 1])
        BY <2>1, <3>1 DEF IsReindex
      <4>2. k \in 0..(n - 1) /\ (k # 0 => k \in 1..n)
        BY <3>1
      <4>3. h[k] = g[k]
        BY <2>2, <4>2
      <4>4. k # 0 => h[k - 1] = g[k - 1]
        BY <2>2, <4>2
      <4> HIDE DEF first
      <4>5. QED BY <4>1, <4>3, <4>4
    <3>2. CASE k = n
      <4>1. n # 0 /\ n - 1 \in 0..(n - 1)
        OBVIOUS
      <4>2. h[n - 1] = g[n - 1]
        BY <2>2, <4>1
      <4>3. QED BY <2>2, <3>2, <4>1, <4>2
    <3>3. QED BY <3>1, <3>2
  <2>4. IsReindex(deps, n, h)
    BY <2>2, <2>3 DEF IsReindex
  <2>5. QED BY <2>4
<1>3. T \in SUBSET Nat
  OBVIOUS
<1> HIDE DEF T
<1>4. 0..N \subseteq T
  BY <1>1, <1>2, <1>3, Induction
<1>5. QED BY <1>4 DEF T

\* In whatever order the ids are replaced, what is left is indexes of them.
LEMMA ReindexedIn ==
  ASSUME NEW deps, IsFiniteSet(deps), NEW r \in Reindexed(deps)
  PROVE  r \subseteq Indexes(deps)
<1> DEFINE N == Cardinality(deps)
           P(g) == IsReindex(deps, N, g)
           Part(s, n) == /\ s.todo \subseteq deps /\ Cardinality(s.todo) = N - n
                         /\ s.deps \subseteq s.todo \cup Indexes(deps)
<1>1. N \in Nat
  BY FS_CardinalityType
<1> HIDE DEF N
<1>2. ASSUME NEW g, P(g) PROVE \A s \in g[N] : s.deps \subseteq Indexes(deps)
  <2> DEFINE T == {n \in 0..N : \A s \in g[n] : Part(s, n)}
             first == [todo |-> deps, deps |-> deps]
  <2>1. \A k \in 0..N : g[k] = IF k = 0 THEN {first} ELSE ReindexNext(g[k - 1])
    BY <1>2 DEF IsReindex, AllToDo
  <2>2. 0 \in T
    <3>1. Part(first, 0)
      BY <1>1 DEF N
    <3>2. QED BY <1>1, <2>1, <3>1
  <2>3. ASSUME NEW n \in 1..N, n - 1 \in T PROVE n \in T
    <3>1. ASSUME NEW t \in g[n] PROVE Part(t, n)
      <4>1. g[n] = ReindexNext(g[n - 1])
        BY <1>1, <2>1
      <4>2. PICK s \in g[n - 1] : \E id \in s.todo : t = Replaced(s, id)
        BY <3>1, <4>1 DEF ReindexNext
      <4>3. PICK id \in s.todo : t = Replaced(s, id)
        BY <4>2
      <4>4. Part(s, n - 1)
        BY <2>3
      <4>5. t.todo = s.todo \ {id} /\ t.deps = (s.deps \ {id}) \cup {Index(id)}
        BY <4>3 DEF Replaced
      <4>6. IsFiniteSet(s.todo)
        BY <4>4, FS_Subset
      <4>7. Cardinality(t.todo) = Cardinality(s.todo) - 1
        BY <4>5, <4>6, FS_RemoveElement
      <4>8. Cardinality(t.todo) = N - n
        BY <1>1, <4>4, <4>7
      <4>9. Index(id) \in Indexes(deps)
        BY <4>4 DEF Indexes
      <4>10. QED BY <4>4, <4>5, <4>8, <4>9
    <3>2. QED BY <3>1
  <2>4. T \in SUBSET Nat
    OBVIOUS
  <2> HIDE DEF T
  <2>5. 0..N \subseteq T
    BY <1>1, <2>2, <2>3, <2>4, Induction
  <2>6. \A s \in g[N] : Part(s, N)
    BY <1>1, <2>5 DEF T
  <2>7. ASSUME NEW s \in g[N] PROVE s.todo = {}
    <3>1. IsFiniteSet(s.todo) /\ Cardinality(s.todo) = 0
      BY <1>1, <2>6, FS_Subset
    <3>2. QED BY <3>1, FS_EmptySet
  <2>8. QED BY <2>6, <2>7
<1>3. \E g : P(g)
  BY <1>1, ReindexExists
<1>4. Reindexed(deps) = {s.deps : s \in (CHOOSE g : P(g))[N]}
  BY DEF Reindexed, IsReindex, AllToDo, ReindexNext, N
<1> HIDE DEF P
<1>5. P(CHOOSE g : P(g))
  BY <1>3
<1>6. QED BY <1>2, <1>4, <1>5

\* If as many are left as there were at least, none is lost.
LEMMA AllIndexes ==
  ASSUME NEW deps, IsFiniteSet(deps), NEW r \in Reindexed(deps),
         NEW count \in Nat, Cardinality(deps) <= count, Cardinality(r) = count
  PROVE  \A d \in deps : Index(d) \in r
<1> DEFINE J == Indexes(deps)
           f == [d \in deps |-> Index(d)]
<1>1. f \in Surjection(deps, J)
  BY DEF Surjection, Indexes
<1>2. IsFiniteSet(J) /\ Cardinality(J) <= Cardinality(deps)
  <2> HIDE DEF f, J
  <2>1. QED BY <1>1, FS_Surjection
<1>3. \A d \in deps : Index(d) \in J
  BY DEF Indexes
<1>4. r \in SUBSET J
  BY ReindexedIn
<1> HIDE DEF J
<1>5. Cardinality(J) \in Nat /\ Cardinality(deps) \in Nat /\ Cardinality(r) <= Cardinality(J)
  BY <1>2, <1>4, FS_Subset, FS_CardinalityType
<1>6. Cardinality(J) = Cardinality(r)
  BY <1>2, <1>5
<1>7. J = r
  BY <1>2, <1>4, <1>6, FS_Subset
<1>8. QED BY <1>3, <1>7

LEMMA StartLinked ==
  ASSUME WalkInv, KeptInv, LinkInv, stack = <<>>, nextId' = 1, UNCHANGED <<mutates, mmap>>
  PROVE  (\A i \in DOMAIN mutates : LinkedAt(mutates, UpTo, i))'
<1>1. /\ DOMAIN mutates = 1..Len(mutates) /\ Len(mutates) \in Nat
      /\ Sound(mutates, nextId, Places) /\ Mapped
  BY ListLength DEF WalkInv, Sound
<1>2. All = ToSet(mutates)
  BY SetNone DEF All
<1>3. \A j \in DOMAIN mutates : UpTo'[j] = Index(mutates[j].parent) /\ Index(mutates[j].id) = j - 1
  BY <1>1 DEF UpTo, Index, Mapped
<1>4. ASSUME NEW i \in DOMAIN mutates PROVE LinkedAt(mutates, UpTo, i)'
  <2> DEFINE m == mutates[i]
  <2>1. Linked(All, m)
    BY <1>2 DEF LinkInv, KeptInv, ToSet
  <2>2. ASSUME NEW k \in DOMAIN m.rcols, ~NoKey(m, m.rcols[k])
        PROVE  \E j \in DOMAIN mutates :
                 /\ m.rcols[k] = KeyFrom(m, mutates[j])
                 /\ UpTo'[i] = j - 1 \/ UpTo'[j] = i - 1
                 /\ \E d \in m.deps : Index(d) = j - 1
    <3>1. PICK j \in DOMAIN mutates :
             /\ mutates[j].id \in m.deps /\ m.rcols[k] = KeyFrom(m, mutates[j])
             /\ mutates[j].id = m.parent \/ mutates[j].parent = m.id
      BY <1>2, <2>1, <2>2 DEF Linked, ToSet
    <3>2. UpTo'[i] = j - 1 \/ UpTo'[j] = i - 1
      BY <1>3, <3>1
    <3>3. QED BY <1>3, <3>1, <3>2
  <2>3. \A d : Index(d)' = Index(d)
    BY DEF Index
  <2>4. m' = m /\ ~(i < nextId') /\ mutates' = mutates
    BY <1>1
  <2>5. IsFiniteSet(m.deps) /\ Cardinality(m.deps) <= Len(m.rcols) /\ IsList(m.rcols)
        /\ (m.type # "insert" => m.rcols = <<>>)
    BY <2>1 DEF Linked
  <2> HIDE DEF m
  <2>6. QED BY <2>2, <2>3, <2>4, <2>5 DEF LinkedAt, m
<1>5. QED BY <1>4

LEMMA ReindexLinked ==
  ASSUME ReindexInv, Reindex, \A i \in DOMAIN mutates : LinkedAt(mutates, UpTo, i)
  PROVE  (\A i \in DOMAIN mutates : LinkedAt(mutates, UpTo, i))'
<1> DEFINE n == nextId
           x == mutates[n]
<1>1. PICK deps \in Reindexed(x.deps) :
             /\ nextId <= Len(mutates) /\ nextId' = nextId + 1 /\ mmap' = mmap
             /\ mutates' = [mutates EXCEPT ![n].id = Index(@), ![n].parent = Index(@), ![n].deps = deps]
  BY DEF Reindex
<1>2. /\ DOMAIN mutates = 1..Len(mutates) /\ Len(mutates) \in Nat /\ n \in DOMAIN mutates
      /\ \A i \in DOMAIN mutates : DOMAIN mutates[i] = Fields
  BY <1>1, ListLength DEF ReindexInv
<1> DEFINE y == [x EXCEPT !.id = Index(@), !.parent = Index(@), !.deps = deps]
<1>3. mutates' = [mutates EXCEPT ![n] = y]
  BY <1>1, <1>2 DEF Fields
<1>4. SameRow(x, y) /\ y.parent = Index(x.parent) /\ y.deps = deps
  BY <1>2 DEF Fields, SameRow
<1> HIDE DEF x, y
<1>5. /\ DOMAIN mutates' = DOMAIN mutates /\ mutates'[n] = y
      /\ \A i \in DOMAIN mutates : i # n => mutates'[i] = mutates[i]
  BY <1>2, <1>3
<1>6. \A i \in DOMAIN mutates : SameRow(mutates[i], mutates'[i])
  BY <1>4, <1>5 DEF SameRow, x
<1>7. \A i \in DOMAIN mutates : UpTo'[i] = UpTo[i]
  <2>1. \A i \in DOMAIN mutates :
          UpTo'[i] = IF i < n + 1 THEN mutates'[i].parent ELSE Index(mutates'[i].parent)
    BY <1>1, <1>5 DEF UpTo, Index
  <2>2. \A i \in DOMAIN mutates :
          UpTo[i] = IF i < n THEN mutates[i].parent ELSE Index(mutates[i].parent)
    BY DEF UpTo
  <2>3. UpTo'[n] = UpTo[n]
    BY <1>2, <1>4, <1>5, <2>1, <2>2 DEF x
  <2>4. \A i \in DOMAIN mutates : i # n => UpTo'[i] = UpTo[i]
    BY <1>2, <1>5, <2>1, <2>2
  <2>5. QED BY <2>3, <2>4
<1>8. ASSUME NEW i \in DOMAIN mutates PROVE LinkedAt(mutates, UpTo, i)'
  <2> DEFINE m == mutates[i]
             u == mutates'[i]
  <2>1. SameRow(m, u) /\ (i # n => u.deps = m.deps) /\ (i = n => u.deps = deps /\ m = x)
    BY <1>4, <1>5, <1>6 DEF x
  <2>2. LinkedAt(mutates, UpTo, i)
    OBVIOUS
  <2>3. IsList(m.rcols) /\ Len(m.rcols) \in Nat
    BY <2>2, ListLength DEF LinkedAt
  <2>4. i >= n + 1 => IsFiniteSet(u.deps) /\ Cardinality(u.deps) <= Len(u.rcols)
    BY <1>2, <2>1, <2>2 DEF LinkedAt, SameRow
  <2>5. \A rcol : NoKey(u, rcol) = NoKey(m, rcol)
    BY <2>1 DEF NoKey, SameRow
  <2>6. ASSUME NEW k \in DOMAIN u.rcols, ~NoKey(u, u.rcols[k])
        PROVE  \E j \in DOMAIN mutates :
                 /\ u.rcols[k] = KeyFrom(u, mutates'[j])
                 /\ UpTo'[i] = j - 1 \/ UpTo'[j] = i - 1
                 /\ IF i < n + 1 THEN Cardinality(u.deps) = Len(u.rcols) => j - 1 \in u.deps
                                 ELSE \E d \in u.deps : Index(d) = j - 1
    <3>1. PICK j \in DOMAIN mutates :
                 /\ m.rcols[k] = KeyFrom(m, mutates[j])
                 /\ UpTo[i] = j - 1 \/ UpTo[j] = i - 1
                 /\ IF i < n THEN Cardinality(m.deps) = Len(m.rcols) => j - 1 \in m.deps
                             ELSE \E d \in m.deps : Index(d) = j - 1
      BY <2>1, <2>2, <2>5, <2>6 DEF LinkedAt, SameRow
    <3>2. u.rcols[k] = KeyFrom(u, mutates'[j])
      BY <1>6, <2>1, <3>1 DEF SameRow, KeyFrom, ConnectsDown
    <3>3. UpTo'[i] = j - 1 \/ UpTo'[j] = i - 1
      BY <1>7, <3>1
    <3>4. CASE i # n
      <4>1. i < n + 1 <=> i < n
        BY <1>2, <3>4
      <4>2. u.deps = m.deps /\ u.rcols = m.rcols
        BY <2>1, <3>4 DEF SameRow
      <4>3. QED BY <3>1, <3>2, <3>3, <4>1, <4>2
    <3>5. CASE i = n
      <4>1. i < n + 1 /\ ~(i < n) /\ i >= nextId /\ u.deps = deps /\ m = x /\ u.rcols = m.rcols
        BY <1>2, <2>1, <3>5 DEF SameRow
      <4>2. IsFiniteSet(x.deps) /\ Cardinality(x.deps) <= Len(m.rcols)
        BY <2>2, <4>1 DEF LinkedAt
      <4>3. Cardinality(deps) = Len(m.rcols) => \A d \in x.deps : Index(d) \in deps
        BY <1>1, <2>3, <4>2, AllIndexes
      <4>4. Cardinality(u.deps) = Len(u.rcols) => j - 1 \in u.deps
        BY <3>1, <4>1, <4>3
      <4>5. QED BY <3>2, <3>3, <4>1, <4>4
    <3>6. QED BY <3>4, <3>5
  <2>7. IsList(u.rcols) /\ (u.type # "insert" => u.rcols = <<>>)
    BY <2>1, <2>2 DEF LinkedAt, SameRow
  <2>8. \A d : Index(d)' = Index(d)
    BY <1>1 DEF Index
  <2>9. \A k \in DOMAIN u.rcols : NoKey(u, u.rcols[k]) \/ \E j \in DOMAIN mutates' :
          /\ u.rcols[k] = KeyFrom(u, mutates'[j])
          /\ UpTo'[i] = j - 1 \/ UpTo'[j] = i - 1
          /\ IF i < nextId' THEN Cardinality(u.deps) = Len(u.rcols) => j - 1 \in u.deps
                            ELSE \E d \in u.deps : Index(d)' = j - 1
    <3>1. DOMAIN mutates' = DOMAIN mutates /\ (i < nextId' <=> i < n + 1)
      BY <1>1, <1>5
    <3> HIDE DEF u, n
    <3>2. QED BY <2>6, <2>8, <3>1
  <2>10. i >= nextId' => IsFiniteSet(u.deps) /\ Cardinality(u.deps) <= Len(u.rcols)
    BY <1>1, <2>4
  <2>11. QED BY <2>7, <2>9, <2>10 DEF LinkedAt
<1>9. QED BY <1>5, <1>8

\* The finished list binds what it ought to.
LEMMA FinishLinked ==
  ASSUME IdsNamePlaces, \A i \in DOMAIN mutates : LinkedAt(mutates, UpTo, i), IsList(mutates),
         nextId \in Nat, nextId > Len(mutates)
  PROVE  KeysBound
<1>1. DOMAIN mutates = 1..Len(mutates) /\ Len(mutates) \in Nat
  BY ListLength
<1>2. \A j \in DOMAIN mutates : UpTo[j] = mutates[j].parent /\ mutates[j].id = j - 1
  BY <1>1 DEF UpTo, IdsNamePlaces
<1>3. ASSUME NEW i \in DOMAIN mutates, NEW k \in DOMAIN mutates[i].rcols,
             ~NoKey(mutates[i], mutates[i].rcols[k])
      PROVE  \E d \in Mutates :
               /\ d.id = mutates[i].parent \/ d.parent = mutates[i].id
               /\ mutates[i].rcols[k] = KeyFrom(mutates[i], d)
               /\ Cardinality(mutates[i].deps) = Len(mutates[i].rcols) => d.id \in mutates[i].deps
  <2> DEFINE m == mutates[i]
  <2>1. i < nextId
    BY <1>1
  <2>2. PICK j \in DOMAIN mutates :
               /\ m.rcols[k] = KeyFrom(m, mutates[j])
               /\ UpTo[i] = j - 1 \/ UpTo[j] = i - 1
               /\ Cardinality(m.deps) = Len(m.rcols) => j - 1 \in m.deps
    BY <1>3, <2>1 DEF LinkedAt
  <2>3. mutates[j] \in Mutates
    BY DEF Mutates
  <2>4. QED BY <1>2, <2>2, <2>3
<1>4. QED BY <1>3 DEF KeysBound, NoKey, Mutates

-----------------------------------------------------------------------------
(* The theorem.                                                            *)

LEMMA KeysInit == Init => KeysInv
BY DEF Init, KeysInv

LEMMA KeysStep ==
  ASSUME "connect" \notin Tables
  PROVE  IdsInv /\ NestInv /\ KeysInv /\ [Next]_vars => KeysInv'
<1> SUFFICES ASSUME IdsInv, NestInv, KeysInv, [Next]_vars, req'.stype = "insert" PROVE KeysInv'
  BY DEF KeysInv
<1> DEFINE Linking == \A i \in DOMAIN mutates : LinkedAt(mutates, UpTo, i)
<1>0. req' = req /\ req.stype = "insert"
  BY DEF Next, vars, AddRoots, RefuseRoots, Render, ExpandConnect, Expand, StartReindex, Reindex,
         Finish
<1>1. CASE AddRoots
  <2>1. req \in Requests /\ mutates = <<>> /\ phase' = "walk"
    BY <1>1 DEF AddRoots, IdsInv
  <2>2. LinkInv'
    BY <1>0, <1>1, <2>1, RootsLinked
  <2>3. QED BY <2>1, <2>2 DEF KeysInv
<1>2. CASE RefuseRoots
  <2>1. phase' = "refused"
    BY <1>2 DEF RefuseRoots
  <2>2. QED BY <2>1 DEF KeysInv
<1>3. CASE Render
  <2>1. WalkInv /\ LinkInv /\ phase' = "walk"
    BY <1>0, <1>3 DEF Render, IdsInv, KeysInv
  <2>2. LinkInv'
    BY <1>3, <2>1, RenderLinked
  <2>3. QED BY <2>1, <2>2 DEF KeysInv
<1>4. CASE ExpandConnect
  <2>1. WalkInv /\ LinkInv /\ phase' = "walk"
    BY <1>0, <1>4 DEF ExpandConnect, IdsInv, KeysInv
  <2>2. LinkInv'
    BY <1>0, <1>4, <2>1, ExpandConnectLinked
  <2>3. QED BY <2>1, <2>2 DEF KeysInv
<1>5. CASE Expand
  <2>1. WalkInv /\ KeptInv /\ LinkInv /\ phase' \in {"walk", "refused"}
    BY <1>0, <1>5 DEF Expand, IdsInv, NestInv, KeysInv
  <2>2. ASSUME phase' = "walk" PROVE LinkInv'
    BY <1>0, <1>5, <2>1, <2>2, ExpandLinked
  <2>3. QED BY <2>1, <2>2 DEF KeysInv
<1>6. CASE StartReindex
  <2>1. /\ WalkInv /\ KeptInv /\ LinkInv /\ stack = <<>> /\ nextId' = 1 /\ UNCHANGED <<mutates, mmap>>
        /\ phase' = "reindex"
    BY <1>0, <1>6 DEF StartReindex, IdsInv, NestInv, KeysInv
  <2>2. Linking'
    BY <2>1, StartLinked
  <2>3. QED BY <2>1, <2>2 DEF KeysInv
<1>7. CASE Reindex
  <2>1. ReindexInv /\ Linking /\ phase' = "reindex"
    BY <1>0, <1>7 DEF Reindex, IdsInv, KeysInv
  <2>2. Linking'
    BY <1>7, <2>1, ReindexLinked
  <2>3. QED BY <2>1, <2>2 DEF KeysInv
<1>8. CASE Finish
  <2>1. Linking /\ phase' = "done" /\ UNCHANGED <<mutates, mmap, nextId>>
    BY <1>0, <1>8 DEF Finish, KeysInv
  <2>2. Linking' = Linking
    BY <2>1 DEF UpTo, Index, LinkedAt
  <2>3. QED BY <2>1, <2>2 DEF KeysInv
<1>9. CASE UNCHANGED vars
  <2>1. LinkInv' = LinkInv /\ Linking' = Linking
    BY <1>9 DEF vars, LinkInv, All, UpTo, Index, LinkedAt
  <2>2. QED BY <1>0, <1>9, <2>1 DEF vars, KeysInv
<1>10. QED BY <1>1, <1>2, <1>3, <1>4, <1>5, <1>6, <1>7, <1>8, <1>9 DEF Next

\* Whatever the tables, their relations and the requests, in a list that is
\* finished every write knows its own place and that of the write above it, and in
\* an insert every foreign key is bound to the write of the row above or of a row
\* or lookup under it, in the columns KeyFrom says, and that write is depended on
\* unless the renumbering has lost a dependency (compileMutation,
\* addTablesAndColumns, newConnectMutate).
THEOREM MutationKeysBound ==
  ASSUME "connect" \notin Tables
  PROVE  Spec => []KeysBound
<1>1. IdsInv /\ NestInv /\ KeysInv => KeysBound
  <2> SUFFICES ASSUME IdsInv, NestInv, KeysInv, Done PROVE KeysBound
    BY DEF KeysBound
  <2>1. /\ IdsNamePlaces
        /\ req.stype = "insert" =>
             /\ IsList(mutates) /\ nextId \in Nat /\ nextId > Len(mutates)
             /\ \A i \in DOMAIN mutates : LinkedAt(mutates, UpTo, i)
    BY DEF IdsInv, NestInv, KeysInv, Done
  <2>2. CASE req.stype = "insert"
    BY <2>1, <2>2, FinishLinked
  <2>3. CASE req.stype # "insert"
    BY <2>1, <2>3 DEF KeysBound
  <2>4. QED BY <2>2, <2>3
<1>2. IdsInv /\ NestInv /\ KeysInv /\ [Next]_vars => (IdsInv /\ NestInv /\ KeysInv)'
  BY IdsStep, NestStep, KeysStep
<1>3. Init => IdsInv /\ NestInv /\ KeysInv
  BY IdsInit, NestInit, KeysInit
<1>4. QED BY <1>1, <1>2, <1>3, PTL DEF Spec
=============================================================================
