-------------------------- MODULE SchemaSyncProofs --------------------------
(* Proofs about SchemaSync for any databases, files and callers: no script     *)
(* takes away what a source has, and none takes anything away unless asked to; *)
(* and scripts have their statements in an order that the databases accept.    *)
(*                                                                             *)
(* The scripts are computed by recursion over sequences. The facts about the   *)
(* recursive functions are proved from the least number that is a              *)
(* counterexample (LeastNat).                                                  *)
EXTENDS SchemaSync, TLAPS, WellFoundedInduction, FiniteSetTheorems

-----------------------------------------------------------------------------
(* Recursion over sequences.                                               *)

\* Every non-empty set of naturals has a least element.
LEMMA LeastNat ==
  ASSUME NEW T \in SUBSET Nat, T # {}
  PROVE  \E n \in T : \A m \in T : n <= m
<1>1. PICK n \in T : \A m \in T : ~(<<m, n>> \in OpToRel(<, Nat))
  BY NatLessThanWellFounded, WFMin
<1>2. \A m \in T : ~(m < n)
  BY <1>1 DEF OpToRel
<1>3. QED BY <1>2

\* g[i] is the concatenation of the first i sequences of ss, as in Concat.
Upto(ss, n, g) == \A i \in 0..n : g[i] = IF i = 0 THEN <<>> ELSE g[i - 1] \o ss[i]
HasUpto(ss, X, n) == \E g \in [0..n -> Seq(X)] : Upto(ss, n, g)

\* There is such a function.
LEMMA UptoExists ==
  ASSUME NEW X, NEW N \in Nat, NEW ss \in [1..N -> Seq(X)]
  PROVE  HasUpto(ss, X, N)
<1> DEFINE T == {n \in 0..N : ~HasUpto(ss, X, n)}
<1>1. SUFFICES T = {}
  BY DEF T
<1>2. SUFFICES ASSUME T # {} PROVE FALSE
  OBVIOUS
<1>3. PICK n \in T : \A m \in T : n <= m
  <2>1. T \in SUBSET Nat
    OBVIOUS
  <2> HIDE DEF T
  <2>2. QED BY <1>2, <2>1, LeastNat
<1>4. HasUpto(ss, X, 0)
  <2>1. [i \in 0..0 |-> <<>>] \in [0..0 -> Seq(X)]
    OBVIOUS
  <2>2. Upto(ss, 0, [i \in 0..0 |-> <<>>])
    BY DEF Upto
  <2>3. QED BY <2>1, <2>2 DEF HasUpto
<1>5. n \in 1..N /\ n - 1 \in 0..N /\ HasUpto(ss, X, n - 1)
  BY <1>3, <1>4
<1>6. PICK g \in [0..(n - 1) -> Seq(X)] : Upto(ss, n - 1, g)
  BY <1>5 DEF HasUpto
<1> DEFINE h == [i \in 0..n |-> IF i < n THEN g[i] ELSE g[n - 1] \o ss[n]]
<1>7. g[n - 1] \in Seq(X) /\ ss[n] \in Seq(X)
  BY <1>5, <1>6
<1>8. g[n - 1] \o ss[n] \in Seq(X)
  BY <1>7
<1>9. h \in [0..n -> Seq(X)]
  BY <1>5, <1>6, <1>8
<1>10. Upto(ss, n, h)
  <2> SUFFICES ASSUME NEW i \in 0..n
               PROVE  h[i] = IF i = 0 THEN <<>> ELSE h[i - 1] \o ss[i]
    BY DEF Upto
  <2>1. CASE i < n
    <3>1. i \in 0..(n - 1) /\ h[i] = g[i]
      BY <1>5, <2>1
    <3>2. g[i] = IF i = 0 THEN <<>> ELSE g[i - 1] \o ss[i]
      BY <1>6, <3>1 DEF Upto
    <3>3. i # 0 => h[i - 1] = g[i - 1]
      BY <1>5, <2>1
    <3>4. QED BY <3>1, <3>2, <3>3
  <2>2. CASE i = n
    BY <1>5, <2>2
  <2>3. QED BY <1>5, <2>1, <2>2
<1>11. HasUpto(ss, X, n)
  BY <1>9, <1>10 DEF HasUpto
<1>12. QED BY <1>3, <1>11

\* And its values are sequences of what the sequences of ss have.
LEMMA UptoType ==
  ASSUME NEW X, NEW N \in Nat, NEW ss \in [1..N -> Seq(X)], NEW g, Upto(ss, N, g)
  PROVE  g[N] \in Seq(X)
<1> DEFINE T == {n \in 0..N : g[n] \notin Seq(X)}
<1>1. SUFFICES ASSUME T # {} PROVE FALSE
  OBVIOUS
<1>2. PICK n \in T : \A m \in T : n <= m
  <2>1. T \in SUBSET Nat
    OBVIOUS
  <2> HIDE DEF T
  <2>2. QED BY <1>1, <2>1, LeastNat
<1>3. n \in 0..N /\ g[n] \notin Seq(X) /\ \A m \in 0..N : m < n => g[m] \in Seq(X)
  BY <1>2
<1>4. g[n] = IF n = 0 THEN <<>> ELSE g[n - 1] \o ss[n]
  BY <1>3 DEF Upto
<1>5. <<>> \in Seq(X)
  OBVIOUS
<1>6. CASE n # 0
  <2>1. n - 1 \in 0..N /\ n - 1 < n /\ n \in 1..N
    BY <1>3, <1>6
  <2>2. g[n - 1] \in Seq(X) /\ ss[n] \in Seq(X)
    BY <1>3, <2>1
  <2> DEFINE a == g[n - 1]
             b == ss[n]
  <2> HIDE DEF a, b
  <2>3. a \o b \in Seq(X)
    BY <2>2 DEF a, b
  <2>4. QED BY <1>3, <1>4, <1>6, <2>3 DEF a, b
<1>7. QED BY <1>3, <1>4, <1>5, <1>6

-----------------------------------------------------------------------------
(* Scripts.                                                                *)

Ops == {"create_table", "add_column", "add_constraint", "add_index", "drop_column", "drop_table"}

\* A statement that takes away a column or a table was asked for, and the source
\* does not have what it takes away; one that makes a table lists its columns.
Safe(s) ==
  /\ s.op \in Ops
  /\ s.op = "create_table" => IsList(s.col)
  /\ s.op = "drop_column" =>
       case.destructive /\ ~HasColumn(case.source[s.db], s.table, s.col)
  /\ s.op = "drop_table" =>
       case.destructive /\ s.table \notin DOMAIN case.source[s.db].tables

SafeScript(q) == IsList(q) /\ \A i \in DOMAIN q : Safe(q[i])

\* What a recursive function of Concat is.
IsUpto(ss, n, g) == g = [i \in 0..n |-> IF i = 0 THEN <<>> ELSE g[i - 1] \o ss[i]]

\* Safe scripts one after the other are a safe script.
LEMMA UptoSafe ==
  ASSUME NEW N \in Nat, NEW ss, ss = [i \in 1..N |-> ss[i]],
         \A i \in 1..N : SafeScript(ss[i])
  PROVE  /\ \E g : IsUpto(ss, N, g)
         /\ \A g : IsUpto(ss, N, g) => SafeScript(g[N])
<1> DEFINE Y == UNION {Elems(ss[i]) : i \in 1..N}
<1>1. \A i \in 1..N : ss[i] \in Seq(Elems(ss[i])) /\ Elems(ss[i]) \subseteq Y
  BY DEF SafeScript, IsList
<1>2. \A y \in Y : Safe(y)
  BY DEF SafeScript, Elems
<1> HIDE DEF Y
<1>3. ss \in [1..N -> Seq(Y)]
  <2>1. \A i \in 1..N : ss[i] \in Seq(Y)
    BY <1>1
  <2>2. QED BY <2>1
<1>4. \E g : IsUpto(ss, N, g)
  <2>1. PICK g \in [0..N -> Seq(Y)] : Upto(ss, N, g)
    BY <1>3, UptoExists DEF HasUpto
  <2>2. IsUpto(ss, N, g)
    BY <2>1 DEF Upto, IsUpto
  <2>3. QED BY <2>2
<1>5. ASSUME NEW g, IsUpto(ss, N, g)
      PROVE  SafeScript(g[N])
  <2>1. Upto(ss, N, g)
    BY <1>5 DEF Upto, IsUpto
  <2>2. g[N] \in Seq(Y)
    BY <1>3, <2>1, UptoType
  <2> DEFINE q == g[N]
  <2> HIDE DEF q
  <2>3. q \in Seq(Y)
    BY <2>2 DEF q
  <2>4. q \in Seq(Elems(q)) /\ \A i \in DOMAIN q : Safe(q[i])
    BY <1>2, <2>3 DEF Elems
  <2>5. QED BY <2>4 DEF SafeScript, IsList, q
<1>6. QED BY <1>4, <1>5

\* Of two scripts.
LEMMA ConcatTwo ==
  ASSUME NEW p, NEW q, SafeScript(p), SafeScript(q)
  PROVE  SafeScript(p \o q)
<1>1. p \in Seq(Elems(p)) /\ q \in Seq(Elems(q))
  BY DEF SafeScript, IsList
<1> DEFINE Y == Elems(p) \cup Elems(q)
<1>2. p \in Seq(Y) /\ q \in Seq(Y)
  BY <1>1
<1>3. \A y \in Y : Safe(y)
  BY DEF SafeScript, Elems
<1> HIDE DEF Y
<1> DEFINE r == p \o q
<1>4. r \in Seq(Y)
  BY <1>2
<1> HIDE DEF r
<1>5. r \in Seq(Elems(r)) /\ \A i \in DOMAIN r : Safe(r[i])
  BY <1>3, <1>4 DEF Elems
<1>6. QED BY <1>5 DEF SafeScript, IsList, r

\* Of one statement, or of none.
LEMMA ConcatOne ==
  /\ SafeScript(<<>>)
  /\ \A s : Safe(s) => SafeScript(<<s>>)
<1>1. SafeScript(<<>>)
  BY DEF SafeScript, IsList, Elems
<1>2. ASSUME NEW s, Safe(s) PROVE SafeScript(<<s>>)
  <2>1. DOMAIN <<s>> = {1} /\ <<s>>[1] = s
    OBVIOUS
  <2>2. Elems(<<s>>) = {s}
    BY <2>1 DEF Elems
  <2>3. <<s>> \in Seq({s})
    OBVIOUS
  <2>4. QED BY <1>2, <2>1, <2>2, <2>3 DEF SafeScript, IsList
<1>3. QED BY <1>1, <1>2

\* Of as many as there are.
LEMMA ConcatIs ==
  ASSUME NEW N \in Nat, NEW ss, DOMAIN ss = 1..N
  PROVE  Concat(ss) = (CHOOSE g : IsUpto(ss, N, g))[N]
<1>1. 1 \in Int /\ N \in Int
  OBVIOUS
<1>2. Cardinality(1..N) = IF 1 > N THEN 0 ELSE N - 1 + 1
  BY <1>1, FS_Interval
<1>3. Cardinality(DOMAIN ss) = N
  BY <1>2
<1>4. QED BY <1>3, Zenon DEF Concat, IsUpto

LEMMA ConcatSafe ==
  ASSUME NEW N \in Nat, NEW ss, ss = [i \in 1..N |-> ss[i]],
         \A i \in 1..N : SafeScript(ss[i])
  PROVE  SafeScript(Concat(ss))
<1>1. DOMAIN ss = 1..N
  OBVIOUS
<1> DEFINE P(g) == IsUpto(ss, N, g)
<1>2. (\E g : P(g)) /\ \A g : P(g) => SafeScript(g[N])
  BY UptoSafe
<1>3. Concat(ss) = (CHOOSE g : P(g))[N]
  BY <1>1, ConcatIs
<1> HIDE DEF P
<1>4. P(CHOOSE g : P(g))
  BY <1>2
<1>5. SafeScript((CHOOSE g : P(g))[N])
  BY <1>2, <1>4
<1>6. QED BY <1>3, <1>5

-----------------------------------------------------------------------------
(* Lists and orders.                                                       *)

\* A list is a function on an interval that starts with one.
LEMMA ListLength ==
  ASSUME NEW s, IsList(s)
  PROVE  Len(s) \in Nat /\ DOMAIN s = 1..Len(s)
BY DEF IsList

\* It has finitely many elements.
LEMMA ListFinite ==
  ASSUME NEW s, IsList(s)
  PROVE  IsFiniteSet(Elems(s))
<1>1. Len(s) \in Nat /\ DOMAIN s = 1..Len(s) /\ s \in [DOMAIN s -> Elems(s)]
  BY DEF IsList
<1>2. s \in Surjection(DOMAIN s, Elems(s))
  BY <1>1 DEF Surjection, Elems
<1>3. IsFiniteSet(DOMAIN s)
  BY <1>1, FS_Interval
<1>4. QED BY <1>2, <1>3, FS_Surjection

\* An order of a finite set is a list of its elements.
LEMMA OrderIsList ==
  ASSUME NEW S, IsFiniteSet(S), NEW o \in Orders(S)
  PROVE  IsList(o) /\ Elems(o) = S
<1>1. Cardinality(S) \in Nat
  BY FS_CardinalityType
<1>2. o \in [1..Cardinality(S) -> S] /\ Elems(o) = S
  BY DEF Orders
<1>3. o \in Seq(S)
  BY <1>1, <1>2
<1>4. QED BY <1>2, <1>3 DEF IsList

\* A function on such an interval is a list.
LEMMA ListFromFunction ==
  ASSUME NEW n \in Nat, NEW s, s = [i \in 1..n |-> s[i]]
  PROVE  IsList(s)
<1>1. s \in [1..n -> Elems(s)]
  BY DEF Elems
<1> DEFINE E == Elems(s)
<1>2. s \in [1..n -> E]
  BY <1>1
<1> HIDE DEF E
<1>3. s \in Seq(E)
  BY <1>2
<1>4. QED BY <1>3 DEF IsList, E

\* No element twice.
Distinct(s) == \A i, j \in DOMAIN s : s[i] = s[j] => i = j

\* A list is as long as it has elements, and no longer only if it has each once.
LEMMA DistinctLength ==
  ASSUME NEW s, IsList(s)
  PROVE  /\ IsFiniteSet(Elems(s)) /\ Cardinality(Elems(s)) \in Nat
         /\ Distinct(s) <=> Cardinality(Elems(s)) = Len(s)
<1> DEFINE n == Len(s)
           E == Elems(s)
<1>1. n \in Nat /\ DOMAIN s = 1..n /\ s \in [1..n -> E]
  BY DEF IsList
<1>2. s \in Surjection(1..n, E)
  BY <1>1 DEF Surjection, Elems
<1>3. IsFiniteSet(1..n) /\ Cardinality(1..n) = n
  BY <1>1, FS_Interval
<1>4. DOMAIN s = 1..n
  BY <1>1
<1> HIDE DEF n, E
<1>5. IsFiniteSet(E) /\ (Cardinality(E) = n <=> s \in Injection(1..n, E))
  BY <1>2, <1>3, FS_Surjection
<1>6. s \in Injection(1..n, E) <=> Distinct(s)
  BY <1>1, <1>4 DEF Injection, IsInjective, Distinct
<1>7. QED BY <1>5, <1>6, FS_CardinalityType DEF n, E

\* An order has each element once.
LEMMA OrderDistinct ==
  ASSUME NEW S, IsFiniteSet(S), NEW o \in Orders(S)
  PROVE  Distinct(o)
<1>1. Cardinality(S) \in Nat
  BY FS_CardinalityType
<1>2. o \in [1..Cardinality(S) -> S] /\ Elems(o) = S
  BY DEF Orders
<1>3. Len(o) = Cardinality(S)
  <2> DEFINE n == Cardinality(S)
  <2>1. o \in [1..n -> S] /\ n \in Nat
    BY <1>1, <1>2
  <2> HIDE DEF n
  <2>2. Len(o) = n
    BY <2>1
  <2>3. QED BY <2>2 DEF n
<1>4. QED BY <1>2, <1>3, OrderIsList, DistinctLength

\* A sequence of elements of a set is a list.
LEMMA ListIn ==
  ASSUME NEW X, NEW s \in Seq(X)
  PROVE  IsList(s) /\ Elems(s) \subseteq X /\ Len(s) \in Nat /\ DOMAIN s = 1..Len(s)
<1>1. Len(s) \in Nat /\ DOMAIN s = 1..Len(s) /\ s \in [1..Len(s) -> X]
  OBVIOUS
<1>2. s = [i \in 1..Len(s) |-> s[i]]
  BY <1>1
<1>3. QED BY <1>1, <1>2, ListFromFunction DEF Elems

\* A new element at the end.
LEMMA AppendDistinct ==
  ASSUME NEW X, NEW s \in Seq(X), NEW x \in X, Distinct(s), x \notin Elems(s)
  PROVE  Distinct(Append(s, x)) /\ Elems(Append(s, x)) = Elems(s) \cup {x}
<1> DEFINE r == Append(s, x)
           n == Len(s)
<1>1. /\ n \in Nat /\ DOMAIN s = 1..n /\ DOMAIN r = 1..(n + 1)
      /\ (\A i \in 1..n : r[i] = s[i]) /\ r[n + 1] = x
  OBVIOUS
<1> HIDE DEF r, n
<1>2. Distinct(r)
  BY <1>1 DEF Distinct, Elems
<1>3. Elems(r) = Elems(s) \cup {x}
  BY <1>1 DEF Elems
<1>4. QED BY <1>2, <1>3 DEF r

\* Without the first.
LEMMA TailDistinct ==
  ASSUME NEW X, NEW s \in Seq(X), s # <<>>, Distinct(s)
  PROVE  /\ Tail(s) \in Seq(X) /\ Distinct(Tail(s))
         /\ Head(s) \in Elems(s) /\ Elems(Tail(s)) = Elems(s) \ {Head(s)}
<1> DEFINE r == Tail(s)
           n == Len(s)
<1>1. /\ n \in Nat \ {0} /\ DOMAIN s = 1..n /\ DOMAIN r = 1..(n - 1)
      /\ (\A i \in 1..(n - 1) : r[i] = s[i + 1]) /\ Head(s) = s[1] /\ r \in Seq(X)
  OBVIOUS
<1>2. \A i \in 2..n : i - 1 \in 1..(n - 1) /\ s[i] = r[i - 1]
  BY <1>1
<1> HIDE DEF r, n
<1>3. Distinct(r)
  <2> SUFFICES ASSUME NEW i \in 1..(n - 1), NEW j \in 1..(n - 1), r[i] = r[j] PROVE i = j
    BY <1>1 DEF Distinct
  <2>1. i + 1 \in 1..n /\ j + 1 \in 1..n /\ s[i + 1] = s[j + 1]
    BY <1>1
  <2>2. i + 1 = j + 1
    BY <1>1, <2>1 DEF Distinct
  <2>3. QED BY <1>1, <2>2
<1>4. Head(s) \in Elems(s)
  BY <1>1 DEF Elems
<1>5. Elems(r) \subseteq Elems(s) \ {Head(s)}
  BY <1>1 DEF Elems, Distinct
<1>6. ASSUME NEW x \in Elems(s), x # Head(s) PROVE x \in Elems(r)
  <2>1. PICK i \in 1..n : x = s[i]
    BY <1>1 DEF Elems
  <2>2. i \in 2..n
    BY <1>1, <1>6, <2>1
  <2>3. QED BY <1>1, <1>2, <2>1, <2>2 DEF Elems
<1>7. QED BY <1>1, <1>3, <1>4, <1>5, <1>6 DEF r

\* Two lists, one after the other.
LEMMA JoinElems ==
  ASSUME NEW X, NEW s \in Seq(X), NEW u \in Seq(X)
  PROVE  /\ s \o u \in Seq(X) /\ Elems(s \o u) = Elems(s) \cup Elems(u)
         /\ DOMAIN (s \o u) = 1..(Len(s) + Len(u))
         /\ \A i \in 1..Len(s) : (s \o u)[i] = s[i]
         /\ \A i \in 1..Len(u) : (s \o u)[Len(s) + i] = u[i]
<1> DEFINE r == s \o u
           n == Len(s)
           m == Len(u)
<1>1. /\ n \in Nat /\ m \in Nat /\ DOMAIN s = 1..n /\ DOMAIN u = 1..m /\ DOMAIN r = 1..(n + m)
      /\ \A i \in 1..(n + m) : r[i] = IF i <= n THEN s[i] ELSE u[i - n]
      /\ r \in Seq(X)
  OBVIOUS
<1> HIDE DEF r, n, m
<1>2. (\A i \in 1..n : r[i] = s[i]) /\ \A i \in 1..m : r[n + i] = u[i]
  BY <1>1
<1>3. \A i \in 1..m : n + i \in 1..(n + m)
  BY <1>1
<1>4. Elems(s) \cup Elems(u) \subseteq Elems(r)
  <2>1. Elems(r) = {r[i] : i \in 1..(n + m)}
    BY <1>1 DEF Elems
  <2>2. \A i \in 1..n : i \in 1..(n + m) /\ s[i] = r[i]
    BY <1>1, <1>2
  <2>3. \A i \in 1..m : n + i \in 1..(n + m) /\ u[i] = r[n + i]
    BY <1>2, <1>3
  <2>4. Elems(s) = {s[i] : i \in 1..n} /\ Elems(u) = {u[i] : i \in 1..m}
    BY <1>1 DEF Elems
  <2>5. QED BY <2>1, <2>2, <2>3, <2>4
<1>5. \A i \in 1..(n + m) : i > n => i - n \in 1..m
  BY <1>1
<1>6. Elems(r) \subseteq Elems(s) \cup Elems(u)
  <2> SUFFICES ASSUME NEW i \in 1..(n + m) PROVE r[i] \in Elems(s) \cup Elems(u)
    BY <1>1 DEF Elems
  <2>0. Elems(s) = {s[k] : k \in 1..n} /\ Elems(u) = {u[k] : k \in 1..m}
    BY <1>1 DEF Elems
  <2>1. CASE i <= n
    <3>1. i \in 1..n /\ r[i] = s[i]
      BY <1>1, <2>1
    <3>2. QED BY <2>0, <3>1
  <2>2. CASE ~(i <= n)
    <3>1. i - n \in 1..m /\ r[i] = u[i - n]
      BY <1>1, <1>5, <2>2
    <3>2. QED BY <2>0, <3>1
  <2>3. QED BY <2>1, <2>2
<1>7. QED BY <1>1, <1>2, <1>4, <1>6 DEF r, n, m

\* They have no element twice if neither has and they share none.
LEMMA JoinDistinct ==
  ASSUME NEW X, NEW s \in Seq(X), NEW u \in Seq(X), Distinct(s), Distinct(u), Elems(s) \cap Elems(u) = {}
  PROVE  Distinct(s \o u)
<1> DEFINE r == s \o u
           n == Len(s)
           m == Len(u)
<1>1. /\ n \in Nat /\ m \in Nat /\ DOMAIN s = 1..n /\ DOMAIN u = 1..m /\ DOMAIN r = 1..(n + m)
      /\ \A i \in 1..(n + m) : r[i] = IF i <= n THEN s[i] ELSE u[i - n]
  OBVIOUS
<1> HIDE DEF r, n, m
<1>2. \A i \in 1..(n + m) : i > n => i - n \in 1..m
  BY <1>1
<1>3. \A i \in 1..(n + m) : (i <= n => r[i] \in Elems(s) /\ r[i] \notin Elems(u))
                             /\ (i > n => r[i] \in Elems(u) /\ r[i] \notin Elems(s))
  <2> SUFFICES ASSUME NEW i \in 1..(n + m)
               PROVE  (i <= n => r[i] \in Elems(s)) /\ (i > n => r[i] \in Elems(u))
    OBVIOUS
  <2>1. i <= n => i \in 1..n /\ r[i] = s[i]
    BY <1>1
  <2>2. i > n => i - n \in 1..m /\ r[i] = u[i - n]
    BY <1>1, <1>2
  <2>3. QED BY <1>1, <2>1, <2>2 DEF Elems
<1>4. ASSUME NEW i \in 1..(n + m), NEW j \in 1..(n + m), r[i] = r[j] PROVE i = j
  <2>1. CASE i <= n
    <3>1. j <= n
      BY <1>1, <1>3, <1>4, <2>1
    <3>2. i \in 1..n /\ j \in 1..n /\ s[i] = s[j]
      BY <1>1, <1>4, <2>1, <3>1
    <3>3. QED BY <1>1, <3>2 DEF Distinct
  <2>2. CASE i > n
    <3>1. j > n
      BY <1>1, <1>3, <1>4, <2>2
    <3>2. i - n \in 1..m /\ j - n \in 1..m /\ u[i - n] = u[j - n]
      BY <1>1, <1>2, <1>4, <2>2, <3>1
    <3>3. i - n = j - n
      BY <1>1, <3>2 DEF Distinct
    <3>4. QED BY <1>1, <3>3
  <2>3. QED BY <1>1, <2>1, <2>2
<1>5. QED BY <1>1, <1>4 DEF Distinct, r

-----------------------------------------------------------------------------
(* The parts of a script.                                                  *)

\* No step that adds something takes anything away.
LEMMA AddsSafe ==
  ASSUME NEW db, NEW t, NEW c
  PROVE  /\ Safe(AddColumn(db, t, c))
         /\ SafeScript(AddForeignKey(db, t, c))
         /\ SafeScript(CreateIndexes(db, t, c))
<1>1. Safe(AddColumn(db, t, c))
  BY DEF Safe, Ops, AddColumn, Statement
<1>2. Safe(Statement("add_constraint", db, t, c))
  BY DEF Safe, Ops, Statement
<1>3. \A kind : Safe(AddIndex(db, t, c, kind))
  BY DEF Safe, Ops, AddIndex
<1>4. SafeScript(AddForeignKey(db, t, c))
  BY <1>2, ConcatOne DEF AddForeignKey
<1> DEFINE a == IF c.search /\ case.driver # "sqlite" THEN <<AddIndex(db, t, c, "search")>> ELSE <<>>
           b == IF c.uniq /\ ~c.pk THEN <<AddIndex(db, t, c, "unique")>> ELSE <<>>
           d == IF c.index THEN <<AddIndex(db, t, c, "plain")>> ELSE <<>>
<1>5. CreateIndexes(db, t, c) = a \o b \o d
  BY DEF CreateIndexes
<1>6. SafeScript(a) /\ SafeScript(b) /\ SafeScript(d)
  BY <1>3, ConcatOne
<1> HIDE DEF a, b, d
<1>7. SafeScript(a \o b)
  BY <1>6, ConcatTwo
<1>8. SafeScript((a \o b) \o d)
  BY <1>6, <1>7, ConcatTwo
<1>9. QED BY <1>1, <1>4, <1>5, <1>8

\* What a type of the file says of a table: its columns, all of the source's
\* table among them.
Fits(db, t) ==
  /\ IsList(t.cols)
  /\ t.name \in DOMAIN case.source[db].tables =>
       Names(case.source[db].tables[t.name]) \subseteq Names(t.cols)

LEMMA NewTableSafe ==
  ASSUME NEW db, NEW t, IsList(t.cols)
  PROVE  SafeScript(NewTable(db, t))
<1> DEFINE ss == [i \in DOMAIN t.cols |-> CreateIndexes(db, t.name, t.cols[i])]
<1>1. Safe(CreateTable(db, t))
  BY DEF Safe, Ops, CreateTable, Statement
<1>2. Len(t.cols) \in Nat /\ DOMAIN t.cols = 1..Len(t.cols)
  BY ListLength
<1>3. \A i \in 1..Len(t.cols) : SafeScript(ss[i])
  BY <1>2, AddsSafe
<1>4. ss = [i \in 1..Len(t.cols) |-> ss[i]]
  BY <1>2
<1>5. NewTable(db, t) = <<CreateTable(db, t)>> \o Concat(ss)
  BY DEF NewTable
<1> HIDE DEF ss
<1>6. SafeScript(Concat(ss))
  BY <1>2, <1>3, <1>4, ConcatSafe
<1>7. SafeScript(<<CreateTable(db, t)>>)
  BY <1>1, ConcatOne
<1>8. QED BY <1>5, <1>6, <1>7, ConcatTwo

LEMMA NewColumnsSafe ==
  ASSUME NEW db, NEW t, NEW cols, IsList(t.cols)
  PROVE  SafeScript(NewColumns(db, t, cols))
<1> DEFINE ss == [i \in DOMAIN t.cols |->
                    IF t.cols[i].name \in Names(cols) THEN <<>> ELSE NewColumn(db, t, t.cols[i])]
<1>1. ASSUME NEW c PROVE SafeScript(NewColumn(db, t, c))
  <2> DEFINE a == <<AddColumn(db, t.name, c)>>
             b == AddForeignKey(db, t.name, c)
             d == CreateIndexes(db, t.name, c)
  <2>1. SafeScript(a) /\ SafeScript(b) /\ SafeScript(d)
    BY AddsSafe, ConcatOne
  <2>2. NewColumn(db, t, c) = a \o b \o d
    BY DEF NewColumn
  <2> HIDE DEF a, b, d
  <2>3. SafeScript(a \o b)
    BY <2>1, ConcatTwo
  <2>4. QED BY <2>1, <2>2, <2>3, ConcatTwo
<1>2. Len(t.cols) \in Nat /\ DOMAIN t.cols = 1..Len(t.cols)
  BY ListLength
<1>3. \A i \in 1..Len(t.cols) : SafeScript(ss[i])
  BY <1>1, <1>2, ConcatOne
<1>4. ss = [i \in 1..Len(t.cols) |-> ss[i]]
  BY <1>2
<1>5. NewColumns(db, t, cols) = Concat(ss)
  BY DEF NewColumns
<1> HIDE DEF ss
<1>6. QED BY <1>2, <1>3, <1>4, <1>5, ConcatSafe

\* A column is dropped if it was asked for and the file, thus the source, does
\* not have it.
LEMMA ExtraColumnsSafe ==
  ASSUME NEW db, NEW t, NEW cols, Fits(db, t), IsList(cols)
  PROVE  SafeScript(ExtraColumns(db, t, cols))
<1> DEFINE ss == [i \in DOMAIN cols |->
                    IF cols[i].name \in Names(t.cols) THEN <<>>
                    ELSE <<DropColumn(db, t.name, cols[i].name)>>]
<1>1. CASE ~case.destructive
  BY <1>1, ConcatOne DEF ExtraColumns
<1>2. CASE case.destructive
  <2>1. \A i \in DOMAIN cols : cols[i].name \notin Names(t.cols) =>
          Safe(DropColumn(db, t.name, cols[i].name))
    BY <1>2 DEF Fits, Safe, Ops, DropColumn, Statement, HasColumn
  <2>2. Len(cols) \in Nat /\ DOMAIN cols = 1..Len(cols)
    BY ListLength
  <2>3. \A i \in 1..Len(cols) : SafeScript(ss[i])
    BY <2>1, <2>2, ConcatOne
  <2>4. ss = [i \in 1..Len(cols) |-> ss[i]]
    BY <2>2
  <2>5. ExtraColumns(db, t, cols) = Concat(ss)
    BY <1>2 DEF ExtraColumns
  <2> HIDE DEF ss
  <2>6. QED BY <2>2, <2>3, <2>4, <2>5, ConcatSafe
<1>3. QED BY <1>1, <1>2

\* A table likewise.
LEMMA ExtraTablesSafe ==
  ASSUME NEW db, NEW expected, NEW names, IsList(names),
         DOMAIN case.source[db].tables \subseteq Names(expected)
  PROVE  SafeScript(ExtraTables(db, expected, names))
<1> DEFINE ss == [i \in DOMAIN names |->
                    IF names[i] \in Names(expected) THEN <<>> ELSE <<DropTable(db, names[i])>>]
<1>1. CASE ~case.destructive
  BY <1>1, ConcatOne DEF ExtraTables
<1>2. CASE case.destructive
  <2>1. \A i \in DOMAIN names : names[i] \notin Names(expected) => Safe(DropTable(db, names[i]))
    BY <1>2 DEF Safe, Ops, DropTable, Statement
  <2>2. Len(names) \in Nat /\ DOMAIN names = 1..Len(names)
    BY ListLength
  <2>3. \A i \in 1..Len(names) : SafeScript(ss[i])
    BY <2>1, <2>2, ConcatOne
  <2>4. ss = [i \in 1..Len(names) |-> ss[i]]
    BY <2>2
  <2>5. ExtraTables(db, expected, names) = Concat(ss)
    BY <1>2 DEF ExtraTables
  <2> HIDE DEF ss
  <2>6. QED BY <2>2, <2>3, <2>4, <2>5, ConcatSafe
<1>3. QED BY <1>1, <1>2

LEMMA DiffSafe ==
  ASSUME NEW db, NEW current, NEW expected, NEW sorted, NEW names,
         IsList(expected), IsList(sorted), IsList(names),
         Elems(sorted) \subseteq Elems(expected),
         \A t \in Elems(expected) : Fits(db, t),
         DOMAIN case.source[db].tables \subseteq Names(expected),
         \A t \in DOMAIN current : IsList(current[t].cols)
  PROVE  SafeScript(ComputeDiff(db, current, expected, sorted, names))
<1> DEFINE new == [i \in DOMAIN sorted |->
                     IF sorted[i].name \in DOMAIN current THEN <<>> ELSE NewTable(db, sorted[i])]
           changed == [i \in DOMAIN expected |->
                         IF expected[i].name \notin DOMAIN current THEN <<>>
                         ELSE NewColumns(db, expected[i], current[expected[i].name].cols)
                                \o ExtraColumns(db, expected[i], current[expected[i].name].cols)]
           extra == ExtraTables(db, expected, names)
<1>1. ComputeDiff(db, current, expected, sorted, names) = Concat(new) \o Concat(changed) \o extra
  BY DEF ComputeDiff
<1>2. \A i \in DOMAIN expected : Fits(db, expected[i])
  BY DEF Elems
<1>3. \A i \in DOMAIN sorted : Fits(db, sorted[i])
  BY DEF Elems
<1>4. SafeScript(Concat(new))
  <2>1. Len(sorted) \in Nat /\ DOMAIN sorted = 1..Len(sorted)
    BY ListLength
  <2>2. \A i \in 1..Len(sorted) : SafeScript(NewTable(db, sorted[i]))
    BY <1>3, <2>1, NewTableSafe DEF Fits
  <2>3. \A i \in 1..Len(sorted) : SafeScript(new[i])
    BY <2>1, <2>2, ConcatOne
  <2>4. new = [i \in 1..Len(sorted) |-> new[i]]
    BY <2>1
  <2> HIDE DEF new
  <2>5. QED BY <2>1, <2>3, <2>4, ConcatSafe
<1>5. SafeScript(Concat(changed))
  <2>1. Len(expected) \in Nat /\ DOMAIN expected = 1..Len(expected)
    BY ListLength
  <2>2. ASSUME NEW i \in DOMAIN expected, expected[i].name \in DOMAIN current
        PROVE  SafeScript(NewColumns(db, expected[i], current[expected[i].name].cols)
                            \o ExtraColumns(db, expected[i], current[expected[i].name].cols))
    <3> DEFINE t == expected[i]
               cols == current[t.name].cols
    <3>1. Fits(db, t) /\ IsList(t.cols) /\ IsList(cols)
      BY <1>2, <2>2 DEF Fits
    <3> HIDE DEF t, cols
    <3>2. SafeScript(NewColumns(db, t, cols)) /\ SafeScript(ExtraColumns(db, t, cols))
      BY <3>1, NewColumnsSafe, ExtraColumnsSafe
    <3>3. SafeScript(NewColumns(db, t, cols) \o ExtraColumns(db, t, cols))
      BY <3>2, ConcatTwo
    <3>4. QED BY <3>3 DEF t, cols
  <2>3. \A i \in 1..Len(expected) : SafeScript(changed[i])
    BY <2>1, <2>2, ConcatOne
  <2>4. changed = [i \in 1..Len(expected) |-> changed[i]]
    BY <2>1
  <2> HIDE DEF changed
  <2>5. QED BY <2>1, <2>3, <2>4, ConcatSafe
<1>6. SafeScript(extra)
  BY ExtraTablesSafe
<1> HIDE DEF new, changed, extra
<1> DEFINE a == Concat(new)
           b == Concat(changed)
<1>7. SafeScript(a) /\ SafeScript(b)
  BY <1>4, <1>5
<1>8. ComputeDiff(db, current, expected, sorted, names) = a \o b \o extra
  BY <1>1
<1> HIDE DEF a, b
<1>9. SafeScript(a \o b)
  BY <1>7, ConcatTwo
<1>10. QED BY <1>6, <1>8, <1>9, ConcatTwo

-----------------------------------------------------------------------------
(* Kahn's algorithm.                                                       *)

\* What starts in the first of the sets X and comes step by step from each to
\* the next is in the last to the end.
LEMMA Stays ==
  ASSUME NEW X, NEW N \in Nat, NEW g, g[0] \in X[0],
         \A k \in 1..N : g[k - 1] \in X[k - 1] => g[k] \in X[k]
  PROVE  g[N] \in X[N]
<1> DEFINE T == {n \in 0..N : g[n] \notin X[n]}
<1>1. SUFFICES ASSUME T # {} PROVE FALSE
  OBVIOUS
<1>2. PICK n \in T : \A m \in T : n <= m
  <2>1. T \in SUBSET Nat
    OBVIOUS
  <2> HIDE DEF T
  <2>2. QED BY <1>1, <2>1, LeastNat
<1>3. n \in 1..N /\ n - 1 \in 0..N /\ g[n] \notin X[n]
  BY <1>2
<1>4. g[n - 1] \in X[n - 1]
  BY <1>2, <1>3
<1>5. QED BY <1>3, <1>4

\* A function can be taken again and again.
Steps(X, x0, f, n) == \E g \in [0..n -> X] : \A k \in 0..n : g[k] = IF k = 0 THEN x0 ELSE f[g[k - 1]]

LEMMA StepsExist ==
  ASSUME NEW X, NEW x0 \in X, NEW f \in [X -> X], NEW N \in Nat
  PROVE  Steps(X, x0, f, N)
<1> DEFINE T == {n \in 0..N : ~Steps(X, x0, f, n)}
<1>1. SUFFICES ASSUME T # {} PROVE FALSE
  OBVIOUS
<1>2. PICK n \in T : \A m \in T : n <= m
  <2>1. T \in SUBSET Nat
    OBVIOUS
  <2> HIDE DEF T
  <2>2. QED BY <1>1, <2>1, LeastNat
<1>3. Steps(X, x0, f, 0)
  <2> DEFINE h == [k \in 0..0 |-> x0]
  <2>1. h \in [0..0 -> X] /\ \A k \in 0..0 : k = 0 /\ h[k] = x0
    OBVIOUS
  <2> HIDE DEF h
  <2>2. QED BY <2>1 DEF Steps
<1>4. n \in 1..N /\ n - 1 \in 0..N /\ Steps(X, x0, f, n - 1)
  BY <1>2, <1>3
<1>5. PICK g \in [0..(n - 1) -> X] : \A k \in 0..(n - 1) : g[k] = IF k = 0 THEN x0 ELSE f[g[k - 1]]
  BY <1>4 DEF Steps
<1> DEFINE h == [k \in 0..n |-> IF k < n THEN g[k] ELSE f[g[n - 1]]]
<1>6. h \in [0..n -> X]
  BY <1>4, <1>5
<1>7. ASSUME NEW k \in 0..n PROVE h[k] = IF k = 0 THEN x0 ELSE f[h[k - 1]]
  <2>1. CASE k < n
    <3>1. k \in 0..(n - 1) /\ h[k] = g[k] /\ (k # 0 => h[k - 1] = g[k - 1])
      BY <1>4, <2>1
    <3>2. QED BY <1>5, <3>1
  <2>2. CASE k = n
    BY <1>4, <2>2
  <2>3. QED BY <1>4, <2>1, <2>2
<1>8. Steps(X, x0, f, n)
  BY <1>6, <1>7 DEF Steps
<1>9. QED BY <1>2, <1>8

\* What the algorithm has queued and sorted are tables of the file.
Queues(E) == [queue : Seq(E), sorted : Seq(E)]

LEMMA TakeNextType ==
  ASSUME NEW tables, IsList(tables), NEW s \in Queues(Elems(tables))
  PROVE  TakeNext(tables, s) \subseteq Queues(Elems(tables))
<1> DEFINE E == Elems(tables)
<1>1. IsFiniteSet(Freed(tables, s)) /\ Freed(tables, s) \subseteq E
  <2>1. Freed(tables, s) \subseteq E
    BY DEF Freed, Ready
  <2>2. QED BY <2>1, ListFinite, FS_Subset
<1>2. ASSUME NEW next \in Orders(Freed(tables, s)) PROVE next \in Seq(E)
  BY <1>1, OrderIsList DEF IsList
<1>3. s \in [queue : Seq(E), sorted : Seq(E)]
  BY DEF Queues
<1> HIDE DEF E
<1>4. CASE s.queue = <<>>
  BY <1>4 DEF TakeNext
<1>5. CASE s.queue # <<>>
  <2>1. Tail(s.queue) \in Seq(E) /\ Append(s.sorted, Head(s.queue)) \in Seq(E)
    BY <1>3, <1>5
  <2>2. ASSUME NEW next \in Orders(Freed(tables, s))
        PROVE  [queue |-> Tail(s.queue) \o next, sorted |-> Append(s.sorted, Head(s.queue))]
                 \in [queue : Seq(E), sorted : Seq(E)]
    <3>1. Tail(s.queue) \o next \in Seq(E)
      BY <1>2, <2>1
    <3>2. QED BY <2>1, <3>1
  <2>3. QED BY <1>5, <2>2 DEF TakeNext, Queues, E
<1>6. QED BY <1>4, <1>5

LEMMA StartedType ==
  ASSUME NEW tables, IsList(tables)
  PROVE  Started(tables) \subseteq Queues(Elems(tables))
<1> DEFINE E == Elems(tables)
<1>1. IsFiniteSet(Ready(tables, {})) /\ Ready(tables, {}) \subseteq E
  <2>1. Ready(tables, {}) \subseteq E
    BY DEF Ready
  <2>2. QED BY <2>1, ListFinite, FS_Subset
<1>2. \A q \in Orders(Ready(tables, {})) : q \in Seq(E)
  BY <1>1, OrderIsList DEF IsList
<1> HIDE DEF E
<1>3. \A q \in Orders(Ready(tables, {})) :
        [queue |-> q, sorted |-> <<>>] \in [queue : Seq(E), sorted : Seq(E)]
  BY <1>2
<1>4. \A x \in Started(tables) : x \in Queues(E)
  BY <1>3 DEF Started, Queues
<1>5. QED BY <1>4 DEF E

\* When what is started is in the first of the sets X, and what is taken leads
\* from each to the next, a sort ends in the last.
LEMMA SortEnds ==
  ASSUME NEW tables, IsList(tables), NEW X,
         Started(tables) \subseteq X[0],
         \A k \in 1..Len(tables) : \A s \in X[k - 1] : TakeNext(tables, s) \subseteq X[k],
         NEW sorted \in SortTablesByDependency(tables)
  PROVE  \E s \in X[Len(tables)] :
           sorted = IF Len(s.sorted) = Len(tables) THEN s.sorted ELSE tables
<1> DEFINE N == Len(tables)
           Next1(S) == UNION {TakeNext(tables, s) : s \in S}
           Y == SUBSET Queues(Elems(tables))
           Z == [k \in 0..N |-> SUBSET X[k]]
           P(g) == g = [k \in 0..N |-> IF k = 0 THEN Started(tables) ELSE Next1(g[k - 1])]
<1>1. N \in Nat
  BY ListLength
<1>2. Started(tables) \in Y
  BY StartedType
<1>3. \A S \in Y : Next1(S) \in Y
  BY TakeNextType
<1>4. \A k \in 1..N : \A S \in SUBSET X[k - 1] : Next1(S) \in SUBSET X[k]
  BY DEF Next1
<1> HIDE DEF Next1
<1>5. \E g : P(g)
  <2> DEFINE f == [S \in Y |-> Next1(S)]
  <2> HIDE DEF Y
  <2>1. f \in [Y -> Y]
    BY <1>3
  <2>2. \A S \in Y : f[S] = Next1(S)
    OBVIOUS
  <2> HIDE DEF f, N
  <2> DEFINE x0 == Started(tables)
  <2> HIDE DEF x0
  <2>3. Steps(Y, x0, f, N)
    BY <1>1, <1>2, <2>1, StepsExist DEF x0
  <2>4. PICK g \in [0..N -> Y] : \A k \in 0..N : g[k] = IF k = 0 THEN x0 ELSE f[g[k - 1]]
    BY <2>3 DEF Steps
  <2>5. \A k \in 0..N : k # 0 => g[k - 1] \in Y
    BY <1>1
  <2>6. P(g)
    BY <2>2, <2>4, <2>5 DEF x0
  <2>7. QED BY <2>6
<1>6. ASSUME NEW g, P(g) PROVE g[N] \in Z[N]
  <2>1. g[0] \in Z[0]
    BY <1>1, <1>6
  <2>2. \A k \in 1..N : g[k - 1] \in Z[k - 1] => g[k] \in Z[k]
    <3> SUFFICES ASSUME NEW k \in 1..N, g[k - 1] \in Z[k - 1] PROVE g[k] \in Z[k]
      OBVIOUS
    <3>1. k - 1 \in 0..N /\ k \in 0..N /\ k # 0
      BY <1>1
    <3>2. Z[k - 1] = SUBSET X[k - 1] /\ Z[k] = SUBSET X[k]
      BY <3>1
    <3>3. g[k] = Next1(g[k - 1])
      BY <1>6, <3>1
    <3>4. QED BY <1>4, <3>2, <3>3
  <2> HIDE DEF N, Z
  <2>3. QED BY <1>1, <2>1, <2>2, Stays
<1> HIDE DEF P
<1>7. P(CHOOSE g : P(g))
  BY <1>5
<1>8. (CHOOSE g : P(g))[N] \subseteq X[N]
  BY <1>1, <1>6, <1>7
<1>9. PICK s \in (CHOOSE g : P(g))[N] : sorted = IF Len(s.sorted) = Len(tables) THEN s.sorted ELSE tables
  BY DEF SortTablesByDependency, P, Next1
<1>10. QED BY <1>8, <1>9

LEMMA SortedTables ==
  ASSUME NEW tables, IsList(tables), NEW sorted \in SortTablesByDependency(tables)
  PROVE  IsList(sorted) /\ Elems(sorted) \subseteq Elems(tables)
<1> DEFINE E == Elems(tables)
           X == [k \in 0..Len(tables) |-> Queues(E)]
<1>1. Len(tables) \in Nat
  BY ListLength
<1>2. Started(tables) \subseteq X[0]
  BY <1>1, StartedType
<1>3. \A k \in 1..Len(tables) : \A s \in X[k - 1] : TakeNext(tables, s) \subseteq X[k]
  BY <1>1, TakeNextType
<1>4. X[Len(tables)] = Queues(E)
  BY <1>1
<1> HIDE DEF X
<1>5. PICK s \in Queues(E) : sorted = IF Len(s.sorted) = Len(tables) THEN s.sorted ELSE tables
  BY <1>2, <1>3, <1>4, SortEnds
<1>6. s.sorted \in Seq(E)
  BY DEF Queues
<1>7. tables \in Seq(E)
  BY DEF IsList
<1> HIDE DEF E
<1>8. sorted \in Seq(E)
  BY <1>5, <1>6, <1>7
<1>9. IsList(sorted) /\ Elems(sorted) \subseteq E
  BY <1>8 DEF IsList, Elems
<1>10. QED BY <1>9 DEF E

LEMMA NamesOf ==
  ASSUME NEW s
  PROVE  Names(s) = {x.name : x \in Elems(s)}
BY DEF Names, Elems

\* The more is done, the fewer tables wait.
LEMMA ReadyMore ==
  ASSUME NEW tables, NEW A, NEW B, A \subseteq B
  PROVE  Ready(tables, A) \subseteq Ready(tables, B)
BY DEF Ready, Waits

\* The tables named before one of a sequence.
Before(s, i) == {s[j].name : j \in 1..(i - 1)}

\* After k tables: those that wait for no sorted table are the queued and the
\* sorted ones, each once, and none came before one it waits for.
Sorting(tables, k) ==
  {s \in Queues(Elems(tables)) :
     /\ Distinct(s.queue) /\ Distinct(s.sorted) /\ Elems(s.queue) \cap Elems(s.sorted) = {}
     /\ Elems(s.queue) \cup Elems(s.sorted) = Ready(tables, Names(s.sorted))
     /\ \A i \in DOMAIN s.sorted : ~Waits(s.sorted[i], Before(s.sorted, i))
     /\ s.queue = <<>> \/ Len(s.sorted) = k}

\* So it is at first.
LEMMA StartsSorting ==
  ASSUME NEW tables, IsList(tables)
  PROVE  Started(tables) \subseteq Sorting(tables, 0)
<1> SUFFICES ASSUME NEW q \in Orders(Ready(tables, {}))
             PROVE  [queue |-> q, sorted |-> <<>>] \in Queues(Elems(tables)) => 
                      [queue |-> q, sorted |-> <<>>] \in Sorting(tables, 0)
  <2>1. \A s \in Started(tables) : s \in Queues(Elems(tables))
    BY StartedType
  <2>2. \A s \in Started(tables) : \E q \in Orders(Ready(tables, {})) : s = [queue |-> q, sorted |-> <<>>]
    BY DEF Started
  <2>3. QED BY <2>1, <2>2
<1>1. IsFiniteSet(Ready(tables, {}))
  BY ListFinite, FS_Subset DEF Ready
<1>2. Distinct(q) /\ Elems(q) = Ready(tables, {})
  BY <1>1, OrderDistinct, OrderIsList
<1> DEFINE none == <<>>
<1>3. DOMAIN none = {} /\ Len(none) = 0
  OBVIOUS
<1> HIDE DEF none
<1>4. Elems(none) = {} /\ Names(none) = {} /\ Distinct(none)
  BY <1>3 DEF Elems, Names, Distinct
<1> DEFINE s == [queue |-> q, sorted |-> none]
<1>5. s.queue = q /\ s.sorted = none
  OBVIOUS
<1> HIDE DEF s
<1>6. s \in Queues(Elems(tables)) => s \in Sorting(tables, 0)
  BY <1>2, <1>3, <1>4, <1>5 DEF Sorting
<1>7. QED BY <1>6 DEF s, none

\* And after each table that is taken from the queue.
LEMMA TakesSorting ==
  ASSUME NEW tables, IsList(tables), NEW k \in 1..Len(tables), NEW s \in Sorting(tables, k - 1)
  PROVE  TakeNext(tables, s) \subseteq Sorting(tables, k)
<1> DEFINE E == Elems(tables)
           q == s.queue
           d == s.sorted
           h == Head(q)
<1>0. Len(tables) \in Nat
  BY ListLength
<1>1. s \in Queues(E) /\ q \in Seq(E) /\ d \in Seq(E)
  BY DEF Sorting, Queues
<1>2. CASE q = <<>>
  BY <1>2 DEF TakeNext, Sorting
<1>3. CASE q # <<>>
  <2> SUFFICES ASSUME NEW next \in Orders(Freed(tables, s))
               PROVE  [queue |-> Tail(q) \o next, sorted |-> Append(d, h)] \in Sorting(tables, k)
    BY <1>3 DEF TakeNext
  <2> DEFINE F == Freed(tables, s)
             q1 == Tail(q) \o next
             d1 == Append(d, h)
             s1 == [queue |-> q1, sorted |-> d1]
  <2>0. IsFiniteSet(F) /\ F \subseteq E
    <3>1. F \subseteq E
      BY DEF Freed, Ready
    <3>2. QED BY <3>1, ListFinite, FS_Subset
  <2>1. Distinct(next) /\ Elems(next) = F /\ next \in Seq(E)
    BY <2>0, OrderDistinct, OrderIsList DEF IsList
  <2>2. /\ Distinct(q) /\ Distinct(d) /\ Elems(q) \cap Elems(d) = {}
        /\ Elems(q) \cup Elems(d) = Ready(tables, Names(d))
        /\ (\A i \in DOMAIN d : ~Waits(d[i], Before(d, i)))
        /\ Len(d) = k - 1
    BY <1>3 DEF Sorting
  <2>3. F = Ready(tables, Names(d) \cup {h.name}) \ Ready(tables, Names(d))
    BY DEF Freed
  <2> HIDE DEF F, E, q, d
  <2>4. Tail(q) \in Seq(E) /\ Distinct(Tail(q)) /\ h \in Elems(q) /\ Elems(Tail(q)) = Elems(q) \ {h}
    BY <1>1, <1>3, <2>2, TailDistinct
  <2>5. h \in E /\ h \notin Elems(d)
    BY <1>1, <2>2, <2>4, ListIn
  <2>6. Distinct(d1) /\ Elems(d1) = Elems(d) \cup {h} /\ d1 \in Seq(E)
    <3>1. d1 \in Seq(E)
      BY <1>1, <2>5
    <3>2. QED BY <1>1, <2>2, <2>5, <3>1, AppendDistinct
  <2>7. Names(d1) = Names(d) \cup {h.name}
    BY <2>6, NamesOf
  <2>8. Elems(next) \cap (Elems(q) \cup Elems(d)) = {}
    BY <2>1, <2>2, <2>3
  <2>9. Distinct(q1) /\ Elems(q1) = Elems(Tail(q)) \cup F /\ q1 \in Seq(E)
    <3> DEFINE u == Tail(q)
    <3>1. u \in Seq(E) /\ Distinct(u) /\ Elems(u) \cap Elems(next) = {}
      BY <2>4, <2>8
    <3>2. q1 = u \o next
      OBVIOUS
    <3> HIDE DEF u, q1
    <3>3. Elems(q1) = Elems(u) \cup Elems(next) /\ q1 \in Seq(E)
      BY <2>1, <3>1, <3>2, JoinElems
    <3>4. Distinct(q1)
      BY <2>1, <3>1, <3>2, JoinDistinct
    <3>5. QED BY <2>1, <3>3, <3>4 DEF u
  <2>10. Elems(q1) \cap Elems(d1) = {}
    BY <2>1, <2>2, <2>4, <2>5, <2>6, <2>8, <2>9
  <2>11. Ready(tables, Names(d)) \subseteq Ready(tables, Names(d1))
    BY <2>7, ReadyMore
  <2>12. Elems(q1) \cup Elems(d1) = Ready(tables, Names(d1))
    BY <2>2, <2>3, <2>4, <2>6, <2>7, <2>9, <2>11
  <2>13. /\ Len(d) \in Nat /\ DOMAIN d = 1..Len(d) /\ Len(d1) = k /\ DOMAIN d1 = 1..k
         /\ (\A i \in 1..(k - 1) : d1[i] = d[i]) /\ d1[k] = h
    BY <1>0, <1>1, <2>2, <2>5
  <2>14. ASSUME NEW i \in DOMAIN d1 PROVE ~Waits(d1[i], Before(d1, i))
    <3>1. CASE i < k
      <4>1. i \in DOMAIN d /\ d1[i] = d[i] /\ \A j \in 1..(i - 1) : d1[j] = d[j]
        BY <1>0, <2>2, <2>13, <3>1
      <4> HIDE DEF d1
      <4>2. Before(d1, i) = Before(d, i)
        BY <4>1 DEF Before
      <4>3. QED BY <2>2, <4>1, <4>2
    <3>2. CASE i = k
      <4>1. d1[i] = h /\ \A j \in 1..(i - 1) : d1[j] = d[j]
        BY <2>13, <3>2
      <4> HIDE DEF d1
      <4>2. Before(d1, i) = Names(d)
        BY <2>2, <2>13, <3>2, <4>1 DEF Before, Names
      <4>3. h \in Ready(tables, Names(d))
        BY <2>2, <2>4
      <4>4. QED BY <4>1, <4>2, <4>3 DEF Ready
    <3>3. QED BY <1>0, <2>13, <3>1, <3>2
  <2> HIDE DEF q1, d1, h
  <2>15. s1.queue = q1 /\ s1.sorted = d1 /\ s1 \in Queues(E)
    BY <2>6, <2>9 DEF Queues
  <2> HIDE DEF s1
  <2>16. s1 \in Sorting(tables, k)
    BY <2>6, <2>9, <2>10, <2>12, <2>13, <2>14, <2>15 DEF Sorting, E
  <2>17. QED BY <2>16 DEF s1, q1, d1, h, q, d
<1>4. QED BY <1>2, <1>3

\* The keys of tables refer to tables among them, each to one of lower rank or
\* to its own.
Ranked(tables, rank) ==
  \A t \in Elems(tables) :
    /\ rank[t.name] \in Nat
    /\ \A j \in DOMAIN t.cols :
         t.cols[j].fk # None =>
           /\ t.cols[j].fk.table \in Names(tables)
           /\ t.cols[j].fk.table # t.name => rank[t.cols[j].fk.table] < rank[t.name]

\* When tables have ranks and the queue is empty, all are sorted.
LEMMA EmptyQueue ==
  ASSUME NEW tables, NEW rank, Ranked(tables, rank),
         NEW D, D \subseteq Elems(tables), D = Ready(tables, {x.name : x \in D})
  PROVE  D = Elems(tables)
<1> DEFINE R == {rank[t.name] : t \in Elems(tables) \ D}
<1>1. SUFFICES ASSUME R # {} PROVE FALSE
  OBVIOUS
<1>2. R \in SUBSET Nat
  BY DEF Ranked
<1>3. PICK r \in R : \A m \in R : r <= m
  <2> HIDE DEF R
  <2>1. QED BY <1>1, <1>2, LeastNat
<1>4. PICK t \in Elems(tables) \ D : r = rank[t.name]
  BY <1>3
<1>5. ASSUME NEW j \in DOMAIN t.cols, t.cols[j].fk # None, t.cols[j].fk.table # t.name
      PROVE  t.cols[j].fk.table \in {x.name : x \in D}
  <2> DEFINE n == t.cols[j].fk.table
  <2>1. n \in Names(tables) /\ rank[n] < rank[t.name]
    BY <1>4, <1>5 DEF Ranked
  <2>2. PICK u \in Elems(tables) : u.name = n
    BY <2>1, NamesOf
  <2>3. rank[u.name] \in Nat /\ rank[t.name] \in Nat
    BY <1>4 DEF Ranked
  <2> HIDE DEF n
  <2>4. u \notin D => rank[u.name] \in R /\ r <= rank[u.name]
    BY <1>3
  <2>5. u \in D
    BY <1>4, <2>1, <2>2, <2>3, <2>4
  <2>6. QED BY <2>2, <2>5 DEF n
<1>6. ~Waits(t, {x.name : x \in D})
  BY <1>5 DEF Waits
<1>7. t \in D
  BY <1>4, <1>6 DEF Ready
<1>8. QED BY <1>4, <1>7

\* So a sort of tables that have ranks has all of them, each after those it
\* refers to.
THEOREM SortedInOrder ==
  ASSUME NEW tables, IsList(tables), Distinct(tables), NEW rank, Ranked(tables, rank),
         NEW sorted \in SortTablesByDependency(tables)
  PROVE  /\ IsList(sorted) /\ Elems(sorted) = Elems(tables)
         /\ \A i \in DOMAIN sorted : ~Waits(sorted[i], Before(sorted, i))
<1> DEFINE E == Elems(tables)
           N == Len(tables)
           X == [k \in 0..N |-> Sorting(tables, k)]
<1>1. N \in Nat /\ IsFiniteSet(E) /\ Cardinality(E) = N
  BY ListLength, DistinctLength
<1>2. Started(tables) \subseteq X[0]
  BY <1>1, StartsSorting
<1>3. \A k \in 1..N : \A s \in X[k - 1] : TakeNext(tables, s) \subseteq X[k]
  <2> SUFFICES ASSUME NEW k \in 1..N, NEW s \in X[k - 1] PROVE TakeNext(tables, s) \subseteq X[k]
    OBVIOUS
  <2>1. X[k - 1] = Sorting(tables, k - 1) /\ X[k] = Sorting(tables, k)
    BY <1>1
  <2>2. QED BY <2>1, TakesSorting
<1>4. X[N] = Sorting(tables, N)
  BY <1>1
<1> HIDE DEF X
<1>5. PICK s \in Sorting(tables, N) : sorted = IF Len(s.sorted) = N THEN s.sorted ELSE tables
  BY <1>2, <1>3, <1>4, SortEnds
<1> DEFINE d == s.sorted
<1>6. /\ d \in Seq(E) /\ Distinct(d)
      /\ Elems(s.queue) \cup Elems(d) = Ready(tables, Names(d))
      /\ (\A i \in DOMAIN d : ~Waits(d[i], Before(d, i)))
      /\ s.queue = <<>> \/ Len(d) = N
  BY <1>5 DEF Sorting, Queues
<1> HIDE DEF d
<1>7. IsList(d) /\ Elems(d) \subseteq E /\ Cardinality(Elems(d)) = Len(d)
  BY <1>6, ListIn, DistinctLength
<1>8. Elems(d) = E
  <2>1. CASE s.queue = <<>>
    <3>1. Elems(s.queue) = {}
      BY <2>1 DEF Elems
    <3>2. Elems(d) = Ready(tables, {x.name : x \in Elems(d)})
      BY <1>6, <3>1, NamesOf
    <3>3. QED BY <1>7, <3>2, EmptyQueue
  <2>2. CASE Len(d) = N
    BY <1>1, <1>7, <2>2, FS_Subset
  <2>3. QED BY <1>6, <2>1, <2>2
<1>9. sorted = d
  BY <1>1, <1>5, <1>7, <1>8 DEF d
<1>10. QED BY <1>6, <1>7, <1>8, <1>9

-----------------------------------------------------------------------------
(* What the file says.                                                     *)

\* A table of a source is saved with its name, its columns' names and keys and,
\* if there are several databases, the name of its own, unless that was
\* forgotten. Its primary key is marked, if no mark "id" was made by hand.
LEMMA SavedTable ==
  ASSUME NEW c \in Cases, NEW d \in DOMAIN c.source, NEW t \in DOMAIN c.source[d].tables
  PROVE  /\ <<d, t>> \in DOMAIN FileOf(c)
         /\ FileOf(c)[<<d, t>>].type = t
         /\ FileOf(c)[<<d, t>>].database = IF c.multi /\ t \notin c.unassigned THEN d ELSE ""
         /\ \A j : j \in DOMAIN FileOf(c)[<<d, t>>].fields <=> j \in DOMAIN c.source[d].tables[t]
         /\ \A j \in DOMAIN c.source[d].tables[t] :
              /\ FileOf(c)[<<d, t>>].fields[j].name = c.source[d].tables[t][j].name
              /\ FileOf(c)[<<d, t>>].fields[j].relation = KeyOf(c.source[d], t, c.source[d].tables[t][j].name)
              /\ (\A m \in c.marks : m.mark # "id") =>
                   ("id" \in FileOf(c)[<<d, t>>].fields[j].marks <=> c.source[d].tables[t][j].pk)
<1> DEFINE cols == c.source[d].tables[t]
           info == GetDBInfo(c.source[d])
           saved == WriteSchema(info)
           x == Edited(c, d, saved)[t]
           key(j) == KeyOf(c.source[d], t, cols[j].name)
<1>1. /\ t \in DOMAIN info /\ info[t].name = t /\ DOMAIN info[t].cols = DOMAIN cols
      /\ \A j \in DOMAIN cols : /\ info[t].cols[j].name = cols[j].name /\ info[t].cols[j].fk = key(j)
                                /\ info[t].cols[j].pk = cols[j].pk
  BY DEF GetDBInfo
<1> HIDE DEF info, key
<1>2. /\ t \in DOMAIN saved /\ saved[t].type = t
      /\ saved[t] = [type |-> saved[t].type, database |-> saved[t].database, fields |-> saved[t].fields]
  BY <1>1 DEF WriteSchema
<1>3. DOMAIN saved[t].fields = DOMAIN cols
  BY <1>1 DEF WriteSchema
<1>4. \A j \in DOMAIN cols :
        /\ saved[t].fields[j].name = cols[j].name /\ saved[t].fields[j].relation = key(j)
        /\ saved[t].fields[j] = [name |-> saved[t].fields[j].name, required |-> saved[t].fields[j].required,
                                 relation |-> saved[t].fields[j].relation, marks |-> saved[t].fields[j].marks]
  BY <1>1 DEF WriteSchema
<1>5. ASSUME NEW j \in DOMAIN cols PROVE "id" \in saved[t].fields[j].marks <=> cols[j].pk
  <2> DEFINE col == info[t].cols[j]
  <2>1. saved[t].fields[j].marks = {m \in {"id"} : col.pk} \cup {m \in {"unique"} : col.uniq}
                                     \cup {m \in {"search"} : col.search}
    BY <1>1 DEF WriteSchema
  <2>2. col.pk = cols[j].pk
    BY <1>1
  <2> HIDE DEF col, saved
  <2>3. QED BY <2>1, <2>2
<1> HIDE DEF saved, cols
<1>6. x.type = t /\ x.database = IF c.multi /\ t \notin c.unassigned THEN d ELSE ""
  BY <1>2 DEF Edited
<1>7. DOMAIN x.fields = DOMAIN cols
  BY <1>2, <1>3 DEF Edited
<1>8. ASSUME NEW j \in DOMAIN cols
      PROVE  /\ x.fields[j].name = cols[j].name /\ x.fields[j].relation = key(j)
             /\ (\A m \in c.marks : m.mark # "id") => ("id" \in x.fields[j].marks <=> cols[j].pk)
  <2> DEFINE f == saved[t].fields[j]
  <2>1. PICK M : x.fields[j] = [f EXCEPT !.marks = @ \cup M] /\ \A k \in M : \E m \in c.marks : k = m.mark
    <3> DEFINE M == {m.mark : m \in {n \in c.marks : n.table = saved[t].type /\ n.col = f.name}}
    <3>1. x.fields[j] = [f EXCEPT !.marks = @ \cup M]
      BY <1>2, <1>3 DEF Edited
    <3>2. \A k \in M : \E m \in c.marks : k = m.mark
      OBVIOUS
    <3> HIDE DEF M, x, f
    <3>3. QED BY <3>1, <3>2
  <2> HIDE DEF x
  <2>2. f = [name |-> f.name, required |-> f.required, relation |-> f.relation, marks |-> f.marks]
        /\ f.name = cols[j].name /\ f.relation = key(j) /\ ("id" \in f.marks <=> cols[j].pk)
    BY <1>4, <1>5
  <2> HIDE DEF f
  <2>3. x.fields[j].name = f.name /\ x.fields[j].relation = f.relation /\ x.fields[j].marks = f.marks \cup M
    BY <2>1, <2>2
  <2>4. QED BY <2>1, <2>2, <2>3
<1> HIDE DEF x
<1>9. <<d, t>> \in DOMAIN FileOf(c)
  BY DEF FileOf
<1>10. FileOf(c)[<<d, t>>] = x
  BY <1>9 DEF FileOf, x, saved, info
<1>11. QED BY <1>6, <1>7, <1>8, <1>9, <1>10 DEF cols, key

\* And nothing else is in the file.
LEMMA FileDomain ==
  ASSUME NEW c
  PROVE  \A x \in DOMAIN FileOf(c) :
           \E d \in DOMAIN c.source : \E t \in DOMAIN c.source[d].tables : x = <<d, t>>
BY DEF FileOf

\* What belongs to a database, if each table names its own, is what its source
\* has.
LEMMA ExpectedTables ==
  ASSUME case \in Cases, file = FileOf(case), ~Unassigned, NEW db \in Databases
  PROVE  ExpectedOf(db) = {<<db, t>> : t \in DOMAIN case.source[db].tables}
<1>1. DOMAIN case.source = Databases /\ (~case.multi => \E d \in Databases : Databases = {d}) /\ "" \notin Databases
  BY CaseAssumption DEF Databases
<1>2. ASSUME NEW t \in DOMAIN case.source[db].tables PROVE <<db, t>> \in ExpectedOf(db)
  <2> db \in DOMAIN case.source
    BY <1>1
  <2>1. <<db, t>> \in DOMAIN file /\ file[<<db, t>>].database = IF case.multi /\ t \notin case.unassigned THEN db ELSE ""
    BY SavedTable
  <2>2. case.multi => file[<<db, t>>].database # ""
    BY <2>1 DEF Unassigned
  <2>3. QED BY <2>1, <2>2 DEF ExpectedOf
<1>3. ASSUME NEW x \in ExpectedOf(db) PROVE \E t \in DOMAIN case.source[db].tables : x = <<db, t>>
  <2>1. x \in DOMAIN file /\ file[x].database = IF case.multi THEN db ELSE ""
    BY <1>3 DEF ExpectedOf
  <2>2. PICK d \in DOMAIN case.source : \E t \in DOMAIN case.source[d].tables : x = <<d, t>>
    BY <2>1, FileDomain
  <2>3. PICK t \in DOMAIN case.source[d].tables : x = <<d, t>>
    BY <2>2
  <2>4. file[x].database = IF case.multi /\ t \notin case.unassigned THEN d ELSE ""
    BY <2>3, SavedTable
  <2>5. d = db
    <3>1. CASE case.multi
      BY <1>1, <2>1, <2>4, <3>1
    <3>2. CASE ~case.multi
      BY <1>1, <3>2
    <3>3. QED BY <3>1, <3>2
  <2>6. QED BY <2>3, <2>5
<1>4. QED BY <1>2, <1>3

\* Columns are those of a table of the source, with its keys.
Same(d, t, cols) ==
  LET src == case.source[d]
  IN /\ t \in DOMAIN src.tables /\ DOMAIN cols = DOMAIN src.tables[t]
     /\ \A j \in DOMAIN src.tables[t] :
          /\ cols[j].name = src.tables[t][j].name /\ (cols[j].pk <=> src.tables[t][j].pk)
          /\ cols[j].fk = KeyOf(src, t, src.tables[t][j].name)

\* So what is read for a database has every table of the source, once, and its
\* columns.
LEMMA ParsedFits ==
  ASSUME case \in Cases, file = FileOf(case), ~Unassigned, NEW db \in Databases,
         NEW order \in Orders(ExpectedOf(db))
  PROVE  /\ IsList(ParseSchema(file, order))
         /\ \A t \in Elems(ParseSchema(file, order)) : Fits(db, t)
         /\ DOMAIN case.source[db].tables = Names(ParseSchema(file, order))
         /\ Distinct(ParseSchema(file, order))
         /\ (\A m \in case.marks : m.mark # "id") =>
              \A t \in Elems(ParseSchema(file, order)) : Same(db, t.name, t.cols)
<1> DEFINE tables == case.source[db].tables
           e == ParseSchema(file, order)
<1>1. DOMAIN case.source = Databases /\ IsDatabase(case.source[db])
  BY CaseAssumption DEF Databases
<1>2. IsFiniteSet(DOMAIN tables) /\ \A t \in DOMAIN tables : IsList(tables[t])
  BY <1>1 DEF IsDatabase
<1>3. ExpectedOf(db) = {<<db, t>> : t \in DOMAIN tables}
  BY ExpectedTables
<1>4. IsFiniteSet(ExpectedOf(db))
  <2> DEFINE f == [t \in DOMAIN tables |-> <<db, t>>]
             D == DOMAIN tables
  <2>1. f \in Surjection(D, ExpectedOf(db))
    BY <1>3 DEF Surjection
  <2> HIDE DEF f, D
  <2>2. QED BY <1>2, <2>1, FS_Surjection DEF D
<1>5. IsList(order) /\ Elems(order) = ExpectedOf(db) /\ Distinct(order)
  BY <1>4, OrderIsList, OrderDistinct
<1>6. Len(order) \in Nat /\ DOMAIN order = 1..Len(order)
  BY <1>5, ListLength
<1>7. e = [i \in 1..Len(order) |-> e[i]]
  BY <1>6 DEF ParseSchema
<1>8. IsList(e)
  <2> HIDE DEF e
  <2>1. QED BY <1>6, <1>7, ListFromFunction
<1>9. ASSUME NEW t \in DOMAIN tables, NEW i \in DOMAIN order, order[i] = <<db, t>>
      PROVE  /\ e[i].name = t /\ IsList(e[i].cols) /\ Names(e[i].cols) = Names(tables[t])
             /\ (\A m \in case.marks : m.mark # "id") => Same(db, t, e[i].cols)
  <2> DEFINE type == file[<<db, t>>]
             cols == ParseColumns(type)
  <2> db \in DOMAIN case.source
    BY <1>1
  <2>1. /\ type.type = t /\ DOMAIN type.fields = DOMAIN tables[t]
        /\ \A j \in DOMAIN tables[t] :
             /\ type.fields[j].name = tables[t][j].name
             /\ type.fields[j].relation = KeyOf(case.source[db], t, tables[t][j].name)
             /\ (\A m \in case.marks : m.mark # "id") => ("id" \in type.fields[j].marks <=> tables[t][j].pk)
    <3> HIDE DEF e, cols
    <3>1. type.type = t
      BY SavedTable
    <3>2. DOMAIN type.fields = DOMAIN tables[t]
      BY SavedTable
    <3>3. \A j \in DOMAIN tables[t] :
             /\ type.fields[j].name = tables[t][j].name
             /\ type.fields[j].relation = KeyOf(case.source[db], t, tables[t][j].name)
             /\ (\A m \in case.marks : m.mark # "id") => ("id" \in type.fields[j].marks <=> tables[t][j].pk)
      BY SavedTable
    <3>4. QED BY <3>1, <3>2, <3>3
  <2>2. e[i].name = t /\ e[i].cols = cols
    BY <1>9, <2>1 DEF ParseSchema
  <2>3. /\ DOMAIN cols = DOMAIN tables[t]
        /\ \A j \in DOMAIN tables[t] : /\ cols[j].name = type.fields[j].name
                                       /\ cols[j].fk = type.fields[j].relation
                                       /\ cols[j].pk = ("id" \in type.fields[j].marks)
    BY <2>1 DEF ParseColumns, ParseFieldDirectives
  <2>4. Len(tables[t]) \in Nat /\ DOMAIN tables[t] = 1..Len(tables[t])
    BY <1>2, ListLength
  <2>5. cols = [j \in DOMAIN type.fields |-> cols[j]]
    BY DEF ParseColumns
  <2> HIDE DEF cols, type, e, tables
  <2>6. IsList(cols)
    BY <2>1, <2>4, <2>5, ListFromFunction
  <2>7. Names(cols) = Names(tables[t])
    BY <2>1, <2>3 DEF Names
  <2>8. (\A m \in case.marks : m.mark # "id") => Same(db, t, cols)
    BY <2>1, <2>3 DEF Same, tables
  <2>9. QED BY <2>2, <2>6, <2>7, <2>8
<1>10. \A i \in DOMAIN order : \E t \in DOMAIN tables : order[i] = <<db, t>>
  BY <1>3, <1>5 DEF Elems
<1>11. \A t \in DOMAIN tables : \E i \in DOMAIN order : order[i] = <<db, t>>
  BY <1>3, <1>5 DEF Elems
<1>12. DOMAIN e = DOMAIN order
  BY DEF ParseSchema
<1> HIDE DEF e
<1>13. \A i \in DOMAIN e : Fits(db, e[i])
  BY <1>9, <1>10, <1>12 DEF Fits
<1>14. DOMAIN tables = Names(e)
  BY <1>9, <1>10, <1>11, <1>12 DEF Names
<1>15. Distinct(e)
  BY <1>5, <1>9, <1>10, <1>12 DEF Distinct
<1>16. ASSUME \A m \in case.marks : m.mark # "id", NEW i \in DOMAIN e
       PROVE  Same(db, e[i].name, e[i].cols)
  BY <1>9, <1>10, <1>12, <1>16
<1>17. QED BY <1>8, <1>13, <1>14, <1>15, <1>16 DEF e, Elems

-----------------------------------------------------------------------------
(* What statements do.                                                     *)

LEMMA ColumnSetIs ==
  ASSUME NEW db, NEW x
  PROVE  x \in ColumnSet(db) <=>
           \E t \in DOMAIN db.tables : \E j \in DOMAIN db.tables[t] : x = <<t, db.tables[t][j]>>
BY DEF ColumnSet, Elems

\* What is taken out of a list is gone, and nothing else.
LEMMA RemoveAtList ==
  ASSUME NEW s, IsList(s), NEW i \in DOMAIN s
  PROVE  /\ IsList(RemoveAt(s, i))
         /\ \A j \in DOMAIN s \ {i} : \E k \in DOMAIN RemoveAt(s, i) : RemoveAt(s, i)[k] = s[j]
<1> DEFINE E == Elems(s)
           p == SubSeq(s, 1, i - 1)
           q == SubSeq(s, i + 1, Len(s))
<1>1. Len(s) \in Nat /\ DOMAIN s = 1..Len(s) /\ i \in 1..Len(s)
  BY ListLength
<1>2. s \in Seq(E)
  BY DEF IsList
<1> HIDE DEF E
<1>3. /\ p \in Seq(E) /\ Len(p) = i - 1
      /\ \A k \in 1..(i - 1) : p[k] = s[k]
  BY <1>1, <1>2
<1>4. /\ q \in Seq(E) /\ Len(q) = Len(s) - i
      /\ \A k \in 1..(Len(s) - i) : q[k] = s[i + k]
  BY <1>1, <1>2
<1>5. RemoveAt(s, i) = p \o q
  BY DEF RemoveAt
<1> HIDE DEF p, q
<1> DEFINE r == p \o q
<1>6. /\ r \in Seq(E) /\ Len(r) = Len(s) - 1
      /\ \A k \in 1..(i - 1) : r[k] = s[k]
      /\ \A k \in i..(Len(s) - 1) : r[k] = s[k + 1]
  <2>1. r \in Seq(E) /\ Len(r) = Len(p) + Len(q)
    <3>1. p \in Seq(E) /\ q \in Seq(E)
      BY <1>3, <1>4
    <3>2. r \in Seq(E)
      BY <3>1
    <3>3. Len(r) = Len(p) + Len(q)
      BY <3>1
    <3>4. QED BY <3>2, <3>3
  <2>2. \A k \in 1..Len(p) : r[k] = p[k]
    BY <1>3, <1>4
  <2>3. \A k \in (Len(p) + 1)..(Len(p) + Len(q)) : r[k] = q[k - Len(p)]
    BY <1>3, <1>4
  <2> HIDE DEF r
  <2>4. Len(r) = Len(s) - 1
    BY <1>1, <1>3, <1>4, <2>1
  <2>5. ASSUME NEW k \in i..(Len(s) - 1) PROVE r[k] = s[k + 1]
    <3>1. k - (i - 1) \in 1..(Len(s) - i) /\ i + (k - (i - 1)) = k + 1
      BY <1>1
    <3>2. r[k] = q[k - (i - 1)]
      BY <1>1, <1>3, <1>4, <2>3
    <3>3. QED BY <1>4, <3>1, <3>2
  <2>6. \A k \in 1..(i - 1) : r[k] = s[k]
    BY <1>3, <2>2
  <2>7. QED BY <2>1, <2>4, <2>5, <2>6
<1> HIDE DEF r
<1>7. IsList(r)
  BY <1>6 DEF IsList, Elems
<1>8. ASSUME NEW j \in DOMAIN s \ {i} PROVE \E k \in DOMAIN r : r[k] = s[j]
  <2>1. CASE j < i
    BY <1>1, <1>6, <2>1
  <2>2. CASE j > i
    <3>1. j - 1 \in i..(Len(s) - 1) /\ j - 1 \in DOMAIN r /\ r[j - 1] = s[j]
      BY <1>1, <1>6, <2>2
    <3>2. QED BY <3>1
  <2>3. QED BY <1>1, <2>1, <2>2
<1>9. QED BY <1>5, <1>7, <1>8 DEF r

\* Nothing goes that the source has, and nothing at all unless asked for.
Keeps(old, new, src) ==
  /\ DropsExtras(ColumnSet(old), ColumnSet(new), ColumnSet(src))
  /\ DropsExtras(old.fks, new.fks, src.fks)
  /\ DropsExtras(old.indexes, new.indexes, src.indexes)

LEMMA KeepsMore ==
  ASSUME NEW old, NEW new, NEW src,
         ColumnSet(old) \subseteq ColumnSet(new), old.fks \subseteq new.fks, old.indexes \subseteq new.indexes
  PROVE  Keeps(old, new, src)
BY DEF Keeps, DropsExtras

LEMMA CreateTableKeeps ==
  ASSUME NEW db, IsDatabase(db), NEW s, Safe(s), Accepts(db, s), s.op = "create_table", NEW src
  PROVE  IsDatabase(Apply(db, s)) /\ Keeps(db, Apply(db, s), src)
<1> DEFINE new == Apply(db, s)
           T == DOMAIN db.tables \cup {s.table}
           made == [j \in DOMAIN s.col |-> Stored(s.col[j])]
<1>1. new = [tables |-> [t \in T |-> IF t = s.table THEN made ELSE db.tables[t]],
             fks |-> db.fks \cup {FkOf(s.table, c) : c \in Keyed(s.col)}, indexes |-> db.indexes]
  BY DEF Apply, IsDatabase
<1>2. s.table \notin DOMAIN db.tables /\ IsList(s.col)
  BY DEF Accepts, Safe
<1>3. IsList(made)
  <2>1. Len(s.col) \in Nat /\ DOMAIN s.col = 1..Len(s.col) /\ made = [j \in 1..Len(s.col) |-> made[j]]
    BY <1>2, ListLength
  <2> HIDE DEF made
  <2>2. QED BY <2>1, ListFromFunction
<1>4. IsFiniteSet(T)
  BY FS_AddElement DEF IsDatabase
<1> HIDE DEF made, new
<1>5. IsDatabase(new)
  BY <1>1, <1>3, <1>4 DEF IsDatabase
<1>6. \A x \in ColumnSet(db) : x \in ColumnSet(new)
  <2>1. \A t \in DOMAIN db.tables : t \in DOMAIN new.tables /\ new.tables[t] = db.tables[t]
    BY <1>1, <1>2
  <2>2. QED BY <2>1, ColumnSetIs
<1>7. Keeps(db, new, src)
  BY <1>1, <1>6, KeepsMore
<1>8. QED BY <1>5, <1>7 DEF new

LEMMA AddColumnKeeps ==
  ASSUME NEW db, IsDatabase(db), NEW s, Accepts(db, s), s.op = "add_column", NEW src
  PROVE  IsDatabase(Apply(db, s)) /\ Keeps(db, Apply(db, s), src)
<1> DEFINE new == Apply(db, s)
           old == db.tables[s.table]
           c == [Stored(s.col) EXCEPT !.pk = FALSE]
           longer == Append(old, c)
<1>1. new = [tables |-> [db.tables EXCEPT ![s.table] = longer], fks |-> db.fks, indexes |-> db.indexes]
  BY DEF Apply, IsDatabase
<1>2. s.table \in DOMAIN db.tables
  BY DEF Accepts
<1>3. IsList(old)
  BY <1>2 DEF IsDatabase
<1> HIDE DEF c, old
<1>4. /\ IsList(longer)
      /\ \A j \in DOMAIN old : j \in DOMAIN longer /\ longer[j] = old[j]
  <2> DEFINE E == Elems(old) \cup {c}
  <2>1. old \in Seq(E)
    BY <1>3 DEF IsList
  <2>2. c \in E
    OBVIOUS
  <2> HIDE DEF E
  <2>3. longer \in Seq(E) /\ \A j \in DOMAIN old : j \in DOMAIN longer /\ longer[j] = old[j]
    BY <2>1, <2>2
  <2> HIDE DEF longer
  <2>4. IsList(longer)
    BY <2>3 DEF IsList, Elems
  <2>5. QED BY <2>3, <2>4
<1> HIDE DEF longer, new
<1>5. /\ DOMAIN new.tables = DOMAIN db.tables /\ new.tables[s.table] = longer
      /\ \A t \in DOMAIN db.tables \ {s.table} : new.tables[t] = db.tables[t]
  BY <1>1, <1>2 DEF IsDatabase
<1>6. IsDatabase(new)
  BY <1>1, <1>4, <1>5 DEF IsDatabase
<1>7. \A x \in ColumnSet(db) : x \in ColumnSet(new)
  BY <1>4, <1>5, ColumnSetIs DEF old
<1>8. Keeps(db, new, src)
  BY <1>1, <1>7, KeepsMore
<1>9. QED BY <1>6, <1>8 DEF new

LEMMA AddKeyKeeps ==
  ASSUME NEW db, IsDatabase(db), NEW s, s.op \in {"add_constraint", "add_index"}, NEW src
  PROVE  IsDatabase(Apply(db, s)) /\ Keeps(db, Apply(db, s), src)
<1> DEFINE new == Apply(db, s)
<1>1. /\ new = [tables |-> new.tables, fks |-> new.fks, indexes |-> new.indexes]
      /\ new.tables = db.tables /\ db.fks \subseteq new.fks /\ db.indexes \subseteq new.indexes
  BY DEF Apply, IsDatabase
<1> HIDE DEF new
<1>2. IsDatabase(new)
  BY <1>1 DEF IsDatabase
<1>3. ColumnSet(new) = ColumnSet(db)
  BY <1>1 DEF ColumnSet
<1>4. Keeps(db, new, src)
  BY <1>1, <1>3, KeepsMore
<1>5. QED BY <1>2, <1>4 DEF new

\* What is on a column or a table that the source does not have is nothing of
\* the source's.
LEMMA DropColumnKeeps ==
  ASSUME NEW db, IsDatabase(db), NEW s, Safe(s), Accepts(db, s), s.op = "drop_column",
         OnOwnColumns(case.source[s.db])
  PROVE  IsDatabase(Apply(db, s)) /\ Keeps(db, Apply(db, s), case.source[s.db])
<1> DEFINE new == Apply(db, s)
           src == case.source[s.db]
           old == db.tables[s.table]
           i == ColumnAt(old, s.col)
           less == RemoveAt(old, i)
<1>1. new = [tables |-> [db.tables EXCEPT ![s.table] = less],
             fks |-> {f \in db.fks : ~On(f, s.table, s.col)},
             indexes |-> {x \in db.indexes : ~On(x, s.table, s.col)}]
  BY DEF Apply, IsDatabase
<1>2. s.table \in DOMAIN db.tables /\ \E j \in DOMAIN old : old[j].name = s.col
  BY DEF Accepts, HasColumn, Names
<1>3. case.destructive /\ ~HasColumn(src, s.table, s.col)
  BY DEF Safe
<1>4. IsList(old)
  BY <1>2 DEF IsDatabase
<1>5. i \in DOMAIN old /\ old[i].name = s.col
  BY <1>2 DEF ColumnAt
<1> HIDE DEF i, old
<1>6. /\ IsList(less)
      /\ \A j \in DOMAIN old \ {i} : \E k \in DOMAIN less : less[k] = old[j]
  BY <1>4, <1>5, RemoveAtList
<1> HIDE DEF less, new, src
<1>7. /\ DOMAIN new.tables = DOMAIN db.tables /\ new.tables[s.table] = less
      /\ \A t \in DOMAIN db.tables \ {s.table} : new.tables[t] = db.tables[t]
  BY <1>1, <1>2 DEF IsDatabase
<1>8. IsDatabase(new)
  BY <1>1, <1>6, <1>7 DEF IsDatabase
<1>9. DropsExtras(ColumnSet(db), ColumnSet(new), ColumnSet(src))
  <2>1. ASSUME NEW x \in ColumnSet(db), x \notin ColumnSet(new), x \in ColumnSet(src) PROVE FALSE
    <3>1. PICK t \in DOMAIN db.tables : \E j \in DOMAIN db.tables[t] : x = <<t, db.tables[t][j]>>
      BY <2>1, ColumnSetIs
    <3>2. PICK j \in DOMAIN db.tables[t] : x = <<t, db.tables[t][j]>>
      BY <3>1
    <3>3. t = s.table
      <4>1. CASE t # s.table
        <5>1. t \in DOMAIN new.tables /\ new.tables[t] = db.tables[t]
          BY <1>7, <4>1
        <5>2. x \in ColumnSet(new)
          BY <3>2, <5>1, ColumnSetIs
        <5>3. QED BY <2>1, <5>2
      <4>2. QED BY <4>1
    <3>4. j = i
      <4>1. CASE j # i
        <5>1. PICK k \in DOMAIN less : less[k] = db.tables[t][j]
          BY <1>6, <3>2, <3>3, <4>1 DEF old
        <5>2. t \in DOMAIN new.tables /\ new.tables[t] = less
          BY <1>7, <3>2, <3>3
        <5>3. x \in ColumnSet(new)
          BY <3>2, <5>1, <5>2, ColumnSetIs
        <5>4. QED BY <2>1, <5>3
      <4>2. QED BY <4>1
    <3>5. x = <<s.table, old[i]>>
      BY <3>2, <3>3, <3>4 DEF old
    <3>6. PICK u \in DOMAIN src.tables : \E m \in DOMAIN src.tables[u] : x = <<u, src.tables[u][m]>>
      BY <2>1, ColumnSetIs
    <3>7. PICK m \in DOMAIN src.tables[u] : x = <<u, src.tables[u][m]>>
      BY <3>6
    <3>8. u = s.table /\ src.tables[u][m] = old[i]
      BY <3>5, <3>7
    <3>9. HasColumn(src, s.table, s.col)
      BY <1>5, <3>7, <3>8 DEF HasColumn, Names
    <3>10. QED BY <1>3, <3>9
  <2>2. QED BY <1>3, <2>1 DEF DropsExtras
<1>10. DropsExtras(db.fks, new.fks, src.fks) /\ DropsExtras(db.indexes, new.indexes, src.indexes)
  <2>1. \A f \in src.fks \cup src.indexes : ~On(f, s.table, s.col)
    BY <1>3 DEF On, OnOwnColumns, src
  <2>2. QED BY <1>1, <1>3, <2>1 DEF DropsExtras
<1>11. QED BY <1>8, <1>9, <1>10 DEF Keeps, new, src

LEMMA DropTableKeeps ==
  ASSUME NEW db, IsDatabase(db), NEW s, Safe(s), s.op = "drop_table",
         OnOwnColumns(case.source[s.db])
  PROVE  IsDatabase(Apply(db, s)) /\ Keeps(db, Apply(db, s), case.source[s.db])
<1> DEFINE new == Apply(db, s)
           src == case.source[s.db]
           T == DOMAIN db.tables \ {s.table}
<1>1. new = [tables |-> [t \in T |-> db.tables[t]], fks |-> {f \in db.fks : f.table # s.table},
             indexes |-> {x \in db.indexes : x.table # s.table}]
  BY DEF Apply, IsDatabase
<1>2. case.destructive /\ s.table \notin DOMAIN src.tables
  BY DEF Safe
<1>3. IsFiniteSet(T)
  BY FS_RemoveElement DEF IsDatabase
<1> HIDE DEF new, src
<1>4. IsDatabase(new)
  BY <1>1, <1>3 DEF IsDatabase
<1>5. DropsExtras(ColumnSet(db), ColumnSet(new), ColumnSet(src))
  <2>1. ASSUME NEW x \in ColumnSet(db), x \notin ColumnSet(new), x \in ColumnSet(src) PROVE FALSE
    <3>1. PICK t \in DOMAIN db.tables : \E j \in DOMAIN db.tables[t] : x = <<t, db.tables[t][j]>>
      BY <2>1, ColumnSetIs
    <3>2. PICK u \in DOMAIN src.tables : \E m \in DOMAIN src.tables[u] : x = <<u, src.tables[u][m]>>
      BY <2>1, ColumnSetIs
    <3>3. t \in T
      BY <1>2, <3>1, <3>2
    <3>4. PICK j \in DOMAIN db.tables[t] : x = <<t, db.tables[t][j]>>
      BY <3>1
    <3>5. t \in DOMAIN new.tables /\ new.tables[t] = db.tables[t]
      BY <1>1, <3>3
    <3>6. x \in ColumnSet(new)
      BY <3>4, <3>5, ColumnSetIs
    <3>7. QED BY <2>1, <3>6
  <2>2. QED BY <1>2, <2>1 DEF DropsExtras
<1>6. DropsExtras(db.fks, new.fks, src.fks) /\ DropsExtras(db.indexes, new.indexes, src.indexes)
  <2>1. \A f \in src.fks \cup src.indexes : f.table # s.table
    BY <1>2 DEF OnOwnColumns, HasColumn, src
  <2>2. QED BY <1>1, <1>2, <2>1 DEF DropsExtras
<1>7. QED BY <1>4, <1>5, <1>6 DEF Keeps, new, src

\* A safe statement that is accepted takes away nothing it should not.
LEMMA ApplyKeeps ==
  ASSUME NEW db, IsDatabase(db), NEW s, Safe(s), Accepts(db, s), OnOwnColumns(case.source[s.db])
  PROVE  IsDatabase(Apply(db, s)) /\ Keeps(db, Apply(db, s), case.source[s.db])
<1>1. s.op \in Ops
  BY DEF Safe
<1>2. QED
  BY <1>1, CreateTableKeeps, AddColumnKeeps, AddKeyKeeps, DropColumnKeeps, DropTableKeeps DEF Ops

-----------------------------------------------------------------------------
(* What is always so.                                                      *)

\* The file stays that of the case, the databases stay databases, and the
\* scripts that are being executed, however old, are safe.
SyncInv ==
  /\ case \in Cases /\ file = FileOf(case)
  /\ DOMAIN live = Databases /\ \A d \in Databases : IsDatabase(live[d])
  /\ DOMAIN script = Runners /\ \A r \in Runners : SafeScript(script[r])

LEMMA SyncInit == Init => SyncInv
<1> SUFFICES ASSUME Init PROVE SyncInv
  OBVIOUS
<1>1. case \in Cases /\ file = FileOf(case) /\ live = case.live /\ script = [r \in Runners |-> <<>>]
  BY DEF Init
<1>2. \A d \in Databases : IsDatabase(live[d])
  BY <1>1, CaseAssumption DEF Databases
<1>3. QED BY <1>1, <1>2, ConcatOne DEF SyncInv, Databases

\* Whatever a comparison finds in one database is safe.
LEMMA SchemaDiffSafe ==
  ASSUME SyncInv, ~Unassigned, NEW db \in Databases, NEW diff \in SchemaDiff(db)
  PROVE  SafeScript(diff)
<1>1. PICK order \in Orders(ExpectedOf(db)) :
        \E sorted \in SortTablesByDependency(ParseSchema(file, order)) :
          \E dropped \in Orders(DOMAIN live[db].tables) :
            diff = ComputeDiff(db, GetDBInfo(live[db]), ParseSchema(file, order), sorted, dropped)
  BY DEF SchemaDiff
<1> DEFINE e == ParseSchema(file, order)
           current == GetDBInfo(live[db])
<1>2. IsList(e) /\ (\A t \in Elems(e) : Fits(db, t)) /\ DOMAIN case.source[db].tables \subseteq Names(e)
  BY ParsedFits DEF SyncInv
<1>3. IsDatabase(live[db])
  BY DEF SyncInv
<1>4. \A t \in DOMAIN current : IsList(current[t].cols)
  <2> SUFFICES ASSUME NEW t \in DOMAIN current PROVE IsList(current[t].cols)
    OBVIOUS
  <2> DEFINE cols == current[t].cols
             old == live[db].tables[t]
  <2>1. t \in DOMAIN live[db].tables /\ cols = [j \in DOMAIN old |-> cols[j]]
    BY DEF GetDBInfo
  <2>2. Len(old) \in Nat /\ DOMAIN old = 1..Len(old)
    BY <1>3, <2>1, ListLength DEF IsDatabase
  <2> HIDE DEF cols, old
  <2>3. IsList(cols)
    BY <2>1, <2>2, ListFromFunction
  <2>4. QED BY <2>3 DEF cols
<1> HIDE DEF e, current
<1>5. PICK sorted \in SortTablesByDependency(e), dropped \in Orders(DOMAIN live[db].tables) :
        diff = ComputeDiff(db, current, e, sorted, dropped)
  BY <1>1 DEF e, current
<1>6. IsList(sorted) /\ Elems(sorted) \subseteq Elems(e)
  BY <1>2, SortedTables
<1>7. IsList(dropped)
  BY <1>3, OrderIsList DEF IsDatabase
<1>8. QED BY <1>2, <1>4, <1>5, <1>6, <1>7, DiffSafe

LEMMA CompareSafe ==
  ASSUME SyncInv, ~Unassigned, NEW s \in SchemaDiffMultiDB
  PROVE  SafeScript(s)
<1> DEFINE named == {db \in Databases : ~case.multi \/ \E x \in DOMAIN file : file[x].database = db}
           diffs == [db \in named |-> SchemaDiff(db)]
           picks == {p \in [named -> UNION {diffs[db] : db \in named}] : \A db \in named : p[db] \in diffs[db]}
           InTurn(order, p) == Concat([i \in DOMAIN order |-> p[order[i]]])
<1>1. PICK order \in Orders(named), p \in picks : s = InTurn(order, p)
  <2>1. SchemaDiffMultiDB = {InTurn(order, p) : order \in Orders(named), p \in picks}
    BY DEF SchemaDiffMultiDB
  <2> HIDE DEF named, picks, InTurn
  <2>2. QED BY <2>1
<1>2. \A db \in named : SafeScript(p[db])
  <2> SUFFICES ASSUME NEW db \in named PROVE SafeScript(p[db])
    OBVIOUS
  <2>1. p[db] \in diffs[db] /\ diffs[db] = SchemaDiff(db) /\ db \in Databases
    BY <1>1
  <2>2. p[db] \in SchemaDiff(db)
    BY <2>1
  <2>3. QED BY <2>1, <2>2, SchemaDiffSafe
<1>3. IsFiniteSet(named)
  BY CaseAssumption, FS_Subset DEF SyncInv, Databases
<1> HIDE DEF named
<1>4. IsList(order) /\ Elems(order) = named
  BY <1>3, OrderIsList
<1>5. Len(order) \in Nat /\ DOMAIN order = 1..Len(order)
  BY <1>4, ListLength
<1> DEFINE ss == [i \in DOMAIN order |-> p[order[i]]]
<1>6. \A i \in 1..Len(order) : SafeScript(ss[i])
  BY <1>2, <1>4, <1>5 DEF Elems
<1>7. ss = [i \in 1..Len(order) |-> ss[i]]
  BY <1>5
<1>8. s = Concat(ss)
  BY <1>1
<1> HIDE DEF ss
<1>9. QED BY <1>5, <1>6, <1>7, <1>8, ConcatSafe

\* A step that leaves the scripts alone, or shortens one, or replaces one.
LEMMA ScriptsStaySafe ==
  ASSUME SyncInv, NEW r \in Runners, NEW q, SafeScript(q), case' = case,
         script' = [script EXCEPT ![r] = q]
  PROVE  DOMAIN script' = Runners /\ \A x \in Runners : SafeScript(script'[x])
<1>1. DOMAIN script' = Runners
  BY DEF SyncInv
<1>2. \A x \in Runners : script'[x] = IF x = r THEN q ELSE script[x]
  BY DEF SyncInv
<1>3. QED BY <1>1, <1>2 DEF SyncInv

\* What is left of a safe script is safe.
LEMMA TailSafe ==
  ASSUME NEW q, SafeScript(q), q # <<>>
  PROVE  Safe(Head(q)) /\ SafeScript(Tail(q))
<1> DEFINE E == Elems(q)
           u == Tail(q)
<1>1. q \in Seq(E) /\ Head(q) = q[1] /\ 1 \in DOMAIN q
  BY DEF SafeScript, IsList
<1>2. \A y \in E : Safe(y)
  BY DEF SafeScript, Elems
<1>3. Safe(Head(q))
  BY <1>1 DEF SafeScript
<1> HIDE DEF E
<1>4. u \in Seq(E)
  BY <1>1
<1> HIDE DEF u
<1>5. SafeScript(u)
  BY <1>2, <1>4 DEF SafeScript, IsList, Elems
<1>6. QED BY <1>3, <1>5 DEF u

\* The databases after a step of a caller.
LEMMA ExecuteKeeps ==
  ASSUME SyncInv, NEW r \in Runners, Execute(r)
  PROVE  /\ DOMAIN live' = Databases
         /\ \A d \in Databases : IsDatabase(live'[d]) /\ Keeps(live[d], live'[d], case.source[d])
<1> DEFINE s == Head(script[r])
<1>1. script[r] # <<>> /\ Accepts(live[s.db], s) /\ live' = [live EXCEPT ![s.db] = Apply(live[s.db], s)]
  BY DEF Execute
<1>2. Safe(s)
  BY <1>1, TailSafe DEF SyncInv
<1> HIDE DEF s
<1>3. DOMAIN live' = Databases
  BY <1>1 DEF SyncInv
<1>4. ASSUME NEW d \in Databases PROVE IsDatabase(live'[d]) /\ Keeps(live[d], live'[d], case.source[d])
  <2>1. IsDatabase(live[d]) /\ OnOwnColumns(case.source[d])
    BY CaseAssumption DEF SyncInv, Databases
  <2>2. CASE d # s.db
    <3>1. live'[d] = live[d]
      BY <1>1, <2>2 DEF SyncInv
    <3>2. QED BY <2>1, <3>1, KeepsMore
  <2>3. CASE d = s.db
    <3>1. live'[d] = Apply(live[d], s)
      BY <1>1, <2>3 DEF SyncInv
    <3>2. QED BY <1>1, <1>2, <2>1, <2>3, <3>1, ApplyKeeps
  <2>4. QED BY <2>2, <2>3
<1>5. QED BY <1>3, <1>4

LEMMA SyncStep == SyncInv /\ [Next]_vars => SyncInv'
<1> SUFFICES ASSUME SyncInv, [Next]_vars PROVE SyncInv'
  OBVIOUS
<1>1. case' = case /\ file' = file
  BY DEF Next, Compare, Execute, Refused, Finish, Crash, vars
<1>2. SafeScript(<<>>)
  BY ConcatOne
<1>3. SUFFICES /\ DOMAIN live' = Databases /\ \A d \in Databases : IsDatabase(live'[d])
               /\ DOMAIN script' = Runners /\ \A r \in Runners : SafeScript(script'[r])
  <2>1. Databases' = Databases
    BY <1>1 DEF Databases
  <2>2. \A q : SafeScript(q)' <=> SafeScript(q)
    BY <1>1 DEF SafeScript, Safe
  <2>3. QED BY <1>1, <2>1 DEF SyncInv, SafeScript, Safe
<1>4. SUFFICES ASSUME live' # live \/ script' # script
               PROVE  /\ DOMAIN live' = Databases /\ \A d \in Databases : IsDatabase(live'[d])
                      /\ DOMAIN script' = Runners /\ \A r \in Runners : SafeScript(script'[r])
  BY DEF SyncInv
<1>5. PICK r \in Runners : Compare(r) \/ Execute(r) \/ Refused(r) \/ Finish(r) \/ Crash(r)
  BY <1>4 DEF Next, vars
<1>6. CASE Compare(r)
  <2>1. live' = live /\ ~Unassigned /\ \E s \in SchemaDiffMultiDB : script' = [script EXCEPT ![r] = s]
    BY <1>4, <1>6 DEF Compare
  <2>2. QED BY <1>1, <2>1, CompareSafe, ScriptsStaySafe DEF SyncInv
<1>7. CASE Execute(r)
  <2> DEFINE q == script[r]
  <2>1. q # <<>> /\ script' = [script EXCEPT ![r] = Tail(q)]
    BY <1>7 DEF Execute
  <2>2. SafeScript(q)
    BY DEF SyncInv
  <2> HIDE DEF q
  <2>3. SafeScript(Tail(q))
    BY <2>1, <2>2, TailSafe
  <2>4. QED BY <1>1, <1>7, <2>1, <2>3, ExecuteKeeps, ScriptsStaySafe
<1>8. CASE Refused(r) \/ Crash(r)
  <2>1. live' = live /\ script' = [script EXCEPT ![r] = <<>>]
    BY <1>8 DEF Refused, Crash
  <2>2. QED BY <1>1, <1>2, <2>1, ScriptsStaySafe DEF SyncInv
<1>9. CASE Finish(r)
  BY <1>4, <1>9 DEF Finish
<1>10. QED BY <1>5, <1>6, <1>7, <1>8, <1>9

LEMMA StepKeeps ==
  ASSUME SyncInv, [Next]_vars, NEW d \in Databases
  PROVE  Keeps(live[d], live'[d], case.source[d])
<1>1. CASE live' = live
  BY <1>1, KeepsMore
<1>2. CASE \E r \in Runners : Execute(r)
  BY <1>2, ExecuteKeeps
<1>3. live' = live \/ \E r \in Runners : Execute(r)
  BY DEF Next, Compare, Refused, Finish, Crash, vars
<1>4. QED BY <1>1, <1>2, <1>3

\* Bringing databases in line with a file takes no column, key or index away
\* that the source of the file has, and none at all unless asked to: whatever
\* the databases have at first, in whatever order tables are read, and however
\* old the script of a caller is when it is executed.
THEOREM SyncOnlyExtrasDropped == Spec => OnlyExtrasDropped
<1>1. SyncInv /\ [Next]_vars =>
        [\A d \in Databases :
           /\ DropsExtras(ColumnSet(live[d]), ColumnSet(live'[d]), ColumnSet(case.source[d]))
           /\ DropsExtras(live[d].fks, live'[d].fks, case.source[d].fks)
           /\ DropsExtras(live[d].indexes, live'[d].indexes, case.source[d].indexes)]_vars
  BY StepKeeps DEF Keeps
<1>2. QED BY <1>1, SyncInit, SyncStep, PTL DEF Spec, OnlyExtrasDropped

-----------------------------------------------------------------------------
(* Sequences one after the other.                                          *)

\* What the first of the sequences ss have.
First(ss, n) == UNION {Elems(ss[j]) : j \in 1..n}

\* The sequences ss one after the other, step by step.
LEMMA ConcatSteps ==
  ASSUME NEW N \in Nat, NEW ss, ss = [i \in 1..N |-> ss[i]], \A i \in 1..N : IsList(ss[i])
  PROVE  \E g : /\ g[0] = <<>> /\ \A i \in 1..N : g[i] = g[i - 1] \o ss[i]
                /\ \A i \in 0..N : Elems(g[i]) = First(ss, i)
                /\ Concat(ss) = g[N]
<1> DEFINE Y == UNION {Elems(ss[i]) : i \in 1..N}
           P(g) == IsUpto(ss, N, g)
<1>1. \A i \in 1..N : ss[i] \in Seq(Elems(ss[i])) /\ Elems(ss[i]) \subseteq Y
  BY DEF IsList
<1> HIDE DEF Y
<1>2. ss \in [1..N -> Seq(Y)]
  <2>1. \A i \in 1..N : ss[i] \in Seq(Y)
    BY <1>1
  <2>2. QED BY <2>1
<1>3. \E g : P(g)
  <2>1. PICK g \in [0..N -> Seq(Y)] : Upto(ss, N, g)
    BY <1>2, UptoExists DEF HasUpto
  <2>2. P(g)
    BY <2>1 DEF Upto, IsUpto
  <2>3. QED BY <2>2
<1>4. Concat(ss) = (CHOOSE g : P(g))[N]
  BY ConcatIs
<1> HIDE DEF P
<1>5. P(CHOOSE g : P(g))
  BY <1>3
<1>6. ASSUME NEW g, P(g) PROVE g[0] = <<>> /\ \A i \in 1..N : g[i] = g[i - 1] \o ss[i]
  <2>1. g = [i \in 0..N |-> IF i = 0 THEN <<>> ELSE g[i - 1] \o ss[i]]
    BY <1>6 DEF P, IsUpto
  <2>2. 0 \in 0..N /\ \A i \in 1..N : i \in 0..N /\ i # 0
    OBVIOUS
  <2>3. QED BY <2>1, <2>2
<1>7. ASSUME NEW g, P(g) PROVE \A i \in 0..N : Elems(g[i]) = First(ss, i)
  <2> DEFINE Fine(i) == g[i] \in Seq(Y) /\ Elems(g[i]) = First(ss, i)
             T == {i \in 0..N : ~Fine(i)}
  <2>1. SUFFICES ASSUME T # {} PROVE FALSE
    OBVIOUS
  <2>2. PICK n \in T : \A m \in T : n <= m
    <3>1. T \in SUBSET Nat
      OBVIOUS
    <3> HIDE DEF T
    <3>2. QED BY <2>1, <3>1, LeastNat
  <2>3. Fine(0)
    <3>1. First(ss, 0) = {} /\ <<>> \in Seq(Y) /\ Elems(<<>>) = {}
      BY DEF First, Elems
    <3>2. QED BY <1>6, <1>7, <3>1
  <2>4. n \in 1..N /\ n - 1 \in 0..N /\ Fine(n - 1) /\ ~Fine(n)
    <3> HIDE DEF Fine
    <3>1. QED BY <2>2, <2>3
  <2> DEFINE p == g[n - 1]
             q == ss[n]
  <2>5. g[n] = p \o q /\ p \in Seq(Y) /\ q \in Seq(Y) /\ Elems(p) = First(ss, n - 1)
    BY <1>2, <1>6, <1>7, <2>4
  <2>6. First(ss, n) = First(ss, n - 1) \cup Elems(q)
    <3>1. 1..n = 1..(n - 1) \cup {n}
      BY <2>4
    <3>2. QED BY <3>1 DEF First
  <2> HIDE DEF p, q
  <2>7. p \o q \in Seq(Y) /\ Elems(p \o q) = Elems(p) \cup Elems(q)
    <3>1. p \in Seq(Y) /\ q \in Seq(Y)
      BY <2>5
    <3>2. p \o q \in Seq(Y)
      BY <3>1
    <3>3. Elems(p \o q) = Elems(p) \cup Elems(q)
      BY <3>1, JoinElems
    <3>4. QED BY <3>2, <3>3
  <2>8. QED BY <2>4, <2>5, <2>6, <2>7
<1>8. QED BY <1>4, <1>5, <1>6, <1>7

\* Together they have what each has.
LEMMA ConcatElems ==
  ASSUME NEW N \in Nat, NEW ss, ss = [i \in 1..N |-> ss[i]], \A i \in 1..N : IsList(ss[i])
  PROVE  Elems(Concat(ss)) = First(ss, N)
<1>1. PICK g : (\A i \in 0..N : Elems(g[i]) = First(ss, i)) /\ Concat(ss) = g[N]
  BY ConcatSteps
<1>2. QED BY <1>1

-----------------------------------------------------------------------------
(* What statements wait for.                                               *)

\* A statement needs a table, and columns of it, in its database.
Need(d, t, cols) == [db |-> d, table |-> t, cols |-> cols]

Needs(s) ==
  CASE s.op = "create_table" ->
         {Need(s.db, c.fk.table, {}) : c \in {x \in Keyed(s.col) : x.fk.table # s.table}}
    [] s.op = "add_column" -> {Need(s.db, s.table, {})}
    [] s.op = "add_constraint" -> {Need(s.db, s.table, {s.col.name}), Need(s.db, s.col.fk.table, {})}
    [] s.op = "add_index" -> {Need(s.db, s.table, {s.col})}

Met(db, n) == n.table \in DOMAIN db.tables /\ n.cols \subseteq Names(db.tables[n.table])

\* Another statement sees to it.
Meets(s, n) ==
  /\ s.db = n.db /\ s.table = n.table
  /\ \/ s.op = "create_table" /\ n.cols \subseteq Names(s.col)
     \/ s.op = "add_column" /\ n.cols \subseteq {s.col.name}

\* A statement adds what the source has.
Sound(s) ==
  /\ s.db \in Databases
  /\ s.op \in {"create_table", "add_column", "add_constraint", "add_index"}
  /\ s.op = "create_table" => Same(s.db, s.table, s.col)
  /\ s.op = "add_constraint" =>
       \E f \in case.source[s.db].fks : s.col.fk = [table |-> f.ref, col |-> f.refcol]

\* In a script each statement comes after those that meet its needs, if the
\* databases do not meet them already, nor the statements B before the script.
Provided(L, B, n) == Met(L[n.db], n) \/ \E s \in B : Meets(s, n)
Good(L, B, q) ==
  /\ IsList(q)
  /\ \A i \in DOMAIN q :
       /\ Sound(q[i])
       /\ \A n \in Needs(q[i]) : Provided(L, B, n) \/ \E j \in 1..(i - 1) : Meets(q[j], n)

\* An empty script is good.
LEMMA GoodEmpty ==
  ASSUME NEW L, NEW B
  PROVE  Good(L, B, <<>>) /\ Elems(<<>>) = {}
<1>1. IsList(<<>>)
  BY ConcatOne DEF SafeScript
<1>2. QED BY <1>1 DEF Good, Elems

\* So is one of a statement that waits for nothing.
LEMMA GoodOne ==
  ASSUME NEW L, NEW B, NEW s, Sound(s), \A n \in Needs(s) : Provided(L, B, n)
  PROVE  Good(L, B, <<s>>) /\ Elems(<<s>>) = {s}
<1> DEFINE q == <<s>>
<1>1. DOMAIN q = {1} /\ q[1] = s /\ q \in Seq({s})
  OBVIOUS
<1> HIDE DEF q
<1>2. Elems(q) = {s}
  BY <1>1 DEF Elems
<1>3. Good(L, B, q)
  BY <1>1, <1>2 DEF Good, IsList
<1>4. QED BY <1>2, <1>3 DEF q

\* And one that is good already, when what it was good with is there otherwise.
LEMMA GoodMore ==
  ASSUME NEW L, NEW B, NEW C, NEW q, Good(L, B, q),
         \A n : (\E s \in B : Meets(s, n)) => Provided(L, C, n)
  PROVE  Good(L, C, q)
BY DEF Good, Provided

\* And two, when the second is good once the first was executed.
LEMMA GoodTwo ==
  ASSUME NEW L, NEW B, NEW p, NEW q, Good(L, B, p), Good(L, B \cup Elems(p), q)
  PROVE  Good(L, B, p \o q) /\ Elems(p \o q) = Elems(p) \cup Elems(q)
<1> DEFINE Y == Elems(p) \cup Elems(q)
           r == p \o q
           n == Len(p)
           m == Len(q)
<1>1. p \in Seq(Y) /\ q \in Seq(Y)
  <2>1. p \in Seq(Elems(p)) /\ q \in Seq(Elems(q))
    BY DEF Good, IsList
  <2>2. QED BY <2>1
<1>2. n \in Nat /\ m \in Nat /\ DOMAIN p = 1..n /\ DOMAIN q = 1..m
  BY <1>1
<1>3. /\ r \in Seq(Y) /\ Elems(r) = Y /\ DOMAIN r = 1..(n + m)
      /\ (\A i \in 1..n : r[i] = p[i]) /\ \A i \in 1..m : r[n + i] = q[i]
  BY <1>1, JoinElems
<1> HIDE DEF Y, r, n, m
<1>4. ASSUME NEW i \in 1..(n + m)
      PROVE  /\ Sound(r[i])
             /\ \A x \in Needs(r[i]) : Provided(L, B, x) \/ \E j \in 1..(i - 1) : Meets(r[j], x)
  <2>1. CASE i <= n
    <3>1. i \in DOMAIN p /\ r[i] = p[i] /\ \A j \in 1..(i - 1) : r[j] = p[j]
      BY <1>2, <1>3, <2>1
    <3>2. QED BY <3>1 DEF Good
  <2>2. CASE i > n
    <3> DEFINE k == i - n
    <3>1. k \in DOMAIN q /\ i = n + k /\ r[i] = q[k]
      BY <1>2, <1>3, <2>2
    <3>2. \A j \in 1..(k - 1) : n + j \in 1..(i - 1) /\ r[n + j] = q[j]
      BY <1>2, <1>3, <2>2
    <3>3. \A s \in Elems(p) : \E j \in 1..(i - 1) : r[j] = s
      BY <1>2, <1>3, <2>2 DEF Elems
    <3> HIDE DEF k
    <3>4. Sound(r[i])
      BY <3>1 DEF Good
    <3>5. ASSUME NEW x \in Needs(r[i])
          PROVE  Provided(L, B, x) \/ \E j \in 1..(i - 1) : Meets(r[j], x)
      <4>1. Provided(L, B \cup Elems(p), x) \/ \E j \in 1..(k - 1) : Meets(q[j], x)
        BY <3>1, <3>5 DEF Good
      <4>2. CASE \E j \in 1..(k - 1) : Meets(q[j], x)
        BY <3>2, <4>2
      <4>3. CASE Provided(L, B \cup Elems(p), x)
        BY <3>3, <4>3 DEF Provided
      <4>4. QED BY <4>1, <4>2, <4>3
    <3>6. QED BY <3>4, <3>5
  <2>3. QED BY <1>2, <2>1, <2>2
<1>5. IsList(r)
  BY <1>3 DEF IsList
<1>6. Good(L, B, r)
  BY <1>3, <1>4, <1>5 DEF Good
<1>7. QED BY <1>3, <1>6 DEF r, Y

\* And as many as there are.
LEMMA GoodConcat ==
  ASSUME NEW L, NEW B, NEW N \in Nat, NEW ss, ss = [i \in 1..N |-> ss[i]],
         \A i \in 1..N : Good(L, B \cup First(ss, i - 1), ss[i])
  PROVE  Good(L, B, Concat(ss))
<1>1. \A i \in 1..N : IsList(ss[i])
  BY DEF Good
<1>2. PICK g : /\ g[0] = <<>> /\ \A i \in 1..N : g[i] = g[i - 1] \o ss[i]
               /\ \A i \in 0..N : Elems(g[i]) = First(ss, i)
               /\ Concat(ss) = g[N]
  BY <1>1, ConcatSteps
<1> DEFINE T == {n \in 0..N : ~Good(L, B, g[n])}
<1>3. SUFFICES ASSUME T # {} PROVE FALSE
  BY <1>2
<1>4. PICK n \in T : \A m \in T : n <= m
  <2>1. T \in SUBSET Nat
    OBVIOUS
  <2> HIDE DEF T
  <2>2. QED BY <1>3, <2>1, LeastNat
<1>5. n # 0
  BY <1>2, <1>4, GoodEmpty
<1>6. n \in 1..N /\ n - 1 \in 0..N /\ n - 1 < n
  BY <1>4, <1>5
<1> DEFINE p == g[n - 1]
           q == ss[n]
<1>7. Good(L, B, p) /\ Elems(p) = First(ss, n - 1)
  BY <1>2, <1>4, <1>6
<1>8. g[n] = p \o q
  BY <1>2, <1>6
<1>9. Good(L, B \cup Elems(p), q)
  BY <1>6, <1>7
<1> HIDE DEF p, q
<1>10. Good(L, B, p \o q)
  BY <1>7, <1>9, GoodTwo
<1>11. QED BY <1>4, <1>8, <1>10

LEMMA ProvidedMore ==
  ASSUME NEW L, NEW B, NEW C, B \subseteq C, NEW n, Provided(L, B, n)
  PROVE  Provided(L, C, n)
BY DEF Provided

LEMMA GoodAfter ==
  ASSUME NEW L, NEW B, NEW C, B \subseteq C, NEW q, Good(L, B, q)
  PROVE  Good(L, C, q)
BY GoodMore DEF Provided

LEMMA GoodThree ==
  ASSUME NEW L, NEW B, NEW p, NEW q, NEW r, Good(L, B, p), Good(L, B \cup Elems(p), q),
         Good(L, B \cup Elems(p) \cup Elems(q), r)
  PROVE  Good(L, B, p \o q \o r)
<1> DEFINE a == p \o q
<1>1. Good(L, B, a) /\ Elems(a) = Elems(p) \cup Elems(q)
  BY GoodTwo
<1> HIDE DEF a
<1>2. B \cup Elems(a) = B \cup Elems(p) \cup Elems(q)
  BY <1>1
<1>3. Good(L, B \cup Elems(a), r)
  BY <1>2
<1>4. Good(L, B, a \o r)
  BY <1>1, <1>3, GoodTwo
<1>5. QED BY <1>4 DEF a

\* The indexes of a column that is there.
LEMMA IndexesGood ==
  ASSUME NEW L, NEW B, NEW db \in Databases, NEW t, NEW c, Provided(L, B, Need(db, t, {c.name}))
  PROVE  Good(L, B, CreateIndexes(db, t, c))
<1> DEFINE x(kind) == AddIndex(db, t, c, kind)
           a == IF c.search /\ case.driver # "sqlite" THEN <<x("search")>> ELSE <<>>
           b == IF c.uniq /\ ~c.pk THEN <<x("unique")>> ELSE <<>>
           e == IF c.index THEN <<x("plain")>> ELSE <<>>
<1>1. CreateIndexes(db, t, c) = (a \o b) \o e
  BY DEF CreateIndexes
<1>2. ASSUME NEW kind PROVE Sound(x(kind)) /\ Needs(x(kind)) = {Need(db, t, {c.name})}
  BY DEF Sound, Needs, AddIndex
<1>3. ASSUME NEW C, B \subseteq C, NEW kind PROVE Good(L, C, <<x(kind)>>)
  <2> HIDE DEF x
  <2>1. \A n \in Needs(x(kind)) : Provided(L, C, n)
    BY <1>2, <1>3, ProvidedMore
  <2>2. QED BY <1>2, <2>1, GoodOne
<1> HIDE DEF x
<1>4. Good(L, B, a)
  BY <1>3, GoodEmpty
<1>5. Good(L, B \cup Elems(a), b)
  <2> DEFINE C == B \cup Elems(a)
  <2>1. B \subseteq C
    OBVIOUS
  <2> HIDE DEF C
  <2>2. Good(L, C, b)
    BY <1>3, <2>1, GoodEmpty
  <2>3. QED BY <2>2 DEF C
<1>6. Good(L, B \cup Elems(a) \cup Elems(b), e)
  <2> DEFINE C == B \cup Elems(a) \cup Elems(b)
  <2>1. B \subseteq C
    OBVIOUS
  <2> HIDE DEF C
  <2>2. Good(L, C, e)
    BY <1>3, <2>1, GoodEmpty
  <2>3. QED BY <2>2 DEF C
<1> HIDE DEF a, b, e
<1>7. QED BY <1>1, <1>4, <1>5, <1>6, GoodThree

\* A table with its indexes, when the tables it refers to are there.
LEMMA NewTableGood ==
  ASSUME NEW L, NEW B, NEW db \in Databases, NEW t, IsList(t.cols), Same(db, t.name, t.cols),
         \A n \in Needs(CreateTable(db, t)) : Provided(L, B, n)
  PROVE  Good(L, B, NewTable(db, t)) /\ CreateTable(db, t) \in Elems(NewTable(db, t))
<1> DEFINE s == CreateTable(db, t)
           ss == [i \in DOMAIN t.cols |-> CreateIndexes(db, t.name, t.cols[i])]
           C == B \cup {s}
<1>1. Sound(s)
  BY DEF Sound, CreateTable, Statement
<1>2. Good(L, B, <<s>>) /\ Elems(<<s>>) = {s}
  <2> HIDE DEF s
  <2>1. \A n \in Needs(s) : Provided(L, B, n)
    BY DEF s
  <2>2. QED BY <1>1, <2>1, GoodOne
<1>3. Len(t.cols) \in Nat /\ DOMAIN t.cols = 1..Len(t.cols)
  BY ListLength
<1>4. ASSUME NEW i \in 1..Len(t.cols) PROVE Good(L, C \cup First(ss, i - 1), ss[i])
  <2> DEFINE A == C \cup First(ss, i - 1)
  <2>1. Meets(s, Need(db, t.name, {t.cols[i].name}))
    BY <1>3 DEF Meets, Need, CreateTable, Statement, Names
  <2>2. s \in A
    OBVIOUS
  <2> HIDE DEF A
  <2>3. Provided(L, A, Need(db, t.name, {t.cols[i].name}))
    BY <2>1, <2>2 DEF Provided
  <2>4. ss[i] = CreateIndexes(db, t.name, t.cols[i])
    BY <1>3
  <2>5. Good(L, A, CreateIndexes(db, t.name, t.cols[i]))
    BY <2>3, IndexesGood
  <2>6. QED BY <2>4, <2>5 DEF A
<1>5. ss = [i \in 1..Len(t.cols) |-> ss[i]]
  BY <1>3
<1>6. NewTable(db, t) = <<s>> \o Concat(ss)
  BY DEF NewTable
<1> DEFINE p == <<s>>
           q == Concat(ss)
<1> HIDE DEF ss, s, C
<1>7. Good(L, C, q)
  BY <1>3, <1>4, <1>5, GoodConcat
<1> HIDE DEF p, q
<1>8. Good(L, B, p) /\ Elems(p) = {s} /\ Good(L, B \cup Elems(p), q)
  BY <1>2, <1>7 DEF p, C
<1>9. Good(L, B, p \o q) /\ Elems(p \o q) = Elems(p) \cup Elems(q)
  BY <1>8, GoodTwo
<1>10. QED BY <1>6, <1>8, <1>9 DEF p, q, s

\* A key that a column has is one of the database.
LEMMA KeyIs ==
  ASSUME NEW db, NEW t, NEW c, KeyOf(db, t, c) # None
  PROVE  \E f \in db.fks : f.table = t /\ f.col = c /\ KeyOf(db, t, c) = [table |-> f.ref, col |-> f.refcol]
<1> DEFINE fks == {f \in db.fks : f.table = t /\ f.col = c}
           f == CHOOSE x \in fks : TRUE
<1>1. fks # {} /\ KeyOf(db, t, c) = [table |-> f.ref, col |-> f.refcol]
  BY DEF KeyOf
<1>2. f \in fks
  BY <1>1
<1>3. QED BY <1>1, <1>2

\* A column with its key and indexes, when its table and the one it refers to are
\* there.
LEMMA NewColumnGood ==
  ASSUME NEW L, NEW B, NEW db \in Databases, NEW t, Same(db, t.name, t.cols),
         NEW j \in DOMAIN t.cols,
         Provided(L, B, Need(db, t.name, {})),
         t.cols[j].fk # None => Provided(L, B, Need(db, t.cols[j].fk.table, {}))
  PROVE  Good(L, B, NewColumn(db, t, t.cols[j]))
<1> DEFINE c == t.cols[j]
           s == AddColumn(db, t.name, c)
           a == <<s>>
           b == AddForeignKey(db, t.name, c)
           e == CreateIndexes(db, t.name, c)
           need == Need(db, t.name, {c.name})
<1>0. c.fk # None => \E f \in case.source[db].fks : c.fk = [table |-> f.ref, col |-> f.refcol]
  <2> DEFINE src == case.source[db]
             n == src.tables[t.name][j].name
  <2>1. c.fk = KeyOf(src, t.name, n)
    BY DEF Same
  <2> HIDE DEF c, src, n
  <2>2. ASSUME c.fk # None PROVE \E f \in src.fks : c.fk = [table |-> f.ref, col |-> f.refcol]
    BY <2>1, <2>2, KeyIs
  <2>3. QED BY <2>2 DEF src
<1>1. NewColumn(db, t, c) = (a \o b) \o e
  BY DEF NewColumn
<1> HIDE DEF c
<1>2. Sound(s) /\ Needs(s) = {Need(db, t.name, {})} /\ Meets(s, need)
  BY DEF Sound, Needs, Meets, Need, AddColumn, Statement
<1> HIDE DEF s
<1>3. Good(L, B, a) /\ Elems(a) = {s}
  <2>1. \A n \in Needs(s) : Provided(L, B, n)
    BY <1>2
  <2>2. QED BY <1>2, <2>1, GoodOne
<1> DEFINE C == B \cup Elems(a)
<1>4. Provided(L, C, need) /\ B \subseteq C
  BY <1>2, <1>3 DEF Provided
<1> HIDE DEF C, need
<1>5. Good(L, C, b)
  <2>1. CASE b = <<>>
    BY <2>1, GoodEmpty
  <2>2. CASE b # <<>>
    <3> DEFINE k == Statement("add_constraint", db, t.name, c)
    <3>1. c.fk # None /\ b = <<k>>
      BY <2>2 DEF AddForeignKey
    <3>2. Sound(k) /\ Needs(k) = {need, Need(db, c.fk.table, {})}
      BY <1>0, <3>1 DEF Sound, Needs, Statement, need
    <3>3. \A n \in Needs(k) : Provided(L, C, n)
      BY <1>4, <3>1, <3>2, ProvidedMore DEF c
    <3> HIDE DEF k, b
    <3>4. QED BY <3>1, <3>2, <3>3, GoodOne
  <2>3. QED BY <2>1, <2>2
<1> HIDE DEF a, b
<1>6. Good(L, C \cup Elems(b), e)
  <2> DEFINE D == C \cup Elems(b)
  <2>1. C \subseteq D
    OBVIOUS
  <2> HIDE DEF D
  <2>2. Provided(L, D, need)
    BY <1>4, <2>1, ProvidedMore
  <2>3. Good(L, D, e)
    BY <2>2, IndexesGood DEF need
  <2>4. QED BY <2>3 DEF D
<1> HIDE DEF e
<1>7. Good(L, B, a \o b \o e)
  BY <1>3, <1>5, <1>6, GoodThree DEF C
<1>8. QED BY <1>1, <1>7 DEF c

\* And all that a table lacks.
LEMMA NewColumnsGood ==
  ASSUME NEW L, NEW B, NEW db \in Databases, NEW t, NEW cols, IsList(t.cols), Same(db, t.name, t.cols),
         Provided(L, B, Need(db, t.name, {})),
         \A j \in DOMAIN t.cols :
           t.cols[j].fk # None => Provided(L, B, Need(db, t.cols[j].fk.table, {}))
  PROVE  Good(L, B, NewColumns(db, t, cols))
<1> DEFINE ss == [i \in DOMAIN t.cols |->
                    IF t.cols[i].name \in Names(cols) THEN <<>> ELSE NewColumn(db, t, t.cols[i])]
<1>1. Len(t.cols) \in Nat /\ DOMAIN t.cols = 1..Len(t.cols)
  BY ListLength
<1>2. ASSUME NEW i \in 1..Len(t.cols) PROVE Good(L, B \cup First(ss, i - 1), ss[i])
  <2>1. Good(L, B, NewColumn(db, t, t.cols[i]))
    BY <1>1, NewColumnGood
  <2>2. Good(L, B, ss[i])
    BY <1>1, <2>1, GoodEmpty
  <2> DEFINE C == B \cup First(ss, i - 1)
             q == ss[i]
  <2>3. B \subseteq C
    OBVIOUS
  <2> HIDE DEF C, q
  <2>4. Good(L, C, q)
    BY <2>2, <2>3, GoodAfter DEF q
  <2>5. QED BY <2>4 DEF C, q
<1>3. ss = [i \in 1..Len(t.cols) |-> ss[i]]
  BY <1>1
<1>4. NewColumns(db, t, cols) = Concat(ss)
  BY DEF NewColumns
<1> HIDE DEF ss
<1>5. Good(L, B, Concat(ss))
  BY <1>1, <1>2, <1>3, GoodConcat
<1>6. QED BY <1>4, <1>5

-----------------------------------------------------------------------------
(* When scripts are in order.                                              *)

\* Nothing is dropped and no key is marked by hand. A key of a source refers to
\* the primary key of a table of the source, which it has in the database as well
\* if it is there; a table has one primary key at most; and tables do not refer
\* to each other in a circle: they have ranks.
Orderly(c) ==
  /\ ~c.destructive
  /\ \A m \in c.marks : m.mark # "id"
  /\ \A d \in DOMAIN c.source :
       LET src == c.source[d]
       IN /\ \A t \in DOMAIN src.tables : Cardinality(Primaries(src.tables[t])) <= 1
          /\ \A f \in src.fks :
               /\ f.ref \in DOMAIN src.tables /\ IsPrimary(src, f.ref, f.refcol)
               /\ f.ref \in DOMAIN c.live[d].tables => IsPrimary(c.live[d], f.ref, f.refcol)
          /\ \E rank \in [DOMAIN src.tables -> Nat] :
               \A f \in src.fks : f.ref # f.table => rank[f.ref] < rank[f.table]

\* The scripts of a comparison.
LEMMA DiffGood ==
  ASSUME NEW L, NEW db \in Databases, NEW current, DOMAIN current = DOMAIN L[db].tables,
         NEW expected, NEW sorted, NEW names,
         ~case.destructive, IsList(expected), IsList(sorted), Elems(sorted) = Elems(expected),
         \A t \in Elems(expected) :
           /\ IsList(t.cols) /\ Same(db, t.name, t.cols)
           /\ \A j \in DOMAIN t.cols : t.cols[j].fk # None => t.cols[j].fk.table \in Names(expected),
         \A i \in DOMAIN sorted : ~Waits(sorted[i], Before(sorted, i))
  PROVE  Good(L, {}, ComputeDiff(db, current, expected, sorted, names))
<1> DEFINE new == [i \in DOMAIN sorted |->
                     IF sorted[i].name \in DOMAIN current THEN <<>> ELSE NewTable(db, sorted[i])]
           changed == [i \in DOMAIN expected |->
                         IF expected[i].name \notin DOMAIN current THEN <<>>
                         ELSE NewColumns(db, expected[i], current[expected[i].name].cols)
                                \o ExtraColumns(db, expected[i], current[expected[i].name].cols)]
           extra == ExtraTables(db, expected, names)
           N == Len(sorted)
           M == Len(expected)
<1>1. ComputeDiff(db, current, expected, sorted, names) = Concat(new) \o Concat(changed) \o extra
  BY DEF ComputeDiff
<1>2. N \in Nat /\ DOMAIN sorted = 1..N /\ M \in Nat /\ DOMAIN expected = 1..M
  BY ListLength
<1>3. \A i \in 1..N : sorted[i] \in Elems(expected)
  BY <1>2 DEF Elems
<1>4. \A i \in 1..M : expected[i] \in Elems(expected)
  BY <1>2 DEF Elems
<1> HIDE DEF N, M
<1>5. ASSUME NEW t \in Elems(expected), NEW n \in Needs(CreateTable(db, t))
      PROVE  \E j \in DOMAIN t.cols : /\ t.cols[j].fk # None /\ t.cols[j].fk.table # t.name
                                      /\ n = Need(db, t.cols[j].fk.table, {})
  BY DEF Needs, CreateTable, Statement, Keyed
<1>6. \A u : Meets(CreateTable(db, u), Need(db, u.name, {}))
  BY DEF Meets, Need, CreateTable, Statement
<1> DEFINE All == {CreateTable(db, u) : u \in Elems(expected)}
<1>7. ASSUME NEW t \in Elems(expected) PROVE CreateTable(db, t) \in Elems(NewTable(db, t))
  <2>1. \A n \in Needs(CreateTable(db, t)) : Provided(L, All, n)
    <3> SUFFICES ASSUME NEW n \in Needs(CreateTable(db, t)) PROVE Provided(L, All, n)
      OBVIOUS
    <3>1. PICK j \in DOMAIN t.cols : t.cols[j].fk # None /\ n = Need(db, t.cols[j].fk.table, {})
      BY <1>5
    <3>2. PICK u \in Elems(expected) : u.name = t.cols[j].fk.table
      BY <3>1, NamesOf
    <3>3. CreateTable(db, u) \in All /\ Meets(CreateTable(db, u), n)
      BY <1>6, <3>1, <3>2
    <3> HIDE DEF All
    <3>4. QED BY <3>3 DEF Provided
  <2> HIDE DEF All
  <2>2. QED BY <2>1, NewTableGood
<1>8. ASSUME NEW i \in 1..N, sorted[i].name \notin DOMAIN current
      PROVE  new[i] = NewTable(db, sorted[i]) /\ CreateTable(db, sorted[i]) \in Elems(new[i])
  BY <1>2, <1>3, <1>7, <1>8
<1>9. \A i \in 1..N : sorted[i].name \in DOMAIN current => new[i] = <<>>
  BY <1>2
<1>10. new = [i \in 1..N |-> new[i]]
  BY <1>2
<1> HIDE DEF new
<1>11. ASSUME NEW i \in 1..N, NEW j \in 1..N, NEW B,
              sorted[j].name \notin DOMAIN current => Elems(new[j]) \subseteq B
       PROVE  Provided(L, B, Need(db, sorted[j].name, {}))
  <2>1. CASE sorted[j].name \in DOMAIN current
    BY <2>1 DEF Provided, Met, Need
  <2>2. CASE sorted[j].name \notin DOMAIN current
    <3>1. CreateTable(db, sorted[j]) \in B
      BY <1>8, <1>11, <2>2
    <3>2. QED BY <1>6, <3>1 DEF Provided
  <2>3. QED BY <2>1, <2>2
<1>12. Good(L, {}, Concat(new)) /\ Elems(Concat(new)) = First(new, N)
  <2>1. ASSUME NEW i \in 1..N PROVE Good(L, {} \cup First(new, i - 1), new[i])
    <3> DEFINE B == {} \cup First(new, i - 1)
               t == sorted[i]
    <3>1. CASE t.name \in DOMAIN current
      BY <1>9, <3>1, GoodEmpty
    <3>2. CASE t.name \notin DOMAIN current
      <4>1. ASSUME NEW n \in Needs(CreateTable(db, t)) PROVE Provided(L, B, n)
        <5>1. PICK k \in DOMAIN t.cols : /\ t.cols[k].fk # None /\ t.cols[k].fk.table # t.name
                                         /\ n = Need(db, t.cols[k].fk.table, {})
          BY <1>3, <1>5, <4>1
        <5>2. ~Waits(t, Before(sorted, i))
          BY <1>2
        <5>3. t.cols[k].fk.table \in Before(sorted, i)
          BY <5>1, <5>2 DEF Waits
        <5>4. PICK j \in 1..(i - 1) : sorted[j].name = t.cols[k].fk.table
          BY <5>3 DEF Before
        <5>5. j \in 1..N /\ Elems(new[j]) \subseteq B
          BY <1>2, <5>4 DEF First
        <5> HIDE DEF B
        <5>6. Provided(L, B, Need(db, sorted[j].name, {}))
          BY <1>11, <5>5
        <5>7. QED BY <5>1, <5>4, <5>6
      <4> HIDE DEF B, t
      <4>2. IsList(t.cols) /\ Same(db, t.name, t.cols)
        BY <1>3 DEF t
      <4>3. Good(L, B, NewTable(db, t))
        BY <4>1, <4>2, NewTableGood
      <4>4. QED BY <1>8, <3>2, <4>3 DEF B, t
    <3>3. QED BY <3>1, <3>2
  <2> DEFINE none == {}
  <2>2. \A i \in 1..N : Good(L, none \cup First(new, i - 1), new[i])
    BY <2>1
  <2> HIDE DEF none
  <2>3. Good(L, none, Concat(new)) /\ Elems(Concat(new)) = First(new, N)
    <3>1. N \in Nat
      BY <1>2
    <3>2. Good(L, none, Concat(new))
      BY <1>10, <2>2, <3>1, GoodConcat
    <3>3. Elems(Concat(new)) = First(new, N)
      BY <1>10, <2>2, <3>1, ConcatElems DEF Good
    <3>4. QED BY <3>2, <3>3
  <2>4. QED BY <2>3 DEF none
<1> DEFINE B == {} \cup Elems(Concat(new))
<1>13. ASSUME NEW name \in Names(expected) PROVE Provided(L, B, Need(db, name, {}))
  <2>1. PICK u \in Elems(sorted) : u.name = name
    BY <1>13, NamesOf
  <2>2. PICK j \in 1..N : sorted[j] = u
    BY <1>2, <2>1 DEF Elems
  <2>3. Elems(new[j]) \subseteq B
    BY <1>12 DEF First
  <2> HIDE DEF B
  <2>4. QED BY <1>11, <2>1, <2>2, <2>3
<1> HIDE DEF B
<1>14. Good(L, B, Concat(changed))
  <2>1. ASSUME NEW i \in 1..M PROVE Good(L, B \cup First(changed, i - 1), changed[i])
    <3> DEFINE C == B \cup First(changed, i - 1)
               t == expected[i]
               cols == current[t.name].cols
               p == NewColumns(db, t, cols)
    <3>1. CASE t.name \notin DOMAIN current
      BY <1>2, <3>1, GoodEmpty
    <3>2. CASE t.name \in DOMAIN current
      <4>1. changed[i] = p \o <<>>
        BY <1>2, <3>2 DEF ExtraColumns
      <4>2. IsList(t.cols) /\ Same(db, t.name, t.cols)
            /\ \A j \in DOMAIN t.cols : t.cols[j].fk # None => t.cols[j].fk.table \in Names(expected)
        BY <1>4
      <4>3. t.name \in Names(expected)
        BY <1>4, NamesOf
      <4> HIDE DEF t, cols
      <4>4. Good(L, B, p)
        BY <1>13, <4>2, <4>3, NewColumnsGood
      <4> HIDE DEF p
      <4>5. B \subseteq C
        OBVIOUS
      <4> HIDE DEF C
      <4>6. Good(L, C, p)
        BY <4>4, <4>5, GoodAfter
      <4>7. Good(L, C, p \o <<>>)
        BY <4>6, GoodEmpty, GoodTwo
      <4>8. QED BY <4>1, <4>7 DEF C, p
    <3>3. QED BY <3>1, <3>2
  <2>2. changed = [i \in 1..M |-> changed[i]]
    BY <1>2
  <2> HIDE DEF changed
  <2>3. QED BY <1>2, <2>1, <2>2, GoodConcat
<1>15. extra = <<>>
  BY DEF ExtraTables
<1> DEFINE p == Concat(new)
           q == Concat(changed)
<1> HIDE DEF changed, extra
<1>16. Good(L, {}, p) /\ Good(L, {} \cup Elems(p), q)
  BY <1>12, <1>14 DEF B
<1>17. Good(L, {} \cup Elems(p) \cup Elems(q), extra)
  BY <1>15, GoodEmpty
<1>18. ComputeDiff(db, current, expected, sorted, names) = p \o q \o extra
  BY <1>1
<1> HIDE DEF p, q
<1>19. QED BY <1>16, <1>17, <1>18, GoodThree

\* Whatever a comparison finds in one database, and in several.
LEMMA SchemaDiffGood ==
  ASSUME SyncInv, Orderly(case), ~Unassigned, NEW db \in Databases, NEW diff \in SchemaDiff(db)
  PROVE  Good(live, {}, diff)
<1>1. PICK order \in Orders(ExpectedOf(db)) :
        \E sorted \in SortTablesByDependency(ParseSchema(file, order)) :
          \E dropped \in Orders(DOMAIN live[db].tables) :
            diff = ComputeDiff(db, GetDBInfo(live[db]), ParseSchema(file, order), sorted, dropped)
  BY DEF SchemaDiff
<1> DEFINE e == ParseSchema(file, order)
           current == GetDBInfo(live[db])
           src == case.source[db]
<1>2. /\ IsList(e) /\ Distinct(e) /\ DOMAIN src.tables = Names(e)
      /\ \A t \in Elems(e) : IsList(t.cols) /\ Same(db, t.name, t.cols)
  BY ParsedFits DEF SyncInv, Orderly, Fits
<1>3. /\ ~case.destructive
      /\ \A f \in src.fks : f.ref \in DOMAIN src.tables
      /\ \E rank \in [DOMAIN src.tables -> Nat] :
           \A f \in src.fks : f.ref # f.table => rank[f.ref] < rank[f.table]
  BY CaseAssumption DEF Orderly, SyncInv, Databases
<1>4. DOMAIN current = DOMAIN live[db].tables
  BY DEF GetDBInfo
<1> HIDE DEF e, current, src
<1>5. PICK sorted \in SortTablesByDependency(e), dropped \in Orders(DOMAIN live[db].tables) :
        diff = ComputeDiff(db, current, e, sorted, dropped)
  BY <1>1 DEF e, current
<1>6. PICK rank \in [DOMAIN src.tables -> Nat] :
        \A f \in src.fks : f.ref # f.table => rank[f.ref] < rank[f.table]
  BY <1>3
<1>7. ASSUME NEW t \in Elems(e), NEW j \in DOMAIN t.cols, t.cols[j].fk # None
      PROVE  /\ t.cols[j].fk.table \in Names(e)
             /\ t.cols[j].fk.table # t.name => rank[t.cols[j].fk.table] < rank[t.name]
  <2> DEFINE n == src.tables[t.name][j].name
             key == t.cols[j].fk
  <2>1. key = KeyOf(src, t.name, n)
    BY <1>2 DEF Same, src
  <2> HIDE DEF n
  <2>2. PICK f \in src.fks : f.table = t.name /\ key = [table |-> f.ref, col |-> f.refcol]
    BY <1>7, <2>1, KeyIs
  <2>3. key.table = f.ref
    BY <2>2
  <2>4. QED BY <1>2, <1>3, <1>6, <2>2, <2>3
<1>8. Ranked(e, rank)
  <2>1. \A t \in Elems(e) : t.name \in DOMAIN src.tables
    BY <1>2, NamesOf
  <2>2. QED BY <1>6, <1>7, <2>1 DEF Ranked
<1>9. /\ IsList(sorted) /\ Elems(sorted) = Elems(e)
      /\ \A i \in DOMAIN sorted : ~Waits(sorted[i], Before(sorted, i))
  BY <1>2, <1>5, <1>8, SortedInOrder
<1>10. Good(live, {}, ComputeDiff(db, current, e, sorted, dropped))
  BY <1>2, <1>3, <1>4, <1>7, <1>9, DiffGood
<1>11. QED BY <1>5, <1>10

LEMMA CompareGood ==
  ASSUME SyncInv, Orderly(case), ~Unassigned, NEW s \in SchemaDiffMultiDB
  PROVE  Good(live, {}, s)
<1> DEFINE named == {db \in Databases : ~case.multi \/ \E x \in DOMAIN file : file[x].database = db}
           diffs == [db \in named |-> SchemaDiff(db)]
           picks == {p \in [named -> UNION {diffs[db] : db \in named}] : \A db \in named : p[db] \in diffs[db]}
           InTurn(order, p) == Concat([i \in DOMAIN order |-> p[order[i]]])
<1>1. PICK order \in Orders(named), p \in picks : s = InTurn(order, p)
  <2>1. SchemaDiffMultiDB = {InTurn(order, p) : order \in Orders(named), p \in picks}
    BY DEF SchemaDiffMultiDB
  <2> HIDE DEF named, picks, InTurn
  <2>2. QED BY <2>1
<1>2. \A db \in named : Good(live, {}, p[db])
  <2> SUFFICES ASSUME NEW db \in named PROVE Good(live, {}, p[db])
    OBVIOUS
  <2>1. p[db] \in diffs[db] /\ diffs[db] = SchemaDiff(db) /\ db \in Databases
    BY <1>1
  <2>2. p[db] \in SchemaDiff(db)
    BY <2>1
  <2>3. QED BY <2>1, <2>2, SchemaDiffGood
<1>3. IsFiniteSet(named)
  BY CaseAssumption, FS_Subset DEF SyncInv, Databases
<1> HIDE DEF named
<1>4. IsList(order) /\ Elems(order) = named
  BY <1>3, OrderIsList
<1>5. Len(order) \in Nat /\ DOMAIN order = 1..Len(order)
  BY <1>4, ListLength
<1> DEFINE ss == [i \in DOMAIN order |-> p[order[i]]]
           none == {}
<1>6. \A i \in 1..Len(order) : Good(live, none, ss[i])
  BY <1>2, <1>4, <1>5 DEF Elems
<1>7. ss = [i \in 1..Len(order) |-> ss[i]]
  BY <1>5
<1>8. s = Concat(ss)
  BY <1>1
<1>9. \A B : none \subseteq B
  OBVIOUS
<1> HIDE DEF ss, none
<1>10. \A i \in 1..Len(order) : Good(live, none \cup First(ss, i - 1), ss[i])
  <2> SUFFICES ASSUME NEW i \in 1..Len(order) PROVE Good(live, none \cup First(ss, i - 1), ss[i])
    OBVIOUS
  <2> DEFINE B == none \cup First(ss, i - 1)
             q == ss[i]
  <2>1. none \subseteq B /\ Good(live, none, q)
    BY <1>6, <1>9
  <2> HIDE DEF B, q
  <2>2. Good(live, B, q)
    BY <2>1, GoodAfter
  <2>3. QED BY <2>2 DEF B, q
<1>11. Good(live, none, Concat(ss))
  BY <1>5, <1>7, <1>10, GoodConcat
<1>12. QED BY <1>8, <1>11 DEF none

\* The tables of a database that a key of the source refers to have the column
\* it refers to, as their primary key.
KeysThere ==
  \A d \in Databases : \A f \in case.source[d].fks :
    f.ref \in DOMAIN live[d].tables => IsPrimary(live[d], f.ref, f.refcol)

\* When all it needs is there and nobody has done what it asks for, a statement
\* is accepted.
LEMMA NeededAccepted ==
  ASSUME SyncInv, Orderly(case), KeysThere, NEW s, Sound(s),
         \A n \in Needs(s) : Met(live[s.db], n), ~Done(live[s.db], s)
  PROVE  Accepts(live[s.db], s)
<1> DEFINE db == live[s.db]
           src == case.source[s.db]
<1>0. s.db \in Databases /\ s.db \in DOMAIN case.source
  BY CaseAssumption DEF Sound, SyncInv, Databases
<1>1. ASSUME NEW f \in src.fks, Met(db, Need(s.db, f.ref, {})) PROVE CanRefer(db, f.ref, f.refcol)
  <2>1. f.ref \in DOMAIN db.tables
    BY <1>1 DEF Met, Need
  <2>2. IsPrimary(db, f.ref, f.refcol)
    BY <1>0, <2>1 DEF KeysThere
  <2>3. QED BY <2>1, <2>2 DEF CanRefer, HasColumn, IsPrimary, Names
<1>2. CASE s.op = "create_table"
  <2>1. s.table \notin DOMAIN db.tables
    BY <1>2 DEF Done
  <2>2. Same(s.db, s.table, s.col)
    BY <1>2 DEF Sound
  <2>3. s.table \in DOMAIN src.tables /\ Primaries(s.col) = Primaries(src.tables[s.table])
    BY <2>2 DEF Same, Primaries
  <2>4. Cardinality(Primaries(s.col)) <= 1
    BY <1>0, <2>3 DEF Orderly
  <2>5. ASSUME NEW c \in Keyed(s.col)
        PROVE  \/ c.fk.table = s.table /\ \E j \in Primaries(s.col) : s.col[j].name = c.fk.col
               \/ c.fk.table # s.table /\ CanRefer(db, c.fk.table, c.fk.col)
    <3>1. PICK j \in DOMAIN s.col : c = s.col[j] /\ c.fk # None
      BY DEF Keyed
    <3> DEFINE n == src.tables[s.table][j].name
    <3>2. c.fk = KeyOf(src, s.table, n)
      BY <2>2, <3>1 DEF Same
    <3> HIDE DEF n
    <3>3. PICK f \in src.fks : f.table = s.table /\ c.fk = [table |-> f.ref, col |-> f.refcol]
      BY <3>1, <3>2, KeyIs
    <3>4. c.fk.table = f.ref /\ c.fk.col = f.refcol
      BY <3>3
    <3>5. CASE f.ref = s.table
      <4>1. IsPrimary(src, s.table, f.refcol)
        BY <1>0, <3>5 DEF Orderly
      <4>2. PICK i \in DOMAIN src.tables[s.table] :
              src.tables[s.table][i].name = f.refcol /\ src.tables[s.table][i].pk
        BY <4>1 DEF IsPrimary
      <4>3. i \in Primaries(s.col) /\ s.col[i].name = f.refcol
        BY <2>2, <2>3, <4>2 DEF Same, Primaries
      <4>4. QED BY <3>4, <3>5, <4>3
    <3>6. CASE f.ref # s.table
      <4>1. Need(s.db, c.fk.table, {}) \in Needs(s)
        BY <1>2, <3>4, <3>6 DEF Needs
      <4>2. QED BY <1>1, <3>4, <3>6, <4>1
    <3>7. QED BY <3>5, <3>6
  <2> HIDE DEF db
  <2>6. Accepts(db, s)
    BY <1>2, <2>1, <2>4, <2>5 DEF Accepts
  <2>7. QED BY <2>6 DEF db
<1>3. CASE s.op = "add_column"
  <2>1. Met(db, Need(s.db, s.table, {}))
    BY <1>3 DEF Needs
  <2>2. QED BY <1>3, <2>1 DEF Accepts, Done, Met, Need
<1>4. CASE s.op = "add_constraint"
  <2>1. Met(db, Need(s.db, s.table, {s.col.name})) /\ Met(db, Need(s.db, s.col.fk.table, {}))
    BY <1>4 DEF Needs
  <2>2. PICK f \in src.fks : s.col.fk = [table |-> f.ref, col |-> f.refcol]
    BY <1>4 DEF Sound
  <2>3. CanRefer(db, s.col.fk.table, s.col.fk.col)
    BY <1>1, <2>1, <2>2
  <2>4. HasColumn(db, s.table, s.col.name)
    BY <2>1 DEF Met, Need, HasColumn
  <2>5. QED BY <1>4, <2>3, <2>4 DEF Accepts, Done
<1>5. CASE s.op = "add_index"
  <2>1. Met(db, Need(s.db, s.table, {s.col}))
    BY <1>5 DEF Needs
  <2>2. QED BY <1>5, <2>1 DEF Accepts, Done, Met, Need, HasColumn
<1>6. QED BY <1>2, <1>3, <1>4, <1>5 DEF Sound

LEMMA StoredIs == \A c : Stored(c).name = c.name /\ Stored(c).pk = c.pk
BY DEF Stored

\* What a statement that adds something leaves and brings.
LEMMA ApplyAdds ==
  ASSUME NEW db, IsDatabase(db), NEW s, Sound(s), Accepts(db, s)
  PROVE  /\ \A t \in DOMAIN db.tables :
              /\ t \in DOMAIN Apply(db, s).tables
              /\ \A i \in DOMAIN db.tables[t] :
                   i \in DOMAIN Apply(db, s).tables[t] /\ Apply(db, s).tables[t][i] = db.tables[t][i]
         /\ \A t \in DOMAIN Apply(db, s).tables \ DOMAIN db.tables :
              /\ s.op = "create_table" /\ t = s.table
              /\ DOMAIN Apply(db, s).tables[t] = DOMAIN s.col
              /\ \A j \in DOMAIN s.col : Apply(db, s).tables[t][j] = Stored(s.col[j])
         /\ \A n : Meets(s, n) => Met(Apply(db, s), n)
<1> DEFINE new == Apply(db, s)
<1>1. CASE s.op = "create_table"
  <2> DEFINE T == DOMAIN db.tables \cup {s.table}
             made == [j \in DOMAIN s.col |-> Stored(s.col[j])]
  <2>1. new.tables = [t \in T |-> IF t = s.table THEN made ELSE db.tables[t]]
    BY <1>1 DEF Apply, IsDatabase
  <2>2. s.table \notin DOMAIN db.tables
    BY <1>1 DEF Accepts
  <2> HIDE DEF new
  <2>3. \A t \in DOMAIN db.tables : t \in DOMAIN new.tables /\ new.tables[t] = db.tables[t]
    BY <2>1, <2>2
  <2>4. /\ DOMAIN new.tables \ DOMAIN db.tables = {s.table} /\ DOMAIN new.tables[s.table] = DOMAIN s.col
        /\ \A j \in DOMAIN s.col : new.tables[s.table][j] = Stored(s.col[j])
    BY <2>1, <2>2
  <2>5. Names(new.tables[s.table]) = Names(s.col)
    <3>1. \A j \in DOMAIN s.col : new.tables[s.table][j].name = s.col[j].name
      BY <2>4, StoredIs
    <3>2. QED BY <2>4, <3>1 DEF Names
  <2>6. \A n : Meets(s, n) => Met(new, n)
    BY <1>1, <2>4, <2>5 DEF Meets, Met
  <2>7. QED BY <1>1, <2>3, <2>4, <2>6 DEF new
<1>2. CASE s.op = "add_column"
  <2> DEFINE old == db.tables[s.table]
             c == [Stored(s.col) EXCEPT !.pk = FALSE]
             longer == Append(old, c)
  <2>1. new.tables = [db.tables EXCEPT ![s.table] = longer]
    BY <1>2 DEF Apply, IsDatabase
  <2>2. s.table \in DOMAIN db.tables /\ IsList(old)
    BY <1>2 DEF Accepts, IsDatabase
  <2>3. c.name = s.col.name
    BY DEF Stored
  <2> HIDE DEF c, old, new
  <2>4. /\ \A i \in DOMAIN old : i \in DOMAIN longer /\ longer[i] = old[i]
        /\ \E i \in DOMAIN longer : longer[i] = c
    <3> DEFINE E == Elems(old) \cup {c}
    <3>1. old \in Seq(E) /\ c \in E
      BY <2>2 DEF IsList
    <3> HIDE DEF E
    <3>2. /\ Len(old) \in Nat /\ DOMAIN old = 1..Len(old) /\ DOMAIN longer = 1..(Len(old) + 1)
          /\ longer[Len(old) + 1] = c /\ \A i \in 1..Len(old) : longer[i] = old[i]
      BY <3>1
    <3>3. QED BY <3>2
  <2> HIDE DEF longer
  <2>5. /\ DOMAIN new.tables = DOMAIN db.tables /\ new.tables[s.table] = longer
        /\ \A t \in DOMAIN db.tables \ {s.table} : new.tables[t] = db.tables[t]
    BY <2>1, <2>2 DEF IsDatabase
  <2>6. s.col.name \in Names(new.tables[s.table])
    BY <2>3, <2>4, <2>5 DEF Names
  <2>7. \A n : Meets(s, n) => Met(new, n)
    BY <1>2, <2>2, <2>5, <2>6 DEF Meets, Met
  <2>8. QED BY <2>4, <2>5, <2>7 DEF new, old
<1>3. CASE s.op \in {"add_constraint", "add_index"}
  <2>1. new.tables = db.tables
    BY <1>3 DEF Apply, IsDatabase
  <2>2. \A n : ~Meets(s, n)
    BY <1>3 DEF Meets
  <2>3. QED BY <2>1, <2>2
<1>4. QED BY <1>1, <1>2, <1>3 DEF Sound

\* What a script waits for that has been met stays met.
LEMMA ApplyMeets ==
  ASSUME NEW db, IsDatabase(db), NEW s, Sound(s), Accepts(db, s), NEW n, Met(db, n) \/ Meets(s, n)
  PROVE  Met(Apply(db, s), n)
<1> DEFINE new == Apply(db, s)
<1>1. CASE Meets(s, n)
  BY <1>1, ApplyAdds
<1>2. CASE Met(db, n)
  <2>1. n.table \in DOMAIN db.tables /\ n.cols \subseteq Names(db.tables[n.table])
    BY <1>2 DEF Met
  <2>2. n.table \in DOMAIN new.tables
        /\ \A i \in DOMAIN db.tables[n.table] :
             i \in DOMAIN new.tables[n.table] /\ new.tables[n.table][i] = db.tables[n.table][i]
    BY <2>1, ApplyAdds
  <2> HIDE DEF new
  <2>3. Names(db.tables[n.table]) \subseteq Names(new.tables[n.table])
    BY <2>2 DEF Names
  <2>4. Met(new, n)
    BY <2>1, <2>2, <2>3 DEF Met
  <2>5. QED BY <2>4 DEF new
<1>3. QED BY <1>1, <1>2

\* And primary keys stay; a table that is made has that of the source.
LEMMA ApplyKeys ==
  ASSUME Orderly(case), NEW db, IsDatabase(db), NEW s, Sound(s), Accepts(db, s), s.db \in DOMAIN case.source,
         NEW f \in case.source[s.db].fks,
         f.ref \in DOMAIN db.tables => IsPrimary(db, f.ref, f.refcol),
         f.ref \in DOMAIN Apply(db, s).tables
  PROVE  IsPrimary(Apply(db, s), f.ref, f.refcol)
<1> DEFINE new == Apply(db, s)
           src == case.source[s.db]
<1>1. CASE f.ref \in DOMAIN db.tables
  <2>1. PICK i \in DOMAIN db.tables[f.ref] : db.tables[f.ref][i].name = f.refcol /\ db.tables[f.ref][i].pk
    BY <1>1 DEF IsPrimary
  <2>2. i \in DOMAIN new.tables[f.ref] /\ new.tables[f.ref][i] = db.tables[f.ref][i]
    BY <1>1, <2>1, ApplyAdds
  <2> HIDE DEF new
  <2>3. IsPrimary(new, f.ref, f.refcol)
    BY <2>1, <2>2 DEF IsPrimary
  <2>4. QED BY <2>3 DEF new
<1>2. CASE f.ref \notin DOMAIN db.tables
  <2>1. /\ s.op = "create_table" /\ f.ref = s.table /\ DOMAIN new.tables[s.table] = DOMAIN s.col
        /\ \A j \in DOMAIN s.col : new.tables[s.table][j] = Stored(s.col[j])
    BY <1>2, ApplyAdds
  <2> HIDE DEF new
  <2>2. Same(s.db, s.table, s.col)
    BY <2>1 DEF Sound
  <2>3. IsPrimary(src, s.table, f.refcol)
    BY <2>1 DEF Orderly
  <2>4. PICK i \in DOMAIN src.tables[s.table] :
          src.tables[s.table][i].name = f.refcol /\ src.tables[s.table][i].pk
    BY <2>3 DEF IsPrimary
  <2>5. i \in DOMAIN s.col /\ s.col[i].name = f.refcol /\ s.col[i].pk
    BY <2>2, <2>4 DEF Same
  <2>6. new.tables[s.table][i].name = f.refcol /\ new.tables[s.table][i].pk
    BY <2>1, <2>5, StoredIs
  <2>7. IsPrimary(new, f.ref, f.refcol)
    BY <2>1, <2>5, <2>6 DEF IsPrimary
  <2>8. QED BY <2>7 DEF new
<1>3. QED BY <1>1, <1>2

\* A script whose next statement was executed, or that another overtook.
LEMMA GoodLater ==
  ASSUME NEW L, NEW M, NEW q, Good(L, {}, q),
         \A n : n.db \in Databases /\ Met(L[n.db], n) => Met(M[n.db], n)
  PROVE  Good(M, {}, q)
<1>1. \A i \in DOMAIN q : \A n \in Needs(q[i]) : n.db \in Databases
  <2> SUFFICES ASSUME NEW i \in DOMAIN q, NEW n \in Needs(q[i]) PROVE n.db \in Databases
    OBVIOUS
  <2>1. Sound(q[i])
    BY DEF Good
  <2>2. QED BY <2>1 DEF Sound, Needs, Need
<1>2. QED BY <1>1 DEF Good, Provided

LEMMA GoodNext ==
  ASSUME NEW L, NEW M, NEW q, Good(L, {}, q), q # <<>>,
         \A n : n.db \in Databases /\ (Met(L[n.db], n) \/ Meets(Head(q), n)) => Met(M[n.db], n)
  PROVE  Good(M, {}, Tail(q))
<1> DEFINE E == Elems(q)
           u == Tail(q)
           n == Len(q)
<1>1. q \in Seq(E)
  BY DEF Good, IsList
<1> HIDE DEF E
<1>2. /\ n \in Nat \ {0} /\ DOMAIN q = 1..n /\ DOMAIN u = 1..(n - 1) /\ u \in Seq(E)
      /\ (\A i \in 1..(n - 1) : u[i] = q[i + 1]) /\ Head(q) = q[1]
  BY <1>1
<1> HIDE DEF u, n
<1>3. ASSUME NEW i \in 1..(n - 1)
      PROVE  /\ Sound(u[i])
             /\ \A x \in Needs(u[i]) : Met(M[x.db], x) \/ \E j \in 1..(i - 1) : Meets(u[j], x)
  <2>1. i + 1 \in DOMAIN q /\ u[i] = q[i + 1]
    BY <1>2
  <2>2. Sound(u[i])
    BY <2>1 DEF Good
  <2>3. ASSUME NEW x \in Needs(u[i])
        PROVE  Met(M[x.db], x) \/ \E j \in 1..(i - 1) : Meets(u[j], x)
    <3>1. x.db \in Databases
      BY <2>2 DEF Sound, Needs, Need
    <3>2. Met(L[x.db], x) \/ \E j \in 1..((i + 1) - 1) : Meets(q[j], x)
      BY <2>1 DEF Good, Provided
    <3>3. CASE \E j \in 1..((i + 1) - 1) : Meets(q[j], x)
      <4>1. PICK j \in 1..((i + 1) - 1) : Meets(q[j], x)
        BY <3>3
      <4>2. CASE j = 1
        BY <1>2, <3>1, <4>1, <4>2
      <4>3. CASE j # 1
        <5>1. j - 1 \in 1..(i - 1) /\ u[j - 1] = q[j]
          BY <1>2, <4>1, <4>3
        <5>2. QED BY <4>1, <5>1
      <4>4. QED BY <4>2, <4>3
    <3>4. QED BY <3>1, <3>2, <3>3
  <2>4. QED BY <2>2, <2>3
<1>4. IsList(u)
  BY <1>2, ListIn
<1>5. QED BY <1>2, <1>3, <1>4 DEF Good, Provided, u

-----------------------------------------------------------------------------
(* Refusals.                                                               *)

\* In an orderly case each caller's script is one whose statements come after
\* what they need, whatever others have executed since it was computed.
OrderInv ==
  Orderly(case) =>
    /\ KeysThere
    /\ \A r \in Runners : Good(live, {}, script[r])
    /\ \A x \in refused : x[2]

\* At first there are no scripts.
LEMMA OrderInit == Init => OrderInv
<1> SUFFICES ASSUME Init, Orderly(case)
             PROVE  KeysThere /\ (\A r \in Runners : Good(live, {}, script[r])) /\ \A x \in refused : x[2]
  BY DEF OrderInv
<1>1. live = case.live /\ case \in Cases /\ script = [r \in Runners |-> <<>>] /\ refused = {}
  BY DEF Init
<1>2. KeysThere
  BY <1>1, CaseAssumption DEF KeysThere, Orderly, Databases
<1>3. QED BY <1>1, <1>2, GoodEmpty

\* The next statement of a script has all it needs.
LEMMA NextNeeds ==
  ASSUME NEW q, Good(live, {}, q), q # <<>>
  PROVE  Sound(Head(q)) /\ \A n \in Needs(Head(q)) : Met(live[Head(q).db], n)
<1> DEFINE s == Head(q)
           E == Elems(q)
<1>1. q \in Seq(E)
  BY DEF Good, IsList
<1> HIDE DEF E
<1>2. 1 \in DOMAIN q /\ s = q[1]
  BY <1>1
<1> HIDE DEF s
<1>3. Sound(s) /\ \A n \in Needs(s) : Met(live[n.db], n)
  BY <1>2 DEF Good, Provided
<1>4. \A n \in Needs(s) : n.db = s.db
  BY <1>3 DEF Sound, Needs, Need
<1>5. QED BY <1>3, <1>4 DEF s

\* Executing a statement leaves every script good.
LEMMA ExecuteGood ==
  ASSUME SyncInv, OrderInv, Orderly(case), NEW r \in Runners, Execute(r)
  PROVE  /\ \A d \in Databases : \A f \in case.source[d].fks :
              f.ref \in DOMAIN live'[d].tables => IsPrimary(live'[d], f.ref, f.refcol)
         /\ \A x \in Runners : Good(live', {}, script'[x])
<1> DEFINE q == script[r]
           s == Head(q)
<1>1. /\ q # <<>> /\ Accepts(live[s.db], s) /\ live' = [live EXCEPT ![s.db] = Apply(live[s.db], s)]
      /\ script' = [script EXCEPT ![r] = Tail(q)]
  BY DEF Execute
<1>2. Good(live, {}, q) /\ \A x \in Runners : Good(live, {}, script[x])
  BY DEF OrderInv
<1>3. DOMAIN live = Databases /\ (\A d \in Databases : IsDatabase(live[d])) /\ DOMAIN script = Runners
      /\ DOMAIN case.source = Databases
  BY CaseAssumption DEF SyncInv, Databases
<1> HIDE DEF q
<1>4. Sound(s) /\ s.db \in Databases
  BY <1>1, <1>2, NextNeeds DEF Sound
<1> HIDE DEF s
<1>5. /\ live'[s.db] = Apply(live[s.db], s)
      /\ \A d \in Databases \ {s.db} : live'[d] = live[d]
  BY <1>1, <1>3, <1>4
<1>6. ASSUME NEW d \in Databases, NEW f \in case.source[d].fks, f.ref \in DOMAIN live'[d].tables
      PROVE  IsPrimary(live'[d], f.ref, f.refcol)
  <2>1. f.ref \in DOMAIN live[d].tables => IsPrimary(live[d], f.ref, f.refcol)
    BY DEF OrderInv, KeysThere
  <2>2. CASE d = s.db
    BY <1>1, <1>3, <1>4, <1>5, <1>6, <2>1, <2>2, ApplyKeys
  <2>3. CASE d # s.db
    BY <1>5, <1>6, <2>1, <2>3
  <2>4. QED BY <2>2, <2>3
<1>7. ASSUME NEW n, n.db \in Databases, Met(live[n.db], n) \/ Meets(s, n)
      PROVE  Met(live'[n.db], n)
  <2>1. CASE n.db = s.db
    BY <1>1, <1>3, <1>4, <1>5, <1>7, <2>1, ApplyMeets
  <2>2. CASE n.db # s.db
    <3>1. ~Meets(s, n)
      BY <2>2 DEF Meets
    <3>2. QED BY <1>5, <1>7, <2>2, <3>1
  <2>3. QED BY <2>1, <2>2
<1>8. Good(live', {}, Tail(q))
  BY <1>1, <1>2, <1>7, GoodNext DEF s
<1>9. \A x \in Runners : Good(live', {}, script[x])
  BY <1>2, <1>7, GoodLater
<1>10. \A x \in Runners : script'[x] = IF x = r THEN Tail(q) ELSE script[x]
  BY <1>1, <1>3
<1>11. QED BY <1>6, <1>8, <1>9, <1>10

\* So a statement is refused only if it was done already.
LEMMA RefusedDone ==
  ASSUME SyncInv, OrderInv, Orderly(case), NEW r \in Runners, Refused(r)
  PROVE  \A x \in refused' : x[2]
<1> DEFINE s == Head(script[r])
<1>1. script[r] # <<>> /\ ~Accepts(live[s.db], s) /\ refused' = refused \cup {<<s, Done(live[s.db], s)>>}
  BY DEF Refused
<1>2. KeysThere /\ Good(live, {}, script[r]) /\ \A x \in refused : x[2]
  BY DEF OrderInv
<1>3. Sound(s) /\ \A n \in Needs(s) : Met(live[s.db], n)
  BY <1>1, <1>2, NextNeeds
<1> HIDE DEF s
<1>4. Done(live[s.db], s)
  BY <1>1, <1>2, <1>3, NeededAccepted
<1> DEFINE b == Done(live[s.db], s)
<1>5. <<s, b>>[2] = b
  OBVIOUS
<1> HIDE DEF b
<1>6. \A x \in refused' : x[2] \/ x[2] = b
  BY <1>1, <1>2, <1>5 DEF b
<1>7. QED BY <1>4, <1>6 DEF b

\* And each step of a caller keeps it so.
LEMMA OrderStep == SyncInv /\ OrderInv /\ [Next]_vars => OrderInv'
<1> SUFFICES ASSUME SyncInv, OrderInv, [Next]_vars, Orderly(case)'
             PROVE  (KeysThere /\ (\A r \in Runners : Good(live, {}, script[r])) /\ \A x \in refused : x[2])'
  BY DEF OrderInv
<1>1. case' = case /\ file' = file
  BY DEF Next, Compare, Execute, Refused, Finish, Crash, vars
<1>2. Orderly(case)
  BY <1>1
<1>3. Databases' = Databases
  BY <1>1 DEF Databases
<1>4. \A L, q : Good(L, {}, q)' <=> Good(L, {}, q)
  BY <1>1, <1>3 DEF Good, Sound, Same
<1>5. SUFFICES /\ \A d \in Databases : \A f \in case.source[d].fks :
                    f.ref \in DOMAIN live'[d].tables => IsPrimary(live'[d], f.ref, f.refcol)
               /\ \A x \in Runners : Good(live', {}, script'[x])
               /\ \A x \in refused' : x[2]
  <2>1. KeysThere' <=> \A d \in Databases : \A f \in case.source[d].fks :
          f.ref \in DOMAIN live'[d].tables => IsPrimary(live'[d], f.ref, f.refcol)
    BY <1>1, <1>3 DEF KeysThere, IsPrimary
  <2>2. (\A r \in Runners : Good(live, {}, script[r]))' <=> \A x \in Runners : Good(live', {}, script'[x])
    BY <1>4
  <2>3. QED BY <2>1, <2>2
<1>6. /\ \A d \in Databases : \A f \in case.source[d].fks :
           f.ref \in DOMAIN live[d].tables => IsPrimary(live[d], f.ref, f.refcol)
      /\ \A x \in Runners : Good(live, {}, script[x])
      /\ \A x \in refused : x[2]
  BY <1>2 DEF OrderInv, KeysThere
<1>7. ASSUME NEW r \in Runners, NEW s, Good(live, {}, s), script' = [script EXCEPT ![r] = s]
      PROVE  \A x \in Runners : Good(live, {}, script'[x])
  <2>1. \A x \in Runners : script'[x] = IF x = r THEN s ELSE script[x]
    BY <1>7 DEF SyncInv
  <2>2. QED BY <1>6, <1>7, <2>1
<1>8. CASE UNCHANGED vars
  BY <1>6, <1>8 DEF vars
<1>9. ASSUME NEW r \in Runners, Compare(r) \/ Execute(r) \/ Refused(r) \/ Finish(r) \/ Crash(r)
      PROVE  /\ \A d \in Databases : \A f \in case.source[d].fks :
                  f.ref \in DOMAIN live'[d].tables => IsPrimary(live'[d], f.ref, f.refcol)
             /\ \A x \in Runners : Good(live', {}, script'[x])
             /\ \A x \in refused' : x[2]
  <2>1. CASE Compare(r)
    <3>1. live' = live /\ refused' = refused
      BY <2>1 DEF Compare
    <3>2. CASE Unassigned
      <4>1. script' = script
        BY <2>1, <3>2 DEF Compare
      <4>2. QED BY <1>6, <3>1, <4>1
    <3>3. CASE ~Unassigned
      <4>1. PICK s \in SchemaDiffMultiDB : script' = [script EXCEPT ![r] = s]
        BY <2>1, <3>3 DEF Compare
      <4>2. Good(live, {}, s)
        BY <1>2, <3>3, CompareGood
      <4>3. QED BY <1>6, <1>7, <3>1, <4>1, <4>2
    <3>4. QED BY <3>2, <3>3
  <2>2. CASE Execute(r)
    <3>1. refused' = refused
      BY <2>2 DEF Execute
    <3>2. QED BY <1>2, <1>6, <2>2, <3>1, ExecuteGood
  <2>3. CASE Refused(r)
    <3>1. live' = live /\ script' = [script EXCEPT ![r] = <<>>]
      BY <2>3 DEF Refused
    <3>2. Good(live, {}, <<>>)
      BY GoodEmpty
    <3>3. \A x \in refused' : x[2]
      BY <1>2, <2>3, RefusedDone
    <3>4. QED BY <1>6, <1>7, <3>1, <3>2, <3>3
  <2>4. CASE Finish(r)
    BY <1>6, <2>4 DEF Finish
  <2>5. CASE Crash(r)
    <3>1. live' = live /\ refused' = refused /\ script' = [script EXCEPT ![r] = <<>>]
      BY <2>5 DEF Crash
    <3>2. Good(live, {}, <<>>)
      BY GoodEmpty
    <3>3. QED BY <1>6, <1>7, <3>1, <3>2
  <2>6. QED BY <1>9, <2>1, <2>2, <2>3, <2>4, <2>5
<1>10. QED BY <1>8, <1>9 DEF Next

\* Statements come in an order the databases accept: a statement is refused only
\* when another caller was faster, if the file is of orderly databases.
THEOREM SyncRefusedOnlyIfDone == Spec => [](Orderly(case) => RefusedOnlyIfDone)
<1>1. OrderInv => (Orderly(case) => RefusedOnlyIfDone)
  BY DEF OrderInv, RefusedOnlyIfDone
<1>2. QED BY <1>1, SyncInit, SyncStep, OrderInit, OrderStep, PTL DEF Spec
=============================================================================
