---------------------------- MODULE Catalogue_proofs ----------------------------
(***************************************************************************)
(* Proofs about Catalogue, for every listing, page limit, course and       *)
(* request.                                                                *)
(*                                                                         *)
(* A page begins after the row that the cursor names in a list that is     *)
(* read anew.  Nothing is lost between two pages because whatever happens  *)
(* to a listing keeps the order of the rows that stay: a row that was not  *)
(* shown yet stays after the cursor.                                       *)
(***************************************************************************)
EXTENDS Catalogue, NaturalsInduction, FiniteSetTheorems, TLAPS

-----------------------------------------------------------------------------
(* The order of rows.                                                      *)

Before(s, a, b) == \E i, j \in DOMAIN s : i < j /\ s[i] = a /\ s[j] = b

\* A set of numbers has a least one.
LEMMA LeastNumber ==
    ASSUME NEW T \in SUBSET Nat, T # {}
    PROVE  \E n \in T : \A m \in T : n <= m
  <1>1. \E x \in T : \A y \in T : ~(<<y, x>> \in OpToRel(<, Nat))
    BY WFMin, NatLessThanWellFounded
  <1>2. \E x \in T : \A y \in T : ~(y < x)
    BY <1>1 DEF OpToRel
  <1>3. QED
    BY <1>2

\* Rows that are listed once are in one order.
LEMMA OneOrder ==
    ASSUME NEW R, NEW s \in Seq(R), IsInjective(s), NEW a, NEW b, Before(s, a, b)
    PROVE  a # b /\ ~Before(s, b, a) /\ \A c : Before(s, b, c) => Before(s, a, c)
  <1>1. DOMAIN s = 1..Len(s) /\ Len(s) \in Nat
    OBVIOUS
  <1>2. PICK i \in DOMAIN s, j \in DOMAIN s : i < j /\ s[i] = a /\ s[j] = b
    BY DEF Before
  <1>3. \A k \in DOMAIN s : (s[k] = a => k = i) /\ (s[k] = b => k = j)
    BY <1>2 DEF IsInjective
  <1>4. a # b
    BY <1>1, <1>2, <1>3
  <1>5. ~Before(s, b, a)
    BY <1>1, <1>2, <1>3 DEF Before
  <1>6. ASSUME NEW c, Before(s, b, c) PROVE Before(s, a, c)
    <2>1. PICK k \in DOMAIN s : j < k /\ s[k] = c
      BY <1>3, <1>6 DEF Before
    <2>2. i < k
      BY <1>1, <1>2, <2>1
    <2>3. QED
      BY <1>2, <2>1, <2>2 DEF Before
  <1>7. QED
    BY <1>4, <1>5, <1>6

\* Two rows of a list come one before the other.
LEMMA SomeOrder ==
    ASSUME NEW R, NEW s \in Seq(R), NEW a \in ToSet(s), NEW b \in ToSet(s), a # b
    PROVE  Before(s, a, b) \/ Before(s, b, a)
  <1>1. DOMAIN s = 1..Len(s) /\ Len(s) \in Nat
    OBVIOUS
  <1>2. PICK i \in DOMAIN s, j \in DOMAIN s : s[i] = a /\ s[j] = b
    BY DEF ToSet
  <1>3. i < j \/ j < i
    BY <1>1, <1>2
  <1>4. QED
    BY <1>2, <1>3 DEF Before

-----------------------------------------------------------------------------
(* What a listing shows of its rows.                                       *)

\* f is what Filtered has kept of the first n rows.
Keeps(f, s, set, n) ==
    f = [i \in 0..n |-> IF i = 0 THEN <<>>
                        ELSE IF s[i] \in set THEN Append(f[i-1], s[i]) ELSE f[i-1]]

\* Filtered's recursion defines a function.
LEMMA KeepsExist ==
    ASSUME NEW s, NEW set, NEW n \in Nat
    PROVE  \E f : Keeps(f, s, set, n)
  <1> DEFINE Bad == {k \in Nat : ~\E f : Keeps(f, s, set, k)}
             Next1(f, i) == IF i = 0 THEN <<>>
                            ELSE IF s[i] \in set THEN Append(f[i-1], s[i]) ELSE f[i-1]
  <1>1. SUFFICES ASSUME Bad # {} PROVE FALSE
    OBVIOUS
  <1>2. PICK k \in Bad : \A m \in Bad : k <= m
    BY <1>1, LeastNumber
  <1>3. k # 0
    <2> DEFINE e == [i \in 0..0 |-> <<>>]
    <2>1. e = [i \in 0..0 |-> Next1(e, i)]
      OBVIOUS
    <2> HIDE DEF e
    <2>2. Keeps(e, s, set, 0)
      BY <2>1 DEF Keeps
    <2>3. QED
      BY <1>2, <2>2
  <1>4. PICK f : Keeps(f, s, set, k - 1)
    <2>1. k - 1 \in Nat /\ ~(k <= k - 1)
      BY <1>2, <1>3
    <2>2. QED
      BY <1>2, <2>1
  <1>5. k \in Nat /\ k > 0
    BY <1>2, <1>3
  <1> DEFINE g == [i \in 0..k |-> IF i = k THEN Next1(f, k) ELSE f[i]]
  <1>6. \A i \in 0..(k-1) : f[i] = Next1(f, i)
    BY <1>4 DEF Keeps
  <1>7. ASSUME NEW i \in 0..k PROVE g[i] = Next1(g, i)
    <2>1. i # 0 => i - 1 \in 0..k /\ i - 1 # k
      BY <1>5
    <2>2. i # 0 => g[i-1] = f[i-1]
      BY <2>1
    <2>3. Next1(g, i) = Next1(f, i)
      BY <2>2
    <2>4. CASE i = k
      BY <2>3, <2>4
    <2>5. CASE i # k
      <3>1. i \in 0..(k-1)
        BY <1>5, <2>5
      <3>2. QED
        BY <1>6, <2>3, <2>5, <3>1
    <2>6. QED
      BY <2>4, <2>5
  <1> DEFINE h == [i \in 0..k |-> Next1(g, i)]
  <1>8. g = h
    <2>1. g = [i \in 0..k |-> g[i]]
      OBVIOUS
    <2> HIDE DEF g, Next1
    <2>2. QED
      BY <1>7, <2>1
  <1>9. Keeps(g, s, set, k)
    <2> HIDE DEF g
    <2>1. QED
      BY <1>8 DEF Keeps
  <1>10. QED
    BY <1>2, <1>9

\* q has the first k rows of s that are in the set, in their order.
Kept(q, s, set, k) ==
    /\ q \in Seq(ToSet(s))
    /\ \A j \in DOMAIN q : q[j] \in set /\ \E i \in 1..k : s[i] = q[j]
    /\ \A i \in 1..k : s[i] \in set => \E j \in DOMAIN q : q[j] = s[i]
    /\ \A j, l \in DOMAIN q : j < l =>
          \E i, m \in 1..k : i < m /\ s[i] = q[j] /\ s[m] = q[l]

\* One more row is kept after the others if it is in the set.
LEMMA KeptGrows ==
    ASSUME NEW R, NEW s \in Seq(R), NEW set, NEW k \in 1..Len(s), NEW q, Kept(q, s, set, k - 1)
    PROVE  Kept(IF s[k] \in set THEN Append(q, s[k]) ELSE q, s, set, k)
  <1>1. k \in Nat \ {0} /\ s[k] \in ToSet(s) /\ \A i \in 1..(k-1) : i \in 1..k /\ i < k
    BY DEF ToSet
  <1>2. \A i \in 1..k : i \in 1..(k-1) \/ i = k
    BY <1>1
  <1>3. CASE s[k] \notin set
    BY <1>1, <1>2, <1>3 DEF Kept
  <1>4. CASE s[k] \in set
    <2> DEFINE p == Append(q, s[k])
               n == Len(q)
    <2>1. q \in Seq(ToSet(s)) /\ n \in Nat /\ DOMAIN q = 1..n
      BY DEF Kept
    <2>2. /\ p \in Seq(ToSet(s)) /\ DOMAIN p = 1..(n + 1) /\ p[n + 1] = s[k]
          /\ \A j \in 1..n : p[j] = q[j]
          /\ \A j \in 1..(n + 1) : j \in 1..n \/ j = n + 1
      BY <1>1, <2>1
    <2> HIDE DEF p
    <2>3. \A j \in DOMAIN p : p[j] \in set /\ \E i \in 1..k : s[i] = p[j]
      BY <1>1, <1>4, <2>1, <2>2 DEF Kept
    <2>4. \A i \in 1..k : s[i] \in set => \E j \in DOMAIN p : p[j] = s[i]
      <3>1. ASSUME NEW i \in 1..(k-1), s[i] \in set PROVE \E j \in DOMAIN p : p[j] = s[i]
        <4>1. PICK j \in 1..n : q[j] = s[i]
          BY <2>1, <3>1 DEF Kept
        <4>2. j \in 1..(n + 1)
          BY <2>1
        <4>3. QED
          BY <2>2, <4>1, <4>2
      <3>2. n + 1 \in DOMAIN p
        BY <2>1, <2>2
      <3>3. QED
        BY <1>2, <2>2, <3>1, <3>2
    <2>5. ASSUME NEW j \in DOMAIN p, NEW l \in DOMAIN p, j < l
          PROVE  \E i, m \in 1..k : i < m /\ s[i] = p[j] /\ s[m] = p[l]
      <3>1. j \in 1..n
        BY <2>1, <2>2, <2>5
      <3>2. CASE l \in 1..n
        <4>1. PICK i \in 1..(k-1), m \in 1..(k-1) : i < m /\ s[i] = q[j] /\ s[m] = q[l]
          BY <2>1, <2>5, <3>1, <3>2 DEF Kept
        <4>2. QED
          BY <1>1, <2>2, <3>1, <3>2, <4>1
      <3>3. CASE l = n + 1
        <4>1. PICK i \in 1..(k-1) : s[i] = q[j]
          BY <2>1, <3>1 DEF Kept
        <4>2. i \in 1..k /\ k \in 1..k /\ i < k
          BY <1>1
        <4>3. QED
          BY <2>2, <3>1, <3>3, <4>1, <4>2
      <3>4. QED
        BY <2>2, <3>2, <3>3
    <2>6. Kept(p, s, set, k)
      BY <2>2, <2>3, <2>4, <2>5 DEF Kept
    <2>7. QED
      BY <1>4, <2>6 DEF p
  <1>5. QED
    BY <1>3, <1>4

\* Filtered keeps the rows of the set.
LEMMA FilteredKeeps ==
    ASSUME NEW R, NEW s \in Seq(R), NEW set
    PROVE  Kept(Filtered(s, set), s, set, Len(s))
  <1> DEFINE n == Len(s)
             f == CHOOSE h : Keeps(h, s, set, n)
             Bad == {k \in 0..n : ~Kept(f[k], s, set, k)}
  <1>1. Keeps(f, s, set, n)
    <2>1. n \in Nat
      OBVIOUS
    <2> HIDE DEF n
    <2>2. QED
      BY <2>1, KeepsExist
  <1>2. Filtered(s, set) = f[n]
    BY DEF Filtered, Keeps
  <1> HIDE DEF f
  <1>3. n \in Nat
    OBVIOUS
  <1>4. \A i \in 0..n : f[i] = IF i = 0 THEN <<>>
                              ELSE IF s[i] \in set THEN Append(f[i-1], s[i]) ELSE f[i-1]
    BY <1>1 DEF Keeps
  <1>5. Bad = {}
    <2> SUFFICES ASSUME Bad # {} PROVE FALSE
      OBVIOUS
    <2>1. PICK k \in Bad : \A m \in Bad : k <= m
      <3>1. Bad \in SUBSET Nat
        OBVIOUS
      <3> HIDE DEF Bad
      <3>2. QED
        BY <3>1, LeastNumber
    <2>2. k \in 0..n /\ k \in Nat /\ ~Kept(f[k], s, set, k)
      BY <2>1
    <2>3. CASE k = 0
      <3>1. f[k] = <<>>
        BY <1>4, <2>2, <2>3
      <3>2. Kept(<<>>, s, set, 0)
        BY DEF Kept
      <3>3. QED
        BY <2>2, <2>3, <3>1, <3>2
    <2>4. CASE k # 0
      <3>1. k - 1 \in 0..n /\ k \in 1..n /\ ~(k <= k - 1)
        BY <1>3, <2>2, <2>4
      <3>2. Kept(f[k-1], s, set, k - 1)
        BY <2>1, <3>1
      <3>3. f[k] = IF s[k] \in set THEN Append(f[k-1], s[k]) ELSE f[k-1]
        BY <1>4, <2>2, <2>4
      <3>4. Kept(f[k], s, set, k)
        BY <3>1, <3>2, <3>3, KeptGrows
      <3>5. QED
        BY <2>2, <3>4
    <2>5. QED
      BY <2>3, <2>4
  <1>6. n \in 0..n
    BY <1>3
  <1>7. QED
    BY <1>2, <1>5, <1>6

\* The rows of the set are listed once each, in their order.
LEMMA FilteredFacts ==
    ASSUME NEW R, NEW s \in Seq(R), IsInjective(s), NEW set
    PROVE  /\ Filtered(s, set) \in Seq(R) /\ IsInjective(Filtered(s, set))
           /\ ToSet(Filtered(s, set)) = ToSet(s) \cap set
           /\ \A a, b : Before(Filtered(s, set), a, b) => Before(s, a, b)
           /\ \A a, b \in set : Before(s, a, b) => Before(Filtered(s, set), a, b)
  <1> DEFINE q == Filtered(s, set)
             n == Len(s)
  <1>1. Kept(q, s, set, n)
    BY FilteredKeeps
  <1> HIDE DEF q
  <1>2. DOMAIN s = 1..n /\ n \in Nat /\ ToSet(s) \subseteq R
    BY DEF ToSet
  <1>3. q \in Seq(ToSet(s)) /\ q \in Seq(R) /\ DOMAIN q = 1..Len(q) /\ Len(q) \in Nat
    <2>1. q \in Seq(ToSet(s))
      BY <1>1 DEF Kept
    <2>2. \A j \in 1..Len(q) : q[j] \in R
      BY <1>2, <2>1
    <2>3. QED
      BY <2>1, <2>2
  <1>4. ASSUME NEW a, NEW b, Before(q, a, b) PROVE Before(s, a, b)
    <2>1. PICK j \in DOMAIN q, l \in DOMAIN q : j < l /\ q[j] = a /\ q[l] = b
      BY <1>4 DEF Before
    <2>2. PICK i \in 1..n, m \in 1..n : i < m /\ s[i] = q[j] /\ s[m] = q[l]
      BY <1>1, <2>1 DEF Kept
    <2>3. QED
      BY <1>2, <2>1, <2>2 DEF Before
  <1>5. IsInjective(q)
    <2> SUFFICES ASSUME NEW j \in DOMAIN q, NEW l \in DOMAIN q, q[j] = q[l], j # l PROVE FALSE
      BY DEF IsInjective
    <2>1. Before(q, q[j], q[j])
      <3>1. j < l \/ l < j
        BY <1>3
      <3>2. QED
        BY <3>1 DEF Before
    <2>2. QED
      BY <1>4, <2>1, OneOrder
  <1>6. ToSet(q) = ToSet(s) \cap set
    BY <1>1, <1>2 DEF Kept, ToSet
  <1>7. ASSUME NEW a \in set, NEW b \in set, Before(s, a, b) PROVE Before(q, a, b)
    <2>1. a \in ToSet(q) /\ b \in ToSet(q)
      BY <1>6, <1>7 DEF Before, ToSet
    <2>2. a # b /\ ~Before(s, b, a)
      BY <1>7, OneOrder
    <2>3. QED
      BY <1>3, <1>4, <2>1, <2>2, SomeOrder
  <1>8. QED
    BY <1>3, <1>4, <1>5, <1>6, <1>7 DEF q

-----------------------------------------------------------------------------
(* What happens to the rows.                                               *)

\* The rows of t are those of s and r, in the same order.
SameOrder(s, t, r) ==
    /\ IsInjective(t) /\ ToSet(t) = ToSet(s) \cup {r}
    /\ \A a, b : Before(s, a, b) => Before(t, a, b)

\* A row that is inserted anywhere leaves the others in their order.
LEMMA InsertFacts ==
    ASSUME NEW R, NEW s \in Seq(R), IsInjective(s), NEW i \in 1..Len(s) + 1,
           NEW r \in R, r \notin ToSet(s)
    PROVE  InsertAt(s, i, r) \in Seq(R) /\ SameOrder(s, InsertAt(s, i, r), r)
  <1> DEFINE n == Len(s)
             left == SubSeq(s, 1, i - 1)
             right == SubSeq(s, i, n)
             p == left \o <<r>>
             t == InsertAt(s, i, r)
  <1>1. n \in Nat /\ i \in 1..(n + 1) /\ DOMAIN s = 1..n
    OBVIOUS
  <1>2. left \in Seq(R) /\ Len(left) = i - 1 /\ \A j \in 1..(i - 1) : left[j] = s[j]
    BY <1>1
  <1>3. right \in Seq(R) /\ Len(right) = n + 1 - i
        /\ \A j \in 1..(n + 1 - i) : right[j] = s[i + j - 1]
    BY <1>1
  <1>4. t = p \o right
    BY DEF InsertAt
  <1> HIDE DEF left, right, t
  <1>5. /\ p \in Seq(R) /\ Len(p) = i /\ p[i] = r
        /\ \A j \in 1..(i - 1) : p[j] = s[j]
    BY <1>1, <1>2
  <1> HIDE DEF p
  <1>6. /\ t \in Seq(R) /\ Len(t) = n + 1 /\ DOMAIN t = 1..(n + 1)
        /\ \A j \in 1..i : t[j] = p[j]
        /\ \A j \in 1..(n + 1 - i) : t[i + j] = right[j]
    <2>1. Len(t) = n + 1 /\ t \in Seq(R)
      <3>1. t \in Seq(R) /\ Len(t) = Len(p) + Len(right)
        <4>1. p \in Seq(R) /\ right \in Seq(R)
          BY <1>3, <1>5
        <4>2. QED
          BY <1>4, <4>1
      <3>2. i + (n + 1 - i) = n + 1
        BY <1>1
      <3>3. QED
        BY <1>3, <1>5, <3>1, <3>2
    <2>2. \A j \in 1..i : t[j] = p[j]
      BY <1>1, <1>3, <1>4, <1>5
    <2>3. ASSUME NEW j \in 1..(n + 1 - i) PROVE t[i + j] = right[j]
      <3>1. Len(p) = i /\ Len(right) = n + 1 - i /\ i + j \in 1..(Len(p) + Len(right))
            /\ ~(i + j <= Len(p)) /\ (i + j) - Len(p) = j
        BY <1>1, <1>3, <1>5, <2>3
      <3>2. t[i + j] = right[(i + j) - Len(p)]
        BY <1>3, <1>4, <1>5, <3>1
      <3>3. QED
        BY <3>1, <3>2
    <2>4. QED
      BY <2>1, <2>2, <2>3
  <1>7. /\ \A j \in 1..(i - 1) : t[j] = s[j]
        /\ t[i] = r
        /\ \A j \in i..n : t[j + 1] = s[j]
    <2>1. \A j \in 1..(i - 1) : t[j] = s[j]
      BY <1>1, <1>5, <1>6
    <2>2. t[i] = r
      BY <1>1, <1>5, <1>6
    <2>3. ASSUME NEW j \in i..n PROVE t[j + 1] = s[j]
      <3>1. j + 1 - i \in 1..(n + 1 - i) /\ i + (j + 1 - i) = j + 1 /\ i + (j + 1 - i) - 1 = j
        BY <1>1, <2>3
      <3>2. t[i + (j + 1 - i)] = right[j + 1 - i] /\ right[j + 1 - i] = s[i + (j + 1 - i) - 1]
        BY <1>3, <1>6, <3>1
      <3>3. QED
        BY <3>1, <3>2
    <2>4. QED
      BY <2>1, <2>2, <2>3
  <1> DEFINE At(j) == IF j < i THEN j ELSE j + 1
  <1>8. ASSUME NEW j \in DOMAIN s PROVE At(j) \in DOMAIN t /\ t[At(j)] = s[j]
    <2>1. CASE j < i
      BY <1>1, <1>6, <1>7, <2>1
    <2>2. CASE ~(j < i)
      <3>1. j \in i..n /\ j + 1 \in DOMAIN t
        BY <1>1, <1>6, <2>2
      <3>2. QED
        BY <1>7, <2>2, <3>1
    <2>3. QED
      BY <2>1, <2>2
  <1>9. ASSUME NEW j \in DOMAIN t, j # i
        PROVE  \E l \in DOMAIN s : j = At(l)
    <2>1. CASE j < i
      BY <1>1, <1>6, <2>1
    <2>2. CASE j > i
      <3>1. j - 1 \in DOMAIN s /\ ~(j - 1 < i) /\ (j - 1) + 1 = j
        BY <1>1, <1>6, <2>2
      <3>2. QED
        BY <3>1
    <2>3. QED
      BY <1>1, <1>6, <1>9, <2>1, <2>2
  <1>10. i \in DOMAIN t
    BY <1>1, <1>6
  <1>11. ToSet(t) = ToSet(s) \cup {r}
    <2> HIDE DEF At
    <2>1. QED
      BY <1>7, <1>8, <1>9, <1>10 DEF ToSet
  <1>12. IsInjective(t)
    <2> SUFFICES ASSUME NEW j \in DOMAIN t, NEW l \in DOMAIN t, t[j] = t[l] PROVE j = l
      BY DEF IsInjective
    <2>1. \A k \in DOMAIN t : k # i => t[k] \in ToSet(s)
      <3> HIDE DEF At
      <3>1. QED
        BY <1>8, <1>9 DEF ToSet
    <2>2. CASE j = i \/ l = i
      BY <1>7, <1>10, <2>1, <2>2
    <2>3. CASE j # i /\ l # i
      <3>1. PICK u \in DOMAIN s, v \in DOMAIN s : j = At(u) /\ l = At(v)
        BY <1>9, <2>3
      <3> HIDE DEF At
      <3>2. s[u] = s[v]
        BY <1>8, <3>1
      <3>3. QED
        BY <3>1, <3>2 DEF IsInjective
    <2>4. QED
      BY <2>2, <2>3
  <1>13. ASSUME NEW a, NEW b, Before(s, a, b) PROVE Before(t, a, b)
    <2>1. PICK j \in DOMAIN s, l \in DOMAIN s : j < l /\ s[j] = a /\ s[l] = b
      BY <1>13 DEF Before
    <2>2. At(j) < At(l)
      BY <1>1, <2>1
    <2> HIDE DEF At
    <2>3. QED
      BY <1>8, <2>1, <2>2 DEF Before
  <1>14. QED
    BY <1>6, <1>11, <1>12, <1>13 DEF SameOrder, t

\* A row that moves to the front comes before the others and leaves them in their order.
LEMMA FrontFacts ==
    ASSUME NEW R, NEW q \in Seq(R), IsInjective(q), NEW r \in R, r \notin ToSet(q)
    PROVE  /\ <<r>> \o q \in Seq(R) /\ SameOrder(q, <<r>> \o q, r)
           /\ \A b \in ToSet(q) : Before(<<r>> \o q, r, b)
  <1> DEFINE n == Len(q)
             t == <<r>> \o q
  <1>1. n \in Nat /\ DOMAIN q = 1..n
    OBVIOUS
  <1>2. /\ t \in Seq(R) /\ DOMAIN t = 1..(n + 1) /\ t[1] = r
        /\ \A j \in 1..n : t[j + 1] = q[j]
    BY <1>1
  <1> HIDE DEF t, n
  <1>3. \A j \in 1..n : j + 1 \in DOMAIN t /\ t[j + 1] = q[j] /\ 1 < j + 1
    BY <1>1, <1>2
  <1>4. \A k \in DOMAIN t : k = 1 \/ (k - 1 \in 1..n /\ (k - 1) + 1 = k)
    BY <1>1, <1>2
  <1>5. \A k \in DOMAIN t : k = 1 \/ (k - 1 \in 1..n /\ t[k] = q[k - 1])
    BY <1>3, <1>4
  <1>6. ToSet(t) = ToSet(q) \cup {r}
    <2>1. 1 \in DOMAIN t
      BY <1>1, <1>2
    <2>2. \A k \in DOMAIN t : t[k] \in ToSet(q) \cup {r}
      BY <1>1, <1>2, <1>5 DEF ToSet
    <2>3. \A j \in 1..n : \E k \in DOMAIN t : t[k] = q[j]
      BY <1>3
    <2>4. \A x \in ToSet(q) \cup {r} : \E k \in DOMAIN t : t[k] = x
      BY <1>1, <1>2, <2>1, <2>3 DEF ToSet
    <2>5. QED
      BY <2>2, <2>4 DEF ToSet
  <1>7. IsInjective(t)
    <2> SUFFICES ASSUME NEW j \in DOMAIN t, NEW l \in DOMAIN t, t[j] = t[l] PROVE j = l
      BY DEF IsInjective
    <2>1. \A k \in DOMAIN t : k # 1 => t[k] \in ToSet(q)
      BY <1>1, <1>5 DEF ToSet
    <2>2. CASE j = 1 \/ l = 1
      BY <1>2, <2>1, <2>2
    <2>3. CASE j # 1 /\ l # 1
      <3>1. q[j - 1] = q[l - 1] /\ j - 1 \in 1..n /\ l - 1 \in 1..n
        BY <1>5, <2>3
      <3>2. j - 1 = l - 1
        BY <1>1, <3>1 DEF IsInjective
      <3>3. QED
        BY <1>2, <1>1, <3>2
    <2>4. QED
      BY <2>2, <2>3
  <1>8. ASSUME NEW a, NEW b, Before(q, a, b) PROVE Before(t, a, b)
    <2>1. PICK j \in 1..n, l \in 1..n : j < l /\ q[j] = a /\ q[l] = b
      BY <1>1, <1>8 DEF Before
    <2>2. j + 1 < l + 1
      BY <1>1, <2>1
    <2>3. QED
      BY <1>3, <2>1, <2>2 DEF Before
  <1>9. ASSUME NEW b \in ToSet(q) PROVE Before(t, r, b)
    <2>1. PICK j \in 1..n : q[j] = b
      BY <1>1 DEF ToSet
    <2>2. 1 \in DOMAIN t
      BY <1>1, <1>2
    <2>3. QED
      BY <1>2, <1>3, <2>1, <2>2 DEF Before
  <1>10. QED
    BY <1>2, <1>6, <1>7, <1>8, <1>9 DEF SameOrder, t

-----------------------------------------------------------------------------
(* The inductive invariant of a traversal.                                 *)

AllRows == ToSet(FirstRows) \cup LaterRows
Ends == {"start", "end", "invalid"}

\* Of the rows in S those that were not shown come after the cursor.
Ahead(s, c, S, seen) == \A r \in S : r \in seen \/ Before(s, c, r)

\* What was shown does not come after the cursor.
Behind(s, c, seen) == \A r \in seen : r = c \/ Before(s, r, c)

ListingTypes ==
    /\ rows \in Seq(AllRows) /\ IsInjective(rows) /\ passing \subseteq ToSet(rows)
    /\ shown \in Seq(AllRows) /\ ToSet(shown) \subseteq ToSet(rows)
    /\ steady \subseteq passing /\ reshuffled \in BOOLEAN
    /\ cursor \in Ends \cup ToSet(shown)
    /\ cursor = "start" => shown = <<>> /\ steady = {}

ListingInv ==
    /\ ListingTypes
    /\ ~reshuffled => IsInjective(shown)
    /\ cursor \notin Ends =>
         /\ Ahead(rows, cursor, steady, ToSet(shown))
         /\ ~reshuffled => Behind(rows, cursor, ToSet(shown))
    /\ cursor = "end" => steady \subseteq ToSet(shown)

\* A row that leaves, joins or changes is not one of the steady ones any more.
LEMMA ChangeKeeps ==
    ASSUME ListingInv, NEW r, Leaves(r) \/ Joins(r), RowChanges(r)
    PROVE  ListingInv'
  <1>1. /\ rows' = rows /\ cursor' = cursor /\ shown' = shown /\ reshuffled' = reshuffled
        /\ steady' = steady \ {r}
    BY DEF RowChanges
  <1>2. passing' \subseteq ToSet(rows) /\ steady' \subseteq passing'
    BY <1>1 DEF Leaves, Joins, ListingInv, ListingTypes
  <1>3. ListingTypes'
    BY <1>1, <1>2 DEF ListingInv, ListingTypes
  <1>4. QED
    BY <1>1, <1>3 DEF ListingInv, Ahead, Behind

\* Rows that are inserted or move leave what was not shown yet after the cursor, as long as
\* they keep the order of the other rows.
LEMMA ReorderKeeps ==
    ASSUME ListingInv, cursor' = cursor, shown' = shown,
           rows' \in Seq(AllRows), IsInjective(rows'), ToSet(rows) \subseteq ToSet(rows'),
           passing' \subseteq ToSet(rows'), steady' \subseteq steady, steady' \subseteq passing',
           reshuffled' \in BOOLEAN, reshuffled => reshuffled',
           \A a \in ToSet(shown), b \in steady' : Before(rows, a, b) => Before(rows', a, b),
           ~reshuffled' => \A a, b \in ToSet(shown) : Before(rows, a, b) => Before(rows', a, b)
    PROVE  ListingInv'
  <1>1. ListingTypes'
    BY DEF ListingInv, ListingTypes
  <1>2. ~reshuffled' => IsInjective(shown')
    BY DEF ListingInv
  <1>3. ASSUME cursor \notin Ends
        PROVE  /\ Ahead(rows', cursor, steady', ToSet(shown))
               /\ ~reshuffled' => Behind(rows', cursor, ToSet(shown))
    <2>1. cursor \in ToSet(shown)
      BY <1>3 DEF ListingInv, ListingTypes
    <2>2. Ahead(rows', cursor, steady', ToSet(shown))
      BY <1>3, <2>1 DEF ListingInv, Ahead
    <2>3. ~reshuffled' => Behind(rows', cursor, ToSet(shown))
      BY <1>3, <2>1 DEF ListingInv, Behind
    <2>4. QED
      BY <2>2, <2>3
  <1>4. QED
    BY <1>1, <1>2, <1>3 DEF ListingInv

\* A new row takes its place anywhere.
LEMMA InsertKeeps ==
    ASSUME ListingInv, RowInserted
    PROVE  ListingInv'
  <1>1. PICK r \in LaterRows \ ToSet(rows), i \in 1..Len(rows) + 1 :
           /\ rows' = InsertAt(rows, i, r) /\ passing' = passing \cup {r}
           /\ UNCHANGED <<cursor, shown, steady, reshuffled>>
    BY DEF RowInserted
  <1>2. rows \in Seq(AllRows) /\ IsInjective(rows) /\ r \in AllRows /\ r \notin ToSet(rows)
    BY <1>1 DEF ListingInv, ListingTypes, AllRows
  <1>3. rows' \in Seq(AllRows) /\ SameOrder(rows, rows', r)
    BY <1>1, <1>2, InsertFacts
  <1>4. /\ IsInjective(rows') /\ ToSet(rows') = ToSet(rows) \cup {r}
        /\ \A a, b : Before(rows, a, b) => Before(rows', a, b)
    BY <1>3 DEF SameOrder
  <1>5. /\ passing' \subseteq ToSet(rows') /\ steady' \subseteq steady /\ steady' \subseteq passing'
        /\ reshuffled' \in BOOLEAN
    BY <1>1, <1>4 DEF ListingInv, ListingTypes
  <1>6. QED
    BY <1>1, <1>3, <1>4, <1>5, ReorderKeeps

\* A trade that settles moves to the front; all others stay in their order.
LEMMA SettleKeeps ==
    ASSUME ListingInv, NEW r, TradeSettles(r)
    PROVE  ListingInv'
  <1> DEFINE others == ToSet(rows) \ {r}
             q == Filtered(rows, others)
  <1>1. /\ r \in ToSet(rows) /\ rows' = <<r>> \o q
        /\ steady' = steady \ {r} /\ reshuffled' = (reshuffled \/ r \in ToSet(shown))
        /\ passing' = passing /\ cursor' = cursor /\ shown' = shown
    BY DEF TradeSettles
  <1>2. /\ rows \in Seq(AllRows) /\ IsInjective(rows) /\ r \in AllRows
        /\ ToSet(shown) \subseteq ToSet(rows) /\ steady \subseteq ToSet(rows)
    <2>1. /\ rows \in Seq(AllRows) /\ IsInjective(rows)
          /\ ToSet(shown) \subseteq ToSet(rows) /\ steady \subseteq ToSet(rows)
      BY DEF ListingInv, ListingTypes
    <2>2. r \in AllRows
      BY <1>1, <2>1 DEF ToSet
    <2>3. QED
      BY <2>1, <2>2
  <1>3. /\ q \in Seq(AllRows) /\ IsInjective(q) /\ ToSet(q) = others
        /\ \A a, b \in others : Before(rows, a, b) => Before(q, a, b)
    <2>1. ToSet(rows) \cap others = others
      OBVIOUS
    <2> HIDE DEF others
    <2>2. QED
      BY <1>2, <2>1, FilteredFacts
  <1> HIDE DEF q
  <1>4. /\ rows' \in Seq(AllRows) /\ SameOrder(q, rows', r)
        /\ \A b \in others : Before(rows', r, b)
    BY <1>1, <1>2, <1>3, FrontFacts
  <1>5. /\ IsInjective(rows') /\ ToSet(rows') = ToSet(rows)
        /\ \A a, b \in others : Before(rows, a, b) => Before(rows', a, b)
    BY <1>1, <1>3, <1>4 DEF SameOrder
  <1>6. /\ passing' \subseteq ToSet(rows') /\ steady' \subseteq steady /\ steady' \subseteq passing'
        /\ reshuffled' \in BOOLEAN
    BY <1>1, <1>5 DEF ListingInv, ListingTypes
  <1>7. ASSUME NEW a \in ToSet(shown), NEW b \in steady', Before(rows, a, b)
        PROVE  Before(rows', a, b)
    <2>1. b \in others
      BY <1>1, <1>2, <1>7
    <2>2. CASE a = r
      BY <1>4, <2>1, <2>2
    <2>3. CASE a # r
      BY <1>2, <1>5, <1>7, <2>1, <2>3
    <2>4. QED
      BY <2>2, <2>3
  <1>8. ~reshuffled' => \A a, b \in ToSet(shown) : Before(rows, a, b) => Before(rows', a, b)
    <2>1. ~reshuffled' => ToSet(shown) \subseteq others
      BY <1>1, <1>2
    <2>2. QED
      BY <1>5, <2>1
  <1>9. QED
    BY <1>1, <1>4, <1>5, <1>6, <1>7, <1>8, ReorderKeeps

-----------------------------------------------------------------------------
(* One page.                                                               *)

\* Where a page of the list begins and ends: after the row at start, up to the one at stop.
Bounds(list, start, stop) ==
    /\ start \in 0..Len(list) /\ stop \in start..Len(list)
    /\ cursor = "start" => start = 0
    /\ cursor # "start" => start \in DOMAIN list /\ list[start] = cursor
    /\ stop = start => stop = Len(list)
    /\ PageFrom(list, start) = SubSeq(list, start + 1, stop)

\* The rows of a page.
LEMMA PageRows ==
    ASSUME NEW R, NEW list \in Seq(R), NEW start \in 0..Len(list), NEW stop \in start..Len(list)
    PROVE  /\ SubSeq(list, start + 1, stop) \in Seq(R)
           /\ Len(SubSeq(list, start + 1, stop)) = stop - start
           /\ DOMAIN SubSeq(list, start + 1, stop) = 1..(stop - start)
           /\ \A j \in 1..(stop - start) :
                 start + j \in DOMAIN list /\ SubSeq(list, start + 1, stop)[j] = list[start + j]
  <1> DEFINE p == SubSeq(list, start + 1, stop)
             n == Len(list)
  <1>1. n \in Nat /\ start \in Nat /\ stop \in Nat /\ start <= stop /\ stop <= n
        /\ list \in [1..n -> R] /\ stop - start \in Nat
    OBVIOUS
  <1>2. p \in Seq(R) /\ Len(p) = stop - start
    <2>1. \A i \in (start + 1)..stop : list[i] \in R
      BY <1>1
    <2>2. Len(p) = IF start + 1 <= stop THEN stop - (start + 1) + 1 ELSE 0
      BY <1>1
    <2>3. Len(p) = stop - start
      BY <1>1, <2>2
    <2>4. p \in Seq(R)
      BY <1>1, <2>1
    <2>5. QED
      BY <2>3, <2>4
  <1>3. ASSUME NEW j \in 1..(stop - start)
        PROVE  start + j \in DOMAIN list /\ p[j] = list[start + j]
    <2>1. start + 1 + j - 1 = start + j /\ start + j \in 1..n
      BY <1>1
    <2>2. p[j] = list[start + 1 + j - 1]
      BY <1>1
    <2>3. QED
      BY <1>1, <2>1, <2>2
  <1>4. DOMAIN p = 1..(stop - start)
    BY <1>2
  <1>5. QED
    BY <1>2, <1>3, <1>4

\* The smaller of two numbers.
LEMMA LeastOfTwo ==
    ASSUME NEW a \in Int, NEW b \in Int
    PROVE  /\ Min({a, b}) \in Int /\ Min({a, b}) <= a /\ Min({a, b}) <= b
           /\ Min({a, b}) = a \/ Min({a, b}) = b
  <1> DEFINE S == {a, b}
  <1>1. \E x \in S : \A y \in S : x <= y
    <2>1. a <= b \/ b <= a
      OBVIOUS
    <2>2. QED
      BY <2>1
  <1>2. Min(S) \in S /\ \A y \in S : Min(S) <= y
    <2> HIDE DEF S
    <2>1. QED
      BY <1>1 DEF Min
  <1>3. QED
    BY <1>2

\* Numbers of a page that starts after row start of n and has at most limit rows.
LEMMA StopFacts ==
    ASSUME NEW n \in Nat, NEW start \in 0..n, NEW limit \in Nat \ {0}, NEW stop \in Int,
           stop <= start + limit, stop <= n, stop = start + limit \/ stop = n
    PROVE  /\ stop \in start..n /\ (stop = start => stop = n)
           /\ ~(start + limit < n) => stop = n
           /\ ~(start + (stop - start) < n) => stop = n
  OBVIOUS

\* The row where a page ends is one of the list.
LEMMA InRange ==
    ASSUME NEW n \in Nat, NEW start \in Nat, NEW stop \in Nat, start < stop, stop <= n
    PROVE  stop \in 1..n
  OBVIOUS

\* The page starts after the row of the cursor and is not empty unless the list ends there.
LEMMA PageBounds ==
    ASSUME NEW R, NEW list \in Seq(R), ~CursorIsGone(list)
    PROVE  \E stop : /\ Bounds(list, StartAfter(list), stop)
                     /\ ~MoreByLimit(list, StartAfter(list)) => stop = Len(list)
                     /\ ~MoreByPage(list, StartAfter(list)) => stop = Len(list)
  <1> DEFINE start == StartAfter(list)
             stop == Min({start + PageLimit, Len(list)})
  <1>1. Len(list) \in Nat /\ DOMAIN list = 1..Len(list) /\ PageLimit \in Nat \ {0}
    BY ListingAssumption DEF ListingAssumption
  <1>2. /\ start \in 0..Len(list) /\ (cursor = "start" => start = 0)
        /\ cursor # "start" => start \in DOMAIN list /\ list[start] = cursor
    <2>1. CASE cursor = "start"
      BY <1>1, <2>1 DEF StartAfter
    <2>2. CASE cursor # "start"
      <3>1. \E i \in DOMAIN list : list[i] = cursor
        BY <2>2 DEF CursorIsGone, ToSet
      <3>2. start = CHOOSE i \in DOMAIN list : list[i] = cursor
        BY <2>2 DEF StartAfter, Position
      <3> HIDE DEF start
      <3>3. start \in DOMAIN list /\ list[start] = cursor
        BY <3>1, <3>2
      <3>4. QED
        BY <1>1, <2>2, <3>3
    <2>3. QED
      BY <2>1, <2>2
  <1> HIDE DEF start
  <1>3. start + PageLimit \in Int /\ Len(list) \in Int
    BY <1>1, <1>2
  <1>4. /\ stop \in Int /\ stop <= start + PageLimit /\ stop <= Len(list)
        /\ stop = start + PageLimit \/ stop = Len(list)
    BY <1>3, LeastOfTwo
  <1>5. PageFrom(list, start) = SubSeq(list, start + 1, stop)
    BY DEF PageFrom
  <1> HIDE DEF stop
  <1>6. /\ stop \in start..Len(list) /\ (stop = start => stop = Len(list))
        /\ ~(start + PageLimit < Len(list)) => stop = Len(list)
        /\ ~(start + (stop - start) < Len(list)) => stop = Len(list)
    BY <1>1, <1>2, <1>4, StopFacts
  <1>7. Len(SubSeq(list, start + 1, stop)) = stop - start
    BY <1>1, <1>2, <1>6, PageRows
  <1>8. Bounds(list, start, stop)
    BY <1>2, <1>5, <1>6 DEF Bounds
  <1>9. QED
    BY <1>5, <1>6, <1>7, <1>8 DEF start, MoreByLimit, MoreByPage

\* One list after another.
LEMMA ConcatFacts ==
    ASSUME NEW R, NEW p \in Seq(R), NEW q \in Seq(R)
    PROVE  /\ p \o q \in Seq(R) /\ ToSet(p \o q) = ToSet(p) \cup ToSet(q)
           /\ IsInjective(p) /\ IsInjective(q) /\ ToSet(p) \cap ToSet(q) = {} => IsInjective(p \o q)
  <1> DEFINE m == Len(p)
             n == Len(q)
             t == p \o q
  <1>1. m \in Nat /\ n \in Nat /\ DOMAIN p = 1..m /\ DOMAIN q = 1..n
    OBVIOUS
  <1>2. /\ t \in Seq(R) /\ DOMAIN t = 1..(m + n)
        /\ \A i \in 1..m : t[i] = p[i]
        /\ \A i \in 1..n : t[m + i] = q[i]
    BY <1>1
  <1> HIDE DEF t, m, n
  <1>3. ASSUME NEW i \in 1..(m + n)
        PROVE  \/ i \in 1..m /\ t[i] = p[i]
               \/ i > m /\ i - m \in 1..n /\ t[i] = q[i - m]
    <2>1. CASE i \in 1..m
      BY <1>2, <2>1
    <2>2. CASE i \notin 1..m
      <3>1. i > m /\ i - m \in 1..n /\ m + (i - m) = i
        BY <1>1, <1>3, <2>2
      <3>2. t[m + (i - m)] = q[i - m]
        BY <1>2, <3>1
      <3>3. QED
        BY <3>1, <3>2
    <2>3. QED
      BY <2>1, <2>2
  <1>4. /\ \A i \in 1..m : i \in DOMAIN t /\ t[i] = p[i]
        /\ \A i \in 1..n : m + i \in DOMAIN t /\ t[m + i] = q[i]
    BY <1>1, <1>2
  <1>5. ToSet(t) = ToSet(p) \cup ToSet(q)
    <2>1. \A i \in DOMAIN t : t[i] \in ToSet(p) \cup ToSet(q)
      BY <1>1, <1>2, <1>3 DEF ToSet
    <2>2. \A x \in ToSet(p) \cup ToSet(q) : \E i \in DOMAIN t : t[i] = x
      BY <1>1, <1>4 DEF ToSet
    <2>3. QED
      BY <2>1, <2>2 DEF ToSet
  <1>6. ASSUME IsInjective(p), IsInjective(q), ToSet(p) \cap ToSet(q) = {} PROVE IsInjective(t)
    <2> SUFFICES ASSUME NEW i \in DOMAIN t, NEW j \in DOMAIN t, t[i] = t[j] PROVE i = j
      BY DEF IsInjective
    <2>1. /\ \A k \in 1..m : p[k] \in ToSet(p)
          /\ \A k \in 1..n : q[k] \in ToSet(q)
      BY <1>1 DEF ToSet
    <2>2. CASE i \in 1..m /\ j \in 1..m
      BY <1>1, <1>2, <1>6, <2>2 DEF IsInjective
    <2>3. CASE i > m /\ j > m
      <3>1. i - m \in 1..n /\ j - m \in 1..n /\ q[i - m] = q[j - m]
        BY <1>1, <1>2, <1>3, <2>3
      <3>2. i - m = j - m
        BY <1>1, <1>6, <3>1 DEF IsInjective
      <3>3. QED
        BY <1>1, <1>2, <3>2
    <2>4. CASE (i \in 1..m /\ j > m) \/ (j \in 1..m /\ i > m)
      <3>1. \/ t[i] \in ToSet(p) /\ t[j] \in ToSet(q)
            \/ t[j] \in ToSet(p) /\ t[i] \in ToSet(q)
        BY <1>1, <1>2, <1>3, <2>1, <2>4
      <3>2. QED
        BY <1>6, <3>1
    <2>5. QED
      BY <1>1, <1>2, <2>2, <2>3, <2>4
  <1>7. QED
    BY <1>2, <1>5, <1>6 DEF t

\* The steady rows after this page: those of the first one, or those that were steady.
SteadyThen(list) == IF cursor = "start" THEN ToSet(list) ELSE steady

\* A steady row was shown before or comes after the row of the cursor in the list.
LEMMA SteadyAfterStart ==
    ASSUME ListingInv, NEW start, NEW stop, Bounds(Listing, start, stop),
           cursor \notin {"end", "invalid"}, NEW r \in SteadyThen(Listing)
    PROVE  r \in ToSet(shown) \/ \E j \in DOMAIN Listing : j > start /\ Listing[j] = r
  <1> DEFINE list == Listing
  <1>1. rows \in Seq(AllRows) /\ IsInjective(rows) /\ steady \subseteq passing
    BY DEF ListingInv, ListingTypes
  <1>2. /\ list \in Seq(AllRows) /\ IsInjective(list) /\ ToSet(list) \subseteq passing
        /\ \A a, b \in passing : Before(rows, a, b) => Before(list, a, b)
    BY <1>1, FilteredFacts DEF Listing
  <1> HIDE DEF list
  <1>3. /\ cursor = "start" => start = 0
        /\ cursor # "start" => start \in DOMAIN list /\ list[start] = cursor
    BY DEF Bounds, list
  <1>4. DOMAIN list = 1..Len(list) /\ Len(list) \in Nat
    BY <1>2
  <1>5. CASE cursor = "start"
    <2>1. PICK j \in DOMAIN list : list[j] = r
      BY <1>5 DEF SteadyThen, ToSet, list
    <2>2. QED
      BY <1>3, <1>4, <1>5, <2>1 DEF list
  <1>6. CASE cursor # "start"
    <2>1. r \in steady /\ (r \in ToSet(shown) \/ Before(rows, cursor, r))
      BY <1>6 DEF SteadyThen, ListingInv, Ahead, Ends
    <2>2. CASE Before(rows, cursor, r)
      <3>1. cursor \in passing /\ r \in passing
        BY <1>1, <1>2, <1>3, <1>6, <2>1 DEF ToSet
      <3>2. PICK i \in DOMAIN list, j \in DOMAIN list : i < j /\ list[i] = cursor /\ list[j] = r
        BY <1>2, <2>2, <3>1 DEF Before
      <3>3. i = start
        BY <1>2, <1>3, <1>6, <3>2 DEF IsInjective
      <3>4. QED
        BY <1>4, <3>2, <3>3 DEF list
    <2>3. QED
      BY <2>1, <2>2
  <1>7. QED
    BY <1>5, <1>6

\* A page shows the rows after the cursor's that fit, and no row again.
LEMMA PageShows ==
    ASSUME ListingInv, NEW start, NEW stop, Bounds(Listing, start, stop),
           cursor \notin {"end", "invalid"}, NEW page, page = PageFrom(Listing, start)
    PROVE  /\ shown \o page \in Seq(AllRows)
           /\ ToSet(shown \o page) = ToSet(shown) \cup ToSet(page)
           /\ ToSet(page) \subseteq ToSet(rows)
           /\ \A j \in DOMAIN Listing : start < j /\ j <= stop => Listing[j] \in ToSet(page)
           /\ \A x \in ToSet(page) : \E j \in DOMAIN Listing : start < j /\ j <= stop /\ Listing[j] = x
           /\ page = <<>> => stop = start
           /\ page # <<>> => page[Len(page)] = Listing[stop] /\ start < stop
           /\ ~reshuffled => IsInjective(shown \o page)
  <1> DEFINE list == Listing
             k == stop - start
  <1>1. /\ rows \in Seq(AllRows) /\ IsInjective(rows) /\ shown \in Seq(AllRows)
    BY DEF ListingInv, ListingTypes
  <1>2. /\ list \in Seq(AllRows) /\ IsInjective(list) /\ ToSet(list) \subseteq ToSet(rows)
        /\ \A a, b : Before(list, a, b) => Before(rows, a, b)
    BY <1>1, FilteredFacts DEF Listing
  <1> HIDE DEF list
  <1>3. /\ start \in 0..Len(list) /\ stop \in start..Len(list)
        /\ cursor = "start" => start = 0
        /\ cursor # "start" => start \in DOMAIN list /\ list[start] = cursor
        /\ page = SubSeq(list, start + 1, stop)
    BY DEF Bounds, list
  <1>4. DOMAIN list = 1..Len(list) /\ Len(list) \in Nat /\ k \in Nat /\ start \in Nat
        /\ stop \in Nat /\ stop <= Len(list) /\ start + k = stop
    BY <1>2, <1>3
  <1>5. /\ page \in Seq(AllRows) /\ Len(page) = k /\ DOMAIN page = 1..k
        /\ \A j \in 1..k : start + j \in DOMAIN list /\ page[j] = list[start + j]
    BY <1>2, <1>3, PageRows
  <1> HIDE DEF k
  <1>6. ASSUME NEW j \in DOMAIN list, start < j, j <= stop PROVE list[j] \in ToSet(page)
    <2>1. j - start \in 1..k /\ start + (j - start) = j
      BY <1>4, <1>6
    <2>2. page[j - start] = list[start + (j - start)]
      BY <1>5, <2>1
    <2>3. QED
      BY <1>5, <2>1, <2>2 DEF ToSet
  <1>7. ASSUME NEW x \in ToSet(page)
        PROVE  \E j \in DOMAIN list : start < j /\ j <= stop /\ list[j] = x
    <2>1. PICK i \in 1..k : page[i] = x
      BY <1>5 DEF ToSet
    <2>2. start + i \in DOMAIN list /\ list[start + i] = x /\ start < start + i /\ start + i <= stop
      BY <1>4, <1>5, <2>1
    <2>3. QED
      BY <2>2
  <1>8. ToSet(page) \subseteq ToSet(rows)
    BY <1>2, <1>7 DEF ToSet
  <1>9. page = <<>> => stop = start
    BY <1>4, <1>5
  <1>10. page # <<>> => page[Len(page)] = list[stop] /\ start < stop
    <2>1. page # <<>> => k # 0
      BY <1>5
    <2>2. k # 0 => k \in 1..k /\ start < stop
      BY <1>4
    <2>3. QED
      BY <1>4, <1>5, <2>1, <2>2
  <1>11. ASSUME ~reshuffled PROVE IsInjective(shown \o page)
    <2>1. IsInjective(page)
      <3> SUFFICES ASSUME NEW i \in 1..k, NEW j \in 1..k, page[i] = page[j] PROVE i = j
        BY <1>5 DEF IsInjective
      <3>1. start + i = start + j
        BY <1>2, <1>5 DEF IsInjective
      <3>2. QED
        BY <1>4, <3>1
    <2>2. ASSUME NEW x \in ToSet(shown), x \in ToSet(page) PROVE FALSE
      <3>1. cursor # "start"
        BY <2>2 DEF ListingInv, ListingTypes, ToSet
      <3>2. PICK j \in DOMAIN list : start < j /\ list[j] = x
        BY <1>7, <2>2
      <3>a. Before(list, cursor, x)
        BY <1>3, <3>1, <3>2 DEF Before
      <3>3. Before(rows, cursor, x)
        BY <1>2, <3>a
      <3>4. x = cursor \/ Before(rows, x, cursor)
        BY <1>11, <3>1 DEF ListingInv, Behind, Ends
      <3>5. QED
        BY <1>1, <3>3, <3>4, OneOrder
    <2>3. IsInjective(shown)
      BY <1>11 DEF ListingInv
    <2>4. QED
      BY <1>1, <1>5, <2>1, <2>2, <2>3, ConcatFacts
  <1>12. /\ shown \o page \in Seq(AllRows)
         /\ ToSet(shown \o page) = ToSet(shown) \cup ToSet(page)
    BY <1>1, <1>5, ConcatFacts
  <1>13. QED
    BY <1>6, <1>7, <1>8, <1>9, <1>10, <1>11, <1>12 DEF list

\* A page keeps what is to come after its last row.
LEMMA AnswerKeeps ==
    ASSUME ListingInv, NEW more \in BOOLEAN, Answer(Listing, more),
           ~CursorIsGone(Listing) =>
             \E stop : /\ Bounds(Listing, StartAfter(Listing), stop)
                       /\ ~more => stop = Len(Listing)
    PROVE  ListingInv'
  <1> DEFINE start == StartAfter(Listing)
             page == PageFrom(Listing, start)
  <1>1. /\ cursor \notin {"end", "invalid"} /\ rows' = rows /\ passing' = passing
        /\ reshuffled' = reshuffled
    BY DEF Answer
  <1>2. CASE CursorIsGone(Listing)
    <2>1. cursor' = "invalid" /\ shown' = shown /\ steady' = steady
      BY <1>2 DEF Answer
    <2>2. ListingTypes'
      BY <1>1, <2>1 DEF ListingInv, ListingTypes, Ends
    <2>3. QED
      BY <1>1, <2>1, <2>2 DEF ListingInv, Ends
  <1>3. CASE ~CursorIsGone(Listing)
    <2>1. PICK stop : Bounds(Listing, start, stop) /\ (~more => stop = Len(Listing))
      BY <1>3
    <2>2. /\ shown' = shown \o page /\ steady' = SteadyThen(Listing)
          /\ cursor' = IF more /\ page # <<>> THEN page[Len(page)] ELSE "end"
      BY <1>3 DEF Answer, NextCursor, SteadyThen
    <2>3. /\ shown \o page \in Seq(AllRows)
          /\ ToSet(shown \o page) = ToSet(shown) \cup ToSet(page)
          /\ ToSet(page) \subseteq ToSet(rows)
          /\ \A j \in DOMAIN Listing : start < j /\ j <= stop => Listing[j] \in ToSet(page)
          /\ \A x \in ToSet(page) :
                \E j \in DOMAIN Listing : start < j /\ j <= stop /\ Listing[j] = x
          /\ page = <<>> => stop = start
          /\ page # <<>> => page[Len(page)] = Listing[stop] /\ start < stop
          /\ ~reshuffled => IsInjective(shown \o page)
      BY <1>1, <2>1, PageShows
    <2>4. \A r \in SteadyThen(Listing) :
             r \in ToSet(shown) \/ \E j \in DOMAIN Listing : j > start /\ Listing[j] = r
      BY <1>1, <2>1, SteadyAfterStart
    <2> HIDE DEF page, start
    <2>5. /\ rows \in Seq(AllRows) /\ IsInjective(rows) /\ passing \subseteq ToSet(rows)
          /\ ToSet(shown) \subseteq ToSet(rows) /\ steady \subseteq passing
      BY DEF ListingInv, ListingTypes
    <2>6. /\ Listing \in Seq(AllRows) /\ ToSet(Listing) \subseteq passing
          /\ \A a, b : Before(Listing, a, b) => Before(rows, a, b)
      BY <2>5, FilteredFacts DEF Listing
    <2>7. /\ Len(Listing) \in Nat /\ start \in Nat /\ stop \in Nat /\ stop <= Len(Listing)
          /\ DOMAIN Listing = 1..Len(Listing)
      BY <2>1, <2>6 DEF Bounds
    <2>a. \A j \in DOMAIN Listing : j \in Nat /\ j <= Len(Listing)
      BY <2>7
    <2>b. cursor # "start" => start \in DOMAIN Listing /\ Listing[start] = cursor
      BY <2>1 DEF Bounds
    <2>c. stop = start => stop = Len(Listing)
      BY <2>1 DEF Bounds
    <2>8. steady' \subseteq passing
      BY <2>2, <2>5, <2>6 DEF SteadyThen
    <2>9. CASE more /\ page # <<>>
      <3> DEFINE last == Listing[stop]
      <3>1. cursor' = last /\ start < stop /\ stop \in DOMAIN Listing
        <4>1. cursor' = last /\ start < stop
          BY <2>2, <2>3, <2>9
        <4>2. stop \in 1..Len(Listing)
          BY <2>7, <4>1, InRange
        <4>3. QED
          BY <2>7, <4>1, <4>2
      <3>2. last \in ToSet(page)
        <4>1. stop <= stop
          BY <2>7
        <4>2. QED
          BY <2>3, <3>1, <4>1
      <3>3. last \notin Ends
        <4>1. last \in AllRows
          BY <2>6, <3>1
        <4>2. QED
          BY <4>1, ListingAssumption DEF ListingAssumption, AllRows, Ends
      <3>4. Ahead(rows, last, steady', ToSet(shown'))
        <4> SUFFICES ASSUME NEW r \in SteadyThen(Listing), r \notin ToSet(shown), r \notin ToSet(page)
                     PROVE  Before(rows, last, r)
          BY <2>2, <2>3 DEF Ahead
        <4>1. PICK j \in DOMAIN Listing : j > start /\ Listing[j] = r
          BY <2>4
        <4>2. stop < j
          <5>1. ~(j <= stop)
            BY <2>3, <4>1
          <5>2. j \in Nat /\ stop \in Nat
            BY <2>7, <2>a
          <5>3. QED
            BY <5>1, <5>2
        <4>3. Before(Listing, last, r)
          BY <3>1, <4>1, <4>2 DEF Before
        <4>4. QED
          BY <2>6, <4>3
      <3>5. ~reshuffled => Behind(rows, last, ToSet(shown'))
        <4> SUFFICES ASSUME ~reshuffled, NEW x \in ToSet(shown) \cup ToSet(page)
                     PROVE  x = last \/ Before(rows, x, last)
          BY <2>2, <2>3 DEF Behind
        <4>1. CASE x \in ToSet(page)
          <5>1. PICK j \in DOMAIN Listing : j <= stop /\ Listing[j] = x
            BY <2>3, <4>1
          <5>2. j = stop \/ j < stop
            <6>1. j \in Nat /\ stop \in Nat
              BY <2>7, <2>a
            <6>2. QED
              BY <5>1, <6>1
          <5>3. j < stop => Before(Listing, x, last)
            BY <3>1, <5>1 DEF Before
          <5>4. QED
            BY <2>6, <5>1, <5>2, <5>3
        <4>2. CASE x \in ToSet(shown)
          <5>1. cursor # "start"
            BY <4>2 DEF ListingInv, ListingTypes, ToSet
          <5>2. Before(Listing, cursor, last)
            BY <2>b, <3>1, <5>1 DEF Before
          <5>3. Before(rows, cursor, last)
            BY <2>6, <5>2
          <5>4. x = cursor \/ Before(rows, x, cursor)
            BY <1>1, <4>2, <5>1 DEF ListingInv, Behind, Ends
          <5>5. QED
            BY <2>5, <5>3, <5>4, OneOrder
        <4>3. QED
          BY <4>1, <4>2
      <3>6. ListingTypes'
        BY <1>1, <2>2, <2>3, <2>5, <2>8, <3>1, <3>2, <3>3 DEF ListingInv, ListingTypes, Ends
      <3> HIDE DEF last
      <3>7. QED
        BY <1>1, <2>2, <2>3, <3>1, <3>3, <3>4, <3>5, <3>6 DEF ListingInv, Ends
    <2>10. CASE ~(more /\ page # <<>>)
      <3>1. cursor' = "end" /\ stop = Len(Listing)
        BY <2>1, <2>2, <2>3, <2>c, <2>10
      <3>2. steady' \subseteq ToSet(shown')
        <4> SUFFICES ASSUME NEW r \in SteadyThen(Listing), r \notin ToSet(shown)
                     PROVE  r \in ToSet(page)
          BY <2>2, <2>3
        <4>1. PICK j \in DOMAIN Listing : j > start /\ Listing[j] = r
          BY <2>4
        <4>2. j <= stop
          BY <2>a, <3>1
        <4>3. QED
          BY <2>3, <4>1, <4>2
      <3>3. ListingTypes'
        BY <1>1, <2>2, <2>3, <2>5, <2>8, <3>1 DEF ListingInv, ListingTypes, Ends
      <3>4. QED
        BY <1>1, <2>2, <2>3, <3>1, <3>2, <3>3 DEF ListingInv, Ends
    <2>11. QED
      BY <2>9, <2>10
  <1>4. QED
    BY <1>2, <1>3

\* A page builder answers from the listing as it is.
LEMMA PageKeeps ==
    ASSUME ListingInv,
           \/ BuildPage(Listing) \/ BuildAssetPage(Listing) \/ BuildUserPage(Listing)
           \/ BuildCoursePage(Listing) \/ BuildTransactionPage(Listing)
    PROVE  ListingInv'
  <1> DEFINE start == StartAfter(Listing)
             byPage == MoreByPage(Listing, start)
             byLimit == MoreByLimit(Listing, start)
  <1>1. byPage \in BOOLEAN /\ byLimit \in BOOLEAN
    BY DEF MoreByPage, MoreByLimit
  <1>2. Answer(Listing, byPage) \/ Answer(Listing, byLimit)
    BY DEF BuildPage, BuildAssetPage, BuildUserPage, BuildCoursePage, BuildTransactionPage
  <1>3. Listing \in Seq(AllRows)
    <2>1. rows \in Seq(AllRows) /\ IsInjective(rows)
      BY DEF ListingInv, ListingTypes
    <2>2. QED
      BY <2>1, FilteredFacts DEF Listing
  <1>4. ~CursorIsGone(Listing) =>
           \E stop : /\ Bounds(Listing, start, stop)
                     /\ ~byPage => stop = Len(Listing)
                     /\ ~byLimit => stop = Len(Listing)
    BY <1>3, PageBounds
  <1> HIDE DEF byPage, byLimit
  <1>5. CASE Answer(Listing, byPage)
    BY <1>1, <1>4, <1>5, AnswerKeeps
  <1>6. CASE Answer(Listing, byLimit)
    BY <1>1, <1>4, <1>6, AnswerKeeps
  <1>7. QED
    BY <1>2, <1>5, <1>6

-----------------------------------------------------------------------------
(* The listings.                                                           *)

\* At the start nothing was shown.
LEMMA ListingStarts ==
    ASSUME ListingInit
    PROVE  ListingInv
  <1>1. FirstRows \in Seq(AllRows)
    BY ListingAssumption DEF ListingAssumption, AllRows
  <1>2. /\ rows = FirstRows /\ passing \subseteq ToSet(rows) /\ cursor = "start" /\ shown = <<>>
        /\ steady = {} /\ reshuffled = FALSE /\ IsInjective(rows)
    BY ListingAssumption DEF ListingInit, ListingAssumption
  <1>3. ToSet(<<>>) = {} /\ IsInjective(<<>>) /\ <<>> \in Seq(AllRows)
    BY DEF ToSet, IsInjective
  <1>4. ListingTypes
    BY <1>1, <1>2, <1>3 DEF ListingTypes, Ends
  <1>5. QED
    BY <1>2, <1>3, <1>4 DEF ListingInv, Ends

\* Every change of a listing and every page keeps it.
LEMMA ListingSteps ==
    ASSUME ListingInv, ListingNext
    PROVE  ListingInv'
  <1>1. CASE RowInserted
    BY <1>1, InsertKeeps
  <1>2. ASSUME NEW r \in ToSet(rows),
               AssetChanges(r) \/ OrderChanges(r) \/ UserChanges(r) \/ CourseIsPublished(r)
        PROVE  ListingInv'
    <2>1. (Leaves(r) \/ Joins(r)) /\ RowChanges(r)
      BY <1>2 DEF AssetChanges, OrderChanges, UserChanges, CourseIsPublished
    <2>2. QED
      BY <2>1, ChangeKeeps
  <1>3. ASSUME NEW r \in ToSet(rows), TradeSettles(r) PROVE ListingInv'
    BY <1>3, SettleKeeps
  <1>4. CASE \/ GetAssets \/ GetUsers \/ GetCourses
             \/ GetTransactionHistory \/ GetOrders \/ GetTradeHistory
    <2>1. \/ BuildPage(Listing) \/ BuildAssetPage(Listing) \/ BuildUserPage(Listing)
          \/ BuildCoursePage(Listing) \/ BuildTransactionPage(Listing)
      BY <1>4 DEF GetAssets, GetUsers, GetCourses, GetTransactionHistory, GetOrders,
                  GetTradeHistory, ListAssets, ListUsers, ListCourses, ListOrders, ListTrades,
                  ListWalletTransactions
    <2>2. QED
      BY <2>1, PageKeeps
  <1>5. QED
    BY <1>1, <1>2, <1>3, <1>4 DEF ListingNext

\* A listing that nobody touches.
LEMMA ListingStutters ==
    ASSUME ListingInv, UNCHANGED listingVars
    PROVE  ListingInv'
  BY DEF ListingInv, ListingTypes, Ahead, Behind, listingVars

\* What is shown once is shown at one place.
LEMMA ShownOnce ==
    ASSUME ListingInv
    PROVE  NoRowIsRepeated
  <1> SUFFICES ASSUME ~reshuffled, NEW r \in ToSet(shown)
               PROVE  Times(r) = 1
    BY DEF NoRowIsRepeated
  <1>1. PICK i \in DOMAIN shown : shown[i] = r
    BY DEF ToSet
  <1>2. IsInjective(shown)
    BY DEF ListingInv
  <1>3. {j \in DOMAIN shown : shown[j] = r} = {i}
    BY <1>1, <1>2 DEF IsInjective
  <1>4. QED
    BY <1>3, FS_Singleton DEF Times

\* Whoever follows next_cursor to the end misses no row that was there all along and sees none
\* twice: get_assets, get_users, get_courses, get_orders and the histories, for every listing
\* and every limit.
THEOREM PagesComplete == Spec => []PagesAreComplete
  <1>1. Init => ListingInv
    BY ListingStarts DEF Init
  <1>2. ListingInv /\ [Next]_vars => ListingInv'
    BY ListingSteps, ListingStutters DEF Next, vars
  <1>3. ListingInv => PagesAreComplete
    BY ShownOnce DEF PagesAreComplete, TraversalIsComplete, ListingInv
  <1>4. QED
    BY <1>1, <1>2, <1>3, PTL DEF Spec

-----------------------------------------------------------------------------
(* Education.                                                              *)

Requests == Enrolments \cup Updates
Steps == {"idle", "not_found", "exists", "insert", "update", "forbidden", "answered", "failed"}

EducationTypes ==
    /\ courses \in [Courses -> {"absent", "created", "published"}]
    /\ step \in [Requests -> Steps]
    /\ DOMAIN enrolments \subseteq Enrolments
    /\ DOMAIN target = Updates

\* What a request has read still holds when it writes: courses stay published, and rows stay.
RequestsReadTrue ==
    /\ \A q \in Enrolments :
          /\ step[q] = "insert" => courses[CourseOf[q]] = "published"
          /\ step[q] = "exists" => EnrolmentOf(q) # {}
    /\ \A q \in Updates : step[q] = "update" => target[q] \in DOMAIN enrolments

EnrolledOnce ==
    \A e \in DOMAIN enrolments : EnrolmentOf(e) = {e} /\ courses[CourseOf[e]] = "published"

CompletedAtHundred ==
    \A e \in DOMAIN enrolments : enrolments[e].completed <=> enrolments[e].progress = Hundred

EducationInv == EducationTypes /\ RequestsReadTrue /\ EnrolledOnce /\ CompletedAtHundred

\* A request moves alone.
LEMMA OneMoves ==
    ASSUME EducationTypes, NEW q \in Requests, NEW s \in Steps, StepsTo(q, s)
    PROVE  /\ step' \in [Requests -> Steps] /\ step'[q] = s
           /\ \A x \in Requests : x # q => step'[x] = step[x]
  BY DEF EducationTypes, StepsTo

\* What a request has read stays true of the courses and of the rows it goes by: it may only
\* move to a step whose reading holds.
LEMMA RequestMoves ==
    ASSUME EducationInv, NEW q \in Requests, NEW s \in Steps, StepsTo(q, s),
           courses' = courses, enrolments' = enrolments,
           DOMAIN target' = Updates, \A x \in Updates : x # q => target'[x] = target[x],
           q \in Enrolments => /\ s = "insert" => courses[CourseOf[q]] = "published"
                               /\ s = "exists" => EnrolmentOf(q) # {},
           q \in Updates /\ s = "update" => target'[q] \in DOMAIN enrolments
    PROVE  EducationInv'
  <1>1. /\ step' \in [Requests -> Steps] /\ step'[q] = s
        /\ \A x \in Requests : x # q => step'[x] = step[x]
    BY OneMoves DEF EducationInv
  <1>2. \A x : EnrolmentOf(x)' = EnrolmentOf(x)
    BY DEF EnrolmentOf
  <1>3. EducationTypes'
    BY <1>1 DEF EducationInv, EducationTypes
  <1>4. RequestsReadTrue'
    <2>1. ASSUME NEW x \in Enrolments
          PROVE  /\ step'[x] = "insert" => courses[CourseOf[x]] = "published"
                 /\ step'[x] = "exists" => EnrolmentOf(x)' # {}
      <3>1. CASE x = q
        BY <1>1, <1>2, <3>1
      <3>2. CASE x # q
        BY <1>1, <1>2, <3>2 DEF EducationInv, RequestsReadTrue, Requests
      <3>3. QED
        BY <3>1, <3>2
    <2>2. ASSUME NEW x \in Updates
          PROVE  step'[x] = "update" => target'[x] \in DOMAIN enrolments
      <3>1. CASE x = q
        BY <1>1, <3>1
      <3>2. CASE x # q
        BY <1>1, <3>2 DEF EducationInv, RequestsReadTrue, Requests
      <3>3. QED
        BY <3>1, <3>2
    <2>3. QED
      BY <2>1, <2>2 DEF RequestsReadTrue
  <1>5. EnrolledOnce' /\ CompletedAtHundred'
    BY <1>2 DEF EducationInv, EnrolledOnce, CompletedAtHundred
  <1>6. QED
    BY <1>3, <1>4, <1>5 DEF EducationInv

\* Courses get created and published, and stay published.
LEMMA CourseKeeps ==
    ASSUME EducationInv, NEW c \in Courses, CreateCourse(c) \/ PublishCourse(c)
    PROVE  EducationInv'
  <1>1. /\ courses' \in [Courses -> {"absent", "created", "published"}]
        /\ \A d \in Courses : courses[d] = "published" => courses'[d] = "published"
    BY DEF CreateCourse, PublishCourse, NewCourse, EducationInv, EducationTypes
  <1>2. step' = step /\ target' = target /\ enrolments' = enrolments
    BY DEF CreateCourse, PublishCourse
  <1>3. \A x : EnrolmentOf(x)' = EnrolmentOf(x)
    BY <1>2 DEF EnrolmentOf
  <1>4. \A q \in Enrolments : CourseOf[q] \in Courses
    <2>1. CourseOf \in [Enrolments -> Courses]
      BY EducationAssumption DEF EducationAssumption
    <2>2. QED
      BY <2>1
  <1>5. EducationTypes'
    BY <1>1, <1>2 DEF EducationInv, EducationTypes
  <1>6. RequestsReadTrue'
    BY <1>1, <1>2, <1>3, <1>4 DEF EducationInv, RequestsReadTrue
  <1>7. EnrolledOnce' /\ CompletedAtHundred'
    BY <1>1, <1>2, <1>3, <1>4 DEF EducationInv, EducationTypes, EnrolledOnce, CompletedAtHundred
  <1>8. QED
    BY <1>5, <1>6, <1>7 DEF EducationInv

\* enroll_in_course: what the request goes on with is what it has read.
LEMMA EnrollReadKeeps ==
    ASSUME EducationInv, NEW q \in Enrolments, EnrollRead(q)
    PROVE  EducationInv'
  <1> DEFINE s == IF courses[CourseOf[q]] # "published" THEN "not_found"
                  ELSE IF EnrolmentOf(q) # {} THEN "exists" ELSE "insert"
  <1>1. /\ StepsTo(q, s) /\ courses' = courses /\ enrolments' = enrolments /\ target' = target
    BY DEF EnrollRead
  <1>2. s \in Steps /\ q \in Requests
    BY DEF Steps, Requests
  <1>3. /\ s = "insert" => courses[CourseOf[q]] = "published"
        /\ s = "exists" => EnrolmentOf(q) # {}
        /\ s # "update"
    OBVIOUS
  <1>4. DOMAIN target' = Updates
    BY <1>1 DEF EducationInv, EducationTypes
  <1> HIDE DEF s
  <1>5. QED
    BY <1>1, <1>2, <1>3, <1>4, RequestMoves

\* The row that create_enrollment adds is the student's only one in the course.
LEMMA RowIsOnly ==
    ASSUME EducationInv, NEW q \in Enrolments, EnrolmentOf(q) = {},
           enrolments' = [e \in DOMAIN enrolments \cup {q} |->
                             IF e = q THEN NewEnrolment ELSE enrolments[e]]
    PROVE  /\ \A e \in DOMAIN enrolments : e # q /\ EnrolmentOf(e)' = {e}
           /\ EnrolmentOf(q)' = {q}
           /\ \A x : EnrolmentOf(x) \subseteq EnrolmentOf(x)'
  <1>1. DOMAIN enrolments' = DOMAIN enrolments \cup {q}
    OBVIOUS
  <1>2. \A e \in DOMAIN enrolments : ~(StudentOf[e] = StudentOf[q] /\ CourseOf[e] = CourseOf[q])
    BY DEF EnrolmentOf
  <1>3. \A x, e : e \in EnrolmentOf(x)' <=>
           /\ e \in DOMAIN enrolments \cup {q}
           /\ StudentOf[e] = StudentOf[x] /\ CourseOf[e] = CourseOf[x]
    BY <1>1 DEF EnrolmentOf
  <1>4. \A x, e : e \in EnrolmentOf(x) <=>
           /\ e \in DOMAIN enrolments
           /\ StudentOf[e] = StudentOf[x] /\ CourseOf[e] = CourseOf[x]
    BY DEF EnrolmentOf
  <1>5. ASSUME NEW e \in DOMAIN enrolments PROVE e # q /\ EnrolmentOf(e)' = {e}
    <2>1. e # q
      BY <1>2
    <2>2. EnrolmentOf(e) = {e}
      BY DEF EducationInv, EnrolledOnce
    <2>3. \A x : x \in EnrolmentOf(e)' <=> x = e
      BY <1>2, <1>3, <1>4, <2>2
    <2>4. QED
      BY <2>1, <2>3
  <1>6. EnrolmentOf(q)' = {q}
    <2>1. \A x : x \in EnrolmentOf(q)' <=> x = q
      BY <1>2, <1>3
    <2>2. QED
      BY <2>1
  <1>7. \A x : EnrolmentOf(x) \subseteq EnrolmentOf(x)'
    BY <1>3, <1>4
  <1>8. QED
    BY <1>5, <1>6, <1>7

\* create_enrollment: the unique key decides, whatever was read before.
LEMMA CreateKeeps ==
    ASSUME EducationInv, NEW q \in Enrolments, CreateEnrollment(q)
    PROVE  EducationInv'
  <1>1. q \in Requests /\ step[q] = "insert" /\ courses' = courses /\ target' = target
    BY DEF CreateEnrollment, Requests
  <1>2. DOMAIN target' = Updates
    BY <1>1 DEF EducationInv, EducationTypes
  <1>3. CASE EnrolmentOf(q) # {} /\ StepsTo(q, "exists") /\ enrolments' = enrolments
    <2>1. "exists" \in Steps
      BY DEF Steps
    <2>2. QED
      BY <1>1, <1>2, <1>3, <2>1, RequestMoves
  <1>4. CASE EnrolmentOf(q) = {} /\ \E s \in {"answered", "failed"} : StepsTo(q, s)
             /\ enrolments' = [e \in DOMAIN enrolments \cup {q} |->
                                  IF e = q THEN NewEnrolment ELSE enrolments[e]]
    <2>1. PICK s \in {"answered", "failed"} : StepsTo(q, s)
      BY <1>4
    <2>2. s \in Steps
      BY DEF Steps
    <2>3. /\ step' \in [Requests -> Steps] /\ step'[q] = s
          /\ \A x \in Requests : x # q => step'[x] = step[x]
      BY <1>1, <2>1, <2>2, OneMoves DEF EducationInv
    <2>4. /\ \A e \in DOMAIN enrolments : e # q /\ EnrolmentOf(e)' = {e}
          /\ EnrolmentOf(q)' = {q}
          /\ \A x : EnrolmentOf(x) \subseteq EnrolmentOf(x)'
      BY <1>4, RowIsOnly
    <2>5. /\ DOMAIN enrolments' = DOMAIN enrolments \cup {q}
          /\ enrolments'[q] = NewEnrolment
          /\ \A e \in DOMAIN enrolments : e # q => enrolments'[e] = enrolments[e]
      BY <1>4
    <2>6. EducationTypes'
      BY <1>1, <1>2, <2>3, <2>5 DEF EducationInv, EducationTypes
    <2>7. RequestsReadTrue'
      <3>1. ASSUME NEW x \in Enrolments
            PROVE  /\ step'[x] = "insert" => courses'[CourseOf[x]] = "published"
                   /\ step'[x] = "exists" => EnrolmentOf(x)' # {}
        BY <1>1, <2>3, <2>4 DEF EducationInv, RequestsReadTrue, Requests
      <3>2. ASSUME NEW x \in Updates
            PROVE  step'[x] = "update" => target'[x] \in DOMAIN enrolments'
        BY <1>1, <2>3, <2>5 DEF EducationInv, RequestsReadTrue, Requests
      <3>3. QED
        BY <3>1, <3>2 DEF RequestsReadTrue
    <2>8. EnrolledOnce'
      <3>1. courses[CourseOf[q]] = "published"
        BY <1>1 DEF EducationInv, RequestsReadTrue
      <3>2. QED
        BY <1>1, <2>4, <2>5, <3>1 DEF EducationInv, EnrolledOnce
    <2>9. CompletedAtHundred'
      <3>1. NewEnrolment.completed <=> NewEnrolment.progress = Hundred
        BY DEF NewEnrolment, Hundred
      <3>2. \A e \in DOMAIN enrolments' : enrolments'[e].completed <=> enrolments'[e].progress = Hundred
        BY <2>4, <2>5, <3>1 DEF EducationInv, CompletedAtHundred
      <3>3. QED
        BY <3>2 DEF CompletedAtHundred
    <2>10. QED
      BY <2>6, <2>7, <2>8, <2>9 DEF EducationInv
  <1>5. QED
    BY <1>3, <1>4 DEF CreateEnrollment

\* patch_enrollment: the row it found is one.
LEMMA PatchReadKeeps ==
    ASSUME EducationInv, NEW q \in Updates, PatchRead(q)
    PROVE  EducationInv'
  <1>1. PICK e \in DOMAIN enrolments :
           /\ target' = [target EXCEPT ![q] = e]
           /\ StepsTo(q, IF StudentOf[e] = UpdaterOf[q] THEN "update" ELSE "forbidden")
    BY DEF PatchRead
  <1>2. PICK s \in {"update", "forbidden"} : StepsTo(q, s)
    BY <1>1
  <1>3. s \in Steps /\ q \in Requests /\ s \notin {"insert", "exists"}
    BY DEF Steps, Requests
  <1>4. DOMAIN target' = Updates /\ target'[q] = e /\ \A x \in Updates : x # q => target'[x] = target[x]
    BY <1>1 DEF EducationInv, EducationTypes
  <1>5. courses' = courses /\ enrolments' = enrolments
    BY DEF PatchRead
  <1>6. QED
    BY <1>2, <1>3, <1>4, <1>5, RequestMoves

\* A percentage rounds to at most a hundred.
LEMMA NormalizeBound ==
    ASSUME NEW p \in Amounts
    PROVE  Normalize(p) >= Hundred <=> Normalize(p) = Hundred
  <1>1. p \in Nat /\ p <= 100000
    <2>1. Hundred = 100000
      BY DEF Hundred
    <2>2. p \in 0..Hundred
      BY EducationAssumption DEF EducationAssumption
    <2>3. p \in Nat /\ p <= Hundred
      BY <2>2
    <2>4. QED
      BY <2>1, <2>3
  <1>2. (p + 5) \div 10 \in Int /\ (p + 5) \div 10 <= 10000
    BY <1>1
  <1>3. QED
    BY <1>2 DEF Normalize, Hundred

\* update_enrollment_progress: completed goes by the progress that is stored.
LEMMA PatchUpdateKeeps ==
    ASSUME EducationInv, NEW q \in Updates, PatchUpdate(q)
    PROVE  EducationInv'
  <1>1. /\ q \in Requests /\ target[q] \in DOMAIN enrolments /\ courses' = courses /\ target' = target
    BY DEF PatchUpdate, EducationInv, RequestsReadTrue, Requests
  <1>2. PICK p \in Amounts : enrolments' = [enrolments EXCEPT ![target[q]] = Progress(p)]
    BY DEF PatchUpdate
  <1>3. PICK s \in {"answered", "failed"} : StepsTo(q, s)
    BY DEF PatchUpdate
  <1>4. s \in Steps
    BY DEF Steps
  <1>5. /\ step' \in [Requests -> Steps] /\ step'[q] = s
        /\ \A x \in Requests : x # q => step'[x] = step[x]
    BY <1>1, <1>3, <1>4, OneMoves DEF EducationInv
  <1>6. /\ DOMAIN enrolments' = DOMAIN enrolments
        /\ \A e \in DOMAIN enrolments : enrolments'[e] = IF e = target[q] THEN Progress(p) ELSE enrolments[e]
    BY <1>2
  <1>7. \A x : EnrolmentOf(x)' = EnrolmentOf(x)
    BY <1>6 DEF EnrolmentOf
  <1>8. EducationTypes'
    BY <1>1, <1>5, <1>6 DEF EducationInv, EducationTypes
  <1>9. RequestsReadTrue'
    BY <1>1, <1>5, <1>6, <1>7 DEF EducationInv, RequestsReadTrue, Requests
  <1>10. EnrolledOnce'
    BY <1>1, <1>6, <1>7 DEF EducationInv, EnrolledOnce
  <1>11. CompletedAtHundred'
    <2>1. Progress(p).completed <=> Progress(p).progress = Hundred
      <3>1. /\ Progress(p).progress = Normalize(p)
            /\ Progress(p).completed = (Normalize(p) >= Hundred)
        BY Zenon DEF Progress
      <3>2. QED
        BY Zenon, <3>1, NormalizeBound
    <2>2. QED
      BY <1>6, <2>1 DEF EducationInv, CompletedAtHundred
  <1>12. QED
    BY <1>8, <1>9, <1>10, <1>11 DEF EducationInv

\* A request that fails before its write changes nothing.
LEMMA EducationFailsKeeps ==
    ASSUME EducationInv, NEW q \in Requests, EducationFails(q)
    PROVE  EducationInv'
  <1>1. /\ StepsTo(q, "failed") /\ courses' = courses /\ enrolments' = enrolments /\ target' = target
    BY DEF EducationFails
  <1>2. "failed" \in Steps /\ DOMAIN target' = Updates
    BY <1>1 DEF Steps, EducationInv, EducationTypes
  <1>3. QED
    BY <1>1, <1>2, RequestMoves

\* However requests race and fail, a student is enrolled once in a published course,
\* enrollment_exists is true when it is answered, and a course is completed if and only if its
\* stored progress is 100 percent.
THEOREM EnrolmentsTrue == Spec => []EnrolmentsAreTrue
  <1>1. Init => EducationInv
    <2> SUFFICES ASSUME EducationInit PROVE EducationInv
      BY DEF Init
    <2>1. EducationTypes
      BY DEF EducationInit, EducationTypes, Requests, Steps
    <2>2. \A q \in Requests : step[q] = "idle"
      BY DEF EducationInit, Requests
    <2>3. DOMAIN enrolments = {}
      BY DEF EducationInit
    <2>4. RequestsReadTrue
      BY <2>2 DEF RequestsReadTrue, Requests
    <2>5. EnrolledOnce /\ CompletedAtHundred
      BY <2>3 DEF EnrolledOnce, CompletedAtHundred
    <2>6. QED
      BY <2>1, <2>4, <2>5 DEF EducationInv
  <1>2. EducationInv /\ EducationNext => EducationInv'
    BY CourseKeeps, EnrollReadKeeps, CreateKeeps, PatchReadKeeps, PatchUpdateKeeps,
       EducationFailsKeeps DEF EducationNext, Enroll, PatchEnrollment, Requests
  <1>3. EducationInv /\ UNCHANGED educationVars => EducationInv'
    BY DEF EducationInv, EducationTypes, RequestsReadTrue, EnrolledOnce, CompletedAtHundred,
           EnrolmentOf, educationVars
  <1>4. EducationInv /\ [Next]_vars => EducationInv'
    BY <1>2, <1>3 DEF Next, vars
  <1>5. EducationInv => EnrolmentsAreTrue
    BY DEF EducationInv, RequestsReadTrue, EnrolledOnce, CompletedAtHundred, EnrolmentsAreTrue
  <1>6. QED
    BY <1>1, <1>4, <1>5, PTL DEF Spec
=============================================================================
