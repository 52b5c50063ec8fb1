------------------------------ MODULE FiniteSums ------------------------------
(***************************************************************************)
(* Facts about sums over finite sets, for the properties that balance      *)
(* books: tokens, coins and credits.                                       *)
(*                                                                         *)
(* MapThenSumSet chooses a function that satisfies the recursion of the    *)
(* sum.  That there is one, and that all of them agree, are proved here by *)
(* taking a smallest subset for which the claim fails.                     *)
(***************************************************************************)
EXTENDS FiniteSetsExt, FiniteSetTheorems, TLAPS

\* The member that the recursion takes first.
Pick(s) == CHOOSE x \in s : TRUE

\* g is the function that MapThenFoldSet chooses to sum f over S.
Sums(g, f, S) ==
    g = [s \in SUBSET S |-> IF s = {} THEN 0
                            ELSE LET x == Pick(s) IN f[x] + g[s \ {x}]]

\* The sum of f over S, as the properties of the modules write it.
SumOf(f, S) == MapThenSumSet(LAMBDA x : f[x], S)

\* The definition of MapThenSumSet, unfolded once.
LEMMA SumIsChosen ==
    ASSUME NEW f, NEW S
    PROVE  SumOf(f, S) = (CHOOSE g : Sums(g, f, S))[S]
  BY DEF SumOf, MapThenSumSet, MapThenFoldSet, Sums, Pick

\* Among the subsets of a finite set with a property one is smallest.
LEMMA SubsetMinimum ==
    ASSUME NEW S, IsFiniteSet(S), NEW T \in SUBSET (SUBSET S), T # {}
    PROVE  \E m \in T : \A t \in T : ~(t \subseteq m /\ t # m)
  <1>1. IsWellFoundedOn(StrictSubsetOrdering(S), SUBSET S)
    BY FS_StrictSubsetOrderingWellFounded, FS_FiniteSubsetsOfFinite
  <1>2. PICK m \in T : \A t \in T : ~(<<t, m>> \in StrictSubsetOrdering(S))
    BY <1>1, WFMin
  <1>3. QED
    BY <1>2 DEF StrictSubsetOrdering

\* Two functions that satisfy the recursion, over any two sets, agree where both apply.
LEMMA SumsAgree ==
    ASSUME NEW f, NEW S, NEW T, IsFiniteSet(S), NEW g, NEW h, Sums(g, f, S), Sums(h, f, T),
           NEW W \in SUBSET (S \cap T)
    PROVE  g[W] = h[W]
  <1> DEFINE Bad == {w \in SUBSET S : w \subseteq T /\ g[w] # h[w]}
  <1>1. SUFFICES ASSUME Bad # {} PROVE FALSE
    OBVIOUS
  <1>a. Bad \in SUBSET (SUBSET S)
    OBVIOUS
  <1>2. PICK m \in Bad : \A t \in Bad : ~(t \subseteq m /\ t # m)
    <2> HIDE DEF Bad
    <2> QED BY <1>1, <1>a, SubsetMinimum
  <1>3. m # {}
    BY <1>2 DEF Sums
  <1>4. Pick(m) \in m
    BY <1>3 DEF Pick
  <1>5. m \ {Pick(m)} \notin Bad
    BY <1>2, <1>4
  <1>6. g[m \ {Pick(m)}] = h[m \ {Pick(m)}]
    BY <1>5, <1>2
  <1>7. g[m] = f[Pick(m)] + g[m \ {Pick(m)}] /\ h[m] = f[Pick(m)] + h[m \ {Pick(m)}]
    BY <1>2, <1>3 DEF Sums
  <1>8. QED
    BY <1>2, <1>6, <1>7

\* A function that satisfies the recursion exists.
LEMMA SumsExist ==
    ASSUME NEW f, NEW S, IsFiniteSet(S)
    PROVE  \E g : Sums(g, f, S)
  <1> DEFINE Bad == {w \in SUBSET S : ~\E g : Sums(g, f, w)}
             G(w) == CHOOSE g : Sums(g, f, w)
  <1>1. SUFFICES ASSUME Bad # {} PROVE FALSE
    OBVIOUS
  <1>2. PICK m \in Bad : \A t \in Bad : ~(t \subseteq m /\ t # m)
    <2>1. Bad \in SUBSET (SUBSET S)
      OBVIOUS
    <2> HIDE DEF Bad
    <2>2. QED BY <1>1, <2>1, SubsetMinimum
  <1>3. ASSUME NEW w \in SUBSET m, w # m
        PROVE  Sums(G(w), f, w)
    <2>1. w \notin Bad
      BY <1>2, <1>3
    <2>2. \E g : Sums(g, f, w)
      BY <2>1, <1>2
    <2>3. QED
      BY <2>2
  <1> DEFINE h == [s \in SUBSET m |-> IF s = {} THEN 0
                      ELSE LET x == Pick(s) IN f[x] + G(s \ {x})[s \ {x}]]
  <1>4. ASSUME NEW w \in SUBSET m, w # m
        PROVE  h[w] = G(w)[w]
    <2>1. Sums(G(w), f, w)
      BY <1>3, <1>4
    <2> DEFINE x == Pick(w)
               u == w \ {x}
    <2>2. CASE w = {}
      <3>1. G(w)[w] = 0
        BY <2>1, <2>2 DEF Sums
      <3>2. QED
        BY <3>1, <2>2
    <2>3. CASE w # {}
      <3>1. x \in w
        BY <2>3 DEF Pick
      <3>2. u \in SUBSET m /\ u # m /\ u \in SUBSET w
        BY <3>1
      <3>3. G(w)[w] = f[x] + G(w)[u]
        BY <2>1, <2>3 DEF Sums
      <3>4. Sums(G(u), f, u)
        BY <3>2, <1>3
      <3>5. IsFiniteSet(w)
        BY <1>2, FS_Subset
      <3>6. G(w)[u] = G(u)[u]
        <4> HIDE DEF G, u
        <4>1. u \in SUBSET (w \cap u)
          BY <3>2
        <4>2. QED
          BY <2>1, <3>4, <3>5, <4>1, SumsAgree
      <3>7. QED
        BY <3>3, <3>6, <2>3
    <2>4. QED
      BY <2>2, <2>3
  <1>5. ASSUME NEW s \in SUBSET m, s # {}
        PROVE  h[s] = f[Pick(s)] + h[s \ {Pick(s)}]
    <2>1. Pick(s) \in s
      BY <1>5 DEF Pick
    <2>2. s \ {Pick(s)} \in SUBSET m /\ s \ {Pick(s)} # m
      BY <2>1
    <2>3. h[s] = f[Pick(s)] + G(s \ {Pick(s)})[s \ {Pick(s)}]
      BY <1>5
    <2>4. h[s \ {Pick(s)}] = G(s \ {Pick(s)})[s \ {Pick(s)}]
      BY <2>2, <1>4
    <2>5. QED
      BY <2>3, <2>4
  <1>6. h[{}] = 0
    OBVIOUS
  <1>7. Sums(h, f, m)
    <2>1. h = [s \in SUBSET m |-> h[s]]
      OBVIOUS
    <2> HIDE DEF h
    <2>2. QED
      BY <1>5, <1>6, <2>1 DEF Sums
  <1>8. QED
    BY <1>2, <1>7

\* The sum over no member is 0; else it is one member's value and the sum of the rest.
LEMMA SumEquation ==
    ASSUME NEW f, NEW S, IsFiniteSet(S)
    PROVE  /\ SumOf(f, {}) = 0
           /\ S # {} => Pick(S) \in S /\ SumOf(f, S) = f[Pick(S)] + SumOf(f, S \ {Pick(S)})
  <1> DEFINE G(w) == CHOOSE g : Sums(g, f, w)
  <1>1. \A w : IsFiniteSet(w) => Sums(G(w), f, w)
    BY SumsExist
  <1>2. \A w : SumOf(f, w) = G(w)[w]
    BY SumIsChosen
  <1>3. SumOf(f, {}) = 0
    <2>1. Sums(G({}), f, {})
      BY <1>1, FS_EmptySet
    <2> HIDE DEF G
    <2>2. QED
      BY <2>1, <1>2 DEF Sums
  <1>4. ASSUME S # {}
        PROVE  Pick(S) \in S /\ SumOf(f, S) = f[Pick(S)] + SumOf(f, S \ {Pick(S)})
    <2> DEFINE u == S \ {Pick(S)}
    <2>1. Pick(S) \in S
      BY <1>4 DEF Pick
    <2>2. IsFiniteSet(u)
      BY FS_Subset
    <2>3. Sums(G(S), f, S) /\ Sums(G(u), f, u)
      BY <1>1, <2>2
    <2> HIDE DEF G
    <2>4. G(S)[S] = f[Pick(S)] + G(S)[u]
      BY <2>3, <1>4 DEF Sums
    <2>5. G(S)[u] = G(u)[u]
      <3> u \in SUBSET (S \cap u)
        OBVIOUS
      <3> HIDE DEF u
      <3> QED BY <2>3, SumsAgree
    <2>6. QED
      BY <2>1, <2>4, <2>5, <1>2
  <1>5. QED
    BY <1>3, <1>4

\* A sum of integers is an integer, and of naturals a natural.
LEMMA SumType ==
    ASSUME NEW f, NEW S, IsFiniteSet(S), \A x \in S : f[x] \in Int
    PROVE  /\ SumOf(f, S) \in Int
           /\ (\A x \in S : f[x] >= 0) => SumOf(f, S) >= 0
  <1> DEFINE Good(w) == SumOf(f, w) \in Int /\ ((\A x \in S : f[x] >= 0) => SumOf(f, w) >= 0)
             Bad == {w \in SUBSET S : ~Good(w)}
  <1>1. SUFFICES ASSUME Bad # {} PROVE FALSE
    OBVIOUS
  <1>2. PICK m \in Bad : \A t \in Bad : ~(t \subseteq m /\ t # m)
    <2>1. Bad \in SUBSET (SUBSET S)
      OBVIOUS
    <2> HIDE DEF Bad
    <2>2. QED BY <1>1, <2>1, SubsetMinimum
  <1>3. IsFiniteSet(m)
    BY <1>2, FS_Subset
  <1>4. m # {}
    <2>1. SumOf(f, {}) = 0
      BY <1>3, SumEquation
    <2>2. 0 \in Int /\ 0 >= 0
      OBVIOUS
    <2>3. Good({})
      BY <2>1, <2>2
    <2> HIDE DEF Good
    <2>4. QED BY <1>2, <2>3
  <1>5. Pick(m) \in m /\ SumOf(f, m) = f[Pick(m)] + SumOf(f, m \ {Pick(m)})
    BY <1>3, <1>4, SumEquation
  <1>6. Good(m \ {Pick(m)})
    BY <1>2, <1>5
  <1>7. f[Pick(m)] \in Int /\ Pick(m) \in S
    BY <1>2, <1>5
  <1>8. QED
    <2>1. SumOf(f, m \ {Pick(m)}) \in Int
      BY <1>6
    <2> DEFINE a == f[Pick(m)]
               b == SumOf(f, m \ {Pick(m)})
    <2>2. a \in Int /\ b \in Int /\ SumOf(f, m) = a + b
      BY <1>5, <1>7, <2>1
    <2>3. (\A x \in S : f[x] >= 0) => a >= 0 /\ b >= 0
      BY <1>6, <1>7
    <2> HIDE DEF a, b
    <2>4. Good(m)
      BY <2>2, <2>3
    <2>5. QED
      BY <1>2, <2>4

\* A member may be taken out of a sum, whichever it is.
LEMMA SumRemove ==
    ASSUME NEW f, NEW S, IsFiniteSet(S), \A x \in S : f[x] \in Int, NEW y \in S
    PROVE  SumOf(f, S) = f[y] + SumOf(f, S \ {y})
  <1> DEFINE Good(w) == \A x \in w : SumOf(f, w) = f[x] + SumOf(f, w \ {x})
             Bad == {w \in SUBSET S : ~Good(w)}
  <1>1. SUFFICES ASSUME Bad # {} PROVE FALSE
    OBVIOUS
  <1>2. PICK m \in Bad : \A t \in Bad : ~(t \subseteq m /\ t # m)
    <2>1. Bad \in SUBSET (SUBSET S)
      OBVIOUS
    <2> HIDE DEF Bad
    <2>2. QED BY <1>1, <2>1, SubsetMinimum
  <1>3. PICK x \in m : SumOf(f, m) # f[x] + SumOf(f, m \ {x})
    BY <1>2
  <1>4. \A w \in SUBSET S : IsFiniteSet(w) /\ SumOf(f, w) \in Int
    BY FS_Subset, SumType
  <1> DEFINE p == Pick(m)
  <1>5. p \in m /\ SumOf(f, m) = f[p] + SumOf(f, m \ {p})
    BY <1>2, <1>3, <1>4, SumEquation
  <1>6. p # x
    BY <1>3, <1>5
  <1> HIDE DEF p
  <1>7. SumOf(f, m \ {p}) = f[x] + SumOf(f, (m \ {p}) \ {x})
    <2>1. m \ {p} \in SUBSET S /\ m \ {p} \notin Bad
      BY <1>2, <1>5
    <2>2. QED BY <2>1, <1>6, <1>3
  <1>8. SumOf(f, m \ {x}) = f[p] + SumOf(f, (m \ {x}) \ {p})
    <2>1. m \ {x} \in SUBSET S /\ m \ {x} \notin Bad
      BY <1>2, <1>3
    <2>2. QED BY <2>1, <1>5, <1>6
  <1>9. (m \ {x}) \ {p} = (m \ {p}) \ {x}
    OBVIOUS
  <1>10. f[p] \in Int /\ f[x] \in Int /\ SumOf(f, (m \ {p}) \ {x}) \in Int
    <2>1. (m \ {p}) \ {x} \in SUBSET S
      BY <1>2
    <2>2. QED BY <2>1, <1>2, <1>3, <1>4, <1>5
  <1>11. \A a, b, c \in Int : a + (b + c) = b + (a + c)
    OBVIOUS
  <1>12. SumOf(f, m) = f[x] + (f[p] + SumOf(f, (m \ {p}) \ {x}))
    BY <1>5, <1>7, <1>10, <1>11
  <1>13. QED
    BY <1>3, <1>8, <1>9, <1>12

\* Two functions that agree on a set have the same sum over it.
LEMMA SumEqual ==
    ASSUME NEW f, NEW g, NEW S, IsFiniteSet(S), \A x \in S : f[x] = g[x]
    PROVE  SumOf(f, S) = SumOf(g, S)
  <1> DEFINE Bad == {w \in SUBSET S : SumOf(f, w) # SumOf(g, w)}
  <1>1. SUFFICES ASSUME Bad # {} PROVE FALSE
    OBVIOUS
  <1>2. PICK m \in Bad : \A t \in Bad : ~(t \subseteq m /\ t # m)
    <2>1. Bad \in SUBSET (SUBSET S)
      OBVIOUS
    <2> HIDE DEF Bad
    <2>2. QED BY <1>1, <2>1, SubsetMinimum
  <1>3. IsFiniteSet(m)
    BY <1>2, FS_Subset
  <1>4. m # {}
    BY <1>2, <1>3, SumEquation
  <1>5. /\ Pick(m) \in m
        /\ SumOf(f, m) = f[Pick(m)] + SumOf(f, m \ {Pick(m)})
        /\ SumOf(g, m) = g[Pick(m)] + SumOf(g, m \ {Pick(m)})
    BY <1>3, <1>4, SumEquation
  <1>6. SumOf(f, m \ {Pick(m)}) = SumOf(g, m \ {Pick(m)})
    BY <1>2, <1>5
  <1>7. QED
    BY <1>2, <1>5, <1>6

\* Another member adds its value.
LEMMA SumAdd ==
    ASSUME NEW f, NEW S, IsFiniteSet(S), NEW y, y \notin S,
           \A x \in S \cup {y} : f[x] \in Int
    PROVE  SumOf(f, S \cup {y}) = f[y] + SumOf(f, S)
  <1>1. IsFiniteSet(S \cup {y}) /\ (S \cup {y}) \ {y} = S
    BY FS_AddElement
  <1>2. QED
    BY <1>1, SumRemove

\* Changing the value of one member changes the sum by as much.
LEMMA SumUpdate ==
    ASSUME NEW f, NEW g, NEW S, IsFiniteSet(S), NEW y \in S,
           \A x \in S : f[x] \in Int /\ g[x] \in Int,
           \A x \in S \ {y} : g[x] = f[x]
    PROVE  SumOf(g, S) = SumOf(f, S) + (g[y] - f[y])
  <1>1. IsFiniteSet(S \ {y})
    BY FS_RemoveElement
  <1>2. SumOf(f, S \ {y}) = SumOf(g, S \ {y}) /\ SumOf(f, S \ {y}) \in Int
    BY <1>1, SumEqual, SumType
  <1>3. SumOf(f, S) = f[y] + SumOf(f, S \ {y}) /\ SumOf(g, S) = g[y] + SumOf(g, S \ {y})
    BY SumRemove
  <1>4. QED
    BY <1>2, <1>3

\* Any function that satisfies the equations of the sum gives it: the sum of an
\* expression over S is the sum of the function that has its values on S.
LEMMA SumsGiveSum ==
    ASSUME NEW f, NEW S, IsFiniteSet(S), NEW g, Sums(g, f, S)
    PROVE  g[S] = SumOf(f, S)
  <1> DEFINE G == CHOOSE h : Sums(h, f, S)
  <1>1. Sums(G, f, S)
    BY SumsExist
  <1>2. SumOf(f, S) = G[S]
    BY SumIsChosen
  <1> HIDE DEF G
  <1>3. S \in SUBSET (S \cap S)
    OBVIOUS
  <1>4. QED
    BY <1>1, <1>2, <1>3, SumsAgree

\* A sum over the images of different members is the sum over the members.
LEMMA SumImage ==
    ASSUME NEW f, NEW g, NEW h, NEW S, IsFiniteSet(S), \A x \in S : f[x] \in Int,
           \A x \in S : g[h[x]] = f[x], \A x, y \in S : h[x] = h[y] => x = y
    PROVE  SumOf(g, {h[x] : x \in S}) = SumOf(f, S)
  <1> DEFINE Img(w) == {h[x] : x \in w}
             Bad == {w \in SUBSET S : SumOf(g, Img(w)) # SumOf(f, w)}
  <1>1. SUFFICES ASSUME Bad # {} PROVE FALSE
    OBVIOUS
  <1>2. PICK m \in Bad : \A t \in Bad : ~(t \subseteq m /\ t # m)
    <2>1. Bad \in SUBSET (SUBSET S)
      OBVIOUS
    <2> HIDE DEF Bad
    <2>2. QED BY <1>1, <2>1, SubsetMinimum
  <1>3. m \in SUBSET S /\ IsFiniteSet(m) /\ IsFiniteSet(Img(m))
    <2>1. m \in SUBSET S
      BY <1>2
    <2>2. IsFiniteSet(m)
      BY <2>1, FS_Subset
    <2>3. IsFiniteSet({h[x] : x \in m})
      <3> DEFINE k == [x \in m |-> h[x]]
      <3>1. k \in Surjection(m, {h[x] : x \in m})
        BY DEF Surjection
      <3>2. QED
        BY <2>2, <3>1, FS_Surjection
    <2>4. QED
      BY <2>1, <2>2, <2>3
  <1>4. m # {}
    <2>1. SumOf(g, {}) = 0 /\ SumOf(f, {}) = 0
      BY FS_EmptySet, SumEquation
    <2>2. Img({}) = {}
      OBVIOUS
    <2>3. QED
      BY <1>2, <2>1, <2>2
  <1>5. PICK x \in m : TRUE
    BY <1>4
  <1>6. Img(m) \ {h[x]} = Img(m \ {x})
    BY <1>3, <1>5
  <1>7. m \ {x} \notin Bad
    BY <1>2, <1>5
  <1>8. SumOf(g, Img(m \ {x})) = SumOf(f, m \ {x})
    BY <1>3, <1>7
  <1>9. SumOf(f, m) = f[x] + SumOf(f, m \ {x})
    BY <1>3, <1>5, SumRemove
  <1>10. SumOf(g, Img(m)) = g[h[x]] + SumOf(g, Img(m) \ {h[x]})
    <2>1. h[x] \in Img(m)
      BY <1>5
    <2>2. \A y \in Img(m) : g[y] \in Int
      BY <1>3
    <2> HIDE DEF Img
    <2>3. QED
      BY <1>3, <2>1, <2>2, SumRemove
  <1>11. QED
    BY <1>2, <1>3, <1>5, <1>6, <1>8, <1>9, <1>10

\* Nothing, however often, is nothing.
LEMMA SumOfZeros ==
    ASSUME NEW f, NEW S, IsFiniteSet(S), \A x \in S : f[x] = 0
    PROVE  SumOf(f, S) = 0
  <1> DEFINE Bad == {T \in SUBSET S : SumOf(f, T) # 0}
  <1>1. SUFFICES ASSUME Bad # {} PROVE FALSE
    OBVIOUS
  <1>2. PICK m \in Bad : \A t \in Bad : ~(t \subseteq m /\ t # m)
    <2>1. Bad \in SUBSET (SUBSET S)
      OBVIOUS
    <2> HIDE DEF Bad
    <2>2. QED
      BY <1>1, <2>1, SubsetMinimum
  <1>3. IsFiniteSet(m) /\ m # {}
    BY <1>2, FS_Subset, FS_EmptySet, SumEquation
  <1>4. Pick(m) \in m /\ SumOf(f, m) = f[Pick(m)] + SumOf(f, m \ {Pick(m)})
    BY <1>3, SumEquation
  <1>5. SumOf(f, m \ {Pick(m)}) = 0
    BY <1>2, <1>4
  <1>6. QED
    BY <1>2, <1>4, <1>5

\* A sum is the sum, over the keys, of the sums of each key's members.
LEMMA SumByKey ==
    ASSUME NEW f, NEW S, IsFiniteSet(S), NEW K, IsFiniteSet(K), NEW key,
           \A x \in S : f[x] \in Int /\ key[x] \in K
    PROVE  SumOf(f, S) = SumOf([k \in K |-> SumOf(f, {x \in S : key[x] = k})], K)
  <1> DEFINE Part(w, k) == {x \in w : key[x] = k}
             G(w) == [k \in K |-> SumOf(f, Part(w, k))]
             Bad == {w \in SUBSET S : SumOf(f, w) # SumOf(G(w), K)}
  <1>1. SUFFICES ASSUME Bad # {} PROVE FALSE
    <2>1. S \notin Bad => SumOf(f, S) = SumOf(G(S), K)
      OBVIOUS
    <2>2. G(S) = [k \in K |-> SumOf(f, {x \in S : key[x] = k})]
      OBVIOUS
    <2> HIDE DEF Bad, G
    <2>3. QED
      BY <2>1, <2>2
  <1>2. PICK m \in Bad : \A w \in Bad : ~(w \subseteq m /\ w # m)
    <2>1. Bad \in SUBSET (SUBSET S)
      OBVIOUS
    <2> HIDE DEF Bad
    <2>2. QED
      BY <1>1, <2>1, SubsetMinimum
  <1>3. m \in SUBSET S /\ IsFiniteSet(m) /\ SumOf(f, m) # SumOf(G(m), K)
    BY <1>2, FS_Subset
  <1>4. CASE m = {}
    <2>1. \A k \in K : G(m)[k] = 0
      <3>1. \A k \in K : Part(m, k) = {}
        BY <1>4
      <3>2. SumOf(f, {}) = 0
        BY FS_EmptySet, SumEquation
      <3>3. QED
        BY <3>1, <3>2
    <2> HIDE DEF G
    <2>2. SumOf(G(m), K) = 0
      BY <2>1, SumOfZeros
    <2>3. SumOf(f, m) = 0
      BY <1>4, FS_EmptySet, SumEquation
    <2>4. QED
      BY <1>3, <2>2, <2>3
  <1>5. CASE m # {}
    <2>1. PICK y \in m : TRUE
      BY <1>5
    <2> DEFINE w == m \ {y}
               j == key[y]
    <2>2. w \subseteq m /\ w # m /\ w \in SUBSET S /\ IsFiniteSet(w) /\ y \notin w /\ m = w \cup {y}
      BY <1>3, <2>1, FS_Subset
    <2>3. SumOf(f, w) = SumOf(G(w), K)
      <3>1. w \notin Bad
        BY <1>2, <2>2
      <3>2. QED
        BY <2>2, <3>1
    <2>4. SumOf(f, m) = f[y] + SumOf(f, w)
      BY <1>3, <2>1, SumRemove
    <2>5. j \in K /\ f[y] \in Int
      BY <1>3, <2>1
    <2>6. ASSUME NEW k \in K PROVE IsFiniteSet(Part(w, k)) /\ IsFiniteSet(Part(m, k))
                                   /\ \A x \in Part(m, k) \cup Part(w, k) : f[x] \in Int
      BY <1>3, <2>2, FS_Subset
    <2>7. ASSUME NEW k \in K, k # j PROVE G(m)[k] = G(w)[k]
      <3>1. Part(m, k) = Part(w, k)
        BY <2>2, <2>7
      <3>2. QED
        BY <3>1
    <2>8. G(m)[j] = f[y] + G(w)[j]
      <3>1. Part(m, j) = Part(w, j) \cup {y} /\ y \notin Part(w, j)
        BY <2>2
      <3>2. \A x \in Part(w, j) \cup {y} : f[x] \in Int
        BY <2>5, <2>6
      <3>3. IsFiniteSet(Part(w, j))
        BY <2>5, <2>6
      <3> HIDE DEF Part
      <3>4. SumOf(f, Part(w, j) \cup {y}) = f[y] + SumOf(f, Part(w, j))
        BY <3>1, <3>2, <3>3, SumAdd
      <3>5. QED
        BY <2>5, <3>1, <3>4
    <2>9. \A k \in K : G(m)[k] \in Int /\ G(w)[k] \in Int
      <3> HIDE DEF Part
      <3>1. \A k \in K : SumOf(f, Part(m, k)) \in Int /\ SumOf(f, Part(w, k)) \in Int
        BY <2>6, SumType
      <3>2. QED
        BY <3>1
    <2> HIDE DEF G, w, j
    <2>10. SumOf(G(m), K) = SumOf(G(w), K) + (G(m)[j] - G(w)[j])
      BY <2>5, <2>7, <2>9, SumUpdate
    <2>11. SumOf(G(w), K) \in Int
      BY <2>9, SumType
    <2>12. QED
      BY <1>3, <2>3, <2>4, <2>5, <2>8, <2>9, <2>10, <2>11
  <1>6. QED
    BY <1>4, <1>5
=============================================================================
