--------------------------- MODULE SelectionProofs ---------------------------
(* Lemmas on Selection, for every set and every sequence.                   *)
EXTENDS Selection, FiniteSetTheorems, SequenceTheorems, WellFoundedInduction, TLAPS

(* A set of naturals that is not empty has a least element: the principle   *)
(* behind the proofs by induction.                                          *)
LEMMA LeastNatural ==
    ASSUME NEW T \in SUBSET Nat, T # {}
    PROVE  \E n \in T : \A m \in T : n <= m
<1> DEFINE R == OpToRel(<, Nat)
<1>1. IsWellFoundedOn(R, Nat)
  BY NatLessThanWellFounded, ZenonT(30)
<1>2. \A x, y \in Nat : y < x => <<y, x>> \in R
  BY DEF OpToRel
<1> HIDE DEF R
<1>3. PICK n \in T : \A m \in T : ~(<<m, n>> \in R)
  BY <1>1, WFMin
<1>4. ASSUME NEW m \in T PROVE n <= m
  <2>1. n \in Nat /\ m \in Nat /\ ~(m < n)
    BY <1>2, <1>3
  <2>2. QED
    BY <2>1
<1>5. QED
  BY <1>4

(* Induction over the naturals, for a set instead of a predicate.           *)
LEMMA SetInduction ==
    ASSUME NEW S, 0 \in S, \A n \in Nat : n \in S => n + 1 \in S
    PROVE  Nat \subseteq S
<1> DEFINE T == {n \in Nat : n \notin S}
<1>1. SUFFICES ASSUME T # {} PROVE FALSE
  OBVIOUS
<1>2. PICK n \in T : \A m \in T : n <= m
  BY <1>1, LeastNatural
<1>3. n # 0 /\ n - 1 \in Nat /\ n - 1 \notin T
  BY <1>2
<1>4. n - 1 \in S
  BY <1>3
<1>5. (n - 1) + 1 \in S
  BY <1>3, <1>4
<1>6. QED
  BY <1>2, <1>5

(* Induction up to a bound.                                                 *)
LEMMA UpTo ==
    ASSUME NEW N \in Nat, NEW S, 0 \in S,
           \A n \in 0 .. N - 1 : n \in S => n + 1 \in S
    PROVE  0 .. N \subseteq S
<1> DEFINE T == {n \in Nat : n <= N => n \in S}
<1>1. 0 \in T
  OBVIOUS
<1>2. ASSUME NEW n \in Nat, n \in T PROVE n + 1 \in T
  BY <1>2
<1>3. Nat \subseteq T
  <2> HIDE DEF T
  <2> QED
    BY <1>1, <1>2, SetInduction
<1>4. QED
  BY <1>3

-----------------------------------------------------------------------------
StrictOrder(S, R) ==
    /\ \A x \in S : <<x, x>> \notin R
    /\ \A x, y, z \in S : <<x, y>> \in R /\ <<y, z>> \in R => <<x, z>> \in R
    /\ \A x, y \in S : x # y => <<x, y>> \in R \/ <<y, x>> \in R

(* In a strict order every element of a finite set has a rank of its own,   *)
(* and every rank below the cardinality is one.                             *)
LEMMA Ranks ==
    ASSUME NEW S, IsFiniteSet(S), NEW R, StrictOrder(S, R)
    PROVE  /\ \A x \in S : RankIn(S, R, x) \in 0 .. Cardinality(S) - 1
           /\ \A x, y \in S : <<x, y>> \in R <=> RankIn(S, R, x) < RankIn(S, R, y)
           /\ \A n \in 1 .. Cardinality(S) : \E x \in S : RankIn(S, R, x) = n - 1
<1> DEFINE Before(x) == {y \in S : <<y, x>> \in R}
           N == Cardinality(S)
<1>1. N \in Nat
  BY FS_CardinalityType
<1>2. \A x \in S : IsFiniteSet(Before(x)) /\ Cardinality(Before(x)) \in Nat
  <2> SUFFICES ASSUME NEW x \in S PROVE IsFiniteSet(Before(x)) /\ Cardinality(Before(x)) \in Nat
    OBVIOUS
  <2>1. Before(x) \in SUBSET S
    OBVIOUS
  <2>2. QED
    BY <2>1, FS_Subset, FS_CardinalityType
<1>3. ASSUME NEW x \in S, NEW T \in SUBSET S, x \in T, Before(x) \subseteq T
      PROVE  Cardinality(Before(x)) + 1 <= Cardinality(T)
  <2>1. IsFiniteSet(T) /\ Cardinality(T) \in Nat
    BY FS_Subset, FS_CardinalityType
  <2>2. x \notin Before(x)
    BY DEF StrictOrder
  <2>3. Cardinality(Before(x) \cup {x}) = Cardinality(Before(x)) + 1
    BY <1>2, <2>2, FS_AddElement
  <2>4. Before(x) \cup {x} \in SUBSET T
    BY <1>3
  <2>5. Cardinality(Before(x) \cup {x}) <= Cardinality(T)
    BY <2>1, <2>4, FS_Subset
  <2>6. QED
    BY <2>3, <2>5
<1>4. ASSUME NEW x \in S PROVE RankIn(S, R, x) \in 0 .. N - 1
  <2>1. Cardinality(Before(x)) + 1 <= N
    BY <1>3
  <2>2. QED
    BY <1>1, <1>2, <2>1 DEF RankIn
<1>5. ASSUME NEW x \in S, NEW y \in S, <<x, y>> \in R
      PROVE  RankIn(S, R, x) < RankIn(S, R, y)
  <2>1. x \in Before(y) /\ Before(x) \subseteq Before(y)
    BY <1>5 DEF StrictOrder
  <2>2. Cardinality(Before(x)) + 1 <= Cardinality(Before(y))
    BY <1>3, <2>1
  <2>3. RankIn(S, R, x) = Cardinality(Before(x)) /\ RankIn(S, R, y) = Cardinality(Before(y))
    BY DEF RankIn
  <2> HIDE DEF Before
  <2>4. QED
    BY <1>2, <2>2, <2>3
<1>6. ASSUME NEW x \in S, NEW y \in S, RankIn(S, R, x) < RankIn(S, R, y)
      PROVE  <<x, y>> \in R
  <2>1. RankIn(S, R, x) \in Int /\ RankIn(S, R, y) \in Int
    BY <1>4
  <2>2. x # y
    BY <1>6, <2>1
  <2>3. CASE <<y, x>> \in R
    <3>1. RankIn(S, R, y) < RankIn(S, R, x)
      BY <1>5, <2>3
    <3>2. QED
      BY <1>6, <2>1, <3>1
  <2>4. QED
    BY <2>2, <2>3 DEF StrictOrder
<1>7. ASSUME NEW n \in 1 .. N
      PROVE  \E x \in S : RankIn(S, R, x) = n - 1
  <2> DEFINE rank == [x \in S |-> RankIn(S, R, x)]
             Below == 0 .. N - 1
  <2>1. IsFiniteSet(Below) /\ Cardinality(Below) = N
    <3>1. 0 \in Int /\ N - 1 \in Int
      BY <1>1
    <3>2. IsFiniteSet(0 .. N - 1)
          /\ Cardinality(0 .. N - 1) = IF 0 > N - 1 THEN 0 ELSE N - 1 - 0 + 1
      BY <3>1, FS_Interval
    <3>3. QED
      BY <1>1, <3>2
  <2>2. rank \in [S -> Below]
    BY <1>4
  <2>3. \A x, y \in S : rank[x] = rank[y] => x = y
    <3> SUFFICES ASSUME NEW x \in S, NEW y \in S, RankIn(S, R, x) = RankIn(S, R, y), x # y
                 PROVE  FALSE
      OBVIOUS
    <3>1. RankIn(S, R, x) < RankIn(S, R, y) \/ RankIn(S, R, y) < RankIn(S, R, x)
      BY <1>5 DEF StrictOrder
    <3>2. RankIn(S, R, x) \in Int
      BY <1>4
    <3>3. QED
      BY <3>1, <3>2
  <2>4. rank \in Injection(S, Below)
    BY <2>2, <2>3 DEF Injection, IsInjective
  <2>5. rank \in Surjection(S, Below)
    <3> HIDE DEF rank, Below
    <3> QED
      BY <2>1, <2>4, FS_Injection
  <2>6. n - 1 \in Below
    BY <1>1
  <2>7. \E x \in S : rank[x] = n - 1
    BY <2>5, <2>6 DEF Surjection
  <2>8. QED
    BY <2>7
<1>8. QED
  BY <1>4, <1>5, <1>6, <1>7

(* The n-th element: it enumerates the set in its order.                    *)
LEMMA NthInOrder ==
    ASSUME NEW S, IsFiniteSet(S), NEW R, StrictOrder(S, R)
    PROVE  /\ \A n \in 1 .. Cardinality(S) : NthIn(S, R, n) \in S
           /\ \A m, n \in 1 .. Cardinality(S) :
                m < n => <<NthIn(S, R, m), NthIn(S, R, n)>> \in R
           /\ \A x \in S : \E n \in 1 .. Cardinality(S) : NthIn(S, R, n) = x
<1> DEFINE N == Cardinality(S)
<1>1. N \in Nat
  BY FS_CardinalityType
<1>2. ASSUME NEW n \in 1 .. N
      PROVE  NthIn(S, R, n) \in S /\ RankIn(S, R, NthIn(S, R, n)) = n - 1
  <2>1. \E x \in S : RankIn(S, R, x) = n - 1
    BY Ranks
  <2>2. QED
    BY <2>1 DEF NthIn
<1>3. ASSUME NEW m \in 1 .. N, NEW n \in 1 .. N, m < n
      PROVE  <<NthIn(S, R, m), NthIn(S, R, n)>> \in R
  <2>1. RankIn(S, R, NthIn(S, R, m)) < RankIn(S, R, NthIn(S, R, n))
    BY <1>1, <1>2, <1>3
  <2>2. QED
    BY <1>2, <2>1, Ranks
<1>4. ASSUME NEW x \in S
      PROVE  \E n \in 1 .. N : NthIn(S, R, n) = x
  <2> DEFINE n == RankIn(S, R, x) + 1
  <2>1. n \in 1 .. N /\ n - 1 = RankIn(S, R, x)
    BY <1>1, Ranks
  <2>2. NthIn(S, R, n) \in S /\ RankIn(S, R, NthIn(S, R, n)) = RankIn(S, R, x)
    BY <1>2, <2>1
  <2>3. ~(<<NthIn(S, R, n), x>> \in R) /\ ~(<<x, NthIn(S, R, n)>> \in R)
    <3>1. RankIn(S, R, x) \in Int
      BY Ranks
    <3>2. QED
      BY <2>2, <3>1, Ranks
  <2>4. NthIn(S, R, n) = x
    BY <2>2, <2>3 DEF StrictOrder
  <2>5. QED
    BY <2>1, <2>4
<1>5. QED
  BY <1>2, <1>3, <1>4

(* The same of a finite set of numbers in their usual order.                *)
LEMMA NthFacts ==
    ASSUME NEW S \in SUBSET Int, IsFiniteSet(S)
    PROVE  /\ Cardinality(S) \in Nat
           /\ \A n \in 1 .. Cardinality(S) : Nth(S, n) \in S
           /\ \A m, n \in 1 .. Cardinality(S) : m < n => Nth(S, m) < Nth(S, n)
           /\ \A i \in S : \E n \in 1 .. Cardinality(S) : Nth(S, n) = i
<1> DEFINE R == {p \in S \X S : p[1] < p[2]}
<1>1. \A i, j \in S : <<i, j>> \in R <=> i < j
  OBVIOUS
<1>2. StrictOrder(S, R)
  BY <1>1 DEF StrictOrder
<1>3. \A i \in S : RankIn(S, R, i) = Cardinality({h \in S : h < i})
  <2> SUFFICES ASSUME NEW i \in S PROVE {y \in S : <<y, i>> \in R} = {h \in S : h < i}
    BY DEF RankIn
  <2>1. QED
    BY <1>1
<1>4. \A n : NthIn(S, R, n) = Nth(S, n)
  BY <1>3 DEF NthIn, Nth
<1> HIDE DEF R
<1>5. \A m, n \in 1 .. Cardinality(S) : m < n => Nth(S, m) < Nth(S, n)
  <2> SUFFICES ASSUME NEW m \in 1 .. Cardinality(S), NEW n \in 1 .. Cardinality(S), m < n
               PROVE  Nth(S, m) < Nth(S, n)
    OBVIOUS
  <2>1. /\ NthIn(S, R, m) \in S /\ NthIn(S, R, n) \in S
        /\ <<NthIn(S, R, m), NthIn(S, R, n)>> \in R
    BY <1>2, NthInOrder
  <2>2. QED
    BY <1>1, <1>4, <2>1
<1>6. QED
  BY <1>2, <1>4, <1>5, NthInOrder, FS_CardinalityType

(* Kept keeps the elements at the positions P, each once, in their order.   *)
LEMMA KeptFacts ==
    ASSUME NEW s, NEW len \in Nat, NEW P \in SUBSET (1 .. len)
    PROVE  /\ IsFiniteSet(P) /\ Cardinality(P) \in Nat /\ Cardinality(P) <= len
           /\ DOMAIN Kept(s, P) = 1 .. Cardinality(P) /\ Len(Kept(s, P)) = Cardinality(P)
           /\ \A n \in 1 .. Cardinality(P) : Nth(P, n) \in P /\ Kept(s, P)[n] = s[Nth(P, n)]
           /\ \A m, n \in 1 .. Cardinality(P) : m < n => Nth(P, m) < Nth(P, n)
           /\ \A i \in P : \E n \in 1 .. Cardinality(P) : Nth(P, n) = i
<1>1. IsFiniteSet(1 .. len) /\ Cardinality(1 .. len) = len
  <2>1. 1 \in Int /\ len \in Int
    OBVIOUS
  <2>2. IsFiniteSet(1 .. len)
        /\ Cardinality(1 .. len) = IF 1 > len THEN 0 ELSE len - 1 + 1
    BY <2>1, FS_Interval
  <2>3. QED
    BY <2>2
<1>2. IsFiniteSet(P) /\ Cardinality(P) <= len
  BY <1>1, FS_Subset
<1>3. P \in SUBSET Int
  OBVIOUS
<1>4. /\ Cardinality(P) \in Nat
      /\ \A n \in 1 .. Cardinality(P) : Nth(P, n) \in P
      /\ \A m, n \in 1 .. Cardinality(P) : m < n => Nth(P, m) < Nth(P, n)
      /\ \A i \in P : \E n \in 1 .. Cardinality(P) : Nth(P, n) = i
  BY <1>2, <1>3, NthFacts
<1>5. /\ DOMAIN Kept(s, P) = 1 .. Cardinality(P) /\ Len(Kept(s, P)) = Cardinality(P)
      /\ \A n \in 1 .. Cardinality(P) : Kept(s, P)[n] = s[Nth(P, n)]
  BY <1>4 DEF Kept
<1>6. QED
  BY <1>2, <1>4, <1>5

(* The p-th of the numbers in P, then of the rest of 1 .. n.                *)
SplitAt(P, n, p) ==
    IF p <= Cardinality(P) THEN Nth(P, p) ELSE Nth((1 .. n) \ P, p - Cardinality(P))

(* SplitAt goes through 1 .. n once: first P, then the rest.                *)
LEMMA Split ==
    ASSUME NEW n \in Nat, NEW P \in SUBSET (1 .. n)
    PROVE  /\ Cardinality(P) + Cardinality((1 .. n) \ P) = n
           /\ \A p \in 1 .. n : SplitAt(P, n, p) \in 1 .. n
           /\ \A p, q \in 1 .. n : p # q => SplitAt(P, n, p) # SplitAt(P, n, q)
           /\ \A i \in 1 .. n : \E p \in 1 .. n : SplitAt(P, n, p) = i
<1> DEFINE Q == (1 .. n) \ P
           l == Cardinality(P)
           m == Cardinality(Q)
           at(p) == SplitAt(P, n, p)
<1>1. /\ IsFiniteSet(P) /\ l \in Nat
      /\ \A p \in 1 .. l : Nth(P, p) \in P
      /\ \A p, q \in 1 .. l : p < q => Nth(P, p) < Nth(P, q)
      /\ \A i \in P : \E p \in 1 .. l : Nth(P, p) = i
  BY KeptFacts
<1>2. /\ IsFiniteSet(Q) /\ m \in Nat
      /\ \A p \in 1 .. m : Nth(Q, p) \in Q
      /\ \A p, q \in 1 .. m : p < q => Nth(Q, p) < Nth(Q, q)
      /\ \A i \in Q : \E p \in 1 .. m : Nth(Q, p) = i
  <2>1. Q \in SUBSET (1 .. n)
    OBVIOUS
  <2> HIDE DEF Q
  <2>2. QED
    BY <2>1, KeptFacts
<1>3. l + m = n
  <2>1. 1 \in Int /\ n \in Int
    OBVIOUS
  <2>2. IsFiniteSet(1 .. n) /\ Cardinality(1 .. n) = IF 1 > n THEN 0 ELSE n - 1 + 1
    BY <2>1, FS_Interval
  <2>3. P \cup Q = 1 .. n /\ P \cap Q = {}
    OBVIOUS
  <2> HIDE DEF Q
  <2>4. Cardinality(P \cup Q) = l + m - Cardinality(P \cap Q)
    BY <1>1, <1>2, FS_Union
  <2>5. Cardinality({}) = 0
    BY FS_EmptySet
  <2>9. Cardinality(1 .. n) = n
    BY <2>2
  <2>6. Cardinality(P \cup Q) = n /\ Cardinality(P \cap Q) = 0
    BY <2>9, <2>3, <2>5, Zenon
  <2>7. l \in Nat /\ m \in Nat
    BY <1>1, <1>2
  <2> HIDE DEF l, m
  <2>8. QED
    BY <2>4, <2>6, <2>7
<1>4. ASSUME NEW p \in 1 .. n
      PROVE  \/ p \in 1 .. l /\ at(p) = Nth(P, p) /\ at(p) \in P
             \/ p - l \in 1 .. m /\ at(p) = Nth(Q, p - l) /\ at(p) \in Q
  <2>1. CASE p <= l
    <3>1. p \in 1 .. l
      BY <1>1, <2>1
    <3>2. QED
      BY <1>1, <2>1, <3>1 DEF SplitAt
  <2>2. CASE ~(p <= l)
    <3> HIDE DEF l, m
    <3>1. p - l \in 1 .. m
      BY <1>1, <1>2, <1>3, <2>2
    <3>2. at(p) = Nth(Q, p - l)
      BY <2>2 DEF SplitAt, l
    <3>3. QED
      BY <1>2, <3>1, <3>2
  <2>3. QED
    BY <2>1, <2>2
<1>5. P \cap Q = {} /\ P \subseteq 1 .. n /\ Q \subseteq 1 .. n /\ (1 .. n) \subseteq P \cup Q
  OBVIOUS
<1>11. (\A i \in P : i \in Int) /\ (\A i \in Q : i \in Int)
  OBVIOUS
<1>6. ASSUME NEW p \in 1 .. n, NEW q \in 1 .. n, p < q
      PROVE  at(p) # at(q)
  <2> HIDE DEF Q, l, m, at
  <2>1. CASE p \in 1 .. l /\ q \in 1 .. l /\ at(p) = Nth(P, p) /\ at(q) = Nth(P, q)
    <3>1. Nth(P, p) < Nth(P, q) /\ Nth(P, p) \in P /\ Nth(P, q) \in P
      BY <1>1, <1>6, <2>1
    <3>2. Nth(P, p) \in Int /\ Nth(P, q) \in Int
      BY <1>11, <3>1
    <3>3. QED
      BY <2>1, <3>1, <3>2
  <2>2. CASE p - l \in 1 .. m /\ q - l \in 1 .. m /\ at(p) = Nth(Q, p - l) /\ at(q) = Nth(Q, q - l)
    <3> DEFINE x == p - l
               y == q - l
    <3>1. x < y
      <4>1. l \in Nat
        BY <1>1
      <4>2. QED
        BY <1>6, <4>1
    <3> HIDE DEF x, y
    <3>2. x \in 1 .. m /\ y \in 1 .. m /\ at(p) = Nth(Q, x) /\ at(q) = Nth(Q, y)
      BY <2>2 DEF x, y
    <3>3. Nth(Q, x) < Nth(Q, y) /\ Nth(Q, x) \in Q /\ Nth(Q, y) \in Q
      BY <1>2, <3>1, <3>2
    <3>4. Nth(Q, x) \in Int /\ Nth(Q, y) \in Int
      BY <1>11, <3>3
    <3>5. QED
      BY <3>2, <3>3, <3>4
  <2>3. CASE (at(p) \in P /\ at(q) \in Q) \/ (at(p) \in Q /\ at(q) \in P)
    BY <1>5, <2>3
  <2>4. QED
    BY <1>4, <2>1, <2>2, <2>3
<1>7. ASSUME NEW i \in 1 .. n PROVE \E p \in 1 .. n : at(p) = i
  <2> HIDE DEF Q, l, m
  <2>1. CASE i \in P
    <3>1. PICK p \in 1 .. l : Nth(P, p) = i
      BY <1>1, <2>1
    <3>2. p \in 1 .. n /\ p <= l
      BY <1>1, <1>2, <1>3, <3>1
    <3>3. QED
      BY <3>1, <3>2 DEF SplitAt, l
  <2>2. CASE i \in Q
    <3>1. PICK r \in 1 .. m : Nth(Q, r) = i
      BY <1>2, <2>2
    <3> DEFINE p == l + r
    <3>2. p \in 1 .. n /\ ~(p <= l) /\ p - l = r
      BY <1>1, <1>2, <1>3, <3>1
    <3> HIDE DEF p
    <3>3. at(p) = i
      BY <3>1, <3>2 DEF SplitAt, l, Q
    <3>4. QED
      BY <3>2, <3>3
  <2>3. QED
    BY <1>5, <2>1, <2>2
<1>8. \A p \in 1 .. n : at(p) \in 1 .. n
  BY <1>4, <1>5
<1>9. \A p, q \in 1 .. n : p # q => at(p) # at(q)
  <2> HIDE DEF at
  <2> SUFFICES ASSUME NEW p \in 1 .. n, NEW q \in 1 .. n, p # q PROVE at(p) # at(q)
    OBVIOUS
  <2>1. p < q \/ q < p
    OBVIOUS
  <2>2. QED
    BY <1>6, <2>1
<1>10. QED
  BY <1>3, <1>7, <1>8, <1>9

-----------------------------------------------------------------------------
(* Running sums: the recursive definition has the value it says.            *)
LEMMA SumsFacts ==
    ASSUME NEW len \in Nat, NEW h, Len(h) = len, \A n \in 1 .. len : h[n] \in Nat
    PROVE  /\ Sums(h)[0] = 0
           /\ \A n \in 1 .. len : Sums(h)[n] = Sums(h)[n - 1] + h[n]
           /\ \A n \in 0 .. len : Sums(h)[n] \in Nat
<1> DEFINE S == {m \in 0 .. len :
                    \E g : g = [n \in 0 .. m |-> IF n = 0 THEN 0 ELSE g[n - 1] + h[n]]}
<1>1. 0 \in S
  <2> DEFINE g == [n \in 0 .. 0 |-> 0]
  <2>1. g = [n \in 0 .. 0 |-> IF n = 0 THEN 0 ELSE g[n - 1] + h[n]]
    OBVIOUS
  <2> HIDE DEF g
  <2>2. \E x : x = [n \in 0 .. 0 |-> IF n = 0 THEN 0 ELSE x[n - 1] + h[n]]
    BY <2>1
  <2>3. QED
    BY <2>2
<1>2. ASSUME NEW m \in 0 .. len - 1, m \in S PROVE m + 1 \in S
  <2>1. PICK g : g = [n \in 0 .. m |-> IF n = 0 THEN 0 ELSE g[n - 1] + h[n]]
    BY <1>2
  <2> DEFINE f == [n \in 0 .. m + 1 |-> IF n = m + 1 THEN g[m] + h[m + 1] ELSE g[n]]
  <2>2. ASSUME NEW n \in 0 .. m + 1
        PROVE  f[n] = IF n = 0 THEN 0 ELSE f[n - 1] + h[n]
    <3>1. CASE n = m + 1
      <4>1. n # 0 /\ n - 1 = m /\ f[n - 1] = g[m] /\ f[n] = g[m] + h[n]
        BY <3>1
      <4>2. QED
        BY <4>1
    <3>2. CASE n # m + 1
      <4>1. n \in 0 .. m /\ f[n] = g[n]
        BY <3>2
      <4>2. g[n] = IF n = 0 THEN 0 ELSE g[n - 1] + h[n]
        BY <2>1, <4>1
      <4>3. n # 0 => f[n - 1] = g[n - 1]
        BY <4>1
      <4>4. QED
        BY <4>1, <4>2, <4>3
    <3>3. QED
      BY <3>1, <3>2
  <2>3. f = [n \in 0 .. m + 1 |-> IF n = 0 THEN 0 ELSE f[n - 1] + h[n]]
    <3>1. f = [n \in 0 .. m + 1 |-> f[n]]
      OBVIOUS
    <3> HIDE DEF f
    <3>2. QED
      BY <2>2, <3>1
  <2> HIDE DEF f
  <2>4. \E x : x = [n \in 0 .. m + 1 |-> IF n = 0 THEN 0 ELSE x[n - 1] + h[n]]
    BY <2>3
  <2>5. QED
    BY <2>4
<1>3. len \in S
  <2> HIDE DEF S
  <2>1. 0 .. len \subseteq S
    BY <1>1, <1>2, UpTo
  <2>2. QED
    BY <2>1
<1>4. \E g : g = [n \in 0 .. Len(h) |-> IF n = 0 THEN 0 ELSE g[n - 1] + h[n]]
  BY <1>3
<1>5. Sums(h) = [n \in 0 .. Len(h) |-> IF n = 0 THEN 0 ELSE Sums(h)[n - 1] + h[n]]
  BY <1>4 DEF Sums
<1>6. /\ Sums(h)[0] = 0
      /\ \A n \in 1 .. len : Sums(h)[n] = Sums(h)[n - 1] + h[n]
  BY <1>5
<1>7. \A n \in 0 .. len : Sums(h)[n] \in Nat
  <2> DEFINE T == {n \in 0 .. len : Sums(h)[n] \in Nat}
  <2>1. 0 \in T
    BY <1>6
  <2>2. ASSUME NEW n \in 0 .. len - 1, n \in T PROVE n + 1 \in T
    <3>1. n + 1 \in 1 .. len /\ (n + 1) - 1 = n /\ Sums(h)[n] \in Nat
      BY <2>2
    <3>2. Sums(h)[n + 1] = Sums(h)[n] + h[n + 1]
      BY <1>6, <3>1
    <3>3. QED
      BY <3>1, <3>2
  <2> HIDE DEF T
  <2>3. 0 .. len \subseteq T
    BY <2>1, <2>2, UpTo
  <2>4. QED
    BY <2>3 DEF T
<1>8. QED
  BY <1>6, <1>7

(* A set of numbers listed in its order is what Nth lists.                  *)
Lists(g, N, S) ==
    /\ \A n \in 1 .. N : g[n] \in S
    /\ \A m, n \in 1 .. N : m < n => g[m] < g[n]
    /\ \A i \in S : \E n \in 1 .. N : g[n] = i
(* Nth of a set that is listed in increasing order is the list.             *)
LEMMA NthIs ==
    ASSUME NEW S \in SUBSET Int, NEW N \in Nat, NEW g, Lists(g, N, S)
    PROVE  /\ IsFiniteSet(S) /\ Cardinality(S) = N
           /\ \A n \in 1 .. N : Nth(S, n) = g[n]
<1> DEFINE T(n) == {g[m] : m \in 1 .. n}
           G == {n \in 0 .. N : IsFiniteSet(T(n)) /\ Cardinality(T(n)) = n}
<1> USE DEF Lists
<1>0. \A n \in 1 .. N : g[n] \in Int
  OBVIOUS
<1>1. 0 \in G
  <2>1. T(0) = {}
    OBVIOUS
  <2>2. QED
    BY <2>1, FS_EmptySet
<1>2. ASSUME NEW n \in 0 .. N - 1, n \in G PROVE n + 1 \in G
  <2>1. T(n + 1) = T(n) \cup {g[n + 1]}
    <3>1. 1 .. n + 1 = (1 .. n) \cup {n + 1}
      OBVIOUS
    <3>2. QED
      BY <3>1
  <2>2. g[n + 1] \notin T(n)
    <3>1. \A m \in 1 .. n : m \in 1 .. N /\ n + 1 \in 1 .. N /\ m < n + 1
      OBVIOUS
    <3>2. \A m \in 1 .. n : g[m] \in Int /\ g[n + 1] \in Int /\ g[m] < g[n + 1]
      BY <1>0, <3>1
    <3>3. QED
      BY <3>2
  <2>3. IsFiniteSet(T(n)) /\ Cardinality(T(n)) = n
    BY <1>2
  <2> HIDE DEF T
  <2>4. IsFiniteSet(T(n + 1)) /\ Cardinality(T(n + 1)) = n + 1
    BY <2>1, <2>2, <2>3, FS_AddElement
  <2>5. QED
    BY <2>4
<1>3. \A n \in 0 .. N : IsFiniteSet(T(n)) /\ Cardinality(T(n)) = n
  <2> HIDE DEF G
  <2>1. 0 .. N \subseteq G
    BY <1>1, <1>2, UpTo
  <2>2. QED
    BY <2>1 DEF G
<1>4. S = T(N)
  OBVIOUS
<1>5. ASSUME NEW n \in 1 .. N PROVE {h \in S : h < g[n]} = T(n - 1)
  <2>1. ASSUME NEW m \in 1 .. N PROVE g[m] < g[n] <=> m \in 1 .. n - 1
    <3>1. m < n \/ m = n \/ n < m
      OBVIOUS
    <3>2. g[m] \in Int /\ g[n] \in Int
      BY <1>0
    <3>3. QED
      BY <3>1, <3>2
  <2>2. \A m \in 1 .. n - 1 : m \in 1 .. N
    OBVIOUS
  <2>3. ASSUME NEW h \in S, h < g[n] PROVE h \in T(n - 1)
    <3>1. PICK m \in 1 .. N : g[m] = h
      OBVIOUS
    <3>2. QED
      BY <2>1, <2>3, <3>1
  <2>4. ASSUME NEW m \in 1 .. n - 1 PROVE g[m] \in S /\ g[m] < g[n]
    BY <2>1, <2>2
  <2>5. QED
    BY <2>3, <2>4
<1>6. \A n \in 1 .. N : Cardinality({h \in S : h < g[n]}) = n - 1
  <2> SUFFICES ASSUME NEW n \in 1 .. N PROVE Cardinality({h \in S : h < g[n]}) = n - 1
    OBVIOUS
  <2>1. n - 1 \in 0 .. N
    OBVIOUS
  <2> HIDE DEF T
  <2>2. QED
    BY <1>3, <1>5, <2>1
<1>7. ASSUME NEW n \in 1 .. N PROVE Nth(S, n) = g[n]
  <2>1. ASSUME NEW i \in S, Cardinality({h \in S : h < i}) = n - 1 PROVE i = g[n]
    <3>1. PICK m \in 1 .. N : g[m] = i
      OBVIOUS
    <3>2. m - 1 = n - 1
      BY <1>6, <2>1, <3>1
    <3>3. QED
      BY <3>1, <3>2
  <2>2. g[n] \in S /\ Cardinality({h \in S : h < g[n]}) = n - 1
    BY <1>6
  <2>3. QED
    BY <2>1, <2>2 DEF Nth
<1>8. QED
  <2> HIDE DEF T
  <2>1. IsFiniteSet(S) /\ Cardinality(S) = N
    BY <1>3, <1>4
  <2>2. QED
    BY <1>7, <2>1

(* The pieces, when one knows where the separators are.                     *)
Separated(s, sep, e, N) ==
    /\ Len(s) \in Nat /\ e[0] = 0 /\ e[N + 1] = Len(s) + 1
    /\ \A n \in 0 .. N + 1 : e[n] \in Int
    /\ \A m, n \in 0 .. N + 1 : m < n => e[m] < e[n]
    /\ \A k \in 1 .. Len(s) : s[k] = sep <=> \E n \in 1 .. N : e[n] = k
(* Pieces are what lies between the separators.                             *)
LEMMA PiecesAre ==
    ASSUME NEW s, NEW sep, NEW N \in Nat, NEW e, Separated(s, sep, e, N)
    PROVE  Pieces(s, sep) = [n \in 1 .. N + 1 |-> SubSeq(s, e[n - 1] + 1, e[n] - 1)]
<1> DEFINE at == {k \in 1 .. Len(s) : s[k] = sep}
           ends == [n \in 0 .. Cardinality(at) + 1 |->
                    IF n = 0 THEN 0 ELSE IF n <= Cardinality(at) THEN Nth(at, n) ELSE Len(s) + 1]
<1>1. Pieces(s, sep) = [n \in 1 .. Cardinality(at) + 1 |-> SubSeq(s, ends[n - 1] + 1, ends[n] - 1)]
  BY DEF Pieces
<1>2. ASSUME NEW n \in 1 .. N PROVE e[n] \in at
  <2>1. e[0] < e[n] /\ e[n] < e[N + 1] /\ e[n] \in Int
    BY DEF Separated
  <2>2. e[n] \in 1 .. Len(s)
    BY <2>1 DEF Separated
  <2>3. QED
    BY <2>2 DEF Separated
<1>3. at \in SUBSET Int /\ \A i \in at : \E n \in 1 .. N : e[n] = i
  BY DEF Separated
<1>4. \A m, n \in 1 .. N : m < n => e[m] < e[n]
  BY DEF Separated
<1>5. Cardinality(at) = N /\ \A n \in 1 .. N : Nth(at, n) = e[n]
  <2>1. Lists(e, N, at)
    BY <1>2, <1>3, <1>4 DEF Lists
  <2>2. at \in SUBSET Int
    BY <1>3
  <2> HIDE DEF at, ends
  <2>3. QED
    BY <2>1, <2>2, NthIs
<1> HIDE DEF at
<1>6. ASSUME NEW n \in 0 .. N + 1 PROVE ends[n] = e[n]
  <2>1. n = 0 \/ n \in 1 .. N \/ n = N + 1
    OBVIOUS
  <2>2. QED
    BY <1>5, <2>1 DEF Separated
<1> HIDE DEF ends
<1>7. \A n \in 1 .. N + 1 : n - 1 \in 0 .. N + 1 /\ n \in 0 .. N + 1
  OBVIOUS
<1>8. QED
  BY <1>1, <1>5, <1>6, <1>7

(* There is a piece more than separators, and no separator in any.          *)
LEMMA PiecesFacts ==
    ASSUME NEW C, NEW s \in Seq(C), NEW sep
    PROVE  /\ Pieces(s, sep) \in Seq(Seq(C \ {sep})) /\ Len(Pieces(s, sep)) \in Nat \ {0}
<1> DEFINE len == Len(s)
           at == {k \in 1 .. Len(s) : s[k] = sep}
           N == Cardinality(at)
           ends == [n \in 0 .. N + 1 |-> IF n = 0 THEN 0 ELSE IF n <= N THEN Nth(at, n) ELSE Len(s) + 1]
<1>1. Pieces(s, sep) = [n \in 1 .. N + 1 |-> SubSeq(s, ends[n - 1] + 1, ends[n] - 1)]
  BY DEF Pieces
<1>2. len \in Nat /\ at \in SUBSET (1 .. len)
  OBVIOUS
<1>n. N \in Nat
  <2> HIDE DEF at, len
  <2>1. QED
    BY <1>2, KeptFacts
<1>3. /\ N \in Nat
      /\ \A n \in 1 .. N : Nth(at, n) \in at
      /\ \A m, n \in 1 .. N : m < n => Nth(at, m) < Nth(at, n)
      /\ \A i \in at : \E n \in 1 .. N : Nth(at, n) = i
  <2> HIDE DEF at, len
  <2>1. QED
    BY <1>2, KeptFacts
<1> HIDE DEF N
<1>4. /\ ends[0] = 0 /\ ends[N + 1] = len + 1
      /\ \A n \in 1 .. N : ends[n] = Nth(at, n) /\ ends[n] \in 1 .. len
  BY <1>2, <1>3
<1>5. \A n \in 0 .. N + 1 : ends[n] \in 0 .. len + 1
  <2> SUFFICES ASSUME NEW n \in 0 .. N + 1 PROVE ends[n] \in 0 .. len + 1
    OBVIOUS
  <2>1. n = 0 \/ n \in 1 .. N \/ n = N + 1
    BY <1>3
  <2> HIDE DEF ends, at, len
  <2>2. QED
    BY <1>2, <1>4, <2>1
<1>6. ASSUME NEW n \in 1 .. N + 1, NEW k \in ends[n - 1] + 1 .. ends[n] - 1
      PROVE  s[k] \in C \ {sep}
  <2> DEFINE a == ends[n - 1]
             b == ends[n]
  <2>1. n - 1 \in 0 .. N + 1 /\ n \in 0 .. N + 1
    BY <1>3
  <2>2. a \in 0 .. len + 1 /\ b \in 0 .. len + 1
    BY <1>5, <2>1
  <2>3. k \in 1 .. len /\ a < k /\ k < b
    BY <1>2, <2>2
  <2>4. ASSUME s[k] = sep PROVE FALSE
    <3>1. k \in at
      BY <2>3, <2>4
    <3>2. PICK m \in 1 .. N : Nth(at, m) = k
      BY <1>3, <3>1
    <3>3. ends[m] = k
      BY <1>4, <3>2
    <3>4. CASE m < n
      <4>1. n - 1 \in 1 .. N /\ (m = n - 1 \/ m < n - 1)
        BY <1>3, <3>4
      <4>2. a = Nth(at, n - 1)
        BY <1>4, <4>1
      <4> HIDE DEF a, b, ends, at, len
      <4>3. k = a \/ k < a
        BY <1>3, <3>2, <4>1, <4>2
      <4>4. QED
        BY <2>2, <2>3, <4>3
    <3>5. CASE m >= n
      <4>1. n \in 1 .. N /\ (m = n \/ n < m)
        BY <1>3, <3>5
      <4>2. b = Nth(at, n)
        BY <1>4, <4>1
      <4> HIDE DEF a, b, ends, at, len
      <4>3. k = b \/ b < k
        BY <1>3, <3>2, <4>1, <4>2
      <4>4. QED
        BY <2>2, <2>3, <4>3
    <3>6. QED
      BY <1>3, <3>4, <3>5
  <2>5. QED
    BY <2>3, <2>4
<1>7. ASSUME NEW n \in 1 .. N + 1
      PROVE  SubSeq(s, ends[n - 1] + 1, ends[n] - 1) \in Seq(C \ {sep})
  <2> DEFINE a == ends[n - 1] + 1
             b == ends[n] - 1
  <2>1. n - 1 \in 0 .. N + 1 /\ n \in 0 .. N + 1
    BY <1>3
  <2>2. a \in Int /\ b \in Int
    <3>1. ends[n - 1] \in 0 .. len + 1 /\ ends[n] \in 0 .. len + 1 /\ len \in Nat
      BY <1>2, <1>5, <2>1
    <3> HIDE DEF ends, len
    <3>2. QED
      BY <3>1
  <2>3. \A k \in a .. b : s[k] \in C \ {sep}
    <3> HIDE DEF ends, at, len
    <3>1. QED
      BY <1>6
  <2> HIDE DEF a, b
  <2>4. SubSeq(s, a, b) \in Seq(C \ {sep})
    BY <2>2, <2>3, SubSeqProperties
  <2>5. QED
    BY <2>4 DEF a, b
<1> HIDE DEF ends
<1>8. N + 1 \in Nat \ {0}
  BY <1>n
<1>9. QED
  <2> DEFINE M == N + 1
             p(n) == SubSeq(s, ends[n - 1] + 1, ends[n] - 1)
  <2>1. /\ Pieces(s, sep) = [n \in 1 .. M |-> p(n)] /\ M \in Nat \ {0}
        /\ \A n \in 1 .. M : p(n) \in Seq(C \ {sep})
    BY <1>1, <1>7, <1>8
  <2> HIDE DEF M, p
  <2>2. QED
    BY <2>1
=============================================================================
