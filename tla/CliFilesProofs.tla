--------------------------- MODULE CliFilesProofs ---------------------------
(* Theorems about the files of cri-cpk-cli: where entries are written and   *)
(* found again (CliPaths), and the text of the manifest (ManifestFile).     *)
EXTENDS CliPaths, ManifestFile, SelectionProofs

(* ------------------------- sequences of sequences ----------------------- *)

(* Where each of the sequences ends in the flat one.                        *)
EndsOf(q) == Sums([i \in 1 .. Len(q) |-> Len(q[i])])

(* Where the pieces of a sequence of sequences end.                         *)
LEMMA EndsFacts ==
    ASSUME NEW C, NEW q \in Seq(Seq(C))
    PROVE  /\ Len(q) \in Nat /\ EndsOf(q)[0] = 0
           /\ \A i \in 1 .. Len(q) : EndsOf(q)[i] = EndsOf(q)[i - 1] + Len(q[i])
           /\ \A i \in 0 .. Len(q) : EndsOf(q)[i] \in Nat
<1> DEFINE h == [i \in 1 .. Len(q) |-> Len(q[i])]
           N == Len(q)
<1>1. N \in Nat /\ Len(h) = N /\ \A i \in 1 .. N : h[i] \in Nat /\ h[i] = Len(q[i])
  OBVIOUS
<1>2. EndsOf(q) = Sums(h)
  BY DEF EndsOf
<1> HIDE DEF h, N
<1>3. /\ Sums(h)[0] = 0 /\ \A n \in 1 .. N : Sums(h)[n] = Sums(h)[n - 1] + h[n]
      /\ \A n \in 0 .. N : Sums(h)[n] \in Nat
  BY <1>1, SumsFacts
<1>4. QED
  BY <1>1, <1>2, <1>3 DEF N

(* FlattenSeq puts the sequences one after the other.                       *)
Flat(q, f) ==
    /\ Len(f) = EndsOf(q)[Len(q)]
    /\ \A i \in 1 .. Len(q) : \A m \in 1 .. Len(q[i]) : f[EndsOf(q)[i - 1] + m] = q[i][m]
    /\ \A k \in 1 .. EndsOf(q)[Len(q)] :
        \E i \in 1 .. Len(q) : \E m \in 1 .. Len(q[i]) : k = EndsOf(q)[i - 1] + m

(* The recursive function in FlattenSeq is one.                             *)
LEMMA FlattenStep ==
    ASSUME NEW q, NEW N \in Nat \ {0}, Len(q) = N
    PROVE  \E f : /\ FlattenSeq(q) = f[N] /\ f[1] = q[1]
                  /\ \A i \in 1 .. N - 1 : f[i + 1] = f[i] \o q[i + 1]
<1> DEFINE Good(m, g) == g = [n \in 1 .. m |-> IF n = 1 THEN q[n] ELSE g[n - 1] \o q[n]]
           S == {m \in 0 .. N : \E g : Good(m, g)}
<1>1. 0 \in S
  <2> DEFINE g == [n \in 1 .. 0 |-> q[n]]
  <2>1. g = [n \in 1 .. 0 |-> IF n = 1 THEN q[n] ELSE g[n - 1] \o q[n]]
    OBVIOUS
  <2> HIDE DEF g
  <2>2. Good(0, g)
    BY <2>1
  <2> HIDE DEF Good
  <2>3. QED
    BY <2>2
<1>2. ASSUME NEW m \in 0 .. N - 1, m \in S PROVE m + 1 \in S
  <2>0. PICK g : Good(m, g)
    <3> HIDE DEF Good
    <3>1. QED
      BY <1>2
  <2>1. g = [n \in 1 .. m |-> IF n = 1 THEN q[n] ELSE g[n - 1] \o q[n]]
    BY <2>0
  <2> DEFINE f == [n \in 1 .. m + 1 |->
                    IF n = m + 1 THEN (IF n = 1 THEN q[n] ELSE g[m] \o q[m + 1]) ELSE g[n]]
  <2>2. ASSUME NEW n \in 1 .. m + 1
        PROVE  f[n] = IF n = 1 THEN q[n] ELSE f[n - 1] \o q[n]
    <3>1. CASE n = m + 1
      <4>1. n # 1 => n - 1 = m /\ m \in 1 .. m + 1 /\ m # m + 1
        BY <3>1
      <4>2. n # 1 => f[n - 1] = g[m] /\ f[n] = g[m] \o q[n]
        BY <3>1, <4>1
      <4>3. n = 1 => f[n] = q[n]
        BY <3>1
      <4> HIDE DEF f
      <4>4. QED
        BY <4>2, <4>3
    <3>2. CASE n # m + 1
      <4>1. n \in 1 .. m /\ f[n] = g[n]
        BY <3>2
      <4>2. g[n] = IF n = 1 THEN q[n] ELSE g[n - 1] \o q[n]
        BY <2>1, <4>1
      <4>3. n # 1 => f[n - 1] = g[n - 1]
        BY <4>1
      <4> HIDE DEF f
      <4>4. QED
        BY <4>1, <4>2, <4>3
    <3>3. QED
      BY <3>1, <3>2
  <2>3. f = [n \in 1 .. m + 1 |-> IF n = 1 THEN q[n] ELSE f[n - 1] \o q[n]]
    <3>1. f = [n \in 1 .. m + 1 |-> f[n]]
      OBVIOUS
    <3> HIDE DEF f
    <3>2. QED
      BY <2>2, <3>1
  <2> HIDE DEF f
  <2>4. Good(m + 1, f)
    BY <2>3
  <2> HIDE DEF Good
  <2>5. m + 1 \in 0 .. N
    OBVIOUS
  <2>6. QED
    BY <2>4, <2>5
<1>3. N \in S
  <2> HIDE DEF S
  <2>1. 0 .. N \subseteq S
    BY <1>1, <1>2, UpTo
  <2>2. QED
    BY <2>1
<1> DEFINE flatten == CHOOSE g : g = [n \in 1 .. Len(q) |-> IF n = 1 THEN q[n] ELSE g[n - 1] \o q[n]]
<1>5. FlattenSeq(q) = flatten[N]
  BY DEF FlattenSeq
<1>4. Good(N, flatten)
  <2>1. \E g : Good(N, g)
    <3> HIDE DEF Good
    <3>1. QED
      BY <1>3
  <2>2. flatten = CHOOSE g : Good(N, g)
    OBVIOUS
  <2> HIDE DEF Good, flatten
  <2>3. QED
    BY <2>1, <2>2
<1> HIDE DEF flatten
<1>6. ASSUME NEW n \in 1 .. N
      PROVE  flatten[n] = IF n = 1 THEN q[n] ELSE flatten[n - 1] \o q[n]
  BY <1>4
<1>7. flatten[1] = q[1]
  BY <1>6
<1>8. ASSUME NEW i \in 1 .. N - 1 PROVE flatten[i + 1] = flatten[i] \o q[i + 1]
  <2>1. i + 1 \in 1 .. N /\ i + 1 # 1 /\ (i + 1) - 1 = i
    OBVIOUS
  <2>2. QED
    BY <1>6, <2>1
<1>9. QED
  BY <1>5, <1>7, <1>8

(* A concatenation has its first part's elements, then its second's.        *)
LEMMA TwoParts ==
    ASSUME NEW C, NEW x \in Seq(C), NEW y \in Seq(C)
    PROVE  /\ x \o y \in Seq(C) /\ Len(x \o y) = Len(x) + Len(y) /\ Len(x) \in Nat /\ Len(y) \in Nat
           /\ \A k \in 1 .. Len(x) : (x \o y)[k] = x[k]
           /\ \A k \in 1 .. Len(y) : (x \o y)[Len(x) + k] = y[k]
<1> DEFINE z == x \o y
           a == Len(x)
<1>0. z \in Seq(C) /\ Len(z) = Len(x) + Len(y)
      /\ \A i \in 1 .. Len(x) + Len(y) : z[i] = IF i <= Len(x) THEN x[i] ELSE y[i - Len(x)]
  BY ConcatProperties
<1>x. a \in Nat /\ Len(y) \in Nat
  OBVIOUS
<1> HIDE DEF z
<1>1. /\ z \in Seq(C) /\ Len(z) = a + Len(y) /\ a \in Nat /\ Len(y) \in Nat
      /\ \A k \in 1 .. a + Len(y) : z[k] = IF k <= a THEN x[k] ELSE y[k - a]
  BY <1>0, <1>x
<1> HIDE DEF a
<1>2. ASSUME NEW k \in 1 .. a PROVE z[k] = x[k]
  <2>1. k \in 1 .. a + Len(y) /\ k <= a
    BY <1>1
  <2>2. QED
    BY <1>1, <2>1
<1>3. ASSUME NEW k \in 1 .. Len(y) PROVE z[a + k] = y[k]
  <2>1. a + k \in 1 .. a + Len(y) /\ ~(a + k <= a) /\ (a + k) - a = k
    BY <1>1
  <2>2. QED
    BY <1>1, <2>1
<1>4. QED
  BY <1>1, <1>2, <1>3 DEF z, a

(* FlattenSeq lays its pieces one after the other.                          *)
LEMMA FlatFacts ==
    ASSUME NEW C, NEW q \in Seq(Seq(C))
    PROVE  FlattenSeq(q) \in Seq(C) /\ Flat(q, FlattenSeq(q))
<1> DEFINE N == Len(q)
           E == EndsOf(q)
<1>1. /\ N \in Nat /\ E[0] = 0 /\ \A i \in 1 .. N : E[i] = E[i - 1] + Len(q[i])
      /\ \A i \in 0 .. N : E[i] \in Nat
  BY EndsFacts
<1>2. CASE N = 0
  <2>1. FlattenSeq(q) = <<>>
    BY <1>2 DEF FlattenSeq
  <2>2. QED
    BY <1>1, <1>2, <2>1 DEF Flat
<1>3. CASE N # 0
  <2>1. PICK f : /\ FlattenSeq(q) = f[N] /\ f[1] = q[1]
                 /\ \A i \in 1 .. N - 1 : f[i + 1] = f[i] \o q[i + 1]
    <3>1. N \in Nat \ {0}
      BY <1>1, <1>3
    <3>2. QED
      BY <3>1, FlattenStep
  <2> DEFINE In(i, k) == \E j \in 1 .. i : \E m \in 1 .. Len(q[j]) : k = E[j - 1] + m
             Part(i) == /\ f[i] \in Seq(C) /\ Len(f[i]) = E[i]
                        /\ \A j \in 1 .. i : \A m \in 1 .. Len(q[j]) :
                            E[j - 1] + m <= E[i] /\ f[i][E[j - 1] + m] = q[j][m]
                        /\ \A k \in 1 .. E[i] : In(i, k)
             G == {i \in 0 .. N - 1 : Part(i + 1)}
  <2>2. \A i \in 1 .. N : q[i] \in Seq(C) /\ Len(q[i]) \in Nat
    OBVIOUS
  <2>3. 0 \in G
    <3>1. 1 \in 1 .. N /\ q[1] \in Seq(C) /\ E[1] = Len(q[1]) /\ E[0] = 0 /\ f[1] = q[1]
          /\ N - 1 \in Nat
      BY <1>1, <1>3, <2>1, <2>2
    <3>2. ASSUME NEW k \in 1 .. E[1] PROVE In(1, k)
      <4>1. k \in 1 .. Len(q[1]) /\ k = E[1 - 1] + k
        BY <3>1
      <4>2. QED
        BY <4>1
    <3>3. \A j \in 1 .. 1 : \A m \in 1 .. Len(q[j]) :
             E[j - 1] + m <= E[1] /\ f[1][E[j - 1] + m] = q[j][m]
      BY <3>1
    <3>4. Part(1)
      <4> HIDE DEF In
      <4>1. QED
        BY <3>1, <3>2, <3>3
    <3> HIDE DEF Part
    <3>5. QED
      BY <3>1, <3>4
  <2>4. ASSUME NEW n \in 0 .. (N - 1) - 1, n \in G PROVE n + 1 \in G
    <3> DEFINE i == n + 1
               x == f[i]
               y == q[i + 1]
               z == f[i + 1]
    <3>1. i \in 1 .. N - 1 /\ i \in 1 .. N /\ i + 1 \in 1 .. N /\ (i + 1) - 1 = i /\ i \in 0 .. N
          /\ n + 1 \in 0 .. N - 1 /\ i \in Nat
      BY <1>1
    <3>2. Part(i)
      <4> HIDE DEF Part
      <4>1. QED
        BY <2>4
    <3>3. x \in Seq(C) /\ Len(x) = E[i] /\ y \in Seq(C) /\ z = x \o y /\ E[i + 1] = E[i] + Len(y)
          /\ E[i] \in Nat /\ Len(y) \in Nat
      BY <1>1, <2>1, <2>2, <3>1, <3>2
    <3>4. z \in Seq(C) /\ Len(z) = E[i + 1]
          /\ (\A k \in 1 .. E[i] : z[k] = x[k]) /\ \A k \in 1 .. Len(y) : z[E[i] + k] = y[k]
      <4> DEFINE a == E[i]
      <4>0. x \in Seq(C) /\ y \in Seq(C)
        BY <3>3
      <4>1. Len(x) = a /\ z = x \o y
        BY <3>3
      <4> HIDE DEF x, y, z, a
      <4>t. /\ x \o y \in Seq(C) /\ Len(x \o y) = Len(x) + Len(y)
            /\ \A k \in 1 .. Len(x) : (x \o y)[k] = x[k]
            /\ \A k \in 1 .. Len(y) : (x \o y)[Len(x) + k] = y[k]
        BY <4>0, TwoParts
      <4>2. /\ z \in Seq(C) /\ Len(z) = a + Len(y)
            /\ (\A k \in 1 .. a : z[k] = x[k]) /\ \A k \in 1 .. Len(y) : z[a + k] = y[k]
        BY <4>1, <4>t
      <4>3. Len(z) = E[i + 1]
        BY <3>3, <4>2 DEF a
      <4>4. QED
        BY <4>2, <4>3 DEF a
    <3>n. E[i + 1] = E[i] + Len(y) /\ E[i] \in Nat /\ Len(y) \in Nat
      BY <3>3
    <3>5. ASSUME NEW j \in 1 .. i + 1, NEW m \in 1 .. Len(q[j])
          PROVE  E[j - 1] + m <= E[i + 1] /\ z[E[j - 1] + m] = q[j][m]
      <4>1. j \in 1 .. N /\ j - 1 \in 0 .. N /\ Len(q[j]) \in Nat
        BY <2>2, <3>1
      <4>2. E[j - 1] \in Nat
        BY <1>1, <4>1
      <4>3. CASE j = i + 1
        <5>1. j - 1 = i /\ q[j] = y /\ m \in 1 .. Len(y)
          BY <3>1, <4>3
        <5>2. z[E[i] + m] = y[m] /\ m \in Nat /\ m <= Len(y)
          BY <3>4, <3>n, <5>1
        <5> DEFINE a == E[i]
                   b == E[i + 1]
                   l == Len(y)
        <5>3. b = a + l /\ a \in Nat /\ l \in Nat /\ m <= l /\ m \in Nat
          BY <3>n, <5>2
        <5>4. a + m <= b
          <6> HIDE DEF a, b, l
          <6>1. QED
            BY <5>3
        <5> HIDE DEF E, y, z
        <5>5. QED
          BY <5>1, <5>2, <5>4
      <4>4. CASE j # i + 1
        <5>1. j \in 1 .. i
          BY <3>1, <4>4
        <5>2. E[j - 1] + m <= E[i] /\ x[E[j - 1] + m] = q[j][m]
          BY <3>2, <5>1
        <5>3. E[j - 1] + m \in 1 .. E[i] /\ E[j - 1] + m <= E[i + 1]
          <6> DEFINE a == E[i]
                     b == E[i + 1]
                     l == Len(y)
                     e == E[j - 1]
          <6>1. b = a + l /\ a \in Nat /\ l \in Nat /\ e + m <= a /\ m \in Nat \ {0} /\ e \in Nat
            BY <3>n, <4>1, <4>2, <5>2
          <6>2. e + m \in 1 .. a /\ e + m <= b
            <7> HIDE DEF a, b, l, e
            <7>1. QED
              BY <6>1
          <6>3. QED
            BY <6>2
        <5> HIDE DEF E, x, y, z, i
        <5>4. QED
          BY <3>4, <5>2, <5>3
      <4>5. QED
        BY <4>3, <4>4
    <3>6. ASSUME NEW k \in 1 .. E[i + 1] PROVE In(i + 1, k)
      <4>1. CASE k <= E[i]
        <5>1. k \in 1 .. E[i]
          BY <3>3, <4>1
        <5>2. PICK j \in 1 .. i : \E m \in 1 .. Len(q[j]) : k = E[j - 1] + m
          BY <3>2, <5>1
        <5>3. j \in 1 .. i + 1
          BY <3>1
        <5>4. QED
          BY <5>2, <5>3
      <4>2. CASE k > E[i]
        <5> DEFINE m == k - E[i]
        <5>1. m \in 1 .. Len(y) /\ k = E[i] + m
          <6> DEFINE a == E[i]
                     b == E[i + 1]
                     l == Len(y)
          <6>1. b = a + l /\ a \in Nat /\ l \in Nat /\ k \in 1 .. b /\ k > a /\ m = k - a
            BY <3>n, <4>2
          <6>2. m \in 1 .. l /\ k = a + m
            <7> HIDE DEF a, b, l, m
            <7>1. QED
              BY <6>1
          <6>3. QED
            BY <6>2
        <5> HIDE DEF m
        <5>2. m \in 1 .. Len(q[i + 1]) /\ k = E[(i + 1) - 1] + m /\ i + 1 \in 1 .. i + 1
          BY <3>1, <5>1
        <5>3. QED
          BY <5>2
      <4>3. QED
        BY <3>3, <4>1, <4>2
    <3>7. Part(i + 1)
      <4> HIDE DEF In, E, i
      <4>1. QED
        BY <3>4, <3>5, <3>6
    <3> HIDE DEF Part
    <3>8. QED
      BY <3>1, <3>7
  <2>5. N - 1 \in G
    <3> HIDE DEF G
    <3>1. N - 1 \in Nat
      BY <1>1, <1>3
    <3>2. 0 .. N - 1 \subseteq G
      BY <2>3, <2>4, <3>1, UpTo
    <3>3. \A x \in Nat : x \in 0 .. x
      OBVIOUS
    <3>4. N - 1 \in 0 .. N - 1
      BY <3>1, <3>3
    <3> HIDE DEF N
    <3>5. QED
      BY <3>2, <3>4
  <2>6. Part(N)
    <3>1. (N - 1) + 1 = N
      BY <1>1
    <3> HIDE DEF Part
    <3>2. QED
      BY <2>5, <3>1
  <2>7. QED
    BY <2>1, <2>6 DEF Flat
<1>4. QED
  BY <1>2, <1>3

(* ----------------- sequences with separators between them --------------- *)

(* Where the separators are, and the end, when the pieces are p.            *)
Bounds(p) == Sums([i \in 1 .. Len(p) |-> Len(p[i]) + 1])

Laid(f, sep, p) ==
    /\ Len(f) + 1 = Bounds(p)[Len(p)]
    /\ \A n \in 1 .. Len(p) - 1 : f[Bounds(p)[n]] = sep
    /\ \A n \in 1 .. Len(p) : \A m \in 1 .. Len(p[n]) : f[Bounds(p)[n - 1] + m] = p[n][m]

(* Where separators stand when one follows each piece; every place before   *)
(* one is a separator's or within a piece.                                  *)
LEMMA BoundsFacts ==
    ASSUME NEW C, NEW p \in Seq(Seq(C))
    PROVE  /\ Len(p) \in Nat /\ Bounds(p)[0] = 0
           /\ \A i \in 1 .. Len(p) : Len(p[i]) \in Nat
                                     /\ Bounds(p)[i] = Bounds(p)[i - 1] + Len(p[i]) + 1
           /\ \A i \in 0 .. Len(p) : Bounds(p)[i] \in Nat
           /\ \A m, n \in 0 .. Len(p) : m < n => Bounds(p)[m] < Bounds(p)[n]
           /\ \A n \in 0 .. Len(p) : \A k \in 1 .. Bounds(p)[n] :
                \E i \in 1 .. n : k = Bounds(p)[i]
                                  \/ \E m \in 1 .. Len(p[i]) : k = Bounds(p)[i - 1] + m
<1> DEFINE h == [i \in 1 .. Len(p) |-> Len(p[i]) + 1]
           N == Len(p)
           e == Bounds(p)
<1>1. N \in Nat /\ Len(h) = N /\ \A i \in 1 .. N : h[i] \in Nat /\ h[i] = Len(p[i]) + 1 /\ Len(p[i]) \in Nat
  OBVIOUS
<1>2. e = Sums(h)
  BY DEF Bounds
<1> HIDE DEF h, N, e
<1>3. /\ e[0] = 0 /\ \A n \in 1 .. N : e[n] = e[n - 1] + h[n]
      /\ \A n \in 0 .. N : e[n] \in Nat
  BY <1>1, <1>2, SumsFacts
<1>4. \A n \in 1 .. N : Len(p[n]) \in Nat /\ e[n] = e[n - 1] + Len(p[n]) + 1
  <2> SUFFICES ASSUME NEW n \in 1 .. N PROVE Len(p[n]) \in Nat /\ e[n] = e[n - 1] + Len(p[n]) + 1
    OBVIOUS
  <2>1. n - 1 \in 0 .. N
    BY <1>1
  <2>2. e[n - 1] \in Nat /\ e[n] = e[n - 1] + h[n] /\ h[n] = Len(p[n]) + 1 /\ Len(p[n]) \in Nat
    BY <1>1, <1>3, <2>1
  <2>3. QED
    BY <2>2, SMTT(30)
<1>n. N \in Nat
  BY <1>1
<1>5. ASSUME NEW n \in 0 .. N - 1 PROVE /\ n + 1 \in 1 .. N /\ n \in 0 .. N /\ e[n] \in Nat
                                        /\ e[n + 1] \in Nat /\ Len(p[n + 1]) \in Nat
                                        /\ e[n + 1] = e[n] + Len(p[n + 1]) + 1
  <2>1. n + 1 \in 1 .. N /\ n \in 0 .. N /\ n + 1 \in 0 .. N /\ (n + 1) - 1 = n
    BY <1>n
  <2>2. QED
    BY <1>3, <1>4, <2>1
<1>6. ASSUME NEW m \in 0 .. N, NEW n \in 0 .. N, m < n PROVE e[m] < e[n]
  <2> DEFINE S == {k \in 0 .. N : m < k => e[m] < e[k]}
  <2>1. 0 \in S
    BY <1>n
  <2>2. ASSUME NEW k \in 0 .. N - 1, k \in S PROVE k + 1 \in S
    <3>a. k + 1 \in 0 .. N
      BY <1>n
    <3>b. e[m] \in Nat
      BY <1>3
    <3>c. e[k] \in Nat /\ e[k + 1] \in Nat /\ Len(p[k + 1]) \in Nat /\ e[k + 1] = e[k] + Len(p[k + 1]) + 1
      BY <1>5
    <3>1. k + 1 \in 0 .. N /\ e[k] < e[k + 1] /\ e[k] \in Nat /\ e[k + 1] \in Nat /\ e[m] \in Nat
      BY <3>a, <3>b, <3>c, SMTT(30)
    <3>2. m < k + 1 => m = k \/ m < k
      OBVIOUS
    <3>3. m < k => e[m] < e[k]
      BY <2>2
    <3>4. m < k + 1 => e[m] < e[k + 1]
      BY <3>1, <3>2, <3>3
    <3>5. QED
      BY <3>1, <3>4
  <2> HIDE DEF S
  <2>3. 0 .. N \subseteq S
    BY <1>n, <2>1, <2>2, UpTo
  <2>4. QED
    BY <1>6, <2>3 DEF S
<1> DEFINE Found(k, n) == \E i \in 1 .. n : k = e[i] \/ \E m \in 1 .. Len(p[i]) : k = e[i - 1] + m
           S == {n \in 0 .. N : \A k \in 1 .. e[n] : Found(k, n)}
<1>7. 0 \in S
  BY <1>n, <1>3
<1>8. ASSUME NEW n \in 0 .. N - 1, n \in S PROVE n + 1 \in S
  <2>1. ASSUME NEW k \in 1 .. e[n + 1] PROVE Found(k, n + 1)
    <3> DEFINE a == e[n]
               b == e[n + 1]
               l == Len(p[n + 1])
    <3>1. a \in Nat /\ b = a + l + 1 /\ l \in Nat /\ k \in 1 .. b
      BY <1>5
    <3> HIDE DEF a, b, l
    <3>2. k \in 1 .. a \/ k = b \/ k - a \in 1 .. l
      BY <3>1
    <3>3. k = a + (k - a) /\ k \in Int
      BY <3>1
    <3>4. CASE k \in 1 .. a
      <4>1. Found(k, n)
        BY <1>8, <3>4 DEF a
      <4>2. \A i \in 1 .. n : i \in 1 .. n + 1
        OBVIOUS
      <4>3. QED
        BY <4>1, <4>2
    <3>5. CASE k = b
      <4>1. n + 1 \in 1 .. n + 1
        OBVIOUS
      <4>2. QED
        BY <3>5, <4>1 DEF b
    <3>6. CASE k - a \in 1 .. l
      <4> DEFINE m == k - a
      <4>1. n + 1 \in 1 .. n + 1 /\ (n + 1) - 1 = n
        OBVIOUS
      <4>2. m \in 1 .. Len(p[n + 1]) /\ k = e[(n + 1) - 1] + m
        BY <3>3, <3>6, <4>1 DEF a, l
      <4> HIDE DEF m
      <4>3. QED
        BY <4>1, <4>2
    <3>7. QED
      BY <3>2, <3>4, <3>5, <3>6
  <2> HIDE DEF Found
  <2>2. n + 1 \in 0 .. N
    BY <1>n
  <2>3. QED
    BY <2>1, <2>2
<1>9. \A n \in 0 .. N : \A k \in 1 .. e[n] : Found(k, n)
  <2> HIDE DEF S
  <2>1. 0 .. N \subseteq S
    BY <1>n, <1>7, <1>8, UpTo
  <2> HIDE DEF Found
  <2>2. QED
    BY <2>1 DEF S
<1>10. QED
  BY <1>n, <1>3, <1>4, <1>6, <1>9 DEF N, e

(* What was laid out with separators is taken apart at them.                *)
LEMMA PiecesLaid ==
    ASSUME NEW C, NEW sep, NEW p \in Seq(Seq(C \ {sep})), Len(p) # 0, NEW f, Len(f) \in Nat,
           Laid(f, sep, p)
    PROVE  Pieces(f, sep) = p
<1> DEFINE e == Bounds(p)
           N == Len(p) - 1
           P == Len(p)
<1>1. /\ P \in Nat /\ e[0] = 0
      /\ \A i \in 1 .. P : Len(p[i]) \in Nat /\ e[i] = e[i - 1] + Len(p[i]) + 1
      /\ \A i \in 0 .. P : e[i] \in Nat
      /\ \A m, n \in 0 .. P : m < n => e[m] < e[n]
      /\ \A n \in 0 .. P : \A k \in 1 .. e[n] :
            \E i \in 1 .. n : k = e[i] \/ \E m \in 1 .. Len(p[i]) : k = e[i - 1] + m
  BY BoundsFacts
<1>2. N \in Nat /\ N + 1 = P /\ P \in Nat \ {0}
  BY <1>1
<1>3. /\ Len(f) + 1 = e[P] /\ \A n \in 1 .. N : f[e[n]] = sep
      /\ \A n \in 1 .. P : \A m \in 1 .. Len(p[n]) : f[e[n - 1] + m] = p[n][m]
  BY DEF Laid
<1>4. \A n \in 1 .. P : \A m \in 1 .. Len(p[n]) : p[n][m] # sep
  OBVIOUS
<1>5. p = [n \in 1 .. P |-> p[n]] /\ \A n \in 1 .. P : p[n] \in Seq(C \ {sep})
  OBVIOUS
<1> HIDE DEF e, N, P
<1>6. ASSUME NEW k \in 1 .. Len(f) PROVE f[k] = sep <=> \E n \in 1 .. N : e[n] = k
  <2>1. k \in 1 .. e[P] /\ k # e[P] /\ k \in Nat
    BY <1>3
  <2>2. ASSUME NEW n \in 1 .. N, e[n] = k PROVE f[k] = sep
    BY <1>3, <2>2
  <2>3. ASSUME f[k] = sep PROVE \E n \in 1 .. N : e[n] = k
    <3>1. P \in 0 .. P
      BY <1>2
    <3>2. PICK i \in 1 .. P : k = e[i] \/ \E m \in 1 .. Len(p[i]) : k = e[i - 1] + m
      BY <1>1, <2>1, <3>1
    <3>3. k = e[i]
      BY <1>3, <1>4, <2>3, <3>2, SMTT(30)
    <3>4. i # P
      BY <2>1, <3>3
    <3>5. i \in 1 .. N
      BY <1>2, <3>4
    <3>6. QED
      BY <3>3, <3>5
  <2>4. QED
    BY <2>2, <2>3
<1>7. Separated(f, sep, e, N)
  <2>1. e[0] = 0 /\ e[N + 1] = Len(f) + 1
    BY <1>1, <1>2, <1>3
  <2>2. \A n \in 0 .. N + 1 : e[n] \in Int
    BY <1>1, <1>2
  <2>3. \A m, n \in 0 .. N + 1 : m < n => e[m] < e[n]
    BY <1>1, <1>2
  <2>4. QED
    BY <1>6, <2>1, <2>2, <2>3 DEF Separated
<1>8. Pieces(f, sep) = [n \in 1 .. N + 1 |-> SubSeq(f, e[n - 1] + 1, e[n] - 1)]
  BY <1>2, <1>7, PiecesAre
<1>9. ASSUME NEW n \in 1 .. P PROVE SubSeq(f, e[n - 1] + 1, e[n] - 1) = p[n]
  <2> DEFINE a == e[n - 1]
             b == e[n]
             l == Len(p[n])
             x == p[n]
             A == a + 1
             B == b - 1
  <2>1. a \in Nat /\ l \in Nat /\ b = a + l + 1
    <3>1. n - 1 \in 0 .. P
      BY <1>2
    <3>2. QED
      BY <1>1, <3>1
  <2>2. \A m \in 1 .. l : f[a + m] = x[m]
    BY <1>3
  <2>3. x \in Seq(C \ {sep}) /\ Len(x) = l
    BY <1>5
  <2>4. \A m \in 1 .. l : x[m] \in C \ {sep}
    BY <2>3
  <2> HIDE DEF a, b, l, x
  <2>5. A \in Int /\ B \in Int /\ B - A + 1 = l /\ (IF A <= B THEN B - A + 1 ELSE 0) = l
    BY <2>1
  <2>6. \A i \in A .. B : f[i] \in C \ {sep}
    <3>1. ASSUME NEW i \in A .. B PROVE f[i] \in C \ {sep}
      <4>1. i - a \in 1 .. l /\ a + (i - a) = i
        BY <2>1
      <4>2. QED
        BY <2>2, <2>4, <4>1
    <3>2. QED
      BY <3>1
  <2>7. \A i \in 1 .. l : A + i - 1 = a + i
    BY <2>1
  <2> HIDE DEF A, B
  <2>8. /\ SubSeq(f, A, B) \in Seq(C \ {sep})
        /\ Len(SubSeq(f, A, B)) = IF A <= B THEN B - A + 1 ELSE 0
        /\ \A i \in 1 .. B - A + 1 : SubSeq(f, A, B)[i] = f[A + i - 1]
    BY <2>5, <2>6, SubSeqProperties
  <2> DEFINE y == SubSeq(f, A, B)
  <2>9. y \in Seq(C \ {sep}) /\ Len(y) = l /\ \A i \in 1 .. l : y[i] = x[i]
    BY <2>2, <2>5, <2>7, <2>8
  <2> HIDE DEF y
  <2>10. y = x
    BY <2>3, <2>9, SeqEqual
  <2>11. QED
    BY <2>10 DEF y, A, B, a, b, x
<1>10. QED
  BY <1>2, <1>5, <1>8, <1>9

(* A separator in front of a sequence.                                      *)
LEMMA Prefixed ==
    ASSUME NEW C, NEW sep \in C, NEW x \in Seq(C)
    PROVE  /\ <<sep>> \o x \in Seq(C) /\ Len(<<sep>> \o x) = Len(x) + 1 /\ Len(x) \in Nat
           /\ (<<sep>> \o x)[1] = sep
           /\ \A m \in 1 .. Len(x) : (<<sep>> \o x)[m + 1] = x[m]
<1> DEFINE s == <<sep>>
           z == s \o x
<1>1. s \in Seq(C) /\ Len(s) = 1 /\ s[1] = sep
  OBVIOUS
<1> HIDE DEF s
<1>2. /\ s \o x \in Seq(C) /\ Len(s \o x) = Len(s) + Len(x) /\ Len(x) \in Nat
      /\ \A k \in 1 .. Len(s) : (s \o x)[k] = s[k]
      /\ \A k \in 1 .. Len(x) : (s \o x)[Len(s) + k] = x[k]
  BY <1>1, TwoParts
<1> HIDE DEF z
<1>3. /\ z \in Seq(C) /\ Len(z) = 1 + Len(x) /\ Len(x) \in Nat
      /\ \A k \in 1 .. 1 : z[k] = s[k]
      /\ \A k \in 1 .. Len(x) : z[1 + k] = x[k]
  BY <1>1, <1>2 DEF z
<1>4. z[1] = sep /\ \A k \in 1 .. Len(x) : k + 1 = 1 + k
  BY <1>1, <1>3
<1>5. Len(z) = Len(x) + 1
  BY <1>3
<1>6. QED
  BY <1>3, <1>4, <1>5 DEF z, s

(* The names of a path, with slashes between.                               *)
Between(names, sep) == [i \in DOMAIN names |-> IF i = 1 THEN names[1] ELSE <<sep>> \o names[i]]

(* Names with a separator between them are laid out as such.                *)
LEMMA BetweenLaid ==
    ASSUME NEW C, NEW sep \in C, NEW names \in Seq(Seq(C)), Len(names) # 0
    PROVE  /\ FlattenSeq(Between(names, sep)) \in Seq(C)
           /\ Laid(FlattenSeq(Between(names, sep)), sep, names)
<1> DEFINE q == Between(names, sep)
           f == FlattenSeq(q)
           e == Bounds(names)
           E == EndsOf(q)
           N == Len(names)
<1>1. /\ N \in Nat \ {0} /\ DOMAIN names = 1 .. N
      /\ \A i \in 1 .. N : names[i] \in Seq(C) /\ Len(names[i]) \in Nat
  OBVIOUS
<1> HIDE DEF N
<1>n. N \in Nat \ {0}
  BY <1>1
<1>2. /\ q[1] = names[1] /\ \A i \in 2 .. N : q[i] = <<sep>> \o names[i]
      /\ DOMAIN q = 1 .. N
  BY <1>1 DEF Between
<1>3. ASSUME NEW i \in 2 .. N
      PROVE  /\ q[i] \in Seq(C) /\ Len(q[i]) = Len(names[i]) + 1 /\ q[i][1] = sep
             /\ \A m \in 1 .. Len(names[i]) : q[i][m + 1] = names[i][m]
  <2>1. names[i] \in Seq(C) /\ q[i] = <<sep>> \o names[i]
    BY <1>1, <1>2
  <2> HIDE DEF q
  <2>2. QED
    BY <2>1, Prefixed
<1>4. q \in Seq(Seq(C)) /\ Len(q) = N
  <2>1. q = [i \in 1 .. N |-> q[i]]
    BY <1>1 DEF Between
  <2> HIDE DEF q
  <2>2. ASSUME NEW i \in 1 .. N PROVE q[i] \in Seq(C)
    <3>1. i = 1 \/ i \in 2 .. N
      OBVIOUS
    <3>2. QED
      BY <1>1, <1>2, <1>3, <3>1
  <2>3. q \in [1 .. N -> Seq(C)]
    BY <2>1, <2>2
  <2>4. QED
    BY <1>n, <2>3
<1> HIDE DEF q, E, e, f
<1>5. f \in Seq(C) /\ Flat(q, f)
  BY <1>4, FlatFacts DEF f
<1>6. /\ Len(f) = E[N]
      /\ \A i \in 1 .. N : \A m \in 1 .. Len(q[i]) : f[E[i - 1] + m] = q[i][m]
  BY <1>4, <1>5 DEF Flat, E
<1>7. /\ E[0] = 0 /\ \A i \in 1 .. N : E[i] = E[i - 1] + Len(q[i])
      /\ \A i \in 0 .. N : E[i] \in Nat
  BY <1>4, EndsFacts DEF E
<1>8. /\ e[0] = 0 /\ \A i \in 1 .. N : e[i] = e[i - 1] + Len(names[i]) + 1
      /\ \A i \in 0 .. N : e[i] \in Nat
  BY BoundsFacts DEF e, N
<1>9. \A i \in 1 .. N : e[i] = E[i] + 1
  <2> DEFINE S == {i \in 0 .. N - 1 : e[i + 1] = E[i + 1] + 1}
  <2>1. 0 \in S
    <3>1. 1 \in 1 .. N /\ 1 - 1 = 0 /\ 0 \in 0 .. N - 1
      BY <1>1
    <3>2. e[1] = 0 + Len(names[1]) + 1 /\ E[1] = 0 + Len(names[1]) /\ Len(names[1]) \in Nat
      BY <1>1, <1>2, <1>7, <1>8, <3>1
    <3>3. QED
      BY <3>1, <3>2
  <2>2. ASSUME NEW i \in 0 .. (N - 1) - 1, i \in S PROVE i + 1 \in S
    <3> DEFINE j == i + 1
               k == j + 1
    <3>1. k \in 2 .. N /\ k \in 1 .. N /\ k - 1 = j /\ j \in 0 .. N - 1 /\ j \in 0 .. N
      BY <1>1
    <3>2. e[j] = E[j] + 1
      BY <2>2
    <3> HIDE DEF j, k
    <3>3. /\ e[k] = e[j] + Len(names[k]) + 1 /\ E[k] = E[j] + (Len(names[k]) + 1)
          /\ Len(names[k]) \in Nat /\ E[j] \in Nat /\ e[j] \in Nat
      <4>1. Len(names[k]) \in Nat
        BY <1>1, <3>1
      <4>2. Len(q[k]) = Len(names[k]) + 1
        BY <1>3, <3>1
      <4>3. E[k] = E[j] + Len(q[k]) /\ E[j] \in Nat
        BY <1>7, <3>1
      <4>4. e[k] = e[j] + Len(names[k]) + 1 /\ e[j] \in Nat
        BY <1>8, <3>1
      <4>5. QED
        BY <4>1, <4>2, <4>3, <4>4
    <3>4. e[k] = E[k] + 1
      <4> DEFINE a == e[j]
                 b == E[j]
                 l == Len(names[k])
                 c == e[k]
                 d == E[k]
      <4>1. a = b + 1 /\ c = a + l + 1 /\ d = b + (l + 1) /\ l \in Nat /\ b \in Nat
        BY <3>2, <3>3
      <4> HIDE DEF a, b, c, d, l
      <4>2. c = d + 1
        BY <4>1
      <4>3. QED
        BY <4>2 DEF c, d
    <3>5. QED
      BY <3>1, <3>4 DEF j, k
  <2>3. N - 1 \in Nat
    BY <1>1
  <2>4. 0 .. N - 1 \subseteq S
    <3> HIDE DEF S
    <3>1. QED
      BY <2>1, <2>2, <2>3, UpTo
  <2>5. ASSUME NEW i \in 1 .. N PROVE e[i] = E[i] + 1
    <3>1. i - 1 \in 0 .. N - 1 /\ (i - 1) + 1 = i
      BY <1>1
    <3>2. QED
      BY <2>4, <3>1
  <2>6. QED
    BY <2>5
<1>10. Len(f) + 1 = e[N]
  BY <1>1, <1>6, <1>9
<1>11. ASSUME NEW n \in 1 .. N - 1 PROVE f[e[n]] = sep
  <2>1. n + 1 \in 2 .. N /\ n + 1 \in 1 .. N /\ (n + 1) - 1 = n /\ n \in 1 .. N
    BY <1>1
  <2>2. 1 \in 1 .. Len(q[n + 1]) /\ q[n + 1][1] = sep
    BY <1>1, <1>3, <2>1
  <2>3. f[E[(n + 1) - 1] + 1] = q[n + 1][1]
    BY <1>6, <2>1, <2>2
  <2>4. QED
    BY <1>9, <2>1, <2>2, <2>3
<1>12. ASSUME NEW n \in 1 .. N, NEW m \in 1 .. Len(names[n])
       PROVE  f[e[n - 1] + m] = names[n][m]
  <2>1. CASE n = 1
    <3>1. m \in 1 .. Len(q[n]) /\ q[n][m] = names[n][m]
      BY <1>2, <2>1
    <3>2. f[E[n - 1] + m] = q[n][m]
      BY <1>6, <3>1
    <3>3. E[n - 1] = 0 /\ e[n - 1] = 0
      BY <1>7, <1>8, <2>1
    <3>4. QED
      BY <3>1, <3>2, <3>3
  <2>2. CASE n # 1
    <3>1. n \in 2 .. N /\ n - 1 \in 1 .. N /\ n - 1 \in 0 .. N
      BY <1>1, <2>2
    <3>2. Len(names[n]) \in Nat /\ Len(q[n]) = Len(names[n]) + 1 /\ q[n][m + 1] = names[n][m]
      BY <1>1, <1>3, <3>1
    <3>3. m + 1 \in 1 .. Len(q[n])
      BY <3>2
    <3>4. f[E[n - 1] + (m + 1)] = q[n][m + 1]
      BY <1>6, <3>3
    <3>5. E[n - 1] + (m + 1) = e[n - 1] + m
      <4>1. E[n - 1] \in Nat
        BY <1>7, <3>1
      <4>2. e[n - 1] = E[n - 1] + 1
        BY <1>9, <3>1
      <4>3. m \in Nat
        BY <3>2
      <4> DEFINE a == e[n - 1]
                 b == E[n - 1]
      <4>4. a = b + 1 /\ b \in Nat /\ m \in Nat
        BY <4>1, <4>2, <4>3
      <4> HIDE DEF a, b
      <4>5. b + (m + 1) = a + m
        BY <4>4
      <4>6. QED
        BY <4>5 DEF a, b
    <3>6. QED
      BY <3>2, <3>4, <3>5
  <2>3. QED
    BY <2>1, <2>2
<1>13. Laid(f, sep, names)
  BY <1>10, <1>11, <1>12 DEF Laid, N, e
<1>14. QED
  BY <1>5, <1>13 DEF f, q

(* ------------------------------ components ------------------------------ *)

(* What a part of a path may be called.                                     *)
Clean == (Chars \cup {"/"}) \ {"\\", "/"}
GoodNames == Seq(Clean) \ {<<>>, <<".">>, <<".", ".">>}

Components == [kind : {"none", "CurDir", "ParentDir", "RootDir"}]
                \cup [kind : {"Normal"}, name : GoodNames]
Unslashed == (Chars \cup {"/"}) \ {"\\"}

(* Some of a sequence are a sequence of the same things.                    *)
LEMMA KeptType ==
    ASSUME NEW A, NEW s \in Seq(A), NEW P \in SUBSET (DOMAIN s)
    PROVE  /\ Kept(s, P) \in Seq(A) /\ Cardinality(P) \in Nat
           /\ DOMAIN Kept(s, P) = 1 .. Cardinality(P)
           /\ \A n \in 1 .. Cardinality(P) : Nth(P, n) \in P /\ Kept(s, P)[n] = s[Nth(P, n)]
<1> DEFINE len == Len(s)
           M == Cardinality(P)
<1>1. len \in Nat /\ P \in SUBSET (1 .. len) /\ \A i \in P : s[i] \in A
  OBVIOUS
<1> HIDE DEF len
<1>2. /\ M \in Nat /\ DOMAIN Kept(s, P) = 1 .. M
      /\ \A n \in 1 .. M : Nth(P, n) \in P /\ Kept(s, P)[n] = s[Nth(P, n)]
  BY <1>1, KeptFacts
<1> HIDE DEF M
<1>3. Kept(s, P) = [n \in 1 .. M |-> Kept(s, P)[n]]
  BY DEF Kept, M
<1> DEFINE k == Kept(s, P)
<1>4. \A n \in 1 .. M : k[n] \in A
  BY <1>1, <1>2
<1>5. k = [n \in 1 .. M |-> k[n]] /\ M \in Nat
  BY <1>2, <1>3
<1> HIDE DEF k
<1>6. k \in [1 .. M -> A]
  BY <1>4, <1>5
<1>7. k \in Seq(A)
  BY <1>5, <1>6
<1>8. QED
  BY <1>2, <1>7 DEF k, M

(* All of a sequence is that sequence.                                      *)
LEMMA KeptAll ==
    ASSUME NEW A, NEW s \in Seq(A)
    PROVE  Kept(s, DOMAIN s) = s
<1> DEFINE N == Len(s)
           g == [n \in 1 .. N |-> n]
<1>1. N \in Nat /\ DOMAIN s = 1 .. N /\ s = [n \in 1 .. N |-> s[n]]
  OBVIOUS
<1> HIDE DEF N
<1>2. Lists(g, N, 1 .. N) /\ 1 .. N \in SUBSET Int
  BY <1>1 DEF Lists
<1>3. \A n \in 1 .. N : g[n] = n
  OBVIOUS
<1> HIDE DEF g
<1>4. Cardinality(1 .. N) = N /\ \A n \in 1 .. N : Nth(1 .. N, n) = g[n]
  BY <1>1, <1>2, NthIs
<1>5. Kept(s, 1 .. N) = [n \in 1 .. Cardinality(1 .. N) |-> s[Nth(1 .. N, n)]]
  BY DEF Kept
<1>6. QED
  BY <1>1, <1>3, <1>4, <1>5, ZenonT(30)

(* With either slash of a name a slash.                                     *)
LEMMA NormalizedFacts ==
    /\ \A s \in Seq(Chars) : normalized(s) \in Seq(Unslashed)
    /\ \A s \in Seq(Unslashed) : normalized(s) = s
<1>1. ASSUME NEW s \in Seq(Chars) PROVE normalized(s) \in Seq(Unslashed)
  <2>1. Len(s) \in Nat /\ DOMAIN s = 1 .. Len(s) /\ \A k \in 1 .. Len(s) : s[k] \in Chars
    OBVIOUS
  <2>2. \A k \in 1 .. Len(s) : (IF s[k] = "\\" THEN "/" ELSE s[k]) \in Unslashed
    BY <2>1 DEF Unslashed
  <2>3. normalized(s) \in [1 .. Len(s) -> Unslashed]
    BY <2>1, <2>2 DEF normalized
  <2>4. QED
    BY <2>1, <2>3
<1>2. ASSUME NEW s \in Seq(Unslashed) PROVE normalized(s) = s
  <2>1. Len(s) \in Nat /\ DOMAIN s = 1 .. Len(s) /\ s = [k \in 1 .. Len(s) |-> s[k]]
        /\ \A k \in 1 .. Len(s) : s[k] \in Unslashed
    OBVIOUS
  <2>2. \A k \in 1 .. Len(s) : s[k] # "\\"
    BY <2>1 DEF Unslashed
  <2>3. normalized(s) = [k \in 1 .. Len(s) |-> s[k]]
    BY <2>1, <2>2 DEF normalized
  <2>4. QED
    BY <2>1, <2>3
<1>3. QED
  BY <1>1, <1>2

(* The components of a path, in the form the code makes them.               *)
Parsed(s) == [i \in DOMAIN Pieces(s, "/") |-> Component(Pieces(s, "/")[i], i = 1)]
Root(s) == IF s # <<>> /\ s[1] = "/" THEN <<[kind |-> "RootDir"]>> ELSE <<>>

(* components of a path: what is kept of its parsed pieces.                 *)
LEMMA ComponentsType ==
    ASSUME NEW s \in Seq(Unslashed)
    PROVE  /\ components(s) \in Seq(Components)
           /\ components(s) = Root(s) \o Kept(Parsed(s), {i \in DOMAIN Parsed(s) : Parsed(s)[i].kind # "none"})
<1> DEFINE parts == Pieces(s, "/")
           all == Parsed(s)
           P == {i \in DOMAIN all : all[i].kind # "none"}
<1>1. parts \in Seq(Seq(Clean))
  <2>1. Unslashed \ {"/"} = Clean
    BY DEF Unslashed, Clean
  <2>2. QED
    BY <2>1, PiecesFacts
<1>2. components(s) = Root(s) \o Kept(all, P)
  BY DEF components, Root, Parsed
<1> HIDE DEF parts
<1>3. ASSUME NEW part \in Seq(Clean), NEW first \in BOOLEAN PROVE Component(part, first) \in Components
  <2>1. CASE part = <<>>
    BY <2>1 DEF Component, Components
  <2>2. CASE part = <<".">> /\ part # <<>>
    BY <2>2 DEF Component, Components
  <2>3. CASE part = <<".", ".">> /\ part # <<>> /\ part # <<".">>
    BY <2>3 DEF Component, Components
  <2>4. CASE part # <<>> /\ part # <<".">> /\ part # <<".", ".">>
    <3>1. Component(part, first) = [kind |-> "Normal", name |-> part] /\ part \in GoodNames
      BY <2>4 DEF Component, GoodNames
    <3>2. QED
      BY <3>1 DEF Components
  <2>5. QED
    BY <2>1, <2>2, <2>3, <2>4
<1>4. all \in Seq(Components)
  <2>1. Len(parts) \in Nat /\ DOMAIN parts = 1 .. Len(parts) /\ \A i \in 1 .. Len(parts) : parts[i] \in Seq(Clean)
    BY <1>1
  <2>2. all = [i \in 1 .. Len(parts) |-> Component(parts[i], i = 1)]
    BY <2>1 DEF Parsed, parts
  <2>3. \A i \in 1 .. Len(parts) : Component(parts[i], i = 1) \in Components
    BY <1>3, <2>1
  <2> HIDE DEF all
  <2>4. all \in [1 .. Len(parts) -> Components]
    BY <2>2, <2>3
  <2>5. QED
    BY <2>1, <2>4
<1>5. Kept(all, P) \in Seq(Components)
  <2>1. P \in SUBSET (DOMAIN all)
    OBVIOUS
  <2> HIDE DEF all, P
  <2>2. QED
    BY <1>4, <2>1, KeptType
<1>6. Root(s) \in Seq(Components)
  <2>1. [kind |-> "RootDir"] \in Components
    BY DEF Components
  <2>2. QED
    BY <2>1 DEF Root
<1> HIDE DEF all, P
<1>7. components(s) \in Seq(Components)
  BY <1>2, <1>5, <1>6, ConcatProperties
<1>8. QED
  BY <1>2, <1>7 DEF all, P

(* The names among components are good names.                               *)
LEMMA NormalNamesType ==
    ASSUME NEW cs \in Seq(Components)
    PROVE  NormalNames(cs) \in Seq(GoodNames)
<1> DEFINE P == {i \in DOMAIN cs : cs[i].kind = "Normal"}
           k == Kept(cs, P)
           M == Cardinality(P)
<1>1. P \in SUBSET (DOMAIN cs) /\ \A i \in DOMAIN cs : cs[i] \in Components
  OBVIOUS
<1>2. \A i \in P : cs[i].name \in GoodNames
  BY <1>1 DEF Components
<1>3. NormalNames(cs) = [i \in DOMAIN k |-> k[i].name]
  BY DEF NormalNames
<1> HIDE DEF P
<1>4. M \in Nat /\ DOMAIN k = 1 .. M /\ \A n \in 1 .. M : Nth(P, n) \in P /\ k[n] = cs[Nth(P, n)]
  BY <1>1, KeptType
<1> HIDE DEF k, M
<1>5. \A n \in 1 .. M : k[n].name \in GoodNames
  BY <1>2, <1>4
<1>6. NormalNames(cs) \in [1 .. M -> GoodNames]
  BY <1>3, <1>4, <1>5
<1>7. M \in Nat
  BY <1>4
<1>8. QED
  BY <1>6, <1>7

(* The components of a path of good names.                                  *)
Normals(names) == [i \in DOMAIN names |-> [kind |-> "Normal", name |-> names[i]]]

(* A path of good names with slashes between has those names as components. *)
LEMMA LaidComponents ==
    ASSUME NEW names \in Seq(GoodNames), names # <<>>, NEW s \in Seq(Unslashed),
           Laid(s, "/", names)
    PROVE  components(s) = Normals(names)
<1> DEFINE N == Len(names)
<1>1. /\ N \in Nat \ {0} /\ DOMAIN names = 1 .. N
      /\ \A i \in 1 .. N : names[i] \in GoodNames
  OBVIOUS
<1> HIDE DEF N
<1>2. Pieces(s, "/") = names
  <2>1. names \in Seq(Seq(Clean))
    BY DEF GoodNames
  <2>2. Clean = Unslashed \ {"/"}
    BY DEF Clean, Unslashed
  <2>3. names \in Seq(Seq(Unslashed \ {"/"})) /\ Len(names) # 0 /\ Len(s) \in Nat
    BY <1>1, <2>1, <2>2 DEF N
  <2>4. QED
    BY <2>3, PiecesLaid
<1>3. Root(s) = <<>>
  <2>1. names[1] \in Seq(Clean) /\ names[1] # <<>>
    BY <1>1 DEF GoodNames
  <2>2. 1 \in 1 .. Len(names[1]) /\ names[1][1] \in Clean
    BY <2>1
  <2>3. Bounds(names)[0] = 0
    <3>1. names \in Seq(Seq(Clean))
      BY DEF GoodNames
    <3>2. QED
      BY <3>1, BoundsFacts
  <2>4. s[Bounds(names)[1 - 1] + 1] = names[1][1]
    BY <1>1, <2>2 DEF Laid, N
  <2>5. s[1] # "/"
    BY <2>2, <2>3, <2>4 DEF Clean
  <2>6. QED
    BY <2>5 DEF Root
<1>4. \A i \in 1 .. N : Component(names[i], i = 1) = [kind |-> "Normal", name |-> names[i]]
  BY <1>1 DEF Component, GoodNames
<1>5. Parsed(s) = Normals(names)
  BY <1>1, <1>2, <1>4 DEF Parsed, Normals
<1>6. Normals(names) \in Seq(Components) /\ DOMAIN Normals(names) = 1 .. N
      /\ \A i \in 1 .. N : Normals(names)[i].kind = "Normal"
  <2>1. \A i \in 1 .. N : [kind |-> "Normal", name |-> names[i]] \in Components
    BY <1>1 DEF Components
  <2>2. Normals(names) \in [1 .. N -> Components]
    BY <1>1, <2>1 DEF Normals
  <2>3. QED
    BY <1>1, <2>2 DEF Normals
<1>7. {i \in DOMAIN Parsed(s) : Parsed(s)[i].kind # "none"} = DOMAIN Normals(names)
  BY <1>5, <1>6
<1>8. Kept(Normals(names), DOMAIN Normals(names)) = Normals(names)
  BY <1>6, KeptAll
<1>9. components(s) = <<>> \o Normals(names)
  BY <1>3, <1>5, <1>7, <1>8, ComponentsType
<1>10. QED
  BY <1>6, <1>9, ConcatEmptySeq

(* The empty path has none.                                                 *)
LEMMA NoComponents == components(<<>>) = <<>>
<1> DEFINE p == << <<>> >>
<1>1. Pieces(<<>>, "/") = p
  <2>1. p \in Seq(Seq(Clean \ {"/"})) /\ Len(p) = 1 /\ p[1] = <<>> /\ Len(p[1]) = 0
    OBVIOUS
  <2> HIDE DEF p
  <2>2. /\ Bounds(p)[0] = 0
        /\ \A i \in 1 .. Len(p) : Bounds(p)[i] = Bounds(p)[i - 1] + Len(p[i]) + 1
    BY <2>1, BoundsFacts
  <2>3. Bounds(p)[1] = 1
    BY <2>1, <2>2
  <2>4. Laid(<<>>, "/", p)
    BY <2>1, <2>3 DEF Laid
  <2>5. Len(<<>>) \in Nat /\ Len(p) # 0
    BY <2>1
  <2>6. QED
    BY <2>1, <2>4, <2>5, PiecesLaid
<1>2. \A part, first : part = <<>> => Component(part, first) = [kind |-> "none"]
  BY DEF Component
<1>3. DOMAIN Parsed(<<>>) = {1} /\ Parsed(<<>>)[1] = [kind |-> "none"]
  <2>1. DOMAIN p = {1} /\ p[1] = <<>>
    OBVIOUS
  <2> HIDE DEF p
  <2>2. Parsed(<<>>) = [i \in {1} |-> Component(p[i], i = 1)]
    BY <1>1, <2>1 DEF Parsed
  <2>3. Component(p[1], 1 = 1) = [kind |-> "none"]
    BY <1>2, <2>1
  <2> HIDE DEF Parsed
  <2>4. QED
    BY <2>2, <2>3
<1>4. {i \in DOMAIN Parsed(<<>>) : Parsed(<<>>)[i].kind # "none"} = {}
  BY <1>3
<1>5. Kept(Parsed(<<>>), {}) = <<>>
  BY FS_EmptySet DEF Kept
<1>6. Root(<<>>) = <<>>
  BY DEF Root
<1>7. <<>> \in Seq(Unslashed)
  OBVIOUS
<1>8. components(<<>>) = Root(<<>>) \o Kept(Parsed(<<>>), {i \in DOMAIN Parsed(<<>>) : Parsed(<<>>)[i].kind # "none"})
  BY <1>7, ComponentsType
<1>9. <<>> \o <<>> = <<>>
  OBVIOUS
<1>10. QED
  BY <1>4, <1>5, <1>6, <1>8, <1>9

(* One name is a path.                                                      *)
LEMMA OneLaid ==
    ASSUME NEW C, NEW sep, NEW x \in Seq(C)
    PROVE  Laid(x, sep, <<x>>)
<1> DEFINE p == <<x>>
<1>1. p \in Seq(Seq(C)) /\ Len(p) = 1 /\ p[1] = x /\ Len(x) \in Nat
  OBVIOUS
<1> HIDE DEF p
<1>2. /\ Bounds(p)[0] = 0
      /\ \A i \in 1 .. Len(p) : Bounds(p)[i] = Bounds(p)[i - 1] + Len(p[i]) + 1
  BY <1>1, BoundsFacts
<1>3. Bounds(p)[1] = Len(x) + 1
  BY <1>1, <1>2
<1>4. \A m \in 1 .. Len(x) : x[Bounds(p)[1 - 1] + m] = x[m]
  BY <1>1, <1>2
<1>5. Laid(x, sep, p)
  BY <1>1, <1>3, <1>4 DEF Laid
<1>6. QED
  BY <1>5 DEF p

(* The names of good components, which do not leave the directory.          *)
LEMMA NormalsNames ==
    ASSUME NEW names \in Seq(GoodNames)
    PROVE  NormalNames(Normals(names)) = names /\ ~Escapes(Normals(names))
<1> DEFINE N == Len(names)
           cs == Normals(names)
<1>1. /\ N \in Nat /\ DOMAIN names = 1 .. N /\ names = [i \in 1 .. N |-> names[i]]
      /\ \A i \in 1 .. N : names[i] \in GoodNames
  OBVIOUS
<1> HIDE DEF N
<1>2. /\ DOMAIN cs = 1 .. N /\ cs \in Seq(Components)
      /\ \A i \in 1 .. N : cs[i].kind = "Normal" /\ cs[i].name = names[i]
  <2>1. \A i \in 1 .. N : [kind |-> "Normal", name |-> names[i]] \in Components
    BY <1>1 DEF Components
  <2>2. Normals(names) \in [1 .. N -> Components]
    BY <1>1, <2>1 DEF Normals
  <2>3. QED
    BY <1>1, <2>2, SMTT(30) DEF Normals
<1> HIDE DEF cs
<1>3. {i \in DOMAIN cs : cs[i].kind = "Normal"} = DOMAIN cs
  BY <1>2
<1>4. Kept(cs, DOMAIN cs) = cs
  BY <1>2, KeptAll
<1>5. NormalNames(cs) = [i \in DOMAIN cs |-> cs[i].name]
  BY <1>3, <1>4 DEF NormalNames
<1>6. NormalNames(cs) = names
  BY <1>1, <1>2, <1>5
<1>7. ~Escapes(cs)
  BY <1>2 DEF Escapes
<1>8. QED
  BY <1>6, <1>7 DEF cs

(* The path of a directory, made of its names, has them as components.      *)
LEMMA DirectoryComponents ==
    ASSUME NEW names \in Seq(GoodNames)
    PROVE  components(normalized(path_to_cri_string(names))) = Normals(names)
<1> DEFINE s == path_to_cri_string(names)
<1>1. s = FlattenSeq(Between(names, "/"))
  BY DEF path_to_cri_string, Between
<1>2. CASE names = <<>>
  <2>1. Between(names, "/") = <<>>
    BY <1>2 DEF Between
  <2>2. s = <<>>
    BY <1>1, <2>1 DEF FlattenSeq
  <2>3. <<>> \in Seq(Unslashed) /\ Normals(<<>>) = <<>>
    BY DEF Normals
  <2> HIDE DEF s
  <2>4. QED
    BY <1>2, <2>2, <2>3, NormalizedFacts, NoComponents DEF s
<1>3. CASE names # <<>>
  <2>1. names \in Seq(Seq(Unslashed)) /\ Len(names) # 0 /\ "/" \in Unslashed
    <3>1. Clean \subseteq Unslashed /\ "/" \in Unslashed
      BY DEF Clean, Unslashed
    <3>2. \A x \in Seq(Clean) : x \in Seq(Unslashed)
      BY <3>1
    <3>3. GoodNames \subseteq Seq(Unslashed)
      BY <3>2 DEF GoodNames
    <3> HIDE DEF GoodNames
    <3>4. QED
      BY <1>3, <3>1, <3>3
  <2>2. s \in Seq(Unslashed) /\ Laid(s, "/", names)
    BY <1>1, <2>1, BetweenLaid
  <2> HIDE DEF s
  <2>3. normalized(s) = s
    BY <2>2, NormalizedFacts
  <2>4. components(s) = Normals(names)
    BY <1>3, <2>2, LaidComponents
  <2>5. QED
    BY <2>3, <2>4 DEF s
<1>4. QED
  BY <1>2, <1>3

(* The entry of a file at a place of good names has those names.            *)
LEMMA PlaceComponents ==
    ASSUME NEW p \in Seq(GoodNames), p # <<>>
    PROVE  EntryComponents(path_to_cri_string(Front(p)), Last(p)) = Normals(p)
<1> DEFINE x == Front(p)
           y == Last(p)
           N == Len(p)
           n == N - 1
<1>1. N \in Nat \ {0} /\ \A i \in 1 .. N : p[i] \in GoodNames
  OBVIOUS
<1>t. p = [i \in 1 .. N |-> p[i]]
  OBVIOUS
<1>2. n \in Nat /\ N = n + 1 /\ n <= N
  BY <1>1
<1>3. x \in Seq(GoodNames) /\ Len(x) = n /\ \A i \in 1 .. n : x[i] = p[i]
  <2>1. \A i \in 1 .. n : p[i] \in GoodNames
    BY <1>1
  <2>2. 1 \in Int /\ n \in Int /\ n - 1 + 1 = n /\ (IF 1 <= n THEN n - 1 + 1 ELSE 0) = n
    BY <1>2
  <2>3. x = SubSeq(p, 1, n)
    BY DEF Front
  <2> HIDE DEF x, n
  <2>4. /\ SubSeq(p, 1, n) \in Seq(GoodNames) /\ Len(SubSeq(p, 1, n)) = n
        /\ \A i \in 1 .. n : SubSeq(p, 1, n)[i] = p[1 + i - 1]
    BY <2>1, <2>2, SubSeqProperties
  <2>5. \A i \in 1 .. n : 1 + i - 1 = i
    BY <2>2
  <2>6. QED
    BY <2>3, <2>4, <2>5
<1>4. y \in GoodNames /\ y = p[n + 1]
  BY <1>1, <1>2 DEF Last
<1> HIDE DEF x, y, n, N
<1>5. components(normalized(path_to_cri_string(x))) = Normals(x)
  BY <1>3, DirectoryComponents
<1>6. components(normalized(y)) = Normals(<<y>>)
  <2>1. y \in Seq(Clean) /\ y \in Seq(Unslashed)
    <3>1. Clean \subseteq Unslashed
      BY DEF Clean, Unslashed
    <3>2. y \in Seq(Clean)
      BY <1>4 DEF GoodNames
    <3>3. QED
      BY <3>1, <3>2
  <2>2. normalized(y) = y
    BY <2>1, NormalizedFacts
  <2>3. Laid(y, "/", <<y>>)
    BY <2>1, OneLaid
  <2>4. <<y>> \in Seq(GoodNames) /\ <<y>> # <<>>
    BY <1>4
  <2>5. QED
    BY <2>1, <2>2, <2>3, <2>4, LaidComponents
<1>7. EntryComponents(path_to_cri_string(x), y) = Normals(x) \o Normals(<<y>>)
  BY <1>5, <1>6 DEF EntryComponents
<1>8. Normals(x) \o Normals(<<y>>) = Normals(p)
  <2> DEFINE C == [kind : {"Normal"}, name : GoodNames]
             a == Normals(x)
             b == Normals(<<y>>)
             c == Normals(p)
  <2>1. a \in Seq(C) /\ Len(a) = n /\ \A i \in 1 .. n : a[i] = [kind |-> "Normal", name |-> x[i]]
    <3>1. DOMAIN x = 1 .. n /\ \A i \in 1 .. n : x[i] \in GoodNames
      BY <1>3
    <3>2. a \in [1 .. n -> C]
      BY <3>1 DEF Normals
    <3>3. QED
      BY <1>2, <3>1, <3>2 DEF Normals
  <2>2. b \in Seq(C) /\ Len(b) = 1 /\ b[1] = [kind |-> "Normal", name |-> y]
    <3>1. b = <<[kind |-> "Normal", name |-> y]>>
      BY DEF Normals
    <3>2. [kind |-> "Normal", name |-> y] \in C
      BY <1>4
    <3> HIDE DEF b, C
    <3>3. QED
      BY <3>1, <3>2
  <2>3. c \in Seq(C) /\ Len(c) = n + 1 /\ \A i \in 1 .. n + 1 : c[i] = [kind |-> "Normal", name |-> p[i]]
    <3>1. DOMAIN p = 1 .. n + 1 /\ \A i \in 1 .. n + 1 : p[i] \in GoodNames
      BY <1>1, <1>2 DEF N
    <3>2. c \in [1 .. n + 1 -> C]
      BY <3>1 DEF Normals
    <3>3. n + 1 \in Nat
      BY <1>2
    <3>4. \A i \in 1 .. n + 1 : c[i] = [kind |-> "Normal", name |-> p[i]]
      BY <3>1 DEF Normals
    <3> HIDE DEF c, C
    <3>5. QED
      BY <3>2, <3>3, <3>4
  <2> HIDE DEF a, b, c, C
  <2>4. /\ a \o b \in Seq(C) /\ Len(a \o b) = n + 1
        /\ \A k \in 1 .. n : (a \o b)[k] = a[k]
        /\ \A k \in 1 .. 1 : (a \o b)[n + k] = b[k]
    <3>1. a \in Seq(C) /\ b \in Seq(C)
      BY <2>1, <2>2
    <3>2. /\ a \o b \in Seq(C) /\ Len(a \o b) = Len(a) + Len(b)
          /\ \A k \in 1 .. Len(a) : (a \o b)[k] = a[k]
          /\ \A k \in 1 .. Len(b) : (a \o b)[Len(a) + k] = b[k]
      BY <3>1, TwoParts
    <3>3. Len(a) = n /\ Len(b) = 1
      BY <2>1, <2>2
    <3>4. QED
      BY <3>2, <3>3
  <2> DEFINE d == a \o b
  <2> HIDE DEF d
  <2>5. d \in Seq(C) /\ Len(d) = n + 1
        /\ (\A k \in 1 .. n : d[k] = [kind |-> "Normal", name |-> x[k]])
        /\ d[n + 1] = [kind |-> "Normal", name |-> y]
    <3>1. 1 \in 1 .. 1
      OBVIOUS
    <3>2. QED
      BY <2>1, <2>2, <2>4, <3>1 DEF d
  <2>6. ASSUME NEW k \in 1 .. n + 1 PROVE d[k] = c[k]
    <3>1. k \in 1 .. n \/ k = n + 1
      BY <1>2
    <3>2. c[k] = [kind |-> "Normal", name |-> p[k]]
      BY <2>3
    <3>3. QED
      BY <1>3, <1>4, <2>5, <3>1, <3>2
  <2>7. d = c
    BY <2>3, <2>5, <2>6, SeqEqual
  <2>8. QED
    BY <2>7 DEF a, b, c, d
<1>9. QED
  BY <1>7, <1>8 DEF x, y

(* -------------------------- the steps of an entry ----------------------- *)

(* What an entry is written to and looked for is what its name says.        *)
PathsInv ==
    /\ directory \in Seq(Chars) /\ file_name \in Seq(Chars)
    /\ \/ place \in {Unknown, Rejected} /\ known = Unknown /\ again = Unknown
       \/ /\ place \in Seq(GoodNames) \ {<<>>, <<Reserved>>}
          /\ ~Escapes(EntryComponents(directory, file_name))
          /\ place = NormalNames(EntryComponents(directory, file_name))
          /\ known \in {Unknown, place}
          /\ again \in {Unknown, IF Last(place) \in {Reserved, Older} THEN Dropped ELSE place}

(* A place of good names is a place.                                        *)
LEMMA PlaceIsKnown == \A p \in Seq(GoodNames) : p # Unknown /\ p # Rejected
<1> SUFFICES ASSUME NEW p \in Seq(GoodNames) PROVE p # Unknown /\ p # Rejected
  OBVIOUS
<1>1. <<>> \notin GoodNames
  BY DEF GoodNames
<1> HIDE DEF GoodNames
<1>2. \A i \in 1 .. Len(p) : p[i] \in GoodNames
  OBVIOUS
<1>3. p # Unknown
  <2>1. SUFFICES ASSUME p = Unknown PROVE FALSE
    OBVIOUS
  <2>2. Len(p) = 1 /\ p[1] = <<>>
    BY <2>1 DEF Unknown
  <2>3. QED
    BY <1>1, <1>2, <2>2
<1>4. p # Rejected
  <2>1. SUFFICES ASSUME p = Rejected PROVE FALSE
    OBVIOUS
  <2>2. Len(p) = 2 /\ p[1] = <<>>
    BY <2>1 DEF Rejected
  <2>3. QED
    BY <1>1, <1>2, <2>2
<1>5. QED
  BY <1>3, <1>4

(* The components of an entry are components.                               *)
LEMMA EntryType ==
    ASSUME NEW dir \in Seq(Chars), NEW name \in Seq(Chars)
    PROVE  /\ EntryComponents(dir, name) \in Seq(Components)
           /\ NormalNames(EntryComponents(dir, name)) \in Seq(GoodNames)
<1>1. normalized(dir) \in Seq(Unslashed) /\ normalized(name) \in Seq(Unslashed)
  BY NormalizedFacts
<1>2. components(normalized(dir)) \in Seq(Components) /\ components(normalized(name)) \in Seq(Components)
  BY <1>1, ComponentsType
<1>3. EntryComponents(dir, name) \in Seq(Components)
  BY <1>2, ConcatProperties DEF EntryComponents
<1>4. QED
  BY <1>3, NormalNamesType

(* Every step of CliPaths keeps the invariant.                              *)
LEMMA PathsStep ==
    ASSUME PathsInv, [PathsNext]_pathVars
    PROVE  PathsInv'
<1>1. ASSUME NEW c \in Chars, InDirectory(c) PROVE PathsInv'
  <2>1. directory' \in Seq(Chars)
    BY <1>1 DEF PathsInv, InDirectory
  <2>2. place = Unknown /\ place \notin Seq(GoodNames)
    BY <1>1, PlaceIsKnown DEF InDirectory
  <2>3. QED
    BY <1>1, <2>1, <2>2 DEF PathsInv, InDirectory
<1>2. ASSUME NEW c \in Chars, InName(c) PROVE PathsInv'
  <2>1. file_name' \in Seq(Chars)
    BY <1>2 DEF PathsInv, InName
  <2>2. place = Unknown /\ place \notin Seq(GoodNames)
    BY <1>2, PlaceIsKnown DEF InName
  <2>3. QED
    BY <1>2, <2>1, <2>2 DEF PathsInv, InName
<1>3. ASSUME Unpack PROVE PathsInv'
  <2> DEFINE cs == EntryComponents(directory, file_name)
             names == NormalNames(cs)
  <2>1. names \in Seq(GoodNames)
    BY EntryType DEF PathsInv
  <2>2. place = Unknown /\ place \notin Seq(GoodNames)
    BY <1>3, PlaceIsKnown DEF Unpack
  <2>3. known = Unknown /\ again = Unknown
    BY <2>2 DEF PathsInv
  <2>4. directory' = directory /\ file_name' = file_name /\ known' = known /\ again' = again
    BY <1>3 DEF Unpack
  <2>5. place' = IF safe_output_path(directory, file_name) = <<>> THEN Rejected
                 ELSE safe_output_path(directory, file_name)
    BY <1>3 DEF Unpack
  <2>6. place' = Rejected \/ (place' = names /\ names # <<>> /\ names # <<Reserved>> /\ ~Escapes(cs))
    BY <2>5 DEF safe_output_path
  <2> HIDE DEF cs, names
  <2>7. CASE place' = Rejected
    BY <2>3, <2>4, <2>7 DEF PathsInv
  <2>8. CASE place' = names /\ names # <<>> /\ names # <<Reserved>> /\ ~Escapes(cs)
    <3>1. place' \in Seq(GoodNames) \ {<<>>, <<Reserved>>}
      BY <2>1, <2>8
    <3>2. ~Escapes(EntryComponents(directory', file_name'))
          /\ place' = NormalNames(EntryComponents(directory', file_name'))
      BY <2>4, <2>8 DEF cs, names
    <3>3. QED
      BY <2>3, <2>4, <3>1, <3>2 DEF PathsInv
  <2>9. QED
    BY <2>6, <2>7, <2>8
<1>4. ASSUME PackKnown PROVE PathsInv'
  <2>1. place \notin {Unknown, Rejected}
    BY <1>4 DEF PackKnown, Written
  <2>2. /\ place \in Seq(GoodNames) \ {<<>>, <<Reserved>>}
        /\ ~Escapes(EntryComponents(directory, file_name))
        /\ place = NormalNames(EntryComponents(directory, file_name))
    BY <2>1 DEF PathsInv
  <2>3. known' = place
    BY <1>4, <2>2 DEF PackKnown, safe_relative_path
  <2>4. UNCHANGED <<directory, file_name, place, again>>
    BY <1>4 DEF PackKnown
  <2>5. QED
    BY <2>1, <2>3, <2>4 DEF PathsInv
<1>5. ASSUME PackNew PROVE PathsInv'
  <2>1. place \notin {Unknown, Rejected}
    BY <1>5 DEF PackNew, Written
  <2>2. place \in Seq(GoodNames) /\ place # <<>> /\ place # <<Reserved>>
    BY <2>1 DEF PathsInv
  <2>3. EntryComponents(path_to_cri_string(Front(place)), Last(place)) = Normals(place)
    BY <2>2, PlaceComponents
  <2>4. NormalNames(Normals(place)) = place /\ ~Escapes(Normals(place))
    BY <2>2, NormalsNames
  <2>5. safe_output_path(path_to_cri_string(Front(place)), Last(place)) = place
    BY <2>2, <2>3, <2>4 DEF safe_output_path
  <2>6. again' = IF Last(place) \in {Reserved, Older} THEN Dropped ELSE place
    BY <1>5, <2>5 DEF PackNew
  <2>7. UNCHANGED <<directory, file_name, place, known>>
    BY <1>5 DEF PackNew
  <2>8. Last(place)' = Last(place)
    BY <2>7 DEF Last
  <2>9. QED
    BY <2>1, <2>6, <2>7, <2>8 DEF PathsInv
<1>6. CASE UNCHANGED pathVars
  BY <1>6 DEF pathVars, PathsInv
<1>7. QED
  BY <1>1, <1>2, <1>3, <1>4, <1>5, <1>6 DEF PathsNext

(* What the invariant says of the properties.                               *)
LEMMA PathsInvImplies ==
    ASSUME PathsInv
    PROVE  StaysInside /\ UnpackedComesBack
<1>1. StaysInside
  <2> SUFFICES ASSUME Written
               PROVE  /\ \A i \in DOMAIN place :
                          place[i] \notin {<<>>, <<".">>, <<".", ".">>}
                          /\ {"/", "\\"} \cap ToSet(place[i]) = {}
                      /\ place # <<Reserved>>
    BY DEF StaysInside
  <2>1. place \in Seq(GoodNames) /\ place # <<Reserved>>
    BY DEF PathsInv, Written
  <2>2. ASSUME NEW i \in DOMAIN place
        PROVE  /\ place[i] \notin {<<>>, <<".">>, <<".", ".">>}
               /\ {"/", "\\"} \cap ToSet(place[i]) = {}
    <3>1. place[i] \in GoodNames
      BY <2>1
    <3>2. place[i] \in Seq(Clean) /\ place[i] \notin {<<>>, <<".">>, <<".", ".">>}
      BY <3>1 DEF GoodNames
    <3>3. ToSet(place[i]) \subseteq Clean
      BY <3>2 DEF ToSet
    <3>4. QED
      BY <3>2, <3>3 DEF Clean
  <2>3. QED
    BY <2>1, <2>2
<1>2. UnpackedComesBack
  BY DEF PathsInv, UnpackedComesBack
<1>3. QED
  BY <1>1, <1>2

(* The invariant holds in every state, for every set of characters, bound   *)
(* of the strings and name of the manifest.                                 *)
THEOREM PathsInvariant == PathsSpec => []PathsInv
<1>1. PathsInit => PathsInv
  BY DEF PathsInit, PathsInv
<1>2. PathsInv /\ [PathsNext]_pathVars => PathsInv'
  BY PathsStep
<1>3. QED
  BY <1>1, <1>2, PTL DEF PathsSpec

(* Whatever the directory and the name of an entry are, safe_output_path    *)
(* gives a place below the directory of the unpack: no parent, no root, no  *)
(* separator of either kind in a name, and not the file of the manifest.    *)
THEOREM UnpackStaysInside == PathsSpec => []StaysInside
<1>1. PathsInv => StaysInside
  BY PathsInvImplies
<1>2. QED
  BY <1>1, PathsInvariant, PTL

(* A file unpack wrote is looked for where it is by safe_relative_path, and *)
(* the entry collect_files makes of it is written to the same place; only a *)
(* file named like a manifest makes no entry, and every such file is left   *)
(* out, in whatever directory.                                              *)
THEOREM PackFindsWhatUnpackWrote == PathsSpec => []UnpackedComesBack
<1>1. PathsInv => UnpackedComesBack
  BY PathsInvImplies
<1>2. QED
  BY <1>1, PathsInvariant, PTL

-----------------------------------------------------------------------------
(* ------------------------- the text of a manifest ----------------------- *)

(* One sequence is its own concatenation.                                   *)
LEMMA FlattenOne ==
    ASSUME NEW x
    PROVE  FlattenSeq(<<x>>) = x
<1> DEFINE q == <<x>>
<1>1. Len(q) = 1 /\ q[1] = x /\ 1 \in Nat \ {0}
  OBVIOUS
<1> HIDE DEF q
<1>2. \E f : FlattenSeq(q) = f[1] /\ f[1] = q[1]
  BY <1>1, FlattenStep
<1>3. QED
  BY <1>1, <1>2 DEF q

(* Flattening goes over concatenation.                                      *)
LEMMA FlattenCat ==
    ASSUME NEW C, NEW x \in Seq(Seq(C)), NEW y \in Seq(Seq(C))
    PROVE  FlattenSeq(x \o y) = FlattenSeq(x) \o FlattenSeq(y)
<1> DEFINE X == Len(x)
           Y == Len(y)
           z == x \o y
<1>1. X \in Nat /\ Y \in Nat /\ \A i \in 1 .. X : x[i] \in Seq(C)
  OBVIOUS
<1>y. \A i \in 1 .. Y : y[i] \in Seq(C)
  OBVIOUS
<1>2. FlattenSeq(x) \in Seq(C) /\ FlattenSeq(y) \in Seq(C)
  BY FlatFacts
<1>3. CASE X = 0
  <2>1. x = <<>> /\ x \o y = y
    BY <1>3, EmptySeq, ConcatEmptySeq
  <2>2. FlattenSeq(<<>>) = <<>>
    BY DEF FlattenSeq
  <2>3. <<>> \o FlattenSeq(y) = FlattenSeq(y)
    BY <1>2, ConcatEmptySeq
  <2>4. QED
    BY <2>1, <2>2, <2>3
<1>4. CASE Y = 0
  <2>1. y = <<>> /\ x \o y = x
    BY <1>4, EmptySeq, ConcatEmptySeq
  <2>2. FlattenSeq(<<>>) = <<>>
    BY DEF FlattenSeq
  <2>3. FlattenSeq(x) \o <<>> = FlattenSeq(x)
    BY <1>2, ConcatEmptySeq
  <2>4. QED
    BY <2>1, <2>2, <2>3
<1>5. CASE X # 0 /\ Y # 0
  <2>1. /\ z \in Seq(Seq(C)) /\ Len(z) = X + Y
        /\ \A k \in 1 .. X : z[k] = x[k]
        /\ \A k \in 1 .. Y : z[X + k] = y[k]
    BY TwoParts
  <2> HIDE DEF z, X, Y
  <2>n. X \in Nat \ {0} /\ Y \in Nat \ {0} /\ X + Y \in Nat \ {0}
    BY <1>1, <1>5
  <2>2. PICK f : /\ FlattenSeq(x) = f[X] /\ f[1] = x[1]
                 /\ \A i \in 1 .. X - 1 : f[i + 1] = f[i] \o x[i + 1]
    BY <2>n, FlattenStep DEF X
  <2>3. PICK g : /\ FlattenSeq(y) = g[Y] /\ g[1] = y[1]
                 /\ \A i \in 1 .. Y - 1 : g[i + 1] = g[i] \o y[i + 1]
    BY <2>n, FlattenStep DEF Y
  <2>4. PICK h : /\ FlattenSeq(z) = h[X + Y] /\ h[1] = z[1]
                 /\ \A i \in 1 .. (X + Y) - 1 : h[i + 1] = h[i] \o z[i + 1]
    BY <2>n, <2>1, FlattenStep
  <2> DEFINE S == {n \in 0 .. X - 1 : h[n + 1] = f[n + 1] /\ f[n + 1] \in Seq(C)}
             T == {n \in 0 .. Y - 1 : h[X + (n + 1)] = f[X] \o g[n + 1] /\ g[n + 1] \in Seq(C)}
  <2>5. 0 \in S
    <3>1. 0 \in 0 .. X - 1 /\ 1 \in 1 .. X /\ 0 + 1 = 1
      BY <2>n
    <3>2. QED
      BY <1>1, <2>1, <2>2, <2>4, <3>1
  <2>6. ASSUME NEW n \in 0 .. (X - 1) - 1, n \in S PROVE n + 1 \in S
    <3> DEFINE i == n + 1
    <3>1. /\ i \in 1 .. X - 1 /\ i \in 1 .. (X + Y) - 1 /\ i + 1 \in 1 .. X
          /\ n + 1 \in 0 .. X - 1
      BY <2>n
    <3>2. h[i] = f[i] /\ f[i] \in Seq(C)
      BY <2>6
    <3> HIDE DEF i
    <3>3. h[i + 1] = h[i] \o z[i + 1] /\ f[i + 1] = f[i] \o x[i + 1] /\ z[i + 1] = x[i + 1]
          /\ x[i + 1] \in Seq(C)
      BY <1>1, <2>1, <2>2, <2>4, <3>1
    <3>4. f[i] \o x[i + 1] \in Seq(C)
      BY <3>2, <3>3, ConcatProperties
    <3>5. h[i + 1] = f[i + 1] /\ f[i + 1] \in Seq(C)
      BY <3>2, <3>3, <3>4
    <3>6. QED
      BY <3>1, <3>5 DEF i
  <2>7. X - 1 \in S
    <3>1. X - 1 \in Nat
      BY <2>n
    <3>2. 0 .. X - 1 \subseteq S
      <4> HIDE DEF S
      <4>1. QED
        BY <2>5, <2>6, <3>1, UpTo
    <3> HIDE DEF S
    <3>3. QED
      BY <3>1, <3>2
  <2>8. h[X] = f[X] /\ f[X] \in Seq(C)
    <3>1. (X - 1) + 1 = X
      BY <2>n
    <3>2. QED
      BY <2>7, <3>1
  <2> HIDE DEF S
  <2>9. 0 \in T
    <3>1. 0 \in 0 .. Y - 1 /\ 1 \in 1 .. Y /\ 0 + 1 = 1 /\ X \in 1 .. (X + Y) - 1
      BY <2>n
    <3>2. h[X + 1] = h[X] \o z[X + 1] /\ z[X + 1] = y[1] /\ y[1] \in Seq(C)
      BY <1>y, <2>1, <2>4, <3>1
    <3>3. h[X + 1] = f[X] \o g[1] /\ g[1] \in Seq(C)
      BY <2>3, <2>8, <3>2
    <3>4. QED
      BY <3>1, <3>3
  <2>10. ASSUME NEW n \in 0 .. (Y - 1) - 1, n \in T PROVE n + 1 \in T
    <3> DEFINE i == n + 1
    <3>1. /\ i \in 1 .. Y - 1 /\ X + i \in 1 .. (X + Y) - 1 /\ i + 1 \in 1 .. Y
          /\ n + 1 \in 0 .. Y - 1 /\ (X + i) + 1 = X + (i + 1)
      BY <2>n
    <3>2. h[X + i] = f[X] \o g[i] /\ g[i] \in Seq(C)
      BY <2>10
    <3> HIDE DEF i
    <3>3. /\ h[(X + i) + 1] = h[X + i] \o z[(X + i) + 1] /\ g[i + 1] = g[i] \o y[i + 1]
          /\ z[X + (i + 1)] = y[i + 1] /\ y[i + 1] \in Seq(C)
      <4>1. h[(X + i) + 1] = h[X + i] \o z[(X + i) + 1]
        BY <2>4, <3>1
      <4>2. g[i + 1] = g[i] \o y[i + 1]
        BY <2>3, <3>1
      <4>3. z[X + (i + 1)] = y[i + 1]
        BY <2>1, <3>1
      <4>4. y[i + 1] \in Seq(C)
        BY <1>y, <3>1
      <4>5. QED
        BY <4>1, <4>2, <4>3, <4>4
    <3>4. (f[X] \o g[i]) \o y[i + 1] = f[X] \o (g[i] \o y[i + 1])
      <4>1. f[X] \in Seq(C) /\ g[i] \in Seq(C) /\ y[i + 1] \in Seq(C)
        BY <2>8, <3>2, <3>3
      <4> DEFINE a == f[X]
                 b == g[i]
                 c == y[i + 1]
      <4>2. a \in Seq(C) /\ b \in Seq(C) /\ c \in Seq(C)
        BY <4>1
      <4> HIDE DEF a, b, c
      <4>3. (a \o b) \o c = a \o (b \o c)
        BY <4>2, ConcatAssociative, SMTT(30)
      <4>4. QED
        BY <4>3 DEF a, b, c
    <3>5. g[i] \o y[i + 1] \in Seq(C)
      BY <3>2, <3>3, ConcatProperties
    <3>6. h[X + (i + 1)] = f[X] \o g[i + 1] /\ g[i + 1] \in Seq(C)
      BY <3>1, <3>2, <3>3, <3>4, <3>5
    <3>7. QED
      BY <3>1, <3>6 DEF i
  <2>11. Y - 1 \in T
    <3>1. Y - 1 \in Nat
      BY <2>n
    <3>2. 0 .. Y - 1 \subseteq T
      <4> HIDE DEF T
      <4>1. QED
        BY <2>9, <2>10, <3>1, UpTo
    <3> HIDE DEF T
    <3>3. QED
      BY <3>1, <3>2
  <2>12. h[X + Y] = f[X] \o g[Y]
    <3>1. (Y - 1) + 1 = Y
      BY <2>n
    <3>2. QED
      BY <2>11, <3>1
  <2> HIDE DEF T
  <2>13. QED
    BY <2>2, <2>3, <2>4, <2>12 DEF z
<1>6. QED
  BY <1>3, <1>4, <1>5

(* Sequences with a separator after each of them.                           *)
Ended(q, sep) == [i \in DOMAIN q |-> Append(q[i], sep)]

(* Pieces that each end with a separator.                                   *)
LEMMA EndedType ==
    ASSUME NEW C, NEW sep \in C, NEW q \in Seq(Seq(C))
    PROVE  /\ Ended(q, sep) \in Seq(Seq(C)) /\ Len(Ended(q, sep)) = Len(q)
           /\ \A i \in 1 .. Len(q) :
                /\ Len(q[i]) \in Nat /\ Len(Ended(q, sep)[i]) = Len(q[i]) + 1
                /\ Ended(q, sep)[i][Len(q[i]) + 1] = sep
                /\ \A m \in 1 .. Len(q[i]) : Ended(q, sep)[i][m] = q[i][m]
<1> DEFINE N == Len(q)
           E == Ended(q, sep)
<1>1. N \in Nat /\ DOMAIN q = 1 .. N /\ \A i \in 1 .. N : q[i] \in Seq(C)
  OBVIOUS
<1>2. E = [i \in 1 .. N |-> Append(q[i], sep)]
  BY <1>1 DEF Ended
<1> HIDE DEF N, E
<1>3. ASSUME NEW i \in 1 .. N
      PROVE  /\ E[i] \in Seq(C) /\ Len(q[i]) \in Nat /\ Len(E[i]) = Len(q[i]) + 1
             /\ E[i][Len(q[i]) + 1] = sep
             /\ \A m \in 1 .. Len(q[i]) : E[i][m] = q[i][m]
  <2>1. q[i] \in Seq(C) /\ E[i] = Append(q[i], sep)
    BY <1>1, <1>2
  <2> DEFINE x == q[i]
             y == Append(x, sep)
  <2>2. x \in Seq(C)
    BY <2>1
  <2> HIDE DEF x
  <2>3. /\ y \in Seq(C) /\ Len(x) \in Nat /\ Len(y) = Len(x) + 1 /\ y[Len(x) + 1] = sep
        /\ \A m \in 1 .. Len(x) : y[m] = x[m]
    BY <2>2, AppendProperties
  <2> HIDE DEF y
  <2>4. E[i] = y
    BY <2>1 DEF x, y
  <2>5. QED
    BY <2>3, <2>4 DEF x
<1>4. E \in [1 .. N -> Seq(C)] /\ N \in Nat
  BY <1>1, <1>2, <1>3
<1>5. E \in Seq(Seq(C)) /\ Len(E) = N
  BY <1>2, <1>4
<1>6. QED
  BY <1>3, <1>5 DEF E, N

(* Pieces that each end with a separator are laid out as pieces between     *)
(* separators, the last one empty.                                          *)
LEMMA EndedLaid ==
    ASSUME NEW C, NEW sep \in C, NEW q \in Seq(Seq(C))
    PROVE  /\ FlattenSeq(Ended(q, sep)) \in Seq(C)
           /\ Laid(FlattenSeq(Ended(q, sep)), sep, Append(q, <<>>))
<1> DEFINE r == Ended(q, sep)
           f == FlattenSeq(r)
           p == Append(q, <<>>)
           e == Bounds(p)
           E == EndsOf(r)
           N == Len(q)
<1>1. /\ N \in Nat /\ r \in Seq(Seq(C)) /\ Len(r) = N
      /\ \A i \in 1 .. N :
            /\ Len(q[i]) \in Nat /\ Len(r[i]) = Len(q[i]) + 1
            /\ r[i][Len(q[i]) + 1] = sep
            /\ \A m \in 1 .. Len(q[i]) : r[i][m] = q[i][m]
  <2>1. N \in Nat
    OBVIOUS
  <2> HIDE DEF N, r
  <2>2. /\ r \in Seq(Seq(C)) /\ Len(r) = Len(q)
        /\ \A i \in 1 .. Len(q) :
            /\ Len(q[i]) \in Nat /\ Len(r[i]) = Len(q[i]) + 1
            /\ r[i][Len(q[i]) + 1] = sep
            /\ \A m \in 1 .. Len(q[i]) : r[i][m] = q[i][m]
    BY EndedType DEF r
  <2>3. QED
    BY <2>1, <2>2 DEF N
<1>2. p \in Seq(Seq(C)) /\ Len(p) = N + 1 /\ p[N + 1] = <<>> /\ \A i \in 1 .. N : p[i] = q[i]
  <2>1. <<>> \in Seq(C)
    OBVIOUS
  <2> HIDE DEF N
  <2>2. QED
    BY <2>1, AppendProperties DEF N
<1> HIDE DEF r, f, p, e, E, N
<1>n. N \in Nat
  BY <1>1
<1>3. f \in Seq(C) /\ Flat(r, f)
  BY <1>1, FlatFacts DEF f
<1>4. /\ Len(f) = E[N]
      /\ \A i \in 1 .. N : \A m \in 1 .. Len(r[i]) : f[E[i - 1] + m] = r[i][m]
  BY <1>1, <1>3 DEF Flat, E
<1>5. /\ E[0] = 0 /\ \A i \in 1 .. N : E[i] = E[i - 1] + Len(r[i])
      /\ \A i \in 0 .. N : E[i] \in Nat
  BY <1>1, EndsFacts DEF E
<1>6. /\ e[0] = 0 /\ \A i \in 1 .. N + 1 : e[i] = e[i - 1] + Len(p[i]) + 1
      /\ \A i \in 0 .. N + 1 : e[i] \in Nat
  BY <1>2, BoundsFacts DEF e
<1>7. ASSUME NEW i \in 1 .. N
      PROVE  /\ i \in 1 .. N + 1 /\ i - 1 \in 0 .. N /\ i - 1 \in 0 .. N + 1
             /\ Len(q[i]) \in Nat /\ E[i - 1] \in Nat /\ e[i - 1] \in Nat
             /\ E[i] = E[i - 1] + (Len(q[i]) + 1) /\ e[i] = e[i - 1] + Len(q[i]) + 1
  <2>1. i \in 1 .. N + 1 /\ i - 1 \in 0 .. N /\ i - 1 \in 0 .. N + 1
    BY <1>n
  <2>2. E[i - 1] \in Nat /\ e[i - 1] \in Nat
    BY <1>5, <1>6, <2>1
  <2>3. Len(q[i]) \in Nat /\ Len(r[i]) = Len(q[i]) + 1
    BY <1>1
  <2>4. E[i] = E[i - 1] + Len(r[i])
    BY <1>5
  <2>5. e[i] = e[i - 1] + Len(p[i]) + 1 /\ p[i] = q[i]
    BY <1>2, <1>6, <2>1
  <2>6. QED
    BY <2>1, <2>2, <2>3, <2>4, <2>5
<1>8. ASSUME NEW i \in 1 .. N, e[i - 1] = E[i - 1] PROVE e[i] = E[i]
  <2> DEFINE a == e[i - 1]
             b == E[i - 1]
             l == Len(q[i])
             c == e[i]
             d == E[i]
  <2>1. a = b /\ d = b + (l + 1) /\ c = a + l + 1 /\ l \in Nat /\ b \in Nat
    BY <1>7, <1>8
  <2> HIDE DEF a, b, c, d, l
  <2>2. c = d
    BY <2>1
  <2>3. QED
    BY <2>2 DEF c, d
<1>9. \A i \in 0 .. N : e[i] = E[i]
  <2> DEFINE S == {i \in 0 .. N : e[i] = E[i]}
  <2>1. 0 \in S
    BY <1>n, <1>5, <1>6
  <2>2. ASSUME NEW i \in 0 .. N - 1, i \in S PROVE i + 1 \in S
    <3>1. i + 1 \in 1 .. N /\ (i + 1) - 1 = i /\ i + 1 \in 0 .. N
      BY <1>n
    <3>2. QED
      BY <1>8, <2>2, <3>1
  <2> HIDE DEF S
  <2>3. 0 .. N \subseteq S
    BY <1>n, <2>1, <2>2, UpTo
  <2>4. QED
    BY <2>3 DEF S
<1>10. Len(f) + 1 = e[Len(p)]
  <2>1. N + 1 \in 1 .. N + 1 /\ (N + 1) - 1 = N /\ N \in 0 .. N
    BY <1>n
  <2>2. e[N + 1] = e[N] + Len(p[N + 1]) + 1 /\ Len(p[N + 1]) = 0
    BY <1>2, <1>6, <2>1
  <2>3. e[N] = E[N] /\ E[N] \in Nat
    BY <1>5, <1>9, <2>1
  <2>4. e[N + 1] = E[N] + 1
    BY <2>2, <2>3
  <2>5. Len(p) = N + 1 /\ Len(f) = E[N]
    BY <1>2, <1>4
  <2>6. e[Len(p)] = e[N + 1]
    BY <2>5
  <2>7. QED
    BY <2>3, <2>4, <2>5, <2>6
<1>11. ASSUME NEW n \in 1 .. Len(p) - 1 PROVE f[e[n]] = sep
  <2>a. Len(p) - 1 = N
    BY <1>n, <1>2
  <2>b. n \in 1 .. N /\ n \in 0 .. N
    BY <1>n, <2>a
  <2>c. Len(q[n]) \in Nat /\ Len(r[n]) = Len(q[n]) + 1
    BY <1>1, <2>b
  <2>1. n \in 1 .. N /\ n \in 0 .. N /\ Len(q[n]) + 1 \in 1 .. Len(r[n])
    BY <2>b, <2>c
  <2>2. f[E[n - 1] + (Len(q[n]) + 1)] = sep
    BY <1>1, <1>4, <2>1
  <2>3. QED
    BY <1>7, <1>9, <2>1, <2>2
<1>12. ASSUME NEW n \in 1 .. Len(p), NEW m \in 1 .. Len(p[n]) PROVE f[e[n - 1] + m] = p[n][m]
  <2>1. n \in 1 .. N
    <3>1. n \in 1 .. N \/ n = N + 1
      BY <1>n, <1>2
    <3>2. Len(p[N + 1]) = 0
      BY <1>2
    <3>3. n # N + 1
      BY <3>2
    <3>4. QED
      BY <3>1, <3>3
  <2>2. p[n] = q[n] /\ m \in 1 .. Len(q[n]) /\ n - 1 \in 0 .. N
    BY <1>2, <1>7, <2>1
  <2>3. Len(q[n]) \in Nat /\ Len(r[n]) = Len(q[n]) + 1 /\ r[n][m] = q[n][m]
    BY <1>1, <2>1, <2>2
  <2>4. m \in 1 .. Len(r[n])
    BY <2>2, <2>3
  <2>5. f[E[n - 1] + m] = r[n][m]
    BY <1>4, <2>1, <2>4
  <2>6. QED
    BY <1>9, <2>2, <2>3, <2>5
<1>13. Laid(f, sep, p)
  BY <1>10, <1>11, <1>12 DEF Laid, e
<1>14. QED
  BY <1>3, <1>13 DEF f, p, r

(* A separator after each goes over concatenation.                          *)
LEMMA EndedCat ==
    ASSUME NEW C, NEW sep \in C, NEW x \in Seq(Seq(C)), NEW y \in Seq(Seq(C))
    PROVE  Ended(x \o y, sep) = Ended(x, sep) \o Ended(y, sep)
<1> DEFINE z == x \o y
           X == Len(x)
           Y == Len(y)
           a == Ended(x, sep)
           b == Ended(y, sep)
           c == Ended(z, sep)
           d == a \o b
<1>1. /\ z \in Seq(Seq(C)) /\ Len(z) = X + Y /\ X \in Nat /\ Y \in Nat
      /\ \A k \in 1 .. X : z[k] = x[k]
      /\ \A k \in 1 .. Y : z[X + k] = y[k]
  BY TwoParts
<1>2. a \in Seq(Seq(C)) /\ Len(a) = X /\ b \in Seq(Seq(C)) /\ Len(b) = Y
  BY EndedType
<1>3. /\ \A k \in 1 .. X : a[k] = Append(x[k], sep)
      /\ \A k \in 1 .. Y : b[k] = Append(y[k], sep)
  <2>1. DOMAIN x = 1 .. X /\ DOMAIN y = 1 .. Y
    OBVIOUS
  <2> HIDE DEF X, Y
  <2>2. QED
    BY <2>1 DEF Ended
<1> HIDE DEF z, X, Y
<1>4. c \in Seq(Seq(C)) /\ Len(c) = X + Y
  <2>1. z \in Seq(Seq(C))
    BY <1>1
  <2>2. c \in Seq(Seq(C)) /\ Len(c) = Len(z)
    BY <2>1, EndedType
  <2>3. QED
    BY <1>1, <2>2
<1>5. \A k \in 1 .. X + Y : c[k] = Append(z[k], sep)
  <2>1. DOMAIN z = 1 .. X + Y
    BY <1>1
  <2>2. QED
    BY <2>1 DEF Ended
<1> HIDE DEF a, b, c
<1>6. /\ d \in Seq(Seq(C)) /\ Len(d) = X + Y
      /\ \A k \in 1 .. X : d[k] = a[k]
      /\ \A k \in 1 .. Y : d[X + k] = b[k]
  <2>1. a \in Seq(Seq(C)) /\ b \in Seq(Seq(C))
    BY <1>2
  <2>2. /\ d \in Seq(Seq(C)) /\ Len(d) = Len(a) + Len(b)
        /\ \A k \in 1 .. Len(a) : d[k] = a[k]
        /\ \A k \in 1 .. Len(b) : d[Len(a) + k] = b[k]
    BY <2>1, TwoParts
  <2>3. QED
    BY <1>2, <2>2
<1> HIDE DEF d
<1>7. ASSUME NEW k \in 1 .. X + Y PROVE c[k] = d[k]
  <2>1. X \in Nat /\ Y \in Nat
    BY <1>1
  <2>2. CASE k <= X
    <3>1. k \in 1 .. X
      BY <2>1, <2>2
    <3>2. QED
      BY <1>1, <1>3, <1>5, <1>6, <3>1, ZenonT(30)
  <2>3. CASE ~(k <= X)
    <3>1. k - X \in 1 .. Y /\ X + (k - X) = k
      BY <2>1, <2>3
    <3>2. z[X + (k - X)] = y[k - X] /\ d[X + (k - X)] = b[k - X] /\ b[k - X] = Append(y[k - X], sep)
      BY <1>1, <1>3, <1>6, <3>1
    <3>3. QED
      BY <1>5, <3>1, <3>2
  <2>4. QED
    BY <2>2, <2>3
<1>8. X + Y \in Nat
  BY <1>1
<1>9. c = d
  BY <1>4, <1>6, <1>7, <1>8, SeqEqual
<1>10. QED
  BY <1>9 DEF a, b, c, d, z

(* The symbols of the text; those of a value are of three kinds.            *)
Kinds == {"digit", "hash", "number", "tab", "newline", "entry", "CRI_CPK_MANIFEST_V2"}
            \cup ToSet(HeadKeys)
Symbols == [kind : Kinds, n : Nat]
Plain == [kind : {"digit", "hash", "number"}, n : Nat]

(* Words and digits are neither tabs nor newlines.                          *)
LEMMA PlainFacts ==
    /\ Plain \subseteq Symbols \ {Tab, Newline}
    /\ Tab \in Symbols /\ Newline \in Symbols /\ Tab # Newline
    /\ MANIFEST_MAGIC \in Symbols \ {Tab, Newline} /\ Word("entry") \in Symbols \ {Tab, Newline}
<1>1. \A w \in Kinds : Word(w) \in Symbols /\ Word(w).kind = w
  BY DEF Word, Sym, Symbols
<1>2. Tab \in Symbols /\ Newline \in Symbols /\ Tab.kind = "tab" /\ Newline.kind = "newline"
  BY <1>1 DEF Tab, Newline, Kinds
<1>3. \A s \in Plain : s \in Symbols /\ s.kind # "tab" /\ s.kind # "newline"
  BY DEF Plain, Symbols, Kinds
<1>4. /\ MANIFEST_MAGIC \in Symbols /\ MANIFEST_MAGIC.kind = "CRI_CPK_MANIFEST_V2"
      /\ Word("entry") \in Symbols /\ Word("entry").kind = "entry"
  BY <1>1 DEF MANIFEST_MAGIC, Kinds
<1>5. \A s : s.kind # "tab" /\ s.kind # "newline" => s # Tab /\ s # Newline
  BY <1>2
<1>6. Plain \subseteq Symbols \ {Tab, Newline}
  BY <1>3, <1>5
<1>7. Tab # Newline
  BY <1>2
<1>8. QED
  BY <1>2, <1>4, <1>5, <1>6, <1>7

(* The keys are different words, none of them a separator.                  *)
LEMMA HeadKeysFacts ==
    /\ Len(HeadKeys) = 11 /\ DOMAIN HeadKeys = 1 .. 11
    /\ \A i, j \in 1 .. 11 : HeadKeys[i] = HeadKeys[j] => i = j
    /\ \A i \in 1 .. 11 : Word(HeadKeys[i]) \in Symbols \ {Tab, Newline}
<1>1. Len(HeadKeys) = 11 /\ DOMAIN HeadKeys = 1 .. 11
  BY DEF HeadKeys
<1>2. \A i, j \in 1 .. 11 : HeadKeys[i] = HeadKeys[j] => i = j
  BY DEF HeadKeys
<1>3. \A i \in 1 .. 11 : HeadKeys[i] # "tab" /\ HeadKeys[i] # "newline"
  BY DEF HeadKeys
<1>4. \A i \in 1 .. 11 : HeadKeys[i] \in Kinds
  BY <1>1 DEF Kinds, ToSet
<1>5. \A w \in Kinds : Word(w) \in Symbols /\ Word(w).kind = w
  BY DEF Word, Sym, Symbols
<1>6. Tab.kind = "tab" /\ Newline.kind = "newline"
  BY DEF Word, Sym, Tab, Newline
<1>7. \A i \in 1 .. 11 : Word(HeadKeys[i]) \in Symbols \ {Tab, Newline}
  BY <1>3, <1>4, <1>5, <1>6
<1>8. QED
  BY <1>1, <1>2, <1>7

(* The nine keys of an entry are different.                                 *)
LEMMA EntryKeysFacts ==
    /\ Len(EntryKeys) = 9 /\ DOMAIN EntryKeys = 1 .. 9
    /\ \A i, j \in 1 .. 9 : EntryKeys[i] = EntryKeys[j] => i = j
<1>1. Len(EntryKeys) = 9 /\ DOMAIN EntryKeys = 1 .. 9
  BY DEF EntryKeys
<1>2. \A i, j \in 1 .. 9 : EntryKeys[i] = EntryKeys[j] => i = j
  BY DEF EntryKeys
<1>3. QED
  BY <1>1, <1>2

(* The two digits of each byte of a string.                                 *)
Digits(s) == [k \in DOMAIN s |-> <<Sym("digit", s[k] \div 16), Sym("digit", s[k] % 16)>>]

(* encode_field writes two digits for each byte.                            *)
LEMMA EncodedFacts ==
    ASSUME NEW s \in Seq(0 .. 127)
    PROVE  /\ encode_field(s) \in Seq([kind : {"digit"}, n : 0 .. 15])
           /\ Len(s) \in Nat /\ Len(encode_field(s)) = 2 * Len(s)
           /\ \A k \in 1 .. Len(s) :
                /\ s[k] \in 0 .. 127
                /\ encode_field(s)[2 * k - 1] = Sym("digit", s[k] \div 16)
                /\ encode_field(s)[2 * k] = Sym("digit", s[k] % 16)
<1> DEFINE D == [kind : {"digit"}, n : 0 .. 15]
           N == Len(s)
           q == Digits(s)
           f == encode_field(s)
           E == EndsOf(q)
<1>1. N \in Nat /\ DOMAIN s = 1 .. N /\ \A k \in 1 .. N : s[k] \in 0 .. 127
  <2> DEFINE B == 0 .. 127
  <2>1. s \in Seq(B)
    OBVIOUS
  <2> HIDE DEF B
  <2>2. N \in Nat /\ DOMAIN s = 1 .. N /\ \A k \in 1 .. N : s[k] \in B
    BY <2>1
  <2>3. QED
    BY <2>2 DEF B
<1>2. f = FlattenSeq(q)
  BY DEF encode_field, Digits
<1> HIDE DEF N, f
<1>n. N \in Nat
  BY <1>1
<1>3. ASSUME NEW k \in 1 .. N
      PROVE  /\ q[k] = <<Sym("digit", s[k] \div 16), Sym("digit", s[k] % 16)>>
             /\ q[k] \in Seq(D) /\ Len(q[k]) = 2
             /\ q[k][1] = Sym("digit", s[k] \div 16) /\ q[k][2] = Sym("digit", s[k] % 16)
  <2> DEFINE a == Sym("digit", s[k] \div 16)
             b == Sym("digit", s[k] % 16)
  <2>1. q[k] = <<a, b>>
    BY <1>1 DEF Digits
  <2>2. s[k] \div 16 \in 0 .. 15 /\ s[k] % 16 \in 0 .. 15
    <3>1. s[k] \in 0 .. 127
      BY <1>1
    <3> DEFINE v == s[k]
    <3>2. v \in 0 .. 127
      BY <3>1
    <3> HIDE DEF v
    <3>3. v \div 16 \in 0 .. 15 /\ v % 16 \in 0 .. 15
      BY <3>2
    <3>4. QED
      BY <3>3 DEF v
  <2>3. a \in D /\ b \in D
    BY <2>2 DEF Sym
  <2> HIDE DEF a, b, q, D
  <2>4. QED
    BY <2>1, <2>3 DEF a, b
<1>4. q \in Seq(Seq(D)) /\ Len(q) = N
  <2>1. q = [k \in 1 .. N |-> q[k]]
    BY <1>1 DEF Digits
  <2> HIDE DEF q, D
  <2>2. q \in [1 .. N -> Seq(D)]
    BY <1>3, <2>1
  <2>3. QED
    BY <1>n, <2>1, <2>2
<1> HIDE DEF q, D, E
<1>5. f \in Seq(D) /\ Flat(q, f)
  BY <1>2, <1>4, FlatFacts
<1>6. /\ Len(f) = E[N]
      /\ \A k \in 1 .. N : \A m \in 1 .. Len(q[k]) : f[E[k - 1] + m] = q[k][m]
  BY <1>4, <1>5 DEF Flat, E
<1>7. E[0] = 0 /\ \A k \in 1 .. N : E[k] = E[k - 1] + Len(q[k])
  BY <1>4, EndsFacts DEF E
<1>8. \A k \in 0 .. N : E[k] = 2 * k
  <2> DEFINE S == {k \in 0 .. N : E[k] = 2 * k}
  <2>1. 0 \in S
    BY <1>n, <1>7
  <2>2. ASSUME NEW k \in 0 .. N - 1, k \in S PROVE k + 1 \in S
    <3>1. k + 1 \in 1 .. N /\ (k + 1) - 1 = k /\ k + 1 \in 0 .. N
      BY <1>n
    <3>2. E[k + 1] = E[k] + 2 /\ E[k] = 2 * k
      BY <1>3, <1>7, <2>2, <3>1
    <3>3. E[k + 1] = 2 * (k + 1)
      BY <3>1, <3>2
    <3>4. QED
      BY <3>1, <3>3
  <2> HIDE DEF S
  <2>3. 0 .. N \subseteq S
    BY <1>n, <2>1, <2>2, UpTo
  <2>4. QED
    BY <2>3 DEF S
<1>9. ASSUME NEW k \in 1 .. N
      PROVE  /\ f[2 * k - 1] = Sym("digit", s[k] \div 16)
             /\ f[2 * k] = Sym("digit", s[k] % 16)
  <2>1. k - 1 \in 0 .. N /\ 2 * (k - 1) + 1 = 2 * k - 1 /\ 2 * (k - 1) + 2 = 2 * k
    BY <1>n
  <2>2. E[k - 1] = 2 * (k - 1)
    BY <1>8, <2>1
  <2>3. 1 \in 1 .. Len(q[k]) /\ 2 \in 1 .. Len(q[k])
    BY <1>3
  <2>4. f[E[k - 1] + 1] = q[k][1] /\ f[E[k - 1] + 2] = q[k][2]
    BY <1>6, <2>3
  <2>5. QED
    BY <1>3, <2>1, <2>2, <2>4
<1>10. Len(f) = 2 * N
  BY <1>n, <1>6, <1>8
<1>11. QED
  BY <1>1, <1>5, <1>9, <1>10 DEF N, f, D

(* What parse makes of a value is the value again.                          *)
FieldFits(key, v) == IF key \in Text THEN v \in Seq(0 .. 127) ELSE v \in 0 .. MaxOf(key)

(* decode_field of an encoded field gives the bytes back.                   *)
LEMMA DecodedFacts ==
    ASSUME NEW s \in Seq(0 .. 127)
    PROVE  decode_field(encode_field(s)) = [ok |-> TRUE, v |-> s]
<1> DEFINE f == encode_field(s)
           N == Len(s)
           byte(k) == 16 * f[2 * k - 1].n + f[2 * k].n
<1>1. /\ f \in Seq([kind : {"digit"}, n : 0 .. 15]) /\ N \in Nat /\ Len(f) = 2 * N
      /\ \A k \in 1 .. N : /\ s[k] \in 0 .. 127
                           /\ f[2 * k - 1] = Sym("digit", s[k] \div 16)
                           /\ f[2 * k] = Sym("digit", s[k] % 16)
  BY EncodedFacts
<1>2. s = [k \in 1 .. N |-> s[k]]
  OBVIOUS
<1>3. \A j \in DOMAIN f : f[j].kind = "digit"
  <2> DEFINE D == [kind : {"digit"}, n : 0 .. 15]
  <2>1. f \in Seq(D) /\ \A d \in D : d.kind = "digit"
    BY <1>1
  <2> HIDE DEF D, f
  <2>2. \A j \in DOMAIN f : f[j] \in D
    BY <2>1
  <2>3. QED
    BY <2>1, <2>2
<1>d. decode_field(f) = IF \/ Len(f) % 2 # 0 \/ \E j \in DOMAIN f : f[j].kind # "digit"
                           \/ \E j \in 1 .. Len(f) \div 2 : byte(j) > 127
                        THEN [ok |-> FALSE]
                        ELSE [ok |-> TRUE, v |-> [j \in 1 .. Len(f) \div 2 |-> byte(j)]]
  BY DEF decode_field
<1> HIDE DEF f, N
<1>4. ASSUME NEW k \in 1 .. N PROVE byte(k) = s[k] /\ ~(byte(k) > 127)
  <2> DEFINE v == s[k]
  <2>1. v \in 0 .. 127 /\ f[2 * k - 1] = Sym("digit", v \div 16) /\ f[2 * k] = Sym("digit", v % 16)
    BY <1>1
  <2>2. f[2 * k - 1].n = v \div 16 /\ f[2 * k].n = v % 16
    BY <2>1 DEF Sym
  <2>3. v \in 0 .. 127
    BY <2>1
  <2> HIDE DEF v
  <2>4. v = 16 * (v \div 16) + (v % 16)
    BY <2>3
  <2>5. byte(k) = v
    BY <2>2, <2>4
  <2>6. ~(v > 127)
    BY <2>3
  <2> HIDE DEF byte
  <2>7. QED
    BY <2>5, <2>6 DEF v
<1>5. Len(f) % 2 = 0 /\ Len(f) \div 2 = N
  <2>1. N \in Nat /\ Len(f) = 2 * N
    BY <1>1
  <2>2. (2 * N) % 2 = 0 /\ (2 * N) \div 2 = N
    BY <2>1
  <2>3. QED
    BY <2>1, <2>2
<1> HIDE DEF byte
<1>6. [j \in 1 .. N |-> byte(j)] = [j \in 1 .. N |-> s[j]]
  BY <1>4
<1>7. decode_field(f) = [ok |-> TRUE, v |-> [j \in 1 .. N |-> byte(j)]]
  BY <1>3, <1>4, <1>5, <1>d
<1>8. decode_field(f) = [ok |-> TRUE, v |-> s]
  BY <1>2, <1>6, <1>7
<1>9. QED
  BY <1>8 DEF f

(* A field is written without tabs and newlines, and is parsed back.        *)
LEMMA ShownFacts ==
    ASSUME NEW key, NEW v, FieldFits(key, v)
    PROVE  Shown(key, v) \in Seq(Plain) /\ parse(key, Shown(key, v)) = [ok |-> TRUE, v |-> v]
<1>1. CASE key \in Text
  <2>1. v \in Seq(0 .. 127)
    BY <1>1 DEF FieldFits
  <2>2. Shown(key, v) = encode_field(v)
    BY <1>1 DEF Shown
  <2>3. [kind : {"digit"}, n : 0 .. 15] \subseteq Plain
    BY DEF Plain
  <2>4. encode_field(v) \in Seq(Plain)
    <3> DEFINE D == [kind : {"digit"}, n : 0 .. 15]
               f == encode_field(v)
    <3>1. f \in Seq(D) /\ D \subseteq Plain
      BY <2>1, <2>3, EncodedFacts
    <3> HIDE DEF D, f
    <3>2. f \in Seq(Plain)
      BY <3>1
    <3>3. QED
      BY <3>2 DEF f
  <2>5. parse(key, encode_field(v)) = decode_field(encode_field(v))
    BY <1>1 DEF parse
  <2>6. QED
    BY <2>1, <2>2, <2>4, <2>5, DecodedFacts
<1>2. CASE key \notin Text
  <2> DEFINE M == MaxOf(key)
             kind == IF key \in Hashes THEN "hash" ELSE "number"
             s == <<Sym(kind, v)>>
  <2>1. M \in Nat
    BY ManifestAssumption DEF MaxOf
  <2>2. v \in 0 .. M
    BY <1>2 DEF FieldFits
  <2> HIDE DEF M
  <2>3. v \in Nat /\ ~(v > M)
    BY <2>1, <2>2
  <2>4. Shown(key, v) = s
    BY <1>2 DEF Shown
  <2>5. kind \in {"number", "digit", "hash"} /\ (key \in Bools => kind # "hash")
    BY DEF Bools, Hashes
  <2> HIDE DEF kind
  <2>6. Sym(kind, v) \in Plain /\ Sym(kind, v).kind = kind /\ Sym(kind, v).n = v
    BY <2>3, <2>5 DEF Sym, Plain
  <2>7. s \in Seq(Plain) /\ Len(s) = 1 /\ s[1].kind = kind /\ s[1].n = v
    BY <2>6
  <2> HIDE DEF s
  <2>8. parse(key, s) = [ok |-> TRUE, v |-> v]
    BY <1>2, <2>3, <2>5, <2>7 DEF parse, M
  <2>9. QED
    BY <2>4, <2>7, <2>8
<1>3. QED
  BY <1>1, <1>2

(* The lines of a manifest, without their ends.                             *)
HeadRow(m, i) == <<Word(HeadKeys[i]), Tab>> \o Shown(HeadKeys[i], m.head[HeadKeys[i]])
HeadRows(m) == [i \in DOMAIN HeadKeys |-> HeadRow(m, i)]
EntryRow(r) ==
    <<Word("entry")>> \o FlattenSeq([i \in DOMAIN EntryKeys |-> <<Tab>> \o Shown(EntryKeys[i], r[EntryKeys[i]])])
EntryRows(m) == [e \in DOMAIN m.entries |-> EntryRow(m.entries[e])]
MagicRows == << <<MANIFEST_MAGIC>> >>
Rows(m) == (MagicRows \o HeadRows(m)) \o EntryRows(m)

(* The symbols of a line.                                                   *)
InLine == Symbols \ {Newline}

(* The same for each key of a record.                                       *)
LEMMA RecordFacts ==
    ASSUME NEW r, NEW keys, IsRecord(r, keys), NEW i \in DOMAIN keys
    PROVE  /\ Shown(keys[i], r[keys[i]]) \in Seq(Plain)
           /\ parse(keys[i], Shown(keys[i], r[keys[i]])) = [ok |-> TRUE, v |-> r[keys[i]]]
<1>1. keys[i] \in ToSet(keys)
  BY DEF ToSet
<1>2. FieldFits(keys[i], r[keys[i]])
  BY <1>1 DEF IsRecord, FieldFits
<1>3. QED
  BY <1>2, ShownFacts

(* A line of the head: its key, a tab, its value.                           *)
LEMMA HeadRowType ==
    ASSUME NEW m, IsRecord(m.head, HeadKeys), NEW i \in DOMAIN HeadKeys
    PROVE  /\ HeadRow(m, i) \in Seq(InLine)
           /\ Len(HeadRow(m, i)) \in Nat \ {0, 1}
           /\ SubSeq(HeadRow(m, i), 1, 2) = <<Word(HeadKeys[i]), Tab>>
           /\ SubSeq(HeadRow(m, i), 3, Len(HeadRow(m, i))) = Shown(HeadKeys[i], m.head[HeadKeys[i]])
<1> DEFINE x == <<Word(HeadKeys[i]), Tab>>
           y == Shown(HeadKeys[i], m.head[HeadKeys[i]])
           z == x \o y
<1>1. HeadRow(m, i) = z
  BY DEF HeadRow
<1>2. y \in Seq(Plain)
  BY RecordFacts
<1>3. Word(HeadKeys[i]) \in InLine /\ Tab \in InLine
  BY HeadKeysFacts, PlainFacts DEF InLine
<1>4. x \in Seq(InLine) /\ Len(x) = 2 /\ x = <<Word(HeadKeys[i]), Tab>>
  BY <1>3
<1>5. y \in Seq(InLine) /\ Len(y) \in Nat
  <2>1. Plain \subseteq InLine
    BY PlainFacts DEF InLine
  <2> HIDE DEF y
  <2>2. QED
    BY <1>2, <2>1
<1> HIDE DEF x, y
<1>6. /\ z \in Seq(InLine) /\ Len(z) = 2 + Len(y)
      /\ \A k \in 1 .. 2 : z[k] = x[k]
      /\ \A k \in 1 .. Len(y) : z[2 + k] = y[k]
  <2>1. x \in Seq(InLine) /\ y \in Seq(InLine)
    BY <1>4, <1>5
  <2>2. /\ z \in Seq(InLine) /\ Len(z) = Len(x) + Len(y)
        /\ \A k \in 1 .. Len(x) : z[k] = x[k]
        /\ \A k \in 1 .. Len(y) : z[Len(x) + k] = y[k]
    BY <2>1, TwoParts
  <2>3. QED
    BY <1>4, <2>2
<1> HIDE DEF z
<1> DEFINE l == Len(z)
           n == Len(y)
<1>7. l \in Nat \ {0, 1} /\ l = 2 + n /\ n \in Nat
  BY <1>5, <1>6
<1>8. SubSeq(z, 1, 2) = x
  <2>1. SubSeq(z, 1, 2) \in Seq(InLine) /\ Len(SubSeq(z, 1, 2)) = 2
        /\ \A k \in 1 .. 2 : SubSeq(z, 1, 2)[k] = z[k]
    <3>1. \A k \in 1 .. 2 : k \in 1 .. Len(z)
      BY <1>7
    <3>2. \A k \in 1 .. 2 : z[k] \in InLine
      BY <1>6, <3>1
    <3>3. \A k \in 1 .. 2 : 1 + k - 1 = k
      OBVIOUS
    <3>4. /\ SubSeq(z, 1, 2) \in Seq(InLine)
          /\ Len(SubSeq(z, 1, 2)) = IF 1 <= 2 THEN 2 - 1 + 1 ELSE 0
          /\ \A k \in 1 .. 2 - 1 + 1 : SubSeq(z, 1, 2)[k] = z[1 + k - 1]
      BY <3>2, SubSeqProperties
    <3>5. QED
      BY <3>3, <3>4
  <2> DEFINE w == SubSeq(z, 1, 2)
  <2>2. w \in Seq(InLine) /\ Len(w) = 2 /\ \A k \in 1 .. 2 : w[k] = z[k]
    BY <2>1
  <2> HIDE DEF w
  <2>3. Len(w) = Len(x) /\ \A k \in 1 .. Len(w) : w[k] = x[k]
    BY <1>4, <1>6, <2>2
  <2>4. w = x
    BY <1>4, <2>2, <2>3, SeqEqual
  <2>5. QED
    BY <2>4 DEF w
<1>9. SubSeq(z, 3, l) = y
  <2>1. \A k \in 3 .. l : z[k] \in InLine
    <3>1. \A k \in 3 .. l : k \in 1 .. Len(z)
      BY <1>7
    <3>2. QED
      BY <1>6, <3>1
  <2>2. 3 \in Int /\ l \in Int /\ l - 3 + 1 = n /\ (IF 3 <= l THEN l - 3 + 1 ELSE 0) = n
    BY <1>7
  <2>3. \A k \in 1 .. n : 3 + k - 1 = 2 + k
    BY <1>7
  <2> HIDE DEF l, n
  <2>4. /\ SubSeq(z, 3, l) \in Seq(InLine)
        /\ Len(SubSeq(z, 3, l)) = IF 3 <= l THEN l - 3 + 1 ELSE 0
        /\ \A k \in 1 .. l - 3 + 1 : SubSeq(z, 3, l)[k] = z[3 + k - 1]
    BY <2>1, <2>2, SubSeqProperties
  <2> DEFINE w == SubSeq(z, 3, l)
  <2>5. w \in Seq(InLine) /\ Len(w) = n /\ \A k \in 1 .. n : w[k] = z[2 + k]
    BY <2>2, <2>3, <2>4
  <2> HIDE DEF w
  <2>6. n = Len(y) /\ \A k \in 1 .. n : w[k] = y[k]
    BY <1>6, <2>5 DEF n
  <2>7. w = y
    BY <1>5, <2>5, <2>6, SeqEqual
  <2>8. QED
    BY <2>7 DEF w
<1>10. QED
  BY <1>1, <1>6, <1>7, <1>8, <1>9 DEF x, y, l

(* The values of an entry, and the fields of its line.                      *)
Values(r) == [i \in DOMAIN EntryKeys |-> Shown(EntryKeys[i], r[EntryKeys[i]])]
EntryField == << <<Word("entry")>> >>
Fields(r) == EntryField \o Values(r)

(* The fields of an entry's line: the word, then the nine values.           *)
LEMMA FieldsType ==
    ASSUME NEW r, IsRecord(r, EntryKeys)
    PROVE  /\ Fields(r) \in Seq(Seq(Symbols \ {Tab, Newline})) /\ Len(Fields(r)) = 10
           /\ Fields(r)[1] = <<Word("entry")>>
           /\ \A i \in 1 .. 9 : Fields(r)[i + 1] = Shown(EntryKeys[i], r[EntryKeys[i]])
           /\ Values(r) \in Seq(Seq(Symbols \ {Tab, Newline})) /\ Len(Values(r)) = 9
<1> DEFINE C == Symbols \ {Tab, Newline}
           x == EntryField
           y == Values(r)
           z == Fields(r)
<1>1. x \in Seq(Seq(C)) /\ Len(x) = 1 /\ x[1] = <<Word("entry")>>
  <2>1. <<Word("entry")>> \in Seq(C)
    BY PlainFacts
  <2> HIDE DEF C
  <2>2. QED
    BY <2>1 DEF EntryField
<1>2. y \in Seq(Seq(C)) /\ Len(y) = 9 /\ \A i \in 1 .. 9 : y[i] = Shown(EntryKeys[i], r[EntryKeys[i]])
  <2>1. Plain \subseteq C
    BY PlainFacts
  <2> HIDE DEF C
  <2>2. \A i \in 1 .. 9 : Shown(EntryKeys[i], r[EntryKeys[i]]) \in Seq(Plain)
    BY RecordFacts, EntryKeysFacts
  <2>a. \A s \in Seq(Plain) : s \in Seq(C)
    BY <2>1
  <2>3. \A i \in 1 .. 9 : Shown(EntryKeys[i], r[EntryKeys[i]]) \in Seq(C)
    BY <2>2, <2>a
  <2>4. y = [i \in 1 .. 9 |-> Shown(EntryKeys[i], r[EntryKeys[i]])]
    BY EntryKeysFacts DEF Values
  <2> HIDE DEF y
  <2>5. y \in [1 .. 9 -> Seq(C)]
    BY <2>3, <2>4
  <2>6. QED
    BY <2>4, <2>5
<1>3. z = x \o y
  BY DEF Fields
<1> HIDE DEF C, x, y, z
<1>4. /\ x \o y \in Seq(Seq(C)) /\ Len(x \o y) = Len(x) + Len(y)
      /\ \A k \in 1 .. Len(x) : (x \o y)[k] = x[k]
      /\ \A k \in 1 .. Len(y) : (x \o y)[Len(x) + k] = y[k]
  <2>1. x \in Seq(Seq(C)) /\ y \in Seq(Seq(C))
    BY <1>1, <1>2
  <2>2. QED
    BY <2>1, TwoParts
<1>5. /\ z \in Seq(Seq(C)) /\ Len(z) = 10 /\ z[1] = x[1]
      /\ \A k \in 1 .. 9 : z[1 + k] = y[k]
  <2>1. Len(x) = 1 /\ Len(y) = 9 /\ 1 \in 1 .. 1
    BY <1>1, <1>2
  <2>2. /\ z \in Seq(Seq(C)) /\ Len(z) = 1 + 9
        /\ \A k \in 1 .. 1 : z[k] = x[k]
        /\ \A k \in 1 .. 9 : z[1 + k] = y[k]
    BY <1>3, <1>4, <2>1
  <2>3. QED
    BY <2>1, <2>2
<1>6. \A k \in 1 .. 9 : z[k + 1] = Shown(EntryKeys[k], r[EntryKeys[k]])
  <2>1. \A k \in 1 .. 9 : k + 1 = 1 + k
    OBVIOUS
  <2>2. QED
    BY <1>2, <1>5, <2>1
<1>7. QED
  BY <1>1, <1>2, <1>5, <1>6 DEF C, x, y, z

(* The line of an entry is its fields with tabs between.                    *)
LEMMA EntryRowFacts ==
    ASSUME NEW r, IsRecord(r, EntryKeys)
    PROVE  /\ EntryRow(r) \in Seq(InLine) /\ EntryRow(r) # <<>>
           /\ Pieces(EntryRow(r), Tab) = Fields(r)
<1> DEFINE C == Symbols \ {Tab, Newline}
           p == Fields(r)
           v == Values(r)
           t == [i \in DOMAIN EntryKeys |-> <<Tab>> \o Shown(EntryKeys[i], r[EntryKeys[i]])]
           f == FlattenSeq(Between(p, Tab))
<1>1. /\ p \in Seq(Seq(C)) /\ Len(p) = 10 /\ p[1] = <<Word("entry")>>
      /\ \A i \in 1 .. 9 : p[i + 1] = Shown(EntryKeys[i], r[EntryKeys[i]])
  BY FieldsType
<1>2. C = InLine \ {Tab} /\ Tab \in InLine /\ C \subseteq InLine /\ Word("entry") \in InLine
  BY PlainFacts DEF InLine
<1> HIDE DEF C, p
<1>3. p \in Seq(Seq(InLine)) /\ Len(p) # 0
  <2>1. \A x \in Seq(C) : x \in Seq(InLine)
    BY <1>2
  <2>2. QED
    BY <1>1, <2>1
<1>4. t \in Seq(Seq(InLine)) /\ Len(t) = 9
      /\ \A i \in 1 .. 9 : t[i] = <<Tab>> \o Shown(EntryKeys[i], r[EntryKeys[i]])
  <2>1. \A i \in 1 .. 9 : Shown(EntryKeys[i], r[EntryKeys[i]]) \in Seq(InLine)
    <3>1. Plain \subseteq InLine
      BY PlainFacts DEF InLine
    <3>2. \A i \in 1 .. 9 : Shown(EntryKeys[i], r[EntryKeys[i]]) \in Seq(Plain)
      BY RecordFacts, EntryKeysFacts
    <3>3. \A s \in Seq(Plain) : s \in Seq(InLine)
      BY <3>1
    <3>4. QED
      BY <3>2, <3>3
  <2>2. \A i \in 1 .. 9 : <<Tab>> \o Shown(EntryKeys[i], r[EntryKeys[i]]) \in Seq(InLine)
    BY <1>2, <2>1, Prefixed
  <2>3. t = [i \in 1 .. 9 |-> <<Tab>> \o Shown(EntryKeys[i], r[EntryKeys[i]])]
    BY EntryKeysFacts
  <2> HIDE DEF t
  <2>4. t \in [1 .. 9 -> Seq(InLine)]
    BY <2>2, <2>3
  <2> DEFINE N == 9
  <2>a. t \in [1 .. N -> Seq(InLine)] /\ N \in Nat
    BY <2>4
  <2> HIDE DEF N
  <2>b. t \in Seq(Seq(InLine)) /\ Len(t) = N
    BY <2>a
  <2>5. t \in Seq(Seq(InLine)) /\ Len(t) = 9
    BY <2>b DEF N
  <2>6. \A i \in 1 .. 9 : t[i] = <<Tab>> \o Shown(EntryKeys[i], r[EntryKeys[i]])
    BY <2>3, ZenonT(30)
  <2>7. QED
    BY <2>5, <2>6, ZenonT(30)
<1>5. Between(p, Tab) = EntryField \o t
  <2> DEFINE a == Between(p, Tab)
             b == EntryField \o t
  <2>1. EntryField \in Seq(Seq(InLine)) /\ Len(EntryField) = 1 /\ EntryField[1] = <<Word("entry")>>
    <3>1. <<Word("entry")>> \in Seq(InLine)
      BY <1>2
    <3>2. QED
      BY <3>1 DEF EntryField
  <2> HIDE DEF t
  <2>2. /\ b \in Seq(Seq(InLine)) /\ Len(b) = 10 /\ b[1] = <<Word("entry")>>
        /\ \A k \in 1 .. 9 : b[1 + k] = t[k]
    <3>1. EntryField \in Seq(Seq(InLine)) /\ t \in Seq(Seq(InLine))
      BY <1>4, <2>1
    <3>2. /\ b \in Seq(Seq(InLine)) /\ Len(b) = Len(EntryField) + Len(t)
          /\ \A k \in 1 .. Len(EntryField) : b[k] = EntryField[k]
          /\ \A k \in 1 .. Len(t) : b[Len(EntryField) + k] = t[k]
      BY <3>1, TwoParts
    <3> HIDE DEF b
    <3>3. QED
      BY <1>4, <2>1, <3>2
  <2>3. a = [i \in 1 .. 10 |-> IF i = 1 THEN p[1] ELSE <<Tab>> \o p[i]]
    BY <1>1 DEF Between
  <2>4. b = [i \in 1 .. 10 |-> b[i]]
    <3> HIDE DEF b
    <3>1. QED
      BY <2>2
  <2> HIDE DEF b
  <2>5. ASSUME NEW i \in 1 .. 10 PROVE b[i] = IF i = 1 THEN p[1] ELSE <<Tab>> \o p[i]
    <3>1. CASE i = 1
      BY <1>1, <2>2, <3>1
    <3>2. CASE i # 1
      <4>1. i - 1 \in 1 .. 9 /\ 1 + (i - 1) = i /\ (i - 1) + 1 = i
        BY <3>2
      <4>2. b[1 + (i - 1)] = t[i - 1] /\ p[(i - 1) + 1] = Shown(EntryKeys[i - 1], r[EntryKeys[i - 1]])
        BY <1>1, <2>2, <4>1
      <4>3. t[i - 1] = <<Tab>> \o Shown(EntryKeys[i - 1], r[EntryKeys[i - 1]])
        BY <1>4, <4>1, ZenonT(30)
      <4>4. QED
        BY <3>2, <4>1, <4>2, <4>3
    <3>3. QED
      BY <3>1, <3>2
  <2>6. a = b
    BY <2>3, <2>4, <2>5
  <2>7. QED
    BY <2>6 DEF b
<1>6. EntryRow(r) = f
  <2>1. EntryRow(r) = <<Word("entry")>> \o FlattenSeq(t)
    BY DEF EntryRow
  <2>2. EntryField \in Seq(Seq(InLine))
    <3>1. <<Word("entry")>> \in Seq(InLine)
      BY <1>2
    <3>2. QED
      BY <3>1 DEF EntryField
  <2> HIDE DEF t
  <2>3. t \in Seq(Seq(InLine))
    BY <1>4
  <2>4. FlattenSeq(EntryField \o t) = FlattenSeq(EntryField) \o FlattenSeq(t)
    BY <2>2, <2>3, FlattenCat
  <2>5. FlattenSeq(EntryField) = <<Word("entry")>>
    BY FlattenOne DEF EntryField
  <2>6. QED
    BY <1>5, <2>1, <2>4, <2>5
<1>7. f \in Seq(InLine) /\ Laid(f, Tab, p)
  BY <1>2, <1>3, BetweenLaid
<1> HIDE DEF f
<1>8. Pieces(f, Tab) = p
  <2>1. p \in Seq(Seq(InLine \ {Tab})) /\ Len(p) # 0 /\ Len(f) \in Nat
    BY <1>1, <1>2, <1>3, <1>7
  <2>2. QED
    BY <1>7, <2>1, PiecesLaid
<1>9. f # <<>>
  <2>1. f = <<Word("entry")>> \o FlattenSeq(t)
    BY <1>6 DEF EntryRow
  <2>2. FlattenSeq(t) \in Seq(InLine)
    <3> HIDE DEF t
    <3>1. t \in Seq(Seq(InLine))
      BY <1>4
    <3>2. QED
      BY <3>1, FlatFacts
  <2> DEFINE g == FlattenSeq(t)
  <2> HIDE DEF g
  <2>3. <<Word("entry")>> \o g \in Seq(InLine) /\ Len(<<Word("entry")>> \o g) = Len(g) + 1 /\ Len(g) \in Nat
    BY <1>2, <2>2, Prefixed DEF g
  <2>4. Len(f) # 0
    BY <2>1, <2>3 DEF g
  <2>5. QED
    BY <2>4
<1>10. QED
  BY <1>6, <1>7, <1>8, <1>9 DEF p

(* The lines of a manifest are sequences of symbols that end no line.       *)
LEMMA RowsType ==
    ASSUME NEW m, IsManifest(m)
    PROVE  /\ MagicRows \in Seq(Seq(InLine)) /\ HeadRows(m) \in Seq(Seq(InLine))
           /\ EntryRows(m) \in Seq(Seq(InLine)) /\ Rows(m) \in Seq(Seq(InLine))
           /\ Len(m.entries) \in Nat /\ DOMAIN m.entries = 1 .. Len(m.entries)
           /\ Len(Rows(m)) = 12 + Len(m.entries) /\ Rows(m)[1] = <<MANIFEST_MAGIC>>
           /\ \A i \in 1 .. 11 : Rows(m)[i + 1] = HeadRow(m, i)
           /\ \A e \in 1 .. Len(m.entries) : Rows(m)[12 + e] = EntryRow(m.entries[e])
<1> DEFINE N == Len(m.entries)
           H == HeadRows(m)
           R == EntryRows(m)
           B == MagicRows \o H
           z == Rows(m)
           K == 11
<1>0. IsRecord(m.head, HeadKeys) /\ m.entries \in Seq(ToSet(m.entries))
      /\ \A e \in DOMAIN m.entries : IsRecord(m.entries[e], EntryKeys)
  BY DEF IsManifest
<1>1. N \in Nat /\ DOMAIN m.entries = 1 .. N
  BY <1>0
<1>2. MagicRows \in Seq(Seq(InLine)) /\ Len(MagicRows) = 1 /\ MagicRows[1] = <<MANIFEST_MAGIC>>
  <2>1. <<MANIFEST_MAGIC>> \in Seq(InLine)
    BY PlainFacts DEF InLine
  <2>2. QED
    BY <2>1 DEF MagicRows
<1>3. H \in Seq(Seq(InLine)) /\ Len(H) = K /\ \A i \in 1 .. K : H[i] = HeadRow(m, i)
  <2>1. DOMAIN HeadKeys = 1 .. K /\ K \in Nat
    BY HeadKeysFacts
  <2> HIDE DEF K
  <2>2. \A i \in 1 .. K : HeadRow(m, i) \in Seq(InLine)
    BY <1>0, <2>1, HeadRowType
  <2>3. H = [i \in 1 .. K |-> HeadRow(m, i)]
    BY <2>1 DEF HeadRows
  <2> HIDE DEF H
  <2>4. H \in [1 .. K -> Seq(InLine)]
    BY <2>2, <2>3
  <2>5. H \in Seq(Seq(InLine)) /\ Len(H) = K
    BY <2>1, <2>4
  <2>6. QED
    BY <2>3, <2>5
<1>4. R \in Seq(Seq(InLine)) /\ Len(R) = N /\ \A e \in 1 .. N : R[e] = EntryRow(m.entries[e])
  <2>2. \A e \in 1 .. N : EntryRow(m.entries[e]) \in Seq(InLine)
    BY <1>0, <1>1, EntryRowFacts
  <2>3. R = [e \in 1 .. N |-> EntryRow(m.entries[e])]
    BY <1>1 DEF EntryRows
  <2> HIDE DEF R, N
  <2>4. R \in [1 .. N -> Seq(InLine)]
    BY <2>2, <2>3
  <2>5. R \in Seq(Seq(InLine)) /\ Len(R) = N
    BY <1>1, <2>4
  <2>6. QED
    BY <2>3, <2>5
<1>z. z = B \o R
  BY DEF Rows
<1> HIDE DEF H, R, B, z, N, K
<1>5. /\ B \in Seq(Seq(InLine)) /\ Len(B) = 1 + K
      /\ \A k \in 1 .. 1 : B[k] = MagicRows[k]
      /\ \A k \in 1 .. K : B[1 + k] = H[k]
  <2>1. MagicRows \in Seq(Seq(InLine)) /\ H \in Seq(Seq(InLine))
    BY <1>2, <1>3
  <2>2. /\ MagicRows \o H \in Seq(Seq(InLine)) /\ Len(MagicRows \o H) = Len(MagicRows) + Len(H)
        /\ \A k \in 1 .. Len(MagicRows) : (MagicRows \o H)[k] = MagicRows[k]
        /\ \A k \in 1 .. Len(H) : (MagicRows \o H)[Len(MagicRows) + k] = H[k]
    BY <2>1, TwoParts
  <2>3. Len(MagicRows) = 1 /\ Len(H) = K
    BY <1>2, <1>3
  <2>4. /\ MagicRows \o H \in Seq(Seq(InLine)) /\ Len(MagicRows \o H) = 1 + K
        /\ \A k \in 1 .. 1 : (MagicRows \o H)[k] = MagicRows[k]
        /\ \A k \in 1 .. K : (MagicRows \o H)[1 + k] = H[k]
    BY <2>2, <2>3
  <2>5. QED
    BY <2>4 DEF B
<1>6. /\ z \in Seq(Seq(InLine)) /\ Len(z) = 12 + N
      /\ \A k \in 1 .. 12 : z[k] = B[k]
      /\ \A k \in 1 .. N : z[12 + k] = R[k]
  <2>1. B \in Seq(Seq(InLine)) /\ R \in Seq(Seq(InLine))
    BY <1>4, <1>5
  <2>2. /\ B \o R \in Seq(Seq(InLine)) /\ Len(B \o R) = Len(B) + Len(R)
        /\ \A k \in 1 .. Len(B) : (B \o R)[k] = B[k]
        /\ \A k \in 1 .. Len(R) : (B \o R)[Len(B) + k] = R[k]
    BY <2>1, TwoParts
  <2>3. Len(B) = 12 /\ Len(R) = N
    BY <1>4, <1>5 DEF K
  <2>4. /\ B \o R \in Seq(Seq(InLine)) /\ Len(B \o R) = 12 + N
        /\ \A k \in 1 .. 12 : (B \o R)[k] = B[k]
        /\ \A k \in 1 .. N : (B \o R)[12 + k] = R[k]
    BY <2>2, <2>3
  <2>5. QED
    BY <1>z, <2>4
<1>7. z[1] = <<MANIFEST_MAGIC>>
  <2>1. 1 \in 1 .. 1 /\ 1 \in 1 .. 12
    OBVIOUS
  <2>2. z[1] = B[1] /\ B[1] = MagicRows[1]
    BY <1>5, <1>6, <2>1
  <2>3. QED
    BY <1>2, <2>2
<1>8. ASSUME NEW i \in 1 .. 11 PROVE z[i + 1] = HeadRow(m, i)
  <2>1. i \in 1 .. K /\ i + 1 \in 1 .. 12 /\ 1 + i = i + 1
    BY DEF K
  <2>2. z[i + 1] = B[i + 1] /\ B[1 + i] = H[i] /\ H[i] = HeadRow(m, i)
    BY <1>3, <1>5, <1>6, <2>1
  <2>3. QED
    BY <2>1, <2>2
<1>9. \A e \in 1 .. N : z[12 + e] = EntryRow(m.entries[e])
  BY <1>4, <1>6
<1>10. QED
  BY <1>1, <1>2, <1>3, <1>4, <1>6, <1>7, <1>8, <1>9 DEF H, R, z, N

(* What is written is those lines, each with its end.                       *)
LEMMA WrittenRows ==
    ASSUME NEW m, IsManifest(m)
    PROVE  write(m) = FlattenSeq(Ended(Rows(m), Newline))
<1> DEFINE H == HeadRows(m)
           R == EntryRows(m)
           M == MagicRows
           MH == M \o H
           E(q) == Ended(q, Newline)
<1>1. M \in Seq(Seq(Symbols)) /\ H \in Seq(Seq(Symbols)) /\ R \in Seq(Seq(Symbols)) /\ Newline \in Symbols
  <2>1. \A x \in Seq(InLine) : x \in Seq(Symbols)
    BY DEF InLine
  <2>2. M \in Seq(Seq(InLine)) /\ H \in Seq(Seq(InLine)) /\ R \in Seq(Seq(InLine))
    BY RowsType
  <2> HIDE DEF M, H, R
  <2>3. QED
    BY <2>1, <2>2, PlainFacts
<1>2. Line(<<MANIFEST_MAGIC>>) = FlattenSeq(E(M))
  <2>1. E(M) = <<Append(<<MANIFEST_MAGIC>>, Newline)>>
    <3> DEFINE x == Append(<<MANIFEST_MAGIC>>, Newline)
    <3>1. DOMAIN M = 1 .. 1 /\ M[1] = <<MANIFEST_MAGIC>>
      BY DEF MagicRows
    <3> HIDE DEF M
    <3>a. \A i \in 1 .. 1 : M[i] = <<MANIFEST_MAGIC>>
      <4>1. \A i \in 1 .. 1 : i = 1
        OBVIOUS
      <4>2. QED
        BY <3>1, <4>1
    <3> DEFINE y == <<MANIFEST_MAGIC>>
    <3>b. \A i \in 1 .. 1 : M[i] = y
      BY <3>a
    <3>c. x = Append(y, Newline)
      OBVIOUS
    <3> HIDE DEF x, y
    <3>2. \A i \in 1 .. 1 : Append(M[i], Newline) = x
      BY <3>b, <3>c
    <3>3. E(M) = [i \in 1 .. 1 |-> x]
      BY <3>1, <3>2 DEF Ended
    <3> HIDE DEF x
    <3>4. [i \in 1 .. 1 |-> x] = <<x>>
      OBVIOUS
    <3>5. QED
      BY <3>3, <3>4 DEF x
  <2>2. QED
    BY <2>1, FlattenOne DEF Line
<1>3. FlattenSeq([i \in DOMAIN HeadKeys |->
                Line(<<Word(HeadKeys[i]), Tab>> \o Shown(HeadKeys[i], m.head[HeadKeys[i]]))])
        = FlattenSeq(E(H))
  <2>1. E(H) = [i \in DOMAIN HeadKeys |-> Line(HeadRow(m, i))]
    BY DEF Ended, HeadRows, Line
  <2>2. QED
    BY <2>1 DEF HeadRow
<1>4. FlattenSeq([e \in DOMAIN m.entries |->
                Line(<<Word("entry")>> \o FlattenSeq([i \in DOMAIN EntryKeys |->
                        <<Tab>> \o Shown(EntryKeys[i], m.entries[e][EntryKeys[i]])]))])
        = FlattenSeq(E(R))
  <2>1. E(R) = [e \in DOMAIN m.entries |-> Line(EntryRow(m.entries[e]))]
    BY DEF Ended, EntryRows, Line
  <2>2. QED
    BY <2>1 DEF EntryRow
<1>5. write(m) = (FlattenSeq(E(M)) \o FlattenSeq(E(H))) \o FlattenSeq(E(R))
  <2> HIDE DEF E, M, H, R
  <2>1. QED
    BY <1>2, <1>3, <1>4 DEF write
<1>6. Rows(m) = MH \o R
  BY DEF Rows
<1> HIDE DEF M, H, R
<1>7. MH \in Seq(Seq(Symbols))
  BY <1>1, ConcatProperties
<1>8. E(MH) = E(M) \o E(H)
  BY <1>1, EndedCat
<1> HIDE DEF MH
<1>9. E(MH \o R) = E(MH) \o E(R)
  BY <1>1, <1>7, EndedCat
<1>10. E(M) \in Seq(Seq(Symbols)) /\ E(H) \in Seq(Seq(Symbols)) /\ E(R) \in Seq(Seq(Symbols))
       /\ E(MH) \in Seq(Seq(Symbols))
  BY <1>1, <1>7, EndedType
<1>11. E(Rows(m)) = E(MH) \o E(R)
  BY <1>6, <1>9
<1> HIDE DEF E
<1>12. FlattenSeq(E(MH) \o E(R)) = FlattenSeq(E(MH)) \o FlattenSeq(E(R))
  BY <1>10, FlattenCat
<1>13. FlattenSeq(E(M) \o E(H)) = FlattenSeq(E(M)) \o FlattenSeq(E(H))
  BY <1>10, FlattenCat
<1>14. write(m) = FlattenSeq(E(Rows(m)))
  BY <1>5, <1>8, <1>11, <1>12, <1>13
<1>15. QED
  BY <1>14 DEF E

(* Those lines are what is read.                                            *)
LEMMA LinesOfWritten ==
    ASSUME NEW m, IsManifest(m)
    PROVE  lines(write(m)) = Rows(m)
<1> DEFINE q == Rows(m)
           t == write(m)
           p == Append(q, <<>>)
           N == Len(q)
<1>1. q \in Seq(Seq(InLine))
  BY RowsType
<1>2. t = FlattenSeq(Ended(q, Newline))
  BY WrittenRows
<1> HIDE DEF q, t
<1>3. q \in Seq(Seq(Symbols)) /\ Newline \in Symbols
  <2>1. \A x \in Seq(InLine) : x \in Seq(Symbols)
    BY DEF InLine
  <2>2. QED
    BY <1>1, <2>1, PlainFacts
<1>4. t \in Seq(Symbols) /\ Laid(t, Newline, p)
  BY <1>2, <1>3, EndedLaid
<1>5. p \in Seq(Seq(Symbols \ {Newline})) /\ Len(p) = N + 1 /\ N \in Nat /\ p[N + 1] = <<>>
  <2>1. <<>> \in Seq(InLine)
    OBVIOUS
  <2>2. p \in Seq(Seq(InLine)) /\ Len(p) = Len(q) + 1 /\ Len(q) \in Nat /\ p[Len(q) + 1] = <<>>
    BY <1>1, <2>1, AppendProperties
  <2>3. QED
    BY <2>2 DEF InLine
<1>6. SubSeq(p, 1, N) = q
  BY <1>1
<1> HIDE DEF p, N
<1>7. Pieces(t, Newline) = p
  <2>1. Len(p) # 0 /\ Len(t) \in Nat
    BY <1>4, <1>5
  <2>2. QED
    BY <1>4, <1>5, <2>1, PiecesLaid
<1>8. Last(p) = <<>> /\ Front(p) = q
  <2>1. Len(p) = N + 1 /\ Len(p) - 1 = N
    BY <1>5
  <2>2. QED
    BY <1>5, <1>6, <2>1 DEF Last, Front
<1>9. lines(t) = q
  BY <1>7, <1>8 DEF lines
<1>10. QED
  BY <1>9 DEF q, t

(* What was parsed for each key makes the record again.                     *)
LEMMA ByKeyIs ==
    ASSUME NEW keys, NEW r, NEW parsed, r = [key \in ToSet(keys) |-> r[key]],
           \A i \in DOMAIN keys : parsed[i].v = r[keys[i]]
    PROVE  ByKey(keys, parsed) = r
<1>1. ASSUME NEW key \in ToSet(keys)
      PROVE  parsed[CHOOSE i \in DOMAIN keys : keys[i] = key].v = r[key]
  <2>1. \E i \in DOMAIN keys : keys[i] = key
    BY DEF ToSet
  <2> DEFINE j == CHOOSE i \in DOMAIN keys : keys[i] = key
  <2>2. j \in DOMAIN keys /\ keys[j] = key
    BY <2>1
  <2> HIDE DEF j
  <2>3. parsed[j].v = r[key]
    BY <2>2
  <2>4. QED
    BY <2>3 DEF j
<1>2. QED
  BY <1>1 DEF ByKey

(* A line of the head gives its value.                                      *)
LEMMA HeadValueIs ==
    ASSUME NEW m, IsManifest(m), NEW i \in DOMAIN HeadKeys
    PROVE  HeadValue(Rows(m), i) = [ok |-> TRUE, v |-> m.head[HeadKeys[i]]]
<1> DEFINE ls == Rows(m)
           x == HeadRow(m, i)
           N == Len(m.entries)
<1>0. IsRecord(m.head, HeadKeys)
  BY DEF IsManifest
<1>1. Len(ls) = 12 + N /\ N \in Nat /\ ls[i + 1] = x /\ i \in 1 .. 11
  BY RowsType, HeadKeysFacts
<1>2. /\ Len(x) \in Nat \ {0, 1}
      /\ SubSeq(x, 1, 2) = <<Word(HeadKeys[i]), Tab>>
      /\ SubSeq(x, 3, Len(x)) = Shown(HeadKeys[i], m.head[HeadKeys[i]])
  BY <1>0, HeadRowType
<1>3. parse(HeadKeys[i], Shown(HeadKeys[i], m.head[HeadKeys[i]])) = [ok |-> TRUE, v |-> m.head[HeadKeys[i]]]
  BY <1>0, RecordFacts
<1> HIDE DEF ls, x, N
<1>4. ~(i + 1 > Len(ls) \/ Len(ls[i + 1]) < 2)
  <2>1. ~(i + 1 > Len(ls))
    BY <1>1
  <2>2. ~(Len(x) < 2)
    <3> DEFINE l == Len(x)
    <3>1. l \in Nat \ {0, 1}
      BY <1>2
    <3> HIDE DEF l
    <3>2. ~(l < 2)
      BY <3>1
    <3>3. QED
      BY <3>2 DEF l
  <2>3. QED
    BY <1>1, <2>1, <2>2
<1>5. HeadValue(ls, i) = parse(HeadKeys[i], SubSeq(x, 3, Len(x)))
  BY <1>1, <1>2, <1>4 DEF HeadValue
<1>6. QED
  BY <1>2, <1>3, <1>5 DEF ls

(* The line of an entry gives the entry.                                    *)
LEMMA EntryIs ==
    ASSUME NEW r, IsRecord(r, EntryKeys)
    PROVE  Entry(EntryRow(r)) = [ok |-> TRUE, v |-> r]
<1> DEFINE fields == Pieces(EntryRow(r), Tab)
           values == [i \in DOMAIN EntryKeys |-> parse(EntryKeys[i], fields[i + 1])]
<1>1. /\ Len(fields) = 10 /\ fields[1] = <<Word("entry")>>
      /\ \A i \in 1 .. 9 : fields[i + 1] = Shown(EntryKeys[i], r[EntryKeys[i]])
  BY EntryRowFacts, FieldsType
<1> HIDE DEF fields
<1>2. \A i \in 1 .. 9 : parse(EntryKeys[i], Shown(EntryKeys[i], r[EntryKeys[i]])) = [ok |-> TRUE, v |-> r[EntryKeys[i]]]
  BY RecordFacts, EntryKeysFacts
<1>3. DOMAIN values = DOMAIN EntryKeys /\ \A i \in DOMAIN EntryKeys : values[i] = [ok |-> TRUE, v |-> r[EntryKeys[i]]]
  BY <1>1, <1>2, EntryKeysFacts
<1>e. Entry(EntryRow(r)) =
        IF fields[1] # <<Word("entry")>> \/ Len(fields) # Len(EntryKeys) + 1 THEN [ok |-> FALSE]
        ELSE IF \E i \in DOMAIN values : ~values[i].ok THEN [ok |-> FALSE]
        ELSE [ok |-> TRUE, v |-> ByKey(EntryKeys, values)]
  BY DEF Entry, fields
<1> HIDE DEF values
<1>4. \A i \in DOMAIN EntryKeys : values[i].ok /\ values[i].v = r[EntryKeys[i]]
  BY <1>3
<1>5. ByKey(EntryKeys, values) = r
  <2>1. r = [key \in ToSet(EntryKeys) |-> r[key]]
    BY DEF IsRecord
  <2>2. \A i \in DOMAIN EntryKeys : values[i].v = r[EntryKeys[i]]
    BY <1>4
  <2>3. QED
    BY <2>1, <2>2, ByKeyIs
<1>6. ~(fields[1] # <<Word("entry")>> \/ Len(fields) # Len(EntryKeys) + 1)
  BY <1>1, EntryKeysFacts
<1>7. ~\E i \in DOMAIN values : ~values[i].ok
  BY <1>3, <1>4
<1>8. QED
  BY <1>5, <1>6, <1>7, <1>e

(* The whole of what was written is read.                                   *)
LEMMA ReadIsManifest ==
    ASSUME NEW m, IsManifest(m)
    PROVE  read(write(m)) = [outcome |-> "manifest", m |-> m]
<1> DEFINE ls == lines(write(m))
           head == [i \in DOMAIN HeadKeys |-> HeadValue(ls, i)]
           values == ByKey(HeadKeys, head)
           more == SubSeq(ls, Len(HeadKeys) + 2, Len(ls))
           rest == Kept(more, {l \in DOMAIN more : more[l] # <<>>})
           entries == [e \in DOMAIN rest |-> Entry(rest[e])]
           N == Len(m.entries)
<1>0. /\ m = [head |-> m.head, entries |-> m.entries]
      /\ IsRecord(m.head, HeadKeys) /\ IndexesAgree(m.head)
      /\ \A e \in DOMAIN m.entries : IsRecord(m.entries[e], EntryKeys)
  BY DEF IsManifest
<1>r. read(write(m)) =
        IF ls = <<>> \/ \E i \in DOMAIN head : ~head[i].ok THEN Invalid
        ELSE IF ls[1] # <<MANIFEST_MAGIC>> \/ \E e \in DOMAIN entries : ~entries[e].ok
        THEN Invalid
        ELSE IF ~IndexesAgree(values) THEN Invalid
        ELSE [outcome |-> "manifest",
              m |-> [head |-> values, entries |-> [e \in DOMAIN entries |-> entries[e].v]]]
  BY DEF read
<1>1. ls = Rows(m)
  BY LinesOfWritten
<1> HIDE DEF ls
<1>2. /\ ls \in Seq(Seq(InLine)) /\ N \in Nat /\ DOMAIN m.entries = 1 .. N
      /\ Len(ls) = 12 + N /\ ls[1] = <<MANIFEST_MAGIC>>
      /\ \A e \in 1 .. N : ls[12 + e] = EntryRow(m.entries[e])
  BY <1>1, RowsType
<1>3. \A i \in DOMAIN HeadKeys : head[i].ok /\ head[i].v = m.head[HeadKeys[i]]
  <2>1. \A i \in DOMAIN HeadKeys : head[i] = [ok |-> TRUE, v |-> m.head[HeadKeys[i]]]
    BY <1>1, HeadValueIs
  <2> HIDE DEF head
  <2>2. ASSUME NEW i \in DOMAIN HeadKeys
        PROVE  head[i].ok /\ head[i].v = m.head[HeadKeys[i]]
    <3> DEFINE c == m.head[HeadKeys[i]]
               h == head[i]
    <3>1. h = [ok |-> TRUE, v |-> c]
      BY <2>1
    <3> HIDE DEF c, h
    <3>2. h.v = c /\ h.ok = TRUE
      BY <3>1
    <3>3. h.ok
      BY <3>2
    <3>4. QED
      BY <3>2, <3>3 DEF c, h
  <2>3. QED
    BY <2>2
<1>4. DOMAIN head = DOMAIN HeadKeys
  OBVIOUS
<1> HIDE DEF head
<1>5. values = m.head
  <2>1. m.head = [key \in ToSet(HeadKeys) |-> m.head[key]]
    BY <1>0 DEF IsRecord
  <2>2. \A i \in DOMAIN HeadKeys : head[i].v = m.head[HeadKeys[i]]
    BY <1>3
  <2>3. QED
    BY <2>1, <2>2, ByKeyIs
<1>6. more \in Seq(Seq(InLine)) /\ Len(more) = N /\ \A e \in 1 .. N : more[e] = EntryRow(m.entries[e])
  <2> DEFINE L == Len(ls)
  <2>1. L = 12 + N /\ N \in Nat /\ Len(HeadKeys) + 2 = 13
    BY <1>2, HeadKeysFacts
  <2>2. 13 \in Int /\ L \in Int /\ L - 13 + 1 = N /\ (IF 13 <= L THEN L - 13 + 1 ELSE 0) = N
    BY <2>1
  <2>3. \A k \in 13 .. L : ls[k] \in Seq(InLine)
    <3>1. \A k \in 13 .. L : k \in 1 .. Len(ls)
      BY <2>1
    <3>2. QED
      BY <1>2, <3>1
  <2>4. \A e \in 1 .. N : 13 + e - 1 = 12 + e
    BY <2>1
  <2> DEFINE w == SubSeq(ls, 13, L)
  <2>5. more = w
    BY <2>1
  <2> HIDE DEF more, N, L
  <2>6. /\ w \in Seq(Seq(InLine)) /\ Len(w) = IF 13 <= L THEN L - 13 + 1 ELSE 0
        /\ \A e \in 1 .. L - 13 + 1 : w[e] = ls[13 + e - 1]
    BY <2>2, <2>3, SubSeqProperties
  <2> HIDE DEF w
  <2>7. w \in Seq(Seq(InLine)) /\ Len(w) = N /\ \A e \in 1 .. N : w[e] = ls[12 + e]
    BY <2>2, <2>4, <2>6
  <2>8. QED
    BY <1>2, <2>5, <2>7
<1> HIDE DEF more
<1>7. \A e \in 1 .. N : IsRecord(m.entries[e], EntryKeys)
  BY <1>0, <1>2
<1> HIDE DEF N
<1>8. rest = more
  <2>1. DOMAIN more = 1 .. N
    BY <1>2, <1>6
  <2>2. \A e \in 1 .. N : more[e] # <<>>
    BY <1>6, <1>7, EntryRowFacts
  <2>3. {l \in DOMAIN more : more[l] # <<>>} = DOMAIN more
    BY <2>1, <2>2
  <2>4. Kept(more, DOMAIN more) = more
    BY <1>6, KeptAll
  <2>5. QED
    BY <2>3, <2>4
<1> HIDE DEF rest
<1>9. DOMAIN entries = 1 .. N /\ \A e \in 1 .. N : entries[e] = [ok |-> TRUE, v |-> m.entries[e]]
  <2>1. DOMAIN rest = 1 .. N
    BY <1>2, <1>6, <1>8
  <2>2. \A e \in 1 .. N : Entry(more[e]) = [ok |-> TRUE, v |-> m.entries[e]]
    BY <1>6, <1>7, EntryIs
  <2>3. QED
    BY <1>8, <2>1, <2>2
<1> HIDE DEF entries
<1>10. \A e \in DOMAIN entries : entries[e].ok /\ entries[e].v = m.entries[e]
  BY <1>9
<1>11. [e \in DOMAIN entries |-> entries[e].v] = m.entries
  <2>1. m.entries = [e \in 1 .. N |-> m.entries[e]]
    <3>1. m.entries \in Seq(ToSet(m.entries))
      BY DEF IsManifest
    <3> DEFINE A == ToSet(m.entries)
               s == m.entries
    <3>2. s \in Seq(A) /\ DOMAIN s = 1 .. N
      BY <1>2, <3>1
    <3> HIDE DEF A, s
    <3>3. s = [e \in 1 .. N |-> s[e]]
      BY <3>2
    <3>4. QED
      BY <3>3 DEF s
  <2>2. [e \in DOMAIN entries |-> entries[e].v] = [e \in 1 .. N |-> m.entries[e]]
    BY <1>9, <1>10
  <2>3. QED
    BY <2>1, <2>2
<1>12. ls # <<>>
  <2>1. Len(ls) # 0
    BY <1>2
  <2>2. QED
    BY <2>1
<1> HIDE DEF values
<1>13. read(write(m)) = [outcome |-> "manifest", m |-> [head |-> m.head, entries |-> m.entries]]
  <2>1. ~(ls = <<>> \/ \E i \in DOMAIN head : ~head[i].ok)
    BY <1>3, <1>4, <1>12
  <2>2. ~(ls[1] # <<MANIFEST_MAGIC>> \/ \E e \in DOMAIN entries : ~entries[e].ok)
    BY <1>2, <1>10
  <2>3. IndexesAgree(values)
    BY <1>0, <1>5
  <2>4. read(write(m)) = [outcome |-> "manifest",
                          m |-> [head |-> values, entries |-> [e \in DOMAIN entries |-> entries[e].v]]]
    BY <1>r, <2>1, <2>2, <2>3
  <2>5. QED
    BY <1>5, <1>11, <2>4
<1>14. QED
  BY <1>0, <1>13

(* Until a user changes it, the file is what was written, and so is what is *)
(* read of it.                                                              *)
ManifestInv ==
    /\ manifest \in Manifests
    /\ ~edited => \/ text = <<>> /\ result = Unread
                  \/ /\ text = write(Stored(manifest))
                     /\ result \in {Unread, [outcome |-> "manifest", m |-> Stored(manifest)]}

(* Every step of ManifestFile keeps the invariant.                          *)
LEMMA ManifestStep ==
    ASSUME ManifestInv, [Next]_vars
    PROVE  ManifestInv'
<1>1. CASE Write
  BY <1>1 DEF Write, ManifestInv
<1>2. CASE Read
  <2>1. IsManifest(Stored(manifest))
    BY ManifestAssumption DEF ManifestInv
  <2>2. read(write(Stored(manifest))) = [outcome |-> "manifest", m |-> Stored(manifest)]
    BY <2>1, ReadIsManifest
  <2>3. result' = read(text) /\ text # <<>> /\ UNCHANGED <<manifest, text, edited>>
    BY <1>2 DEF Read
  <2>4. QED
    BY <2>2, <2>3 DEF ManifestInv
<1>3. ASSUME NEW t, Edit(t) PROVE ManifestInv'
  BY <1>3 DEF Edit, ManifestInv
<1>4. CASE \E k \in DOMAIN text : TakeOut(k) \/ Cut(k) \/ \E n \in Numbers : Renumber(k, n)
  BY <1>3, <1>4 DEF TakeOut, Cut, Renumber
<1>5. CASE \E l \in 1 .. Len(lines(text)) : DoubleLine(l)
  BY <1>3, <1>5 DEF DoubleLine
<1>6. CASE UNCHANGED vars
  BY <1>6 DEF vars, ManifestInv
<1>7. QED
  BY <1>1, <1>2, <1>4, <1>5, <1>6 DEF Next

(* For manifests of any number of entries, with any names and numbers that  *)
(* fit their fields, what Manifest::read makes of the text Manifest::write  *)
(* made is that manifest, with the path of the archive as UTF-8: names with *)
(* tabs, ends of lines or nothing in them do not shift a field or a line.   *)
THEOREM ManifestComesBack == ManifestSpec => []WrittenIsRead
<1>1. Init => ManifestInv
  BY DEF Init, ManifestInv
<1>2. ManifestInv /\ [Next]_vars => ManifestInv'
  BY ManifestStep
<1>3. ManifestInv => WrittenIsRead
  BY DEF ManifestInv, WrittenIsRead
<1>4. QED
  BY <1>1, <1>2, <1>3, PTL DEF ManifestSpec
=============================================================================
