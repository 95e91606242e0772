---------------------------- MODULE LaylaProofs ----------------------------
(* Theorems on Layla: for every compressed input and every memory, each     *)
(* reader returns the next bits of the stream, a call returns what was      *)
(* compressed, and writes to no byte it did not ask for.                    *)
EXTENDS Layla, SelectionProofs

(* ------------------------------- the bits ------------------------------- *)

(* The table of powers, and what each power is of the one before.           *)
LEMMA Powers ==
    /\ Pow2[0] = 1 /\ Pow2[1] = 2 /\ Pow2[2] = 4 /\ Pow2[3] = 8 /\ Pow2[4] = 16
    /\ Pow2[5] = 32 /\ Pow2[6] = 64 /\ Pow2[7] = 128 /\ Pow2[8] = 256
    /\ Pow2[9] = 512 /\ Pow2[10] = 1024 /\ Pow2[11] = 2048 /\ Pow2[12] = 4096
    /\ Pow2[13] = 8192
BY DEF Pow2

(* Each power is twice the one before.                                      *)
LEMMA PowerSteps ==
    ASSUME NEW n \in 0 .. 12
    PROVE  Pow2[n] \in Nat \ {0} /\ Pow2[n + 1] = 2 * Pow2[n]
<1>1. n = 0 \/ n = 1 \/ n = 2 \/ n = 3 \/ n = 4 \/ n = 5 \/ n = 6 \/ n = 7 \/ n = 8
        \/ n = 9 \/ n = 10 \/ n = 11 \/ n = 12
  OBVIOUS
<1>2. QED
  BY <1>1, Powers

(* A number of bits has the value its definition says.                      *)
LEMMA BitsFacts ==
    ASSUME NEW in, NEW start, NEW p
    PROVE  /\ Bits(in, start, p, 0) = 0
           /\ \A n \in 1 .. 13 :
                Bits(in, start, p, n) = 2 * Bits(in, start, p, n - 1) + Bit(in, start, p + n - 1)
<1> DEFINE h(n) == Bit(in, start, p + n - 1)
           S == {m \in 0 .. 13 :
                    \E g : g = [n \in 0 .. m |-> IF n = 0 THEN 0 ELSE 2 * g[n - 1] + h(n)]}
<1>1. 0 \in S
  <2> DEFINE g == [n \in 0 .. 0 |-> 0]
  <2>1. g = [n \in 0 .. 0 |-> IF n = 0 THEN 0 ELSE 2 * g[n - 1] + h(n)]
    OBVIOUS
  <2> HIDE DEF g, h
  <2>2. \E x : x = [n \in 0 .. 0 |-> IF n = 0 THEN 0 ELSE 2 * x[n - 1] + h(n)]
    BY <2>1
  <2>3. QED
    BY <2>2
<1>2. ASSUME NEW m \in 0 .. 13 - 1, m \in S PROVE m + 1 \in S
  <2> HIDE DEF h
  <2>1. PICK g : g = [n \in 0 .. m |-> IF n = 0 THEN 0 ELSE 2 * g[n - 1] + h(n)]
    BY <1>2
  <2> DEFINE f == [n \in 0 .. m + 1 |-> IF n = m + 1 THEN 2 * g[m] + h(m + 1) ELSE g[n]]
  <2>2. ASSUME NEW n \in 0 .. m + 1
        PROVE  f[n] = IF n = 0 THEN 0 ELSE 2 * f[n - 1] + h(n)
    <3>1. CASE n = m + 1
      <4>1. n # 0 /\ n - 1 = m /\ f[n - 1] = g[m] /\ f[n] = 2 * g[m] + h(n)
        BY <3>1
      <4>2. QED
        BY <4>1
    <3>2. CASE n # m + 1
      <4>1. n \in 0 .. m /\ f[n] = g[n]
        BY <3>2
      <4>2. g[n] = IF n = 0 THEN 0 ELSE 2 * g[n - 1] + h(n)
        BY <2>1, <4>1
      <4>3. n # 0 => f[n - 1] = g[n - 1]
        BY <4>1
      <4>4. QED
        BY <4>1, <4>2, <4>3
    <3>3. QED
      BY <3>1, <3>2
  <2>3. f = [n \in 0 .. m + 1 |-> IF n = 0 THEN 0 ELSE 2 * f[n - 1] + h(n)]
    <3>1. f = [n \in 0 .. m + 1 |-> f[n]]
      OBVIOUS
    <3> HIDE DEF f
    <3>2. QED
      BY <2>2, <3>1
  <2> HIDE DEF f
  <2>4. \E x : x = [n \in 0 .. m + 1 |-> IF n = 0 THEN 0 ELSE 2 * x[n - 1] + h(n)]
    BY <2>3
  <2>5. m + 1 \in 0 .. 13
    BY <1>2
  <2>6. QED
    BY <2>4, <2>5
<1>3. \E g : g = [n \in 0 .. 13 |-> IF n = 0 THEN 0 ELSE 2 * g[n - 1] + h(n)]
  <2>1. 13 \in S
    <3> HIDE DEF S
    <3>1. 0 .. 13 \subseteq S
      BY <1>1, <1>2, UpTo
    <3>2. QED
      BY <3>1
  <2>2. QED
    BY <2>1
<1> DEFINE v == CHOOSE g : g = [n \in 0 .. 13 |-> IF n = 0 THEN 0 ELSE 2 * g[n - 1] + h(n)]
<1>4. v = [n \in 0 .. 13 |-> IF n = 0 THEN 0 ELSE 2 * v[n - 1] + h(n)]
  BY <1>3, ZenonT(30)
<1>5. \A n : Bits(in, start, p, n) = v[n]
  BY DEF Bits
<1> HIDE DEF v, h
<1>6. v[0] = 0 /\ \A n \in 1 .. 13 : v[n] = 2 * v[n - 1] + h(n)
  BY <1>4
<1>7. QED
  BY <1>5, <1>6 DEF h

(* The bytes of an input from `low` on, below `start`, are bytes.           *)
BytesBelow(in, start) == \A d \in 0 .. start - 1 : At(in, d) \in Byte

(* A bit is one of a byte, counted from the end of the stream.              *)
LEMMA BitOfByte ==
    ASSUME NEW in, NEW start \in Int, NEW d \in Int, NEW r \in 0 .. 7
    PROVE  Bit(in, start, 8 * (start - 1 - d) + r) = Low(Shr(At(in, d), 7 - r), 1)
<1> DEFINE p == 8 * (start - 1 - d) + r
<1>1. p \div 8 = start - 1 - d /\ p % 8 = r
  OBVIOUS
<1>2. start - 1 - (p \div 8) = d
  BY <1>1
<1>3. QED
  BY <1>1, <1>2 DEF Bit

(* One more bit of a byte.                                                  *)
LEMMA ShiftStep ==
    ASSUME NEW x \in Byte, NEW s \in 0 .. 7
    PROVE  Shr(x, s) \in Byte /\ Shr(x, s + 1) = Shr(x, s) \div 2
<1>1. s = 0 \/ s = 1 \/ s = 2 \/ s = 3 \/ s = 4 \/ s = 5 \/ s = 6 \/ s = 7
  OBVIOUS
<1>2. QED
  BY <1>1, Powers DEF Shr, Byte

(* The low n + 1 bits are those of the half, doubled, and the last one.     *)
LEMMA LowStep ==
    ASSUME NEW y \in Byte, NEW n \in 0 .. 7
    PROVE  Low(y, n + 1) = 2 * Low(y \div 2, n) + Low(y, 1)
<1>1. y \in 0 .. 255
  BY DEF Byte
<1>2. CASE n = 0
  <2>1. y % 2 = 2 * ((y \div 2) % 1) + (y % 2)
    BY <1>1
  <2>2. QED
    BY <1>2, <2>1, Powers DEF Low
<1>3. CASE n = 1
  <2>1. y % 4 = 2 * ((y \div 2) % 2) + (y % 2)
    BY <1>1
  <2>2. QED
    BY <1>3, <2>1, Powers DEF Low
<1>4. CASE n = 2
  <2>1. y % 8 = 2 * ((y \div 2) % 4) + (y % 2)
    BY <1>1
  <2>2. QED
    BY <1>4, <2>1, Powers DEF Low
<1>5. CASE n = 3
  <2>1. y % 16 = 2 * ((y \div 2) % 8) + (y % 2)
    BY <1>1
  <2>2. QED
    BY <1>5, <2>1, Powers DEF Low
<1>6. CASE n = 4
  <2>1. y % 32 = 2 * ((y \div 2) % 16) + (y % 2)
    BY <1>1
  <2>2. QED
    BY <1>6, <2>1, Powers DEF Low
<1>7. CASE n = 5
  <2>1. y % 64 = 2 * ((y \div 2) % 32) + (y % 2)
    BY <1>1
  <2>2. QED
    BY <1>7, <2>1, Powers DEF Low
<1>8. CASE n = 6
  <2>1. y % 128 = 2 * ((y \div 2) % 64) + (y % 2)
    BY <1>1
  <2>2. QED
    BY <1>8, <2>1, Powers DEF Low
<1>9. CASE n = 7
  <2>1. y % 256 = 2 * ((y \div 2) % 128) + (y % 2)
    BY <1>1
  <2>2. QED
    BY <1>9, <2>1, Powers DEF Low
<1>10. QED
  BY <1>2, <1>3, <1>4, <1>5, <1>6, <1>7, <1>8, <1>9

(* The bit at p has n - 1 more and then s behind it in the byte d.          *)
Ends(start, p, d, n, s) == p = 8 * (start - d) - n - s

(* Bits of one byte.                                                        *)
LEMMA InByteAt ==
    ASSUME NEW in, NEW start \in Int, NEW d \in Int, At(in, d) \in Byte,
           NEW n \in 0 .. 8, NEW s \in 0 .. 8 - n, NEW p \in Int, Ends(start, p, d, n, s)
    PROVE  Bits(in, start, p, n) = Low(Shr(At(in, d), s), n)
<1> DEFINE r == 8 - n - s
           x == At(in, d)
           S == {m \in 0 .. 8 - r : Bits(in, start, p, m) = Low(Shr(x, 8 - r - m), m)}
<1>1. r \in 0 .. 8 /\ 8 - r \in Nat /\ p = 8 * (start - 1 - d) + r
  BY DEF Ends
<1>2. 0 \in S
  <2>1. 8 - r - 0 \in 0 .. 8
    OBVIOUS
  <2>2. ASSUME NEW k \in 0 .. 8 PROVE Shr(x, k) \in Int
    <3>1. CASE k \in 0 .. 7
      <4>1. Shr(x, k) \in Byte
        BY <3>1, ShiftStep
      <4>2. QED
        BY <4>1 DEF Byte
    <3>2. CASE k = 8
      BY <3>2, Powers DEF Shr, Byte
    <3>3. QED
      BY <3>1, <3>2
  <2>3. Low(Shr(x, 8 - r - 0), 0) = 0
    <3>1. \A y \in Int : Low(y, 0) = 0
      BY Powers DEF Low
    <3>2. QED
      BY <2>1, <2>2, <3>1
  <2>4. QED
    BY <2>3, BitsFacts
<1>3. ASSUME NEW m \in 0 .. (8 - r) - 1, m \in S PROVE m + 1 \in S
  <2> DEFINE k == 8 - r - (m + 1)
  <2>1. k \in 0 .. 7 /\ m \in 0 .. 7 /\ m + 1 \in 1 .. 13 /\ k + 1 = 8 - r - m /\ r + m \in 0 .. 7
    OBVIOUS
  <2>2. Bits(in, start, p, m + 1) = 2 * Bits(in, start, p, m) + Bit(in, start, p + m)
    <3>1. (m + 1) - 1 = m /\ p + (m + 1) - 1 = p + m
      BY <1>1
    <3> HIDE DEF r
    <3>2. QED
      BY <2>1, <3>1, BitsFacts
  <2>3. Bit(in, start, p + m) = Low(Shr(x, k), 1)
    <3>1. p + m = 8 * (start - 1 - d) + (r + m) /\ 7 - (r + m) = k
      BY <1>1
    <3>2. Bit(in, start, 8 * (start - 1 - d) + (r + m)) = Low(Shr(At(in, d), 7 - (r + m)), 1)
      BY <2>1, BitOfByte, ZenonT(30)
    <3>3. QED
      BY <3>1, <3>2
  <2>4. Bits(in, start, p, m) = Low(Shr(x, k + 1), m)
    BY <1>3, <2>1
  <2> HIDE DEF k, x
  <2>5. x \in Byte
    BY DEF x
  <2>6. Shr(x, k) \in Byte /\ Shr(x, k + 1) = Shr(x, k) \div 2
    BY <2>1, <2>5, ShiftStep
  <2>7. Low(Shr(x, k), m + 1) = 2 * Low(Shr(x, k) \div 2, m) + Low(Shr(x, k), 1)
    BY <2>1, <2>6, LowStep
  <2>8. Bits(in, start, p, m + 1) = Low(Shr(x, k), m + 1)
    BY <2>2, <2>3, <2>4, <2>6, <2>7
  <2>9. QED
    BY <1>1, <2>8 DEF k
<1>4. 0 .. 8 - r \subseteq S
  <2> HIDE DEF S
  <2>1. QED
    BY <1>1, <1>2, <1>3, UpTo
<1>5. QED
  BY <1>4

(* A bit of the stream is one, and numbers of its bits are numbers.         *)
LEMMA BitType ==
    ASSUME NEW in, NEW start \in Nat, BytesBelow(in, start), NEW p \in 0 .. 8 * start - 1
    PROVE  Bit(in, start, p) \in 0 .. 1
<1> DEFINE d == start - 1 - (p \div 8)
           s == 7 - (p % 8)
<1>1. d \in 0 .. start - 1 /\ s \in 0 .. 7
  OBVIOUS
<1>2. Bit(in, start, p) = Low(Shr(At(in, d), s), 1)
  BY DEF Bit
<1> HIDE DEF d, s
<1>3. At(in, d) \in Byte
  BY <1>1 DEF BytesBelow
<1>4. Shr(At(in, d), s) \in Byte
  BY <1>1, <1>3, ShiftStep
<1>5. \A y \in Byte : Low(y, 1) \in 0 .. 1
  BY Powers DEF Low, Byte
<1>6. QED
  BY <1>2, <1>4, <1>5

(* The bits of a stream are a number.                                       *)
LEMMA BitsType ==
    ASSUME NEW in, NEW start \in Nat, BytesBelow(in, start),
           NEW p \in Nat, NEW n \in 0 .. 13, p + n <= 8 * start
    PROVE  Bits(in, start, p, n) \in Nat
<1> DEFINE S == {m \in 0 .. n : Bits(in, start, p, m) \in Nat}
<1>1. 0 \in S
  BY BitsFacts
<1>2. ASSUME NEW m \in 0 .. n - 1, m \in S PROVE m + 1 \in S
  <2>1. m + 1 \in 1 .. 13 /\ (m + 1) - 1 = m /\ p + (m + 1) - 1 = p + m
        /\ p + m \in 0 .. 8 * start - 1
    OBVIOUS
  <2>2. Bits(in, start, p, m + 1) = 2 * Bits(in, start, p, m) + Bit(in, start, p + m)
    BY <2>1, BitsFacts
  <2>3. Bit(in, start, p + m) \in 0 .. 1
    BY <2>1, BitType
  <2>4. QED
    BY <1>2, <2>2, <2>3
<1>3. 0 .. n \subseteq S
  <2> HIDE DEF S
  <2>1. QED
    BY <1>1, <1>2, UpTo
<1>4. QED
  BY <1>3

IsSum(n, a, b) == n = a + b

Together(in, start, p, a, q, b, n) ==
    Bits(in, start, p, n) = Shl(Bits(in, start, p, a), b) + Bits(in, start, q, b)

(* What is read in two parts is put together with a shift.                  *)
LEMMA Concat ==
    ASSUME NEW in, NEW start \in Nat, BytesBelow(in, start),
           NEW p \in Nat, NEW a \in 0 .. 13, NEW b \in 0 .. 13 - a, p + a + b <= 8 * start,
           NEW q \in Nat, IsSum(q, p, a), NEW n \in Nat, IsSum(n, a, b)
    PROVE  Together(in, start, p, a, q, b, n)
<1> DEFINE X == Bits(in, start, p, a)
           B(m) == Bits(in, start, p, a + m)
           Y(m) == Bits(in, start, p + a, m)
           S == {m \in 0 .. b : B(m) = Shl(X, m) + Y(m)}
<1>1. X \in Nat /\ \A m \in 0 .. b : Y(m) \in Nat
  <2>1. p + a <= 8 * start /\ p + a \in Nat
    OBVIOUS
  <2>2. X \in Nat
    BY <2>1, BitsType
  <2>3. ASSUME NEW m \in 0 .. b PROVE Y(m) \in Nat
    <3>1. m \in 0 .. 13 /\ (p + a) + m <= 8 * start
      OBVIOUS
    <3>2. QED
      BY <2>1, <3>1, BitsType
  <2>4. QED
    BY <2>2, <2>3
<1>2. 0 \in S
  <2>1. B(0) = X /\ Y(0) = 0
    BY BitsFacts
  <2> HIDE DEF X, Y, B
  <2>2. Shl(X, 0) = X
    BY <1>1, Powers DEF Shl
  <2>3. QED
    BY <1>1, <2>1, <2>2
<1>3. ASSUME NEW m \in 0 .. b - 1, m \in S PROVE m + 1 \in S
  <2>1. /\ a + m + 1 \in 1 .. 13 /\ m + 1 \in 1 .. 13 /\ m \in 0 .. 12 /\ m \in 0 .. b
        /\ (a + m + 1) - 1 = a + m /\ (m + 1) - 1 = m /\ a + (m + 1) = a + m + 1
        /\ p + (a + m + 1) - 1 = p + a + m /\ (p + a) + (m + 1) - 1 = p + a + m
        /\ p + a + m \in 0 .. 8 * start - 1
    OBVIOUS
  <2>2. B(m + 1) = 2 * B(m) + Bit(in, start, p + a + m)
    BY <2>1, BitsFacts
  <2>3. Y(m + 1) = 2 * Y(m) + Bit(in, start, p + a + m)
    BY <2>1, BitsFacts
  <2>4. Bit(in, start, p + a + m) \in 0 .. 1
    BY <2>1, BitType
  <2>5. B(m) = Shl(X, m) + Y(m)
    BY <1>3
  <2>6. Pow2[m] \in Nat /\ Pow2[m + 1] = 2 * Pow2[m]
    BY <2>1, PowerSteps
  <2>7. Y(m) \in Nat
    BY <1>1, <2>1
  <2> HIDE DEF X, Y, B
  <2>8. X * Pow2[m + 1] = 2 * (X * Pow2[m]) /\ X * Pow2[m] \in Nat
    BY <1>1, <2>6
  <2>9. B(m + 1) = X * Pow2[m + 1] + Y(m + 1)
    BY <2>2, <2>3, <2>4, <2>5, <2>7, <2>8 DEF Shl
  <2>10. QED
    BY <2>9 DEF Shl
<1>4. 0 .. b \subseteq S
  <2> HIDE DEF S
  <2>1. QED
    BY <1>2, <1>3, UpTo
<1>5. QED
  BY <1>4 DEF IsSum, Together

(* ----------------------------- the readers ------------------------------ *)

(* A cursor in the stream, with n bits left to read.                        *)
Within(in, start, c, n) ==
    /\ start \in Nat /\ BytesBelow(in, start)
    /\ c.cdata \in Int /\ c.bits_left \in 0 .. 7
    /\ Position(start, c) >= 0 /\ Position(start, c) + n <= 8 * start

(* Where a cursor is, and which bytes it can read.                          *)
LEMMA Within1 ==
    ASSUME NEW in, NEW start, NEW c, NEW n \in 1 .. 13, Within(in, start, c, n)
    PROVE  /\ start \in Int /\ Position(start, c) \in Nat
           /\ Position(start, c) = 8 * (start - c.cdata) - c.bits_left
           /\ c.bits_left > 0 => At(in, c.cdata) \in Byte
           /\ n > c.bits_left => At(in, c.cdata - 1) \in Byte
           /\ n > c.bits_left + 8 => At(in, c.cdata - 2) \in Byte
<1>1. Position(start, c) = 8 * (start - c.cdata) - c.bits_left
  BY DEF Position
<1>2. start \in Nat /\ c.cdata \in Int /\ c.bits_left \in 0 .. 7
      /\ 8 * (start - c.cdata) - c.bits_left >= 0
      /\ 8 * (start - c.cdata) - c.bits_left + n <= 8 * start
  BY <1>1 DEF Within
<1>3. /\ c.bits_left > 0 => c.cdata \in 0 .. start - 1
      /\ n > c.bits_left => c.cdata - 1 \in 0 .. start - 1
      /\ n > c.bits_left + 8 => c.cdata - 2 \in 0 .. start - 1
  BY <1>2
<1>4. \A d \in 0 .. start - 1 : At(in, d) \in Byte
  BY DEF Within, BytesBelow
<1>5. QED
  BY <1>1, <1>2, <1>3, <1>4

(* What the next bits are, in the byte a cursor is in and the two below.    *)
LEMMA FirstBits ==
    ASSUME NEW in, NEW start, NEW c, NEW n \in 1 .. 13, Within(in, start, c, n),
           NEW k \in 1 .. c.bits_left
    PROVE  Bits(in, start, Position(start, c), k)
                = Low(Shr(At(in, c.cdata), c.bits_left - k), k)
<1> DEFINE s == c.bits_left - k
           p == Position(start, c)
<1>1. c.cdata \in Int /\ c.bits_left \in 1 .. 7 /\ k \in 0 .. 8 /\ s \in 0 .. 8 - k
  BY DEF Within
<1>2. start \in Int /\ p \in Int /\ p = 8 * (start - c.cdata) - c.bits_left
      /\ At(in, c.cdata) \in Byte
  BY <1>1, Within1
<1>3. Ends(start, p, c.cdata, k, s)
  BY <1>1, <1>2 DEF Ends
<1> HIDE DEF s, p
<1>4. Bits(in, start, p, k) = Low(Shr(At(in, c.cdata), s), k)
  BY <1>1, <1>2, <1>3, InByteAt
<1>5. QED
  BY <1>4 DEF s, p

(* A read that leaves its byte takes the rest from the byte below.          *)
LEMMA SecondBits ==
    ASSUME NEW in, NEW start, NEW c, NEW n \in 1 .. 13, Within(in, start, c, n),
           NEW k \in 1 .. 8, c.bits_left + k <= n
    PROVE  Bits(in, start, Position(start, c) + c.bits_left, k)
                = Low(Shr(At(in, c.cdata - 1), 8 - k), k)
<1> DEFINE d == c.cdata - 1
           s == 8 - k
           p == Position(start, c) + c.bits_left
<1>1. c.cdata \in Int /\ d \in Int /\ c.bits_left \in 0 .. 7 /\ k \in 0 .. 8 /\ s \in 0 .. 8 - k
      /\ n > c.bits_left
  BY DEF Within
<1>2. start \in Int /\ Position(start, c) = 8 * (start - c.cdata) - c.bits_left
      /\ At(in, d) \in Byte
  BY <1>1, Within1
<1>3. p \in Int /\ Ends(start, p, d, k, s)
  BY <1>1, <1>2 DEF Ends
<1> HIDE DEF s, p, d
<1>4. Bits(in, start, p, k) = Low(Shr(At(in, d), s), k)
  BY <1>1, <1>2, <1>3, InByteAt
<1>5. QED
  BY <1>4 DEF s, p, d

(* A read that leaves its second byte takes the rest from the third.        *)
LEMMA ThirdBits ==
    ASSUME NEW in, NEW start, NEW c, NEW n \in 1 .. 13, Within(in, start, c, n),
           NEW k \in 1 .. 8, c.bits_left + 8 + k <= n
    PROVE  Bits(in, start, Position(start, c) + c.bits_left + 8, k)
                = Low(Shr(At(in, c.cdata - 2), 8 - k), k)
<1> DEFINE d == c.cdata - 2
           s == 8 - k
           p == Position(start, c) + c.bits_left + 8
<1>1. c.cdata \in Int /\ d \in Int /\ c.bits_left \in 0 .. 7 /\ k \in 0 .. 8 /\ s \in 0 .. 8 - k
      /\ n > c.bits_left + 8
  BY DEF Within
<1>2. start \in Int /\ Position(start, c) = 8 * (start - c.cdata) - c.bits_left
      /\ At(in, d) \in Byte
  BY <1>1, Within1
<1>3. p \in Int /\ Ends(start, p, d, k, s)
  BY <1>1, <1>2 DEF Ends
<1> HIDE DEF s, p, d
<1>4. Bits(in, start, p, k) = Low(Shr(At(in, d), s), k)
  BY <1>1, <1>2, <1>3, InByteAt
<1>5. QED
  BY <1>4 DEF s, p, d

(* Two reads one after the other are one.                                   *)
LEMMA Joined ==
    ASSUME NEW in, NEW start, NEW c, NEW n \in 1 .. 13, Within(in, start, c, n),
           NEW a \in Nat, NEW b \in Nat, NEW k \in 0 .. n, IsSum(k, a, b),
           NEW q \in Nat, IsSum(q, Position(start, c), a)
    PROVE  Together(in, start, Position(start, c), a, q, b, k)
<1>1. Position(start, c) \in Nat /\ start \in Nat /\ BytesBelow(in, start)
      /\ Position(start, c) + n <= 8 * start
  BY Within1 DEF Within
<1>2. a \in 0 .. 13 /\ b \in 0 .. 13 - a /\ Position(start, c) + a + b <= 8 * start /\ k \in Nat
  BY <1>1 DEF IsSum
<1> DEFINE p == Position(start, c)
<1>3. p \in Nat /\ p + a + b <= 8 * start /\ IsSum(q, p, a)
  BY <1>1, <1>2
<1> HIDE DEF p
<1>4. Together(in, start, p, a, q, b, k)
  BY <1>1, <1>2, <1>3, Concat
<1>5. QED
  BY <1>4 DEF p

(* A byte unshifted and all of its bits.                                    *)
LEMMA WholeByte ==
    ASSUME NEW x \in Byte
    PROVE  Shr(x, 0) = x /\ Low(x, 8) = x /\ Low(Shr(x, 7), 1) = Shr(x, 7)
BY Powers DEF Shr, Low, Byte

(* What a reader leaves is a cursor again.                                  *)
GoodRead(in, start, c, r, n) == ReadsNext(in, start, c, r, n) /\ r.next.cdata \in Int

(* A reader that ends in byte d with k bits left.                           *)
LEMMA ReadTo ==
    ASSUME NEW in, NEW start, NEW c, NEW n \in 1 .. 13, Within(in, start, c, n),
           NEW r, NEW v, NEW d \in Int, NEW k \in 0 .. 7, r = Read(v, Cursor(d, k)),
           v = Bits(in, start, Position(start, c), n),
           8 * (start - d) - k = Position(start, c) + n
    PROVE  GoodRead(in, start, c, r, n)
<1>1. r.value = v /\ r.next = Cursor(d, k) /\ Cursor(d, k).bits_left = k /\ Cursor(d, k).cdata = d
      /\ Position(start, Cursor(d, k)) = 8 * (start - d) - k
  BY DEF Cursor, Read, Position
<1>2. QED
  BY <1>1 DEF ReadsNext, GoodRead

(* read_1: a bit of this byte, or the highest of the next.                  *)
LEMMA Read1 ==
    ASSUME NEW in, NEW start, NEW c, Within(in, start, c, 1)
    PROVE  GoodRead(in, start, c, read_1(in, c), 1)
<1>1. 1 \in 1 .. 13 /\ 1 \in 1 .. 8 /\ c.cdata \in Int /\ c.bits_left \in 0 .. 7 /\ start \in Int
      /\ Position(start, c) = 8 * (start - c.cdata) - c.bits_left
  BY Within1 DEF Within
<1>2. CASE c.bits_left # 0
  <2> DEFINE v == Low(Shr(At(in, c.cdata), c.bits_left - 1), 1)
  <2>1. read_1(in, c) = Read(v, Cursor(c.cdata, c.bits_left - 1))
    BY <1>2 DEF read_1, Cursor, Read
  <2>2. 1 \in 1 .. c.bits_left
    BY <1>1, <1>2
  <2>3. v = Bits(in, start, Position(start, c), 1)
    BY <1>1, <2>2, FirstBits
  <2>4. c.bits_left - 1 \in 0 .. 7
        /\ 8 * (start - c.cdata) - (c.bits_left - 1) = Position(start, c) + 1
    BY <1>1, <1>2
  <2> HIDE DEF v
  <2>5. QED
    BY <1>1, <2>1, <2>3, <2>4, ReadTo
<1>3. CASE c.bits_left = 0
  <2> DEFINE v == Low(Shr(At(in, c.cdata - 1), 7), 1)
  <2>1. read_1(in, c) = Read(v, Cursor(c.cdata - 1, 7))
    BY <1>3 DEF read_1, Cursor, Read
  <2>2. c.bits_left + 1 <= 1 /\ Position(start, c) + c.bits_left = Position(start, c) /\ 8 - 1 = 7
    BY <1>1, <1>3
  <2>3. v = Bits(in, start, Position(start, c) + c.bits_left, 1)
    BY <1>1, <2>2, SecondBits
  <2>4. c.cdata - 1 \in Int /\ 8 * (start - (c.cdata - 1)) - 7 = Position(start, c) + 1
    BY <1>1, <1>3
  <2> HIDE DEF v
  <2>5. QED
    BY <1>1, <2>1, <2>2, <2>3, <2>4, ReadTo
<1>4. QED
  BY <1>2, <1>3

(* read_8: the rest of this byte and the beginning of the next.             *)
LEMMA Read8 ==
    ASSUME NEW in, NEW start, NEW c, Within(in, start, c, 8)
    PROVE  GoodRead(in, start, c, read_8(in, c), 8)
<1>1. 8 \in 1 .. 13 /\ 8 \in 1 .. 8 /\ c.cdata \in Int /\ c.bits_left \in 0 .. 7
  BY DEF Within
<1>2. start \in Int /\ Position(start, c) = 8 * (start - c.cdata) - c.bits_left
      /\ Position(start, c) \in Nat /\ At(in, c.cdata - 1) \in Byte
      /\ (c.bits_left > 0 => At(in, c.cdata) \in Byte)
  BY <1>1, Within1
<1>3. CASE c.bits_left = 0
  <2>1. read_8(in, c) = Read(At(in, c.cdata - 1), Cursor(c.cdata - 1, 0))
    BY <1>3 DEF read_8
  <2>2. c.bits_left + 8 <= 8 /\ Position(start, c) + c.bits_left = Position(start, c) /\ 8 - 8 = 0
    BY <1>2, <1>3
  <2>3. Bits(in, start, Position(start, c) + c.bits_left, 8) = Low(Shr(At(in, c.cdata - 1), 8 - 8), 8)
    BY <1>1, <2>2, SecondBits
  <2>4. At(in, c.cdata - 1) = Bits(in, start, Position(start, c), 8)
    BY <1>2, <2>2, <2>3, WholeByte
  <2>5. c.cdata - 1 \in Int /\ 0 \in 0 .. 7
        /\ 8 * (start - (c.cdata - 1)) - 0 = Position(start, c) + 8
    BY <1>1, <1>2, <1>3
  <2>6. QED
    BY <1>1, <2>1, <2>4, <2>5, ReadTo
<1>4. CASE c.bits_left # 0
  <2> DEFINE a == c.bits_left
             b == 8 - a
             p == Position(start, c)
             q == p + a
             x == At(in, c.cdata)
             y == At(in, c.cdata - 1)
             v == Shl(Low(x, a), b) + Low(Shr(y, a), b)
  <2>1. read_8(in, c) = Read(v, Cursor(c.cdata - 1, a))
    BY <1>4 DEF read_8
  <2>2. /\ a \in 1 .. 7 /\ a \in Nat /\ a \in 1 .. c.bits_left /\ a - a = 0
        /\ b \in Nat /\ b \in 1 .. 8 /\ c.bits_left + b <= 8 /\ 8 - b = a
        /\ 8 \in 0 .. 8 /\ q \in Nat /\ IsSum(8, a, b) /\ IsSum(q, p, a)
    BY <1>1, <1>2, <1>4 DEF IsSum
  <2>3. Bits(in, start, p, a) = Low(x, a)
    <3>1. Bits(in, start, p, a) = Low(Shr(x, a - a), a)
      BY <1>1, <2>2, FirstBits
    <3>2. x \in Byte
      BY <1>2, <2>2
    <3>3. QED
      BY <2>2, <3>1, <3>2, WholeByte
  <2>4. Bits(in, start, q, b) = Low(Shr(y, 8 - b), b)
    BY <1>1, <2>2, SecondBits
  <2>5. Together(in, start, p, a, q, b, 8)
    <3> HIDE DEF a, b, q
    <3>1. QED
      BY <1>1, <2>2, Joined
  <2>6. v = Bits(in, start, p, 8)
    <3> HIDE DEF a, b, p, q, x, y
    <3>1. QED
      BY <2>2, <2>3, <2>4, <2>5 DEF Together
  <2>7. c.cdata - 1 \in Int /\ a \in 0 .. 7 /\ 8 * (start - (c.cdata - 1)) - a = p + 8
    BY <1>1, <1>2
  <2> HIDE DEF v, a
  <2>8. QED
    BY <1>1, <2>1, <2>6, <2>7, ReadTo DEF p
<1>5. QED
  BY <1>3, <1>4

(* read_2: two bits of one byte, or the last of this and the first of the   *)
(* next.                                                                    *)
LEMMA Read2 ==
    ASSUME NEW in, NEW start, NEW c, Within(in, start, c, 2)
    PROVE  GoodRead(in, start, c, read_2(in, c), 2)
<1>1. 2 \in 1 .. 13 /\ 2 \in 1 .. 8 /\ c.cdata \in Int /\ c.bits_left \in 0 .. 7
  BY DEF Within
<1>2. start \in Int /\ Position(start, c) = 8 * (start - c.cdata) - c.bits_left
      /\ Position(start, c) \in Nat /\ (2 > c.bits_left => At(in, c.cdata - 1) \in Byte)
      /\ (c.bits_left > 0 => At(in, c.cdata) \in Byte)
  BY <1>1, Within1
<1>3. CASE c.bits_left = 0
  <2> DEFINE v == Low(Shr(At(in, c.cdata - 1), 6), 2)
  <2>1. read_2(in, c) = Read(v, Cursor(c.cdata - 1, 6))
    BY <1>3 DEF read_2, Cursor
  <2>2. c.bits_left + 2 <= 2 /\ Position(start, c) + c.bits_left = Position(start, c) /\ 8 - 2 = 6
    BY <1>2, <1>3
  <2>3. Bits(in, start, Position(start, c) + c.bits_left, 2) = Low(Shr(At(in, c.cdata - 1), 8 - 2), 2)
    BY <1>1, <2>2, SecondBits
  <2>4. v = Bits(in, start, Position(start, c), 2)
    BY <2>2, <2>3
  <2>5. c.cdata - 1 \in Int /\ 6 \in 0 .. 7
        /\ 8 * (start - (c.cdata - 1)) - 6 = Position(start, c) + 2
    BY <1>1, <1>2, <1>3
  <2> HIDE DEF v
  <2>6. QED
    BY <1>1, <2>1, <2>4, <2>5, ReadTo
<1>4. CASE c.bits_left = 1
  <2> DEFINE p == Position(start, c)
             q == p + 1
             x == At(in, c.cdata)
             y == At(in, c.cdata - 1)
             v == Shl(Low(x, 1), 1) + Shr(y, 7)
  <2>1. read_2(in, c) = Read(v, Cursor(c.cdata - 1, 7))
    BY <1>4 DEF read_2, Cursor
  <2>2. /\ 1 \in 1 .. c.bits_left /\ c.bits_left - 1 = 0
        /\ 1 \in 1 .. 8 /\ c.bits_left + 1 <= 2 /\ 8 - 1 = 7
        /\ 2 \in 0 .. 2 /\ q \in Nat /\ IsSum(2, 1, 1) /\ IsSum(q, p, 1) /\ 1 \in Nat
        /\ q = p + c.bits_left
    BY <1>1, <1>2, <1>4 DEF IsSum
  <2>3. Bits(in, start, p, 1) = Low(x, 1)
    <3>1. Bits(in, start, p, 1) = Low(Shr(x, c.bits_left - 1), 1)
      BY <1>1, <2>2, FirstBits
    <3>2. x \in Byte
      BY <1>2, <1>4
    <3>3. QED
      BY <2>2, <3>1, <3>2, WholeByte
  <2>4. Bits(in, start, q, 1) = Shr(y, 7)
    <3>1. Bits(in, start, p + c.bits_left, 1) = Low(Shr(y, 8 - 1), 1)
      BY <1>1, <2>2, SecondBits
    <3>2. y \in Byte
      BY <1>2, <1>4
    <3>3. QED
      BY <2>2, <3>1, <3>2, WholeByte
  <2>5. Together(in, start, p, 1, q, 1, 2)
    <3> HIDE DEF q
    <3>1. QED
      BY <1>1, <2>2, Joined
  <2>6. v = Bits(in, start, p, 2)
    <3> HIDE DEF p, q, x, y
    <3>1. QED
      BY <2>3, <2>4, <2>5 DEF Together
  <2>7. c.cdata - 1 \in Int /\ 7 \in 0 .. 7 /\ 8 * (start - (c.cdata - 1)) - 7 = p + 2
    BY <1>1, <1>2, <1>4
  <2> HIDE DEF v
  <2>8. QED
    BY <1>1, <2>1, <2>6, <2>7, ReadTo DEF p
<1>5. CASE c.bits_left \in 2 .. 7
  <2> DEFINE k == c.bits_left - 2
             v == Low(Shr(At(in, c.cdata), k), 2)
  <2>1. read_2(in, c) = Read(v, Cursor(c.cdata, k))
    BY <1>5 DEF read_2, Cursor
  <2>2. 2 \in 1 .. c.bits_left /\ k \in 0 .. 7 /\ 8 * (start - c.cdata) - k = Position(start, c) + 2
    BY <1>1, <1>2, <1>5
  <2>3. v = Bits(in, start, Position(start, c), 2)
    BY <1>1, <2>2, FirstBits
  <2> HIDE DEF v, k
  <2>4. QED
    BY <1>1, <2>1, <2>2, <2>3, ReadTo
<1>6. QED
  BY <1>1, <1>3, <1>4, <1>5

(* read_max_8: the bits of this byte, of the next, or of both.              *)
LEMMA ReadMax8 ==
    ASSUME NEW in, NEW start, NEW c, NEW n \in 1 .. 8, Within(in, start, c, n)
    PROVE  GoodRead(in, start, c, read_max_8(in, c, n), n)
<1>1. n \in 1 .. 13 /\ n \in Nat /\ c.cdata \in Int /\ c.bits_left \in 0 .. 7
  BY DEF Within
<1>2. start \in Int /\ Position(start, c) = 8 * (start - c.cdata) - c.bits_left
      /\ Position(start, c) \in Nat
      /\ (c.bits_left > 0 => At(in, c.cdata) \in Byte)
  BY <1>1, Within1
<1>3. CASE c.bits_left = 0
  <2> DEFINE k == 8 - n
             v == Low(Shr(At(in, c.cdata - 1), k), n)
  <2>1. read_max_8(in, c, n) = Read(v, Cursor(c.cdata - 1, k))
    BY <1>1, <1>3 DEF read_max_8, Cursor, MinOf
  <2>2. c.bits_left + n <= n /\ Position(start, c) + c.bits_left = Position(start, c)
    BY <1>1, <1>2, <1>3
  <2>3. Bits(in, start, Position(start, c) + c.bits_left, n) = v
    BY <1>1, <2>2, SecondBits
  <2>4. v = Bits(in, start, Position(start, c), n)
    BY <2>2, <2>3
  <2>5. c.cdata - 1 \in Int /\ k \in 0 .. 7
        /\ 8 * (start - (c.cdata - 1)) - k = Position(start, c) + n
    BY <1>1, <1>2, <1>3
  <2> HIDE DEF v, k
  <2>6. QED
    BY <1>1, <2>1, <2>4, <2>5, ReadTo
<1>4. CASE c.bits_left # 0 /\ c.bits_left >= n
  <2> DEFINE k == c.bits_left - n
             v == Low(Shr(At(in, c.cdata), k), n)
  <2>1. read_max_8(in, c, n) = Read(v, Cursor(c.cdata, k))
    BY <1>1, <1>4 DEF read_max_8, MinOf
  <2>2. n \in 1 .. c.bits_left /\ k \in 0 .. 7 /\ 8 * (start - c.cdata) - k = Position(start, c) + n
    BY <1>1, <1>2, <1>4
  <2>3. v = Bits(in, start, Position(start, c), n)
    BY <1>1, <2>2, FirstBits
  <2> HIDE DEF v, k
  <2>4. QED
    BY <1>1, <2>1, <2>2, <2>3, ReadTo
<1>5. CASE c.bits_left # 0 /\ c.bits_left < n
  <2> DEFINE a == c.bits_left
             b == n - a
             k == 8 - b
             p == Position(start, c)
             q == p + a
             x == At(in, c.cdata)
             y == At(in, c.cdata - 1)
             v == Shl(Low(Shr(x, a - a), a), b) + Low(Shr(y, k), b)
  <2>1. read_max_8(in, c, n) = Read(v, Cursor(c.cdata - 1, k))
    BY <1>1, <1>5 DEF read_max_8, MinOf
  <2>2. /\ a \in 1 .. 7 /\ a \in Nat /\ a \in 1 .. c.bits_left
        /\ b \in Nat /\ b \in 1 .. 8 /\ c.bits_left + b <= n
        /\ n \in 0 .. n /\ q \in Nat /\ IsSum(n, a, b) /\ IsSum(q, p, a)
    <3>1. a \in 1 .. 7 /\ a < n /\ n \in 1 .. 8 /\ p \in Nat
      BY <1>1, <1>2, <1>5
    <3> HIDE DEF p
    <3>2. b \in 1 .. 8 /\ c.bits_left + b <= n
      BY <3>1
    <3>3. IsSum(n, a, b) /\ IsSum(q, p, a) /\ q \in Nat
      BY <3>1 DEF IsSum
    <3>4. QED
      BY <3>1, <3>2, <3>3
  <2>3. Bits(in, start, p, a) = Low(Shr(x, a - a), a)
    BY <1>1, <2>2, FirstBits
  <2>4. Bits(in, start, q, b) = Low(Shr(y, k), b)
    BY <1>1, <2>2, SecondBits, ZenonT(30)
  <2>5. Together(in, start, p, a, q, b, n)
    <3> HIDE DEF a, b, q
    <3>1. QED
      BY <1>1, <2>2, Joined
  <2>6. v = Bits(in, start, p, n)
    <3> HIDE DEF a, b, p, q, x, y, k
    <3>1. QED
      BY <2>3, <2>4, <2>5 DEF Together
  <2>7. c.cdata - 1 \in Int /\ k \in 0 .. 7 /\ 8 * (start - (c.cdata - 1)) - k = p + n
    BY <1>1, <1>2, <1>5
  <2> HIDE DEF v, k
  <2>8. QED
    BY <1>1, <2>1, <2>6, <2>7, ReadTo DEF p
<1>6. QED
  BY <1>1, <1>3, <1>4, <1>5

(* read_13: bits of two bytes or of three.                                  *)
LEMMA Read13 ==
    ASSUME NEW in, NEW start, NEW c, Within(in, start, c, 13)
    PROVE  GoodRead(in, start, c, read_13(in, c), 13)
<1>1. 13 \in 1 .. 13 /\ 13 \in 0 .. 13 /\ c.cdata \in Int /\ c.bits_left \in 0 .. 7
  BY DEF Within
<1> DEFINE p == Position(start, c)
           x == At(in, c.cdata)
           y == At(in, c.cdata - 1)
           z == At(in, c.cdata - 2)
<1>2. /\ start \in Int /\ p = 8 * (start - c.cdata) - c.bits_left /\ p \in Nat
      /\ y \in Byte /\ (c.bits_left > 0 => x \in Byte)
  BY <1>1, Within1
<1>3. CASE c.bits_left = 0
  <2> DEFINE q == p + 8
             v == Shl(Low(y, 8), 5) + Low(Shr(z, 3), 5)
  <2>1. read_13(in, c) = Read(v, Cursor(c.cdata - 2, 3))
    <3>1. read_13(in, c) = Read(Shl(Low(At(in, c.cdata - 1), 8), 5)
                                  + Low(Shr(At(in, c.cdata - 1 - 1), 8 - 5), 5),
                                Cursor(c.cdata - 1 - 1, 8 - 5))
      BY <1>3 DEF read_13, Cursor, MinOf
    <3>2. c.cdata - 1 - 1 = c.cdata - 2 /\ 8 - 5 = 3
      BY <1>1
    <3>3. QED
      BY <3>1, <3>2
  <2>2. /\ 8 \in 1 .. 8 /\ c.bits_left + 8 <= 13 /\ 8 - 8 = 0 /\ p + c.bits_left = p
        /\ 5 \in 1 .. 8 /\ c.bits_left + 8 + 5 <= 13 /\ 8 - 5 = 3 /\ p + c.bits_left + 8 = q
        /\ 8 \in Nat /\ 5 \in Nat /\ q \in Nat /\ IsSum(13, 8, 5) /\ IsSum(q, p, 8)
    BY <1>1, <1>2, <1>3 DEF IsSum
  <2>3. Bits(in, start, p, 8) = Low(y, 8)
    <3>1. Bits(in, start, p + c.bits_left, 8) = Low(Shr(y, 8 - 8), 8)
      BY <1>1, <2>2, SecondBits
    <3>2. QED
      BY <1>2, <2>2, <3>1, WholeByte
  <2>4. Bits(in, start, q, 5) = Low(Shr(z, 3), 5)
    <3>1. Bits(in, start, p + c.bits_left + 8, 5) = Low(Shr(z, 8 - 5), 5)
      BY <1>1, <2>2, ThirdBits
    <3>2. QED
      BY <2>2, <3>1
  <2>5. Together(in, start, p, 8, q, 5, 13)
    <3> HIDE DEF q
    <3>1. QED
      BY <1>1, <2>2, Joined
  <2>6. v = Bits(in, start, p, 13)
    <3> HIDE DEF p, q, y, z
    <3>1. QED
      BY <2>3, <2>4, <2>5 DEF Together
  <2>7. c.cdata - 2 \in Int /\ 3 \in 0 .. 7 /\ 8 * (start - (c.cdata - 2)) - 3 = p + 13
    BY <1>1, <1>2, <1>3
  <2> HIDE DEF v
  <2>8. QED
    BY <1>1, <2>1, <2>6, <2>7, ReadTo DEF p
<1>4. CASE c.bits_left \in 5 .. 7
  <2> DEFINE a == c.bits_left
             b == 13 - a
             k == 8 - b
             q == p + a
             v == Shl(Low(x, a), b) + Low(Shr(y, k), b)
  <2>1. read_13(in, c) = Read(v, Cursor(c.cdata - 1, k))
    BY <1>1, <1>4 DEF read_13, MinOf
  <2>2. /\ a \in 1 .. 7 /\ a \in Nat /\ a \in 1 .. c.bits_left /\ a - a = 0
        /\ b \in Nat /\ b \in 1 .. 8 /\ c.bits_left + b <= 13
        /\ q \in Nat /\ IsSum(13, a, b) /\ IsSum(q, p, a)
    BY <1>1, <1>2, <1>4 DEF IsSum
  <2>3. Bits(in, start, p, a) = Low(x, a)
    <3>1. Bits(in, start, p, a) = Low(Shr(x, a - a), a)
      BY <1>1, <2>2, FirstBits
    <3>2. QED
      BY <1>2, <2>2, <3>1, WholeByte
  <2>4. Bits(in, start, q, b) = Low(Shr(y, k), b)
    BY <1>1, <2>2, SecondBits
  <2>5. Together(in, start, p, a, q, b, 13)
    <3> HIDE DEF a, b, q
    <3>1. QED
      BY <1>1, <2>2, Joined
  <2>6. v = Bits(in, start, p, 13)
    <3> HIDE DEF a, b, p, q, x, y, k
    <3>1. QED
      BY <2>3, <2>4, <2>5 DEF Together
  <2>7. c.cdata - 1 \in Int /\ k \in 0 .. 7 /\ 8 * (start - (c.cdata - 1)) - k = p + 13
    BY <1>1, <1>2, <1>4
  <2> HIDE DEF v, k
  <2>8. QED
    BY <1>1, <2>1, <2>6, <2>7, ReadTo DEF p
<1>5. CASE c.bits_left \in 1 .. 4
  <2> DEFINE a == c.bits_left
             e == a + 8
             b == 5 - a
             k == 8 - b
             q == p + a
             r == q + 8
             two == Shl(Low(x, a), 8) + Low(Shr(y, 0), 8)
             v == Shl(two, b) + Low(Shr(z, k), b)
  <2>1. read_13(in, c) = Read(v, Cursor(c.cdata - 2, k))
    <3>1. MinOf(13 - a, 8) = 8 /\ 8 - 8 = 0 /\ 13 - a - 8 = b /\ b # 0
      BY <1>1, <1>5 DEF MinOf
    <3>2. c.bits_left # 0
      BY <1>5
    <3> HIDE DEF b
    <3>3. QED
      BY <3>1, <3>2 DEF read_13
  <2>2. /\ a \in 1 .. 7 /\ a \in Nat /\ a \in 1 .. c.bits_left /\ a - a = 0
        /\ b \in Nat /\ b \in 1 .. 8 /\ c.bits_left + 8 + b <= 13
        /\ 8 \in Nat /\ 8 \in 1 .. 8 /\ c.bits_left + 8 <= 13 /\ 8 - 8 = 0
        /\ e \in Nat /\ e \in 0 .. 13 /\ q \in Nat /\ r \in Nat /\ r = p + c.bits_left + 8
        /\ IsSum(13, e, b) /\ IsSum(e, a, 8) /\ IsSum(q, p, a) /\ IsSum(r, p, e)
    <3> HIDE DEF p
    <3>1. a \in 1 .. 4 /\ p \in Nat
      BY <1>2, <1>5
    <3>2. IsSum(13, e, b) /\ IsSum(e, a, 8)
      BY <3>1 DEF IsSum
    <3>3. IsSum(q, p, a) /\ IsSum(r, p, e)
      BY <3>1 DEF IsSum
    <3>4. r = p + c.bits_left + 8
      BY <3>1
    <3>5. QED
      BY <3>1, <3>2, <3>3, <3>4
  <2>3. Bits(in, start, p, a) = Low(x, a)
    <3>1. Bits(in, start, p, a) = Low(Shr(x, a - a), a)
      BY <1>1, <2>2, FirstBits
    <3>2. QED
      BY <1>2, <2>2, <3>1, WholeByte
  <2>4. Bits(in, start, q, 8) = Low(Shr(y, 0), 8)
    <3>1. Bits(in, start, q, 8) = Low(Shr(y, 8 - 8), 8)
      BY <1>1, <2>2, SecondBits
    <3>2. QED
      BY <2>2, <3>1
  <2>5. Bits(in, start, r, b) = Low(Shr(z, k), b)
    <3>1. Bits(in, start, p + c.bits_left + 8, b) = Low(Shr(z, 8 - b), b)
      BY <1>1, <2>2, ThirdBits
    <3>2. QED
      BY <2>2, <3>1
  <2>6. Together(in, start, p, a, q, 8, e)
    <3> HIDE DEF a, b, q, r, e
    <3>1. QED
      BY <1>1, <2>2, Joined
  <2>7. Together(in, start, p, e, r, b, 13)
    <3> HIDE DEF a, b, q, r, e
    <3>1. QED
      BY <1>1, <2>2, Joined
  <2>8. v = Bits(in, start, p, 13)
    <3> HIDE DEF a, b, e, p, q, r, x, y, z, k
    <3>1. QED
      BY <2>3, <2>4, <2>5, <2>6, <2>7 DEF Together
  <2>9. c.cdata - 2 \in Int /\ k \in 0 .. 7 /\ 8 * (start - (c.cdata - 2)) - k = p + 13
    BY <1>1, <1>2, <1>5
  <2> HIDE DEF v, k
  <2>10. QED
    BY <1>1, <2>1, <2>8, <2>9, ReadTo DEF p
<1>6. QED
  BY <1>1, <1>3, <1>4, <1>5

(* ------------------------------ the copies ------------------------------ *)

(* n bytes from `top` down are each the one `off` above it.                 *)
Repeats(plain, top, off, n) ==
    \A m \in 0 .. n - 1 : plain[top - m + 1] = plain[top - m + off + 1]

(* What a quotient is.                                                      *)
LEMMA DivFacts ==
    ASSUME NEW a \in Nat, NEW off \in Nat \ {0}
    PROVE  a \div off \in Nat /\ off * (a \div off) <= a /\ a < off * (a \div off) + off
OBVIOUS

(* Multiples of an offset.                                                  *)
LEMMA ProductGrows ==
    ASSUME NEW off \in Nat, NEW k \in Nat, NEW d \in Nat, k <= d
    PROVE  off * k \in Nat /\ off * k <= off * d /\ off * (k + 1) = off * k + off
<1>1. off * d = off * k + off * (d - k) /\ d - k \in Nat
  OBVIOUS
<1>2. off * (d - k) \in Nat /\ off * k \in Nat
  BY <1>1
<1>3. QED
  BY <1>1, <1>2

IsSource(s, i, top, off) == s = i + off * (1 + (top - i) \div off)

(* The place a byte of a copy comes from: above `top`, and the same byte.   *)
LEMMA SourceOfCopy ==
    ASSUME NEW plain, NEW top \in Int, NEW off \in Nat \ {0}, NEW n \in Nat,
           Repeats(plain, top, off, n), NEW i \in top - n + 1 .. top,
           NEW s \in Int, IsSource(s, i, top, off)
    PROVE  s \in top + 1 .. top + off /\ plain[s + 1] = plain[i + 1]
<1> DEFINE d == (top - i) \div off
           S == {k \in 0 .. d + 1 : plain[i + off * k + 1] = plain[i + 1]}
<1>1. i \in Int /\ top - i \in Nat /\ i >= top - n + 1 /\ i <= top
  OBVIOUS
<1>2. d \in Nat /\ off * d <= top - i /\ top - i < off * d + off
  BY <1>1, DivFacts
<1>3. s = i + off * (1 + d)
  BY DEF IsSource
<1> HIDE DEF d
<1>4. off * (d + 1) = off * d + off /\ off * d \in Nat /\ 1 + d = d + 1
  BY <1>2, ProductGrows
<1>5. s = i + (off * d + off) /\ s = i + off * (d + 1)
  BY <1>3, <1>4
<1>6. s \in top + 1 .. top + off
  BY <1>1, <1>2, <1>4, <1>5
<1>7. 0 \in S
  <2>1. off * 0 = 0 /\ i + 0 = i
    BY <1>1
  <2>2. QED
    BY <1>2, <2>1
<1>8. ASSUME NEW k \in 0 .. (d + 1) - 1, k \in S PROVE k + 1 \in S
  <2>1. k \in Nat /\ k <= d /\ k + 1 \in 0 .. d + 1
    BY <1>2
  <2>2. off * k \in Nat /\ off * k <= off * d /\ off * (k + 1) = off * k + off
    BY <1>2, <2>1, ProductGrows
  <2> DEFINE m == top - (i + off * k)
  <2>3. m \in 0 .. n - 1 /\ top - m = i + off * k
    <3> DEFINE w == off * k
    <3>1. w \in Nat /\ w <= top - i
      BY <1>1, <1>2, <1>4, <2>2
    <3> HIDE DEF w
    <3>2. top - (i + w) \in 0 .. n - 1 /\ top - (top - (i + w)) = i + w
      BY <1>1, <3>1
    <3>3. QED
      BY <3>2 DEF w
  <2> HIDE DEF m
  <2>4. plain[top - m + 1] = plain[top - m + off + 1]
    BY <2>3 DEF Repeats
  <2>5. i + off * k + off + 1 = i + off * (k + 1) + 1
    BY <1>1, <2>2
  <2>6. plain[i + off * (k + 1) + 1] = plain[i + off * k + 1]
    BY <2>3, <2>4, <2>5
  <2>7. plain[i + off * k + 1] = plain[i + 1]
    BY <1>8
  <2>8. QED
    BY <2>1, <2>6, <2>7
<1>9. plain[i + off * (d + 1) + 1] = plain[i + 1]
  <2>1. 0 .. d + 1 \subseteq S
    <3>1. d + 1 \in Nat
      BY <1>2
    <3> HIDE DEF S
    <3>2. QED
      BY <1>7, <1>8, <3>1, UpTo
  <2>2. d + 1 \in 0 .. d + 1
    BY <1>2
  <2>3. QED
    BY <2>1, <2>2
<1>10. QED
  BY <1>5, <1>6, <1>9

(* The bytes of a buffer above `top` are those of the file.                 *)
FileAbove(b, plain, top) == \A n \in top + 1 .. Len(plain) - 1 : b[n] = plain[n + 1]

Fits(b, bytes, plain) ==
    b \in [0 .. bytes - 1 -> Byte] /\ plain \in Seq(Byte) /\ Len(plain) <= bytes

(* A copy that begins inside the file writes n bytes of it, and no others.  *)
LEMMA CopiedBytes ==
    ASSUME NEW b, NEW bytes \in Nat, NEW plain, Fits(b, bytes, plain),
           NEW top \in Int, NEW off \in Nat \ {0}, NEW n \in Nat,
           top - n >= -1, top + off < Len(plain), Repeats(plain, top, off, n),
           FileAbove(b, plain, top), NEW low \in Int, IsSum(top, low, n)
    PROVE  /\ Fits(Copied(b, top, off, n), bytes, plain)
           /\ FileAbove(Copied(b, top, off, n), plain, low)
           /\ \A i \in 0 .. bytes - 1 :
                i <= low \/ i > top => Copied(b, top, off, n)[i] = b[i]
<1> DEFINE c == Copied(b, top, off, n)
           src(i) == i + off * (1 + (top - i) \div off)
<1>1. b \in [0 .. bytes - 1 -> Byte] /\ DOMAIN b = 0 .. bytes - 1
      /\ Len(plain) \in Nat /\ Len(plain) <= bytes /\ low = top - n
      /\ \A i \in 1 .. Len(plain) : plain[i] \in Byte
  BY DEF Fits, IsSum
<1>2. c = [i \in 0 .. bytes - 1 |->
             IF i \notin top - n + 1 .. top THEN b[i] ELSE At(b, src(i))]
  BY <1>1 DEF Copied
<1> HIDE DEF c
<1>3. ASSUME NEW i \in top - n + 1 .. top
      PROVE  i \in 0 .. Len(plain) - 1 /\ At(b, src(i)) = plain[i + 1]
  <2>1. i \in Int /\ top - i \in Nat /\ i \in 0 .. Len(plain) - 1
    BY <1>1
  <2>2. src(i) \in Int
    <3>1. (top - i) \div off \in Nat
      BY <2>1, DivFacts
    <3>2. 1 + (top - i) \div off \in Nat
      BY <3>1
    <3>3. off * (1 + (top - i) \div off) \in Nat
      BY <3>2
    <3>4. QED
      BY <2>1, <3>3
  <2> DEFINE s == src(i)
  <2>3. s \in top + 1 .. top + off /\ plain[s + 1] = plain[i + 1]
    <3>1. IsSource(s, i, top, off)
      BY DEF IsSource
    <3> HIDE DEF s
    <3>2. s \in Int
      BY <2>2 DEF s
    <3>3. QED
      BY <3>1, <3>2, SourceOfCopy, SMTT(30)
  <2> HIDE DEF s
  <2>4. s \in top + 1 .. Len(plain) - 1 /\ s \in 0 .. bytes - 1
    BY <1>1, <2>1, <2>3
  <2>5. b[s] = plain[s + 1] /\ At(b, s) = b[s]
    BY <1>1, <2>4 DEF FileAbove, At
  <2>6. QED
    BY <2>1, <2>3, <2>5 DEF s
<1> HIDE DEF src
<1>4. ASSUME NEW i \in 0 .. bytes - 1
      PROVE  /\ c[i] \in Byte
             /\ i <= low \/ i > top => c[i] = b[i]
             /\ i > low /\ i <= top => c[i] = plain[i + 1]
  <2>1. CASE i \in top - n + 1 .. top
    <3>1. c[i] = plain[i + 1] /\ i + 1 \in 1 .. Len(plain)
      BY <1>2, <1>3, <2>1, SMTT(30)
    <3>2. QED
      BY <1>1, <2>1, <3>1, SMTT(30)
  <2>2. CASE i \notin top - n + 1 .. top
    <3>1. c[i] = b[i]
      BY <1>2, <2>2
    <3>2. QED
      BY <1>1, <2>2, <3>1
  <2>3. QED
    BY <2>1, <2>2
<1>5. Fits(c, bytes, plain)
  BY <1>2, <1>4 DEF Fits
<1>6. FileAbove(c, plain, low)
  <2>1. ASSUME NEW i \in low + 1 .. Len(plain) - 1 PROVE c[i] = plain[i + 1]
    <3>1. i \in 0 .. bytes - 1 /\ i > low
      BY <1>1
    <3>2. CASE i <= top
      BY <1>4, <3>1, <3>2
    <3>3. CASE i > top
      <4>1. i \in top + 1 .. Len(plain) - 1
        BY <3>3
      <4>2. b[i] = plain[i + 1]
        BY <4>1 DEF FileAbove
      <4>3. QED
        BY <1>4, <3>1, <3>3, <4>2
    <3>4. QED
      BY <3>1, <3>2, <3>3
  <2>2. QED
    BY <2>1 DEF FileAbove
<1>7. QED
  BY <1>4, <1>5, <1>6 DEF c

(* A copy done in two parts is the copy.                                    *)
InParts(c, b, top, off, k, n) == c = Copied(Copied(b, top, off, k), top - k, off, n - k)
(* A copy in two parts, the second below the first, is one copy.            *)
LEMMA CopiedTwice ==
    ASSUME NEW b, NEW bytes \in Nat, NEW plain, Fits(b, bytes, plain),
           NEW top \in Int, NEW off \in Nat \ {0}, NEW n \in Nat, NEW k \in Nat, k <= n,
           NEW low \in Int, IsSum(top, low, n), low >= -1, top + off < Len(plain),
           Repeats(plain, top, off, n), FileAbove(b, plain, top),
           NEW c, InParts(c, b, top, off, k, n)
    PROVE  /\ Fits(c, bytes, plain)
           /\ FileAbove(c, plain, low)
           /\ \A i \in 0 .. bytes - 1 : i <= low \/ i > top => c[i] = b[i]
<1> DEFINE d == Copied(b, top, off, k)
           mid == top - k
           rest == n - k
<1>0. low = top - n
  BY DEF IsSum
<1>1. /\ mid \in Int /\ rest \in Nat /\ low \in Int /\ top - k >= -1 /\ mid - rest >= -1
      /\ IsSum(top, mid, k) /\ IsSum(mid, low, rest) /\ mid <= top
  BY <1>0 DEF IsSum
<1>2. Len(plain) \in Nat
  BY DEF Fits
<1>3. Repeats(plain, top, off, k)
  <2>1. \A m \in 0 .. k - 1 : m \in 0 .. n - 1
    OBVIOUS
  <2>2. QED
    BY <2>1 DEF Repeats
<1>4. Repeats(plain, mid, off, rest)
  <2>1. ASSUME NEW m \in 0 .. rest - 1
        PROVE  plain[mid - m + 1] = plain[mid - m + off + 1]
    <3>1. m + k \in 0 .. n - 1 /\ top - (m + k) = mid - m
      OBVIOUS
    <3>2. plain[top - (m + k) + 1] = plain[top - (m + k) + off + 1]
      BY <3>1 DEF Repeats
    <3>3. QED
      BY <3>1, <3>2
  <2>2. QED
    BY <2>1 DEF Repeats
<1>5. /\ Fits(d, bytes, plain) /\ FileAbove(d, plain, mid)
      /\ \A i \in 0 .. bytes - 1 : i <= mid \/ i > top => d[i] = b[i]
  <2>1. mid \in Int /\ IsSum(top, mid, k) /\ top - k >= -1
    BY <1>1
  <2> HIDE DEF mid
  <2>2. QED
    BY <1>3, <2>1, CopiedBytes
<1>6. mid + off < Len(plain)
  BY <1>1, <1>2
<1> HIDE DEF d, mid, rest
<1>7. c = Copied(d, mid, off, rest)
  BY DEF d, mid, rest, InParts
<1>8. /\ Fits(c, bytes, plain) /\ FileAbove(c, plain, low)
      /\ \A i \in 0 .. bytes - 1 : i <= low \/ i > mid => c[i] = d[i]
  <2>1. Fits(d, bytes, plain) /\ FileAbove(d, plain, mid)
    BY <1>5
  <2>2. /\ Fits(Copied(d, mid, off, rest), bytes, plain)
        /\ FileAbove(Copied(d, mid, off, rest), plain, low)
        /\ \A i \in 0 .. bytes - 1 :
             i <= low \/ i > mid => Copied(d, mid, off, rest)[i] = d[i]
    BY <1>1, <1>4, <2>1, <1>6, CopiedBytes
  <2>3. QED
    BY <1>7, <2>2
<1>9. low <= mid
  BY <1>0 DEF mid
<1>10. QED
  BY <1>1, <1>5, <1>8, <1>9

(* ----------------------- the inputs and their blocks -------------------- *)

Start(i) == i.uncompressed_header_offset
Count(i) == Len(Blocks(i))
BytesTo(i, j) == ByteSums(Blocks(i))[j]
BitsTo(i, j) == BitSums(Blocks(i))[j]

(* The running sums of naturals do not fall.                                *)
LEMMA SumsGrow ==
    ASSUME NEW len \in Nat, NEW h, Len(h) = len, \A n \in 1 .. len : h[n] \in Nat,
           NEW n \in 0 .. len
    PROVE  Sums(h)[n] <= Sums(h)[len]
<1> DEFINE S == {k \in 0 .. len - n : Sums(h)[n] <= Sums(h)[n + k]}
<1>1. \A m \in 1 .. len : Sums(h)[m] = Sums(h)[m - 1] + h[m]
  BY SumsFacts
<1>2. \A m \in 0 .. len : Sums(h)[m] \in Nat
  BY SumsFacts
<1>3. 0 \in S
  BY <1>2
<1>4. ASSUME NEW k \in 0 .. (len - n) - 1, k \in S PROVE k + 1 \in S
  <2>1. n + k + 1 \in 1 .. len /\ n + k \in 0 .. len /\ n + (k + 1) = n + k + 1
        /\ (n + k + 1) - 1 = n + k /\ k + 1 \in 0 .. len - n
    OBVIOUS
  <2>2. Sums(h)[n + k + 1] = Sums(h)[n + k] + h[n + k + 1] /\ h[n + k + 1] \in Nat
    BY <1>1, <2>1
  <2>3. Sums(h)[n] <= Sums(h)[n + k] /\ Sums(h)[n] \in Nat /\ Sums(h)[n + k] \in Nat
    BY <1>2, <1>4, <2>1
  <2>4. Sums(h)[n] <= Sums(h)[n + k + 1]
    BY <2>2, <2>3
  <2>5. QED
    BY <2>1, <2>4
<1>5. len - n \in S
  <2>1. len - n \in Nat
    OBVIOUS
  <2> HIDE DEF S
  <2>2. 0 .. len - n \subseteq S
    BY <1>3, <1>4, <2>1, UpTo
  <2>3. QED
    BY <2>1, <2>2
<1>6. n + (len - n) = len
  OBVIOUS
<1>7. QED
  BY <1>5, <1>6

(* What the assumption says of an input.                                    *)
LEMMA InputFacts ==
    ASSUME NEW i \in Inputs
    PROVE  /\ Start(i) \in Nat /\ BytesBelow(i.bytes, Start(i))
           /\ HeaderBytes \in Nat \ {0} /\ BufferBytes \in Nat
           /\ i.uncompressed_size \in Nat /\ Size(i) = i.uncompressed_size + HeaderBytes
           /\ Size(i) <= BufferBytes
           /\ Plain(i) \in Seq(Byte) /\ Len(Plain(i)) = Size(i)
           /\ \A n \in 0 .. HeaderBytes - 1 : At(i.bytes, Start(i) + n) = Plain(i)[n + 1]
           /\ Count(i) \in Nat
<1>1. i.uncompressed_header_offset \in Nat /\ i.uncompressed_size \in Nat
      /\ HeaderBytes \in Nat \ {0} /\ BufferBytes \in Nat /\ Size(i) <= BufferBytes
  BY LaylaAssumption
<1>2. Plain(i) \in Seq(Byte) /\ Len(Plain(i)) = Size(i) /\ Blocks(i) \in Seq(Seq(Nat))
  BY LaylaAssumption
<1>3. Describes(i.bytes, Start(i), HeaderBytes, Blocks(i), Plain(i))
  BY LaylaAssumption DEF Start
<1>4. /\ \A n \in 0 .. Start(i) + HeaderBytes - 1 : At(i.bytes, n) \in Byte
      /\ \A n \in 0 .. HeaderBytes - 1 : At(i.bytes, Start(i) + n) = Plain(i)[n + 1]
  BY <1>3 DEF Describes
<1>5. BytesBelow(i.bytes, Start(i))
  BY <1>1, <1>4 DEF BytesBelow, Start
<1>6. Count(i) \in Nat
  BY <1>2 DEF Count
<1>7. QED
  BY <1>1, <1>2, <1>4, <1>5, <1>6 DEF Start, Size

(* One block of an input: what it adds, and what it says.                   *)
BlockIs(i, j) ==
    LET b == Blocks(i)[j]
        p == BitsTo(i, j - 1)
        top == Size(i) - 1 - BytesTo(i, j - 1)
    IN  IF IsLiteral(b) THEN LiteralAt(i.bytes, Start(i), p, Plain(i), top, b)
        ELSE CopyAt(i.bytes, Start(i), p, Plain(i), top, b)

(* The blocks an input describes fill its output and fit its stream.        *)
LEMMA BlocksFacts ==
    ASSUME NEW i \in Inputs
    PROVE  /\ \A j \in 1 .. Count(i) : BlockIs(i, j)
           /\ HeaderBytes + BytesTo(i, Count(i)) = Size(i)
           /\ BitsTo(i, Count(i)) <= 8 * Start(i)
<1>1. Describes(i.bytes, Start(i), HeaderBytes, Blocks(i), Plain(i)) /\ Len(Plain(i)) = Size(i)
  BY LaylaAssumption DEF Start
<1>2. \A j \in 1 .. Count(i) : BlockIs(i, j)
  BY <1>1 DEF Describes, BlockIs, BytesTo, BitsTo, Count
<1>3. HeaderBytes + BytesTo(i, Count(i)) = Size(i) /\ BitsTo(i, Count(i)) <= 8 * Start(i)
  BY <1>1 DEF Describes, BytesTo, BitsTo, Count
<1>4. QED
  BY <1>2, <1>3

(* Every block adds a byte at least, and the bits it takes.                 *)
LEMMA BlockLengths ==
    ASSUME NEW i \in Inputs, NEW j \in 1 .. Count(i)
    PROVE  BytesOf(Blocks(i)[j]) \in Nat \ {0} /\ BitsOf(Blocks(i)[j]) \in Nat
<1> DEFINE b == Blocks(i)[j]
<1>1. BlockIs(i, j)
  BY BlocksFacts
<1>2. CASE IsLiteral(b)
  BY <1>2 DEF BytesOf, BitsOf
<1>3. CASE ~IsLiteral(b)
  <2>1. b[2] \in Nat /\ b[2] >= 3
    <3> DEFINE p == BitsTo(i, j - 1)
               top == Size(i) - 1 - BytesTo(i, j - 1)
    <3>1. CopyAt(i.bytes, Start(i), p, Plain(i), top, b)
      BY <1>1, <1>3 DEF BlockIs
    <3> HIDE DEF p, top, b
    <3>2. QED
      BY <3>1 DEF CopyAt
  <2>2. LevelBits(b[2] - 3) \in Nat
    <3> DEFINE r == b[2] - 3
    <3>1. r \in Nat
      BY <2>1
    <3> HIDE DEF r
    <3>2. r >= 41 => (r - 41) \div 255 \in Nat
      BY <3>1
    <3>3. QED
      BY <3>1, <3>2 DEF LevelBits, r
  <2>3. QED
    BY <1>3, <2>1, <2>2 DEF BytesOf, BitsOf
<1>4. QED
  BY <1>2, <1>3

(* The sums grow from block to block, up to the whole of both.              *)
LEMMA BlockSums ==
    ASSUME NEW i \in Inputs
    PROVE  /\ BytesTo(i, 0) = 0 /\ BitsTo(i, 0) = 0
           /\ \A j \in 1 .. Count(i) :
                BytesTo(i, j) = BytesTo(i, j - 1) + BytesOf(Blocks(i)[j])
           /\ \A j \in 1 .. Count(i) : BitsTo(i, j) = BitsTo(i, j - 1) + BitsOf(Blocks(i)[j])
           /\ \A j \in 0 .. Count(i) : BytesTo(i, j) \in 0 .. i.uncompressed_size
           /\ \A j \in 0 .. Count(i) : BitsTo(i, j) \in 0 .. 8 * Start(i)
           /\ BytesTo(i, Count(i)) = i.uncompressed_size
<1> DEFINE len == Count(i)
           h == [j \in 1 .. len |-> BytesOf(Blocks(i)[j])]
           g == [j \in 1 .. len |-> BitsOf(Blocks(i)[j])]
<1>1. len \in Nat /\ Len(h) = len /\ Len(g) = len
  BY InputFacts
<1>2. (\A n \in 1 .. len : h[n] \in Nat) /\ (\A n \in 1 .. len : g[n] \in Nat)
  BY BlockLengths
<1>3. \A j : BytesTo(i, j) = Sums(h)[j] /\ BitsTo(i, j) = Sums(g)[j]
  BY DEF BytesTo, BitsTo, ByteSums, BitSums, Count
<1>4. \A n \in 1 .. len : h[n] = BytesOf(Blocks(i)[n]) /\ g[n] = BitsOf(Blocks(i)[n])
  OBVIOUS
<1> HIDE DEF len, h, g
<1>5. /\ Sums(h)[0] = 0
      /\ \A n \in 1 .. len : Sums(h)[n] = Sums(h)[n - 1] + h[n]
      /\ \A n \in 0 .. len : Sums(h)[n] \in Nat
  BY <1>1, <1>2, SumsFacts
<1>6. /\ Sums(g)[0] = 0
      /\ \A n \in 1 .. len : Sums(g)[n] = Sums(g)[n - 1] + g[n]
      /\ \A n \in 0 .. len : Sums(g)[n] \in Nat
  BY <1>1, <1>2, SumsFacts
<1>7. \A n \in 0 .. len : Sums(h)[n] <= Sums(h)[len]
  BY <1>1, <1>2, SumsGrow
<1>8. \A n \in 0 .. len : Sums(g)[n] <= Sums(g)[len]
  BY <1>1, <1>2, SumsGrow
<1>9. Sums(h)[len] = i.uncompressed_size /\ Sums(g)[len] <= 8 * Start(i)
  <2>1. HeaderBytes + Sums(h)[len] = Size(i) /\ Sums(g)[len] <= 8 * Start(i)
    BY <1>3, BlocksFacts DEF len
  <2>2. Sums(h)[len] \in Nat
    BY <1>1, <1>5
  <2>3. HeaderBytes \in Nat /\ i.uncompressed_size \in Nat
        /\ Size(i) = i.uncompressed_size + HeaderBytes
    BY InputFacts
  <2>4. QED
    BY <2>1, <2>2, <2>3
<1>10. BytesTo(i, 0) = 0 /\ BitsTo(i, 0) = 0
  BY <1>3, <1>5, <1>6
<1>11. \A j \in 1 .. len : BytesTo(i, j) = BytesTo(i, j - 1) + BytesOf(Blocks(i)[j])
  BY <1>3, <1>4, <1>5
<1>12. \A j \in 1 .. len : BitsTo(i, j) = BitsTo(i, j - 1) + BitsOf(Blocks(i)[j])
  BY <1>3, <1>4, <1>6
<1>13. \A j \in 0 .. len : BytesTo(i, j) \in 0 .. i.uncompressed_size
  BY <1>3, <1>5, <1>7, <1>9, InputFacts
<1>14. \A j \in 0 .. len : BitsTo(i, j) \in 0 .. 8 * Start(i)
  <2>1. ASSUME NEW j \in 0 .. len PROVE Sums(g)[j] \in 0 .. 8 * Start(i)
    <3>1. Sums(g)[j] \in Nat /\ Sums(g)[len] \in Nat /\ Sums(g)[j] <= Sums(g)[len]
      BY <1>1, <1>6, <1>8
    <3>2. Start(i) \in Nat
      BY InputFacts
    <3>3. QED
      BY <1>9, <3>1, <3>2
  <2>2. QED
    BY <1>3, <2>1
<1>15. BytesTo(i, len) = i.uncompressed_size
  BY <1>3, <1>9
<1>16. QED
  BY <1>10, <1>11, <1>12, <1>13, <1>14, <1>15 DEF len

(* The block behind the first j, the bit it begins at, and its top byte.    *)
Following(i, j, b, p, top) ==
    b = Blocks(i)[j + 1] /\ p = BitsTo(i, j) /\ top = Size(i) - 1 - BytesTo(i, j)

(* What an input says of that block, a literal ...                          *)
LEMMA LiteralFacts ==
    ASSUME NEW i \in Inputs, NEW j \in 0 .. Count(i) - 1, NEW b, NEW p, NEW top,
           Following(i, j, b, p, top), IsLiteral(b)
    PROVE  /\ p \in Nat /\ p + 9 = BitsTo(i, j + 1) /\ p + 9 <= 8 * Start(i)
           /\ BytesTo(i, j + 1) = BytesTo(i, j) + 1
           /\ Bits(i.bytes, Start(i), p, 1) = 0
           /\ Bits(i.bytes, Start(i), p + 1, 8) = b[1]
           /\ Plain(i)[top + 1] = b[1]
<1>1. j + 1 \in 1 .. Count(i) /\ j \in 0 .. Count(i) /\ j + 1 \in 0 .. Count(i) /\ (j + 1) - 1 = j
  BY InputFacts
<1>2. LiteralAt(i.bytes, Start(i), p, Plain(i), top, b)
  <2>1. BlockIs(i, j + 1)
    BY <1>1, BlocksFacts
  <2>2. QED
    BY <1>1, <2>1 DEF BlockIs, Following
<1>3. BytesTo(i, j + 1) = BytesTo(i, j) + BytesOf(b) /\ BitsTo(i, j + 1) = p + BitsOf(b)
  BY <1>1, BlockSums DEF Following
<1>4. p \in Nat /\ BitsTo(i, j + 1) <= 8 * Start(i)
  BY <1>1, BlockSums, InputFacts DEF Following
<1>5. BytesOf(b) = 1 /\ BitsOf(b) = 9
  BY DEF BytesOf, BitsOf
<1>6. QED
  BY <1>2, <1>3, <1>4, <1>5 DEF LiteralAt

(* ... or a copy.                                                           *)
LEMMA CopyFacts ==
    ASSUME NEW i \in Inputs, NEW j \in 0 .. Count(i) - 1, NEW b, NEW p, NEW top,
           Following(i, j, b, p, top), ~IsLiteral(b)
    PROVE  /\ p \in Nat /\ p + BitsOf(b) = BitsTo(i, j + 1) /\ p + BitsOf(b) <= 8 * Start(i)
           /\ BitsOf(b) = 14 + LevelBits(b[2] - 3)
           /\ BytesTo(i, j + 1) = BytesTo(i, j) + b[2]
           /\ BytesTo(i, j) + b[2] <= i.uncompressed_size
           /\ b[1] \in Nat /\ b[1] >= 3 /\ b[2] \in Nat /\ b[2] >= 3
           /\ Bits(i.bytes, Start(i), p, 1) = 1
           /\ Bits(i.bytes, Start(i), p + 1, 13) = b[1] - 3
           /\ LengthAt(i.bytes, Start(i), p + 14, b[2] - 3)
           /\ top + b[1] < Size(i)
           /\ Repeats(Plain(i), top, b[1], b[2])
<1>1. j + 1 \in 1 .. Count(i) /\ j \in 0 .. Count(i) /\ j + 1 \in 0 .. Count(i) /\ (j + 1) - 1 = j
  BY InputFacts
<1>2. CopyAt(i.bytes, Start(i), p, Plain(i), top, b)
  <2>1. BlockIs(i, j + 1)
    BY <1>1, BlocksFacts
  <2>2. QED
    BY <1>1, <2>1 DEF BlockIs, Following
<1>3. BytesTo(i, j + 1) = BytesTo(i, j) + BytesOf(b) /\ BitsTo(i, j + 1) = p + BitsOf(b)
  BY <1>1, BlockSums DEF Following
<1>4. p \in Nat /\ BitsTo(i, j + 1) <= 8 * Start(i) /\ BytesTo(i, j + 1) <= i.uncompressed_size
  BY <1>1, BlockSums, InputFacts, SMTT(30) DEF Following
<1>5. BytesOf(b) = b[2] /\ BitsOf(b) = 14 + LevelBits(b[2] - 3)
  BY DEF BytesOf, BitsOf
<1>6. /\ b[1] \in Nat /\ b[1] >= 3 /\ b[2] \in Nat /\ b[2] >= 3
      /\ Bits(i.bytes, Start(i), p, 1) = 1
      /\ Bits(i.bytes, Start(i), p + 1, 13) = b[1] - 3
      /\ LengthAt(i.bytes, Start(i), p + 14, b[2] - 3)
      /\ top + b[1] < Len(Plain(i))
      /\ Repeats(Plain(i), top, b[1], b[2])
  BY <1>2 DEF CopyAt, Repeats
<1>7. Len(Plain(i)) = Size(i)
  BY InputFacts
<1>8. p + BitsOf(b) = BitsTo(i, j + 1) /\ p + BitsOf(b) <= 8 * Start(i)
      /\ BytesTo(i, j + 1) = BytesTo(i, j) + b[2]
      /\ BytesTo(i, j) + b[2] <= i.uncompressed_size
  BY <1>3, <1>4, <1>5
<1>9. top + b[1] < Size(i)
  BY <1>6, <1>7
<1>10. QED
  BY <1>4, <1>5, <1>6, <1>8, <1>9

(* ------------------------------ the invariant --------------------------- *)

(* The first j blocks are decoded, in their place, and the raw bytes are in *)
(* front; the cursor is one.                                                *)
Decoded(j) ==
    /\ inp \in Inputs /\ j \in 0 .. Count(inp)
    /\ Fits(buf, BufferBytes, Plain(inp))
    /\ \A n \in 0 .. HeaderBytes - 1 : buf[n] = Plain(inp)[n + 1]
    /\ pwrite = Size(inp) - 1 - BytesTo(inp, j)
    /\ FileAbove(buf, Plain(inp), pwrite)
    /\ cursor.cdata \in Int /\ cursor.bits_left \in 0 .. 7

AtBit(p) == Position(Start(inp), cursor) = p

(* The place in the next block: the offset and so much of the length, with  *)
(* the cursor behind the levels read.                                       *)
LevelAt(b, p, l, n) == length = l /\ l <= b[2] /\ AtBit(p + n)

InCopy(j) ==
    LET b == Blocks(inp)[j + 1]
        p == BitsTo(inp, j)
    IN  /\ j < Count(inp) /\ ~IsLiteral(b) /\ offset = b[1]
        /\ \/ pc = "level3" /\ LevelAt(b, p, 6, 16)
           \/ pc = "level5" /\ LevelAt(b, p, 13, 19)
           \/ pc = "level8" /\ \E k \in 0 .. length : LevelAt(b, p, 44 + 255 * k, 24 + 8 * k)
           \/ pc = "copy" /\ length = b[2] /\ AtBit(BitsTo(inp, j + 1))

AtBlock(j) == pc = "flag" /\ AtBit(BitsTo(inp, j))

Idle == pc = "idle" /\ buf \in [0 .. BufferBytes - 1 -> Byte]
        /\ (calls > 0 => inp \in Inputs /\ result = Plain(inp))

LaylaInv ==
    /\ calls \in Nat
    /\ \/ Idle
       \/ \E j \in 0 .. Count(inp) : Decoded(j) /\ (AtBlock(j) \/ InCopy(j))

(* A cursor at bit p of the stream, and a reader that takes the next n.     *)
CursorAt(i, c, p) ==
    c.cdata \in Int /\ c.bits_left \in 0 .. 7 /\ Position(Start(i), c) = p
Takes(i, p, r, n) ==
    r.value = Bits(i.bytes, Start(i), p, n) /\ CursorAt(i, r.next, p + n)

(* Every reader, wherever it starts, as long as there are bits.             *)
LEMMA ReadersTake ==
    ASSUME NEW i \in Inputs, NEW c, NEW p \in Nat, CursorAt(i, c, p)
    PROVE  /\ p + 1 <= 8 * Start(i) => Takes(i, p, read_1(i.bytes, c), 1)
           /\ p + 2 <= 8 * Start(i) => Takes(i, p, read_2(i.bytes, c), 2)
           /\ p + 8 <= 8 * Start(i) => Takes(i, p, read_8(i.bytes, c), 8)
           /\ p + 13 <= 8 * Start(i) => Takes(i, p, read_13(i.bytes, c), 13)
           /\ p + 3 <= 8 * Start(i) => Takes(i, p, read_max_8(i.bytes, c, 3), 3)
           /\ p + 5 <= 8 * Start(i) => Takes(i, p, read_max_8(i.bytes, c, 5), 5)
<1>1. Start(i) \in Nat /\ BytesBelow(i.bytes, Start(i))
  BY InputFacts
<1>2. ASSUME NEW n \in 1 .. 13, p + n <= 8 * Start(i)
      PROVE  Within(i.bytes, Start(i), c, n)
  BY <1>1, <1>2 DEF Within, CursorAt
<1>3. ASSUME NEW n \in 1 .. 13, NEW r, GoodRead(i.bytes, Start(i), c, r, n)
      PROVE  Takes(i, p, r, n)
  BY <1>3 DEF GoodRead, ReadsNext, Takes, CursorAt
<1>4. 1 \in 1 .. 13 /\ 2 \in 1 .. 13 /\ 3 \in 1 .. 13 /\ 5 \in 1 .. 13 /\ 8 \in 1 .. 13
      /\ 13 \in 1 .. 13 /\ 3 \in 1 .. 8 /\ 5 \in 1 .. 8
  OBVIOUS
<1>5. p + 1 <= 8 * Start(i) => Takes(i, p, read_1(i.bytes, c), 1)
  BY <1>2, <1>3, <1>4, Read1
<1>6. p + 2 <= 8 * Start(i) => Takes(i, p, read_2(i.bytes, c), 2)
  BY <1>2, <1>3, <1>4, Read2
<1>7. p + 8 <= 8 * Start(i) => Takes(i, p, read_8(i.bytes, c), 8)
  BY <1>2, <1>3, <1>4, Read8
<1>8. p + 13 <= 8 * Start(i) => Takes(i, p, read_13(i.bytes, c), 13)
  BY <1>2, <1>3, <1>4, Read13
<1>9. p + 3 <= 8 * Start(i) => Takes(i, p, read_max_8(i.bytes, c, 3), 3)
  BY <1>2, <1>3, <1>4, ReadMax8
<1>10. p + 5 <= 8 * Start(i) => Takes(i, p, read_max_8(i.bytes, c, 5), 5)
  BY <1>2, <1>3, <1>4, ReadMax8
<1>11. QED
  BY <1>5, <1>6, <1>7, <1>8, <1>9, <1>10

(* How many bits the levels of a length take.                               *)
LEMMA LevelFacts ==
    ASSUME NEW r \in Nat
    PROVE  /\ LevelBits(r) \in Nat /\ LevelBits(r) >= 2
           /\ r < 3 => LevelBits(r) = 2
           /\ r >= 3 => LevelBits(r) >= 5
           /\ r >= 3 /\ r < 10 => LevelBits(r) = 5
           /\ r >= 10 => LevelBits(r) >= 10
           /\ r >= 10 /\ r < 41 => LevelBits(r) = 10
           /\ \A k \in Nat : r - 41 >= 255 * k => LevelBits(r) >= 18 + 8 * k
           /\ \A k \in Nat :
                r - 41 >= 255 * k /\ r - 41 < 255 * k + 255 => LevelBits(r) = 18 + 8 * k
<1>1. CASE r < 41
  BY <1>1 DEF LevelBits
<1>2. CASE r >= 41
  <2> DEFINE d == (r - 41) \div 255
  <2>1. d \in Nat /\ 255 * d <= r - 41 /\ r - 41 < 255 * d + 255
    BY <1>2
  <2>2. LevelBits(r) = 18 + 8 * d
    BY <1>2 DEF LevelBits
  <2> HIDE DEF d
  <2>3. \A k \in Nat : r - 41 >= 255 * k => d >= k
    BY <2>1
  <2>4. \A k \in Nat : r - 41 >= 255 * k /\ r - 41 < 255 * k + 255 => d = k
    BY <2>1
  <2>5. LevelBits(r) \in Nat /\ LevelBits(r) >= 18
    BY <2>1, <2>2
  <2>6. ASSUME NEW k \in Nat, r - 41 >= 255 * k PROVE LevelBits(r) >= 18 + 8 * k
    BY <2>1, <2>2, <2>3, <2>6
  <2>7. ASSUME NEW k \in Nat, r - 41 >= 255 * k, r - 41 < 255 * k + 255
        PROVE  LevelBits(r) = 18 + 8 * k
    BY <2>2, <2>4, <2>7
  <2>8. QED
    BY <1>2, <2>5, <2>6, <2>7
<1>3. QED
  BY <1>1, <1>2

(* At the head of the loop there is a block for the bytes that are left ... *)
LEMMA MoreBlocks ==
    ASSUME NEW j, Decoded(j), AtBlock(j), More
    PROVE  /\ inp \in Inputs /\ j \in 0 .. Count(inp) - 1
           /\ Following(inp, j, Blocks(inp)[j + 1], BitsTo(inp, j), pwrite)
           /\ pwrite \in HeaderBytes .. Size(inp) - 1
           /\ BitsTo(inp, j) \in Nat /\ CursorAt(inp, cursor, BitsTo(inp, j))
           /\ BytesTo(inp, j) \in Nat
<1>1. inp \in Inputs /\ j \in 0 .. Count(inp) /\ pwrite = Size(inp) - 1 - BytesTo(inp, j)
  BY DEF Decoded
<1>2. HeaderBytes \in Nat /\ inp.uncompressed_size \in Nat
      /\ Size(inp) = inp.uncompressed_size + HeaderBytes /\ Count(inp) \in Nat /\ Start(inp) \in Nat
  BY <1>1, InputFacts
<1>3. BytesTo(inp, j) \in Nat /\ BitsTo(inp, j) \in Nat
      /\ BytesTo(inp, Count(inp)) = inp.uncompressed_size
  BY <1>1, <1>2, BlockSums
<1>4. pwrite >= HeaderBytes
  BY DEF More
<1>5. pwrite \in HeaderBytes .. Size(inp) - 1
  BY <1>1, <1>2, <1>3, <1>4
<1>6. j # Count(inp)
  BY <1>1, <1>2, <1>3, <1>4
<1>7. Following(inp, j, Blocks(inp)[j + 1], BitsTo(inp, j), pwrite)
  BY <1>1 DEF Following
<1>8. CursorAt(inp, cursor, BitsTo(inp, j))
  BY DEF Decoded, AtBlock, AtBit, CursorAt
<1>9. QED
  BY <1>1, <1>2, <1>3, <1>5, <1>6, <1>7, <1>8

(* ... and the flag tells which kind it is of.                              *)
LEMMA FlagFacts ==
    ASSUME NEW j, Decoded(j), AtBlock(j), More
    PROVE  /\ Takes(inp, BitsTo(inp, j), Flag, 1)
           /\ IsLiteral(Blocks(inp)[j + 1]) <=> Flag.value = 0
           /\ Flag.value = 1 => ~IsLiteral(Blocks(inp)[j + 1])
<1> DEFINE b == Blocks(inp)[j + 1]
           p == BitsTo(inp, j)
<1>1. /\ inp \in Inputs /\ j \in 0 .. Count(inp) - 1 /\ Following(inp, j, b, p, pwrite)
      /\ p \in Nat /\ CursorAt(inp, cursor, p)
  BY MoreBlocks
<1> HIDE DEF b, p
<1>2. Start(inp) \in Nat
  BY <1>1, InputFacts
<1>3. CASE IsLiteral(b)
  <2>1. p + 9 <= 8 * Start(inp) /\ Bits(inp.bytes, Start(inp), p, 1) = 0
    BY <1>1, <1>3, LiteralFacts
  <2>2. p + 1 <= 8 * Start(inp)
    BY <1>1, <1>2, <2>1
  <2>3. Takes(inp, p, read_1(inp.bytes, cursor), 1)
    BY <1>1, <2>2, ReadersTake
  <2>4. QED
    BY <1>3, <2>1, <2>3 DEF Flag, Takes, b, p
<1>4. CASE ~IsLiteral(b)
  <2>1. p + BitsOf(b) <= 8 * Start(inp) /\ Bits(inp.bytes, Start(inp), p, 1) = 1
        /\ BitsOf(b) = 14 + LevelBits(b[2] - 3) /\ b[2] \in Nat /\ b[2] >= 3
    BY <1>1, <1>4, CopyFacts
  <2>2. p + 1 <= 8 * Start(inp)
    <3>1. b[2] - 3 \in Nat
      BY <2>1
    <3>2. LevelBits(b[2] - 3) \in Nat
      BY <3>1, LevelFacts
    <3>3. QED
      BY <1>1, <1>2, <2>1, <3>2
  <2>3. Takes(inp, p, read_1(inp.bytes, cursor), 1)
    BY <1>1, <2>2, ReadersTake
  <2>4. QED
    BY <1>4, <2>1, <2>3 DEF Flag, Takes, b, p
<1>5. QED
  BY <1>3, <1>4

(* ------------------------------- the steps ------------------------------ *)

OwnBytes == \A n \in DOMAIN buf : n >= Size(inp') => buf'[n] = buf[n]

(* One byte from the stream, in its place.                                  *)
LEMMA LiteralStep ==
    ASSUME NEW j, Decoded(j), AtBlock(j), Literal
    PROVE  Decoded(j + 1)' /\ AtBlock(j + 1)' /\ OwnBytes
<1> DEFINE b == Blocks(inp)[j + 1]
           p == BitsTo(inp, j)
           r == read_8(inp.bytes, Flag.next)
           plain == Plain(inp)
<1>1. More /\ Flag.value = 0
  BY DEF Literal
<1>2. buf' = [buf EXCEPT ![pwrite] = r.value] /\ cursor' = r.next /\ pwrite' = pwrite - 1
      /\ pc' = pc /\ inp' = inp
  BY DEF Literal
<1>3. /\ inp \in Inputs /\ j \in 0 .. Count(inp) - 1 /\ Following(inp, j, b, p, pwrite)
      /\ pwrite \in HeaderBytes .. Size(inp) - 1 /\ p \in Nat /\ BytesTo(inp, j) \in Nat
  BY <1>1, MoreBlocks
<1>4. Takes(inp, p, Flag, 1) /\ IsLiteral(b)
  BY <1>1, FlagFacts
<1>5. /\ p + 9 = BitsTo(inp, j + 1) /\ p + 9 <= 8 * Start(inp)
      /\ BytesTo(inp, j + 1) = BytesTo(inp, j) + 1
      /\ Bits(inp.bytes, Start(inp), p + 1, 8) = b[1]
      /\ plain[pwrite + 1] = b[1]
  <2> HIDE DEF b, p
  <2>1. QED
    BY <1>3, <1>4, LiteralFacts
<1>6. /\ HeaderBytes \in Nat \ {0} /\ BufferBytes \in Nat /\ Size(inp) <= BufferBytes
      /\ inp.uncompressed_size \in Nat /\ Size(inp) = inp.uncompressed_size + HeaderBytes
      /\ plain \in Seq(Byte) /\ Len(plain) = Size(inp) /\ Start(inp) \in Nat /\ Count(inp) \in Nat
  BY <1>3, InputFacts
<1>7. Takes(inp, p + 1, r, 8)
  <2> HIDE DEF p
  <2>1. CursorAt(inp, Flag.next, p + 1) /\ p + 1 \in Nat /\ p + 1 + 8 <= 8 * Start(inp)
    BY <1>3, <1>4, <1>5, <1>6 DEF Takes
  <2>2. QED
    BY <1>3, <2>1, ReadersTake
<1> HIDE DEF r, b, p
<1>8. r.value = plain[pwrite + 1] /\ CursorAt(inp, r.next, BitsTo(inp, j + 1))
  <2>1. r.value = Bits(inp.bytes, Start(inp), p + 1, 8) /\ CursorAt(inp, r.next, p + 1 + 8)
    BY <1>7 DEF Takes
  <2>2. p + 1 + 8 = BitsTo(inp, j + 1)
    BY <1>3, <1>5
  <2>3. QED
    BY <1>5, <2>1, <2>2
<1>9. buf \in [0 .. BufferBytes - 1 -> Byte] /\ pwrite \in 0 .. BufferBytes - 1
  <2>1. Fits(buf, BufferBytes, Plain(inp))
    BY DEF Decoded
  <2>2. pwrite \in 0 .. BufferBytes - 1
    BY <1>3, <1>6, SMTT(30)
  <2>3. QED
    BY <2>1, <2>2 DEF Fits
<1>10. r.value \in Byte
  <2>1. pwrite + 1 \in 1 .. Len(plain)
    BY <1>3, <1>6, SMTT(30)
  <2> HIDE DEF plain
  <2>2. QED
    BY <1>6, <1>8, <2>1, SMTT(30)
<1>11. /\ buf' \in [0 .. BufferBytes - 1 -> Byte] /\ buf'[pwrite] = plain[pwrite + 1]
       /\ \A n \in 0 .. BufferBytes - 1 : n # pwrite => buf'[n] = buf[n]
  BY <1>2, <1>8, <1>9, <1>10
<1>12. Fits(buf', BufferBytes, plain)
  BY <1>6, <1>11 DEF Fits
<1>13. \A n \in 0 .. HeaderBytes - 1 : buf'[n] = plain[n + 1]
  <2>1. \A n \in 0 .. HeaderBytes - 1 : n \in 0 .. BufferBytes - 1 /\ n # pwrite
    BY <1>3, <1>6, SMTT(30)
  <2>2. \A n \in 0 .. HeaderBytes - 1 : buf[n] = plain[n + 1]
    BY DEF Decoded
  <2>3. QED
    BY <1>11, <2>1, <2>2
<1>14. FileAbove(buf', plain, pwrite')
  <2>1. ASSUME NEW n \in pwrite' + 1 .. Len(plain) - 1 PROVE buf'[n] = plain[n + 1]
    <3>1. n \in 0 .. BufferBytes - 1 /\ (n = pwrite \/ n \in pwrite + 1 .. Len(plain) - 1)
      <4> DEFINE top == pwrite
      <4> HIDE DEF plain
      <4>1. n \in top - 1 + 1 .. Len(plain) - 1 /\ top \in 0 .. Size(inp) - 1
            /\ Len(plain) = Size(inp) /\ Size(inp) <= BufferBytes /\ BufferBytes \in Nat
        BY <1>2, <1>3, <1>6
      <4> HIDE DEF top
      <4>2. n \in 0 .. BufferBytes - 1 /\ (n = top \/ n \in top + 1 .. Len(plain) - 1)
        BY <4>1
      <4>3. QED
        BY <4>2 DEF top
    <3>2. n \in pwrite + 1 .. Len(plain) - 1 => buf[n] = plain[n + 1]
      BY DEF Decoded, FileAbove
    <3>3. QED
      BY <1>3, <1>11, <3>1, <3>2
  <2>2. QED
    BY <2>1 DEF FileAbove
<1>15. pwrite' = Size(inp) - 1 - BytesTo(inp, j + 1)
  <2>1. pwrite = Size(inp) - 1 - BytesTo(inp, j)
    BY DEF Decoded
  <2>2. BytesTo(inp, j + 1) = BytesTo(inp, j) + 1 /\ Size(inp) \in Nat
    BY <1>5, <1>6
  <2>3. QED
    BY <1>2, <1>3, <2>1, <2>2
<1>16. j + 1 \in 0 .. Count(inp)
  BY <1>3, <1>6
<1>17. Decoded(j + 1)'
  BY <1>2, <1>3, <1>8, <1>12, <1>13, <1>14, <1>15, <1>16 DEF Decoded, CursorAt
<1>18. AtBlock(j + 1)'
  BY <1>2, <1>8 DEF AtBlock, AtBit, CursorAt
<1>19. OwnBytes
  <2>1. \A n \in DOMAIN buf : n >= Size(inp) => n \in 0 .. BufferBytes - 1 /\ n # pwrite
    BY <1>3, <1>6, <1>9, SMTT(30)
  <2>2. QED
    BY <1>2, <1>11, <2>1 DEF OwnBytes
<1>20. QED
  BY <1>17, <1>18, <1>19

(* A step that only reads leaves what is decoded.                           *)
LEMMA ReadingStep ==
    ASSUME NEW j, Decoded(j), inp' = inp, buf' = buf, pwrite' = pwrite,
           NEW q, CursorAt(inp, cursor', q)
    PROVE  Decoded(j)' /\ Position(Start(inp), cursor') = q /\ OwnBytes
<1>1. Decoded(j)'
  BY DEF Decoded, CursorAt
<1>2. Position(Start(inp), cursor') = q /\ OwnBytes
  BY DEF CursorAt, OwnBytes
<1>3. QED
  BY <1>1, <1>2

(* The flag, the offset and the first level of a copy.                      *)
LEMMA CopyBlockStep ==
    ASSUME NEW j, Decoded(j), AtBlock(j), CopyBlock
    PROVE  Decoded(j)' /\ InCopy(j)' /\ OwnBytes
<1> DEFINE b == Blocks(inp)[j + 1]
           p == BitsTo(inp, j)
           rest == b[2] - 3
           o == read_13(inp.bytes, Flag.next)
           l == read_2(inp.bytes, o.next)
<1>1. More /\ Flag.value = 1
  BY DEF CopyBlock
<1>2. /\ inp' = inp /\ buf' = buf /\ pwrite' = pwrite
      /\ offset' = o.value + 3 /\ length' = 3 + l.value /\ cursor' = l.next
      /\ pc' = IF l.value = 3 THEN "level3" ELSE "copy"
  BY DEF CopyBlock, MIN_COPY_LENGTH
<1>3. /\ inp \in Inputs /\ j \in 0 .. Count(inp) - 1 /\ Following(inp, j, b, p, pwrite)
      /\ p \in Nat
  BY <1>1, MoreBlocks
<1>4. Takes(inp, p, Flag, 1) /\ ~IsLiteral(b)
  BY <1>1, FlagFacts
<1> HIDE DEF b, p
<1>5. p + BitsOf(b) = BitsTo(inp, j + 1) /\ p + BitsOf(b) <= 8 * Start(inp)
  BY <1>3, <1>4, CopyFacts
<1>5a. BitsOf(b) = 14 + LevelBits(rest)
  BY <1>3, <1>4, CopyFacts
<1>5b. b[1] \in Nat /\ b[1] >= 3 /\ b[2] \in Nat /\ b[2] >= 3
  <2> HIDE DEF rest, o, l
  <2>1. QED
    BY <1>3, <1>4, CopyFacts
<1>5c. Bits(inp.bytes, Start(inp), p + 1, 13) = b[1] - 3
  BY <1>3, <1>4, CopyFacts
<1>5d. LengthAt(inp.bytes, Start(inp), p + 14, rest)
  BY <1>3, <1>4, CopyFacts
<1>6. Start(inp) \in Nat /\ Count(inp) \in Nat
  BY <1>3, InputFacts
<1>7. /\ rest \in Nat /\ LevelBits(rest) >= 2 /\ LevelBits(rest) \in Nat
      /\ rest < 3 => LevelBits(rest) = 2
  <2>1. rest \in Nat
    BY <1>5b
  <2> HIDE DEF rest
  <2>2. QED
    BY <2>1, LevelFacts
<1> HIDE DEF o, l
<1>8. o.value = b[1] - 3 /\ CursorAt(inp, o.next, p + 14)
  <2>1. CursorAt(inp, Flag.next, p + 1) /\ p + 1 \in Nat /\ p + 1 + 13 <= 8 * Start(inp)
    BY <1>3, <1>4, <1>5, <1>5a, <1>6, <1>7 DEF Takes
  <2>2. Takes(inp, p + 1, o, 13)
    BY <1>3, <2>1, ReadersTake DEF o
  <2>3. p + 1 + 13 = p + 14
    BY <1>3
  <2>4. QED
    BY <1>5c, <2>2, <2>3 DEF Takes
<1>9. l.value = MinOf(rest, 3) /\ CursorAt(inp, l.next, p + 16)
  <2>1. p + 14 \in Nat /\ p + 14 + 2 <= 8 * Start(inp)
    BY <1>3, <1>5, <1>5a, <1>6, <1>7
  <2>2. Takes(inp, p + 14, l, 2)
    BY <1>3, <1>8, <2>1, ReadersTake DEF l
  <2>3. p + 14 + 2 = p + 16
    BY <1>3
  <2>4. QED
    BY <1>5d, <2>2, <2>3 DEF Takes, LengthAt
<1>10. Decoded(j)' /\ Position(Start(inp), cursor') = p + 16 /\ OwnBytes
  <2>1. inp' = inp /\ buf' = buf /\ pwrite' = pwrite
    BY <1>2
  <2>2. CursorAt(inp, cursor', p + 16)
    BY <1>2, <1>9
  <2>3. QED
    BY <2>1, <2>2, ReadingStep
<1>11. offset' = b[1] /\ j < Count(inp)
  <2>1. b[1] \in Int
    BY <1>5b
  <2>2. offset' = (b[1] - 3) + 3
    BY <1>2, <1>8
  <2>3. offset' = b[1]
    BY <2>1, <2>2
  <2>4. QED
    BY <1>3, <1>6, <2>3
<1>12. CASE rest >= 3
  <2>1. l.value = 3
    <3> HIDE DEF rest
    <3>1. MinOf(rest, 3) = 3
      BY <1>7, <1>12 DEF MinOf
    <3>2. QED
      BY <1>9, <3>1
  <2>2. pc' = "level3" /\ length' = 6 /\ 6 <= b[2]
    BY <1>2, <1>5b, <1>12, <2>1
  <2>3. InCopy(j)'
    BY <1>2, <1>4, <1>10, <1>11, <2>2 DEF InCopy, LevelAt, AtBit, b, p
  <2>4. QED
    BY <1>10, <2>3
<1>13. CASE rest < 3
  <2>1. l.value = rest
    BY <1>7, <1>9, <1>13 DEF MinOf
  <2>2. pc' = "copy" /\ length' = b[2]
    BY <1>2, <1>5b, <1>7, <1>13, <2>1
  <2>3. p + 16 = BitsTo(inp, j + 1)
    BY <1>3, <1>5, <1>5a, <1>7, <1>13
  <2>4. InCopy(j)'
    BY <1>2, <1>4, <1>10, <1>11, <2>2, <2>3 DEF InCopy, LevelAt, AtBit, b, p
  <2>5. QED
    BY <1>10, <2>4
<1>14. QED
  BY <1>7, <1>12, <1>13

(* What is known of the block a copy is being read from.                    *)
LEMMA InCopyFacts ==
    ASSUME NEW j, Decoded(j), InCopy(j)
    PROVE  /\ inp \in Inputs /\ j \in 0 .. Count(inp) - 1
           /\ Following(inp, j, Blocks(inp)[j + 1], BitsTo(inp, j), pwrite)
           /\ ~IsLiteral(Blocks(inp)[j + 1]) /\ offset = Blocks(inp)[j + 1][1]
           /\ Start(inp) \in Nat /\ Count(inp) \in Nat
<1>1. inp \in Inputs /\ j \in 0 .. Count(inp) /\ pwrite = Size(inp) - 1 - BytesTo(inp, j)
  BY DEF Decoded
<1>2. j < Count(inp) /\ ~IsLiteral(Blocks(inp)[j + 1]) /\ offset = Blocks(inp)[j + 1][1]
  BY DEF InCopy
<1>3. Start(inp) \in Nat /\ Count(inp) \in Nat
  BY <1>1, InputFacts
<1>4. Following(inp, j, Blocks(inp)[j + 1], BitsTo(inp, j), pwrite)
  BY <1>1 DEF Following
<1>5. j \in 0 .. Count(inp) - 1
  BY <1>1, <1>2, <1>3
<1>6. QED
  BY <1>1, <1>2, <1>3, <1>4, <1>5

(* One more level: all its bits set and the length goes on, or it is done.  *)
LEMMA LevelStep ==
    ASSUME NEW j, Decoded(j), NEW level, NEW full \in Nat, NEW next,
           AddLevel(level, full, next), NEW size \in Nat, length \in Nat, length <= size,
           level.value = MinOf(size - length, full), NEW q, CursorAt(inp, level.next, q)
    PROVE  /\ Decoded(j)' /\ OwnBytes /\ Position(Start(inp), cursor') = q /\ inp' = inp /\ offset' = offset
           /\ \/ pc' = next /\ length' = length + full /\ length + full <= size
              \/ pc' = "copy" /\ length' = size /\ size < length + full
<1>1. /\ inp' = inp /\ offset' = offset /\ buf' = buf /\ pwrite' = pwrite
      /\ cursor' = level.next /\ length' = length + level.value
      /\ pc' = IF level.value = full THEN next ELSE "copy"
  BY DEF AddLevel
<1>2. Decoded(j)' /\ Position(Start(inp), cursor') = q /\ OwnBytes
  BY <1>1, ReadingStep
<1>3. CASE size - length >= full
  <2>1. level.value = full /\ length + full <= size
    BY <1>3 DEF MinOf
  <2>2. QED
    BY <1>1, <1>2, <2>1
<1>4. CASE size - length < full
  <2>1. MinOf(size - length, full) = size - length
    BY <1>4 DEF MinOf
  <2>2. level.value = size - length
    BY <2>1
  <2>3. level.value # full /\ length' = size /\ size < length + full
    BY <1>1, <1>4, <2>2
  <2>4. QED
    BY <1>1, <1>2, <2>3
<1>5. QED
  BY <1>3, <1>4

(* The second level of a length, of three bits.                             *)
LEMMA Level3Step ==
    ASSUME NEW j, Decoded(j), InCopy(j), Level3
    PROVE  Decoded(j)' /\ InCopy(j)' /\ OwnBytes
<1> DEFINE b == Blocks(inp)[j + 1]
           p == BitsTo(inp, j)
           rest == b[2] - 3
           level == read_max_8(inp.bytes, cursor, 3)
<1>1. pc = "level3" /\ AddLevel(level, 7, "level5")
  BY DEF Level3
<1>2. /\ inp \in Inputs /\ j \in 0 .. Count(inp) - 1 /\ Following(inp, j, b, p, pwrite)
      /\ ~IsLiteral(b) /\ offset = b[1] /\ Start(inp) \in Nat /\ Count(inp) \in Nat
  BY InCopyFacts
<1>3. LevelAt(b, p, 6, 16)
  BY <1>1 DEF InCopy
<1> HIDE DEF b, p, level
<1>4. p \in Nat /\ p + BitsOf(b) = BitsTo(inp, j + 1) /\ p + BitsOf(b) <= 8 * Start(inp)
  BY <1>2, CopyFacts
<1>5. BitsOf(b) = 14 + LevelBits(rest) /\ b[2] \in Nat
  BY <1>2, CopyFacts
<1>6. LengthAt(inp.bytes, Start(inp), p + 14, rest)
  BY <1>2, CopyFacts
<1>7. length = 6 /\ 6 <= b[2] /\ CursorAt(inp, cursor, p + 16)
  BY <1>3 DEF LevelAt, Decoded, AtBit, CursorAt
<1>8. rest \in Nat /\ rest >= 3
  BY <1>5, <1>7
<1>9. LevelBits(rest) \in Nat /\ LevelBits(rest) >= 5
      /\ (rest < 10 => LevelBits(rest) = 5)
  <2> HIDE DEF rest
  <2>1. QED
    BY <1>8, LevelFacts
<1>10. Takes(inp, p + 16, level, 3)
  <2>1. p + 16 \in Nat /\ p + 16 + 3 <= 8 * Start(inp)
    BY <1>2, <1>4, <1>5, <1>9
  <2>2. QED
    BY <1>2, <1>7, <2>1, ReadersTake DEF level
<1>11. level.value = MinOf(b[2] - 6, 7) /\ CursorAt(inp, level.next, p + 19)
  <2>1. Bits(inp.bytes, Start(inp), p + 14 + 2, 3) = MinOf(rest - 3, 7)
    <3> HIDE DEF rest
    <3>1. QED
      BY <1>6, <1>8 DEF LengthAt
  <2>2. p + 14 + 2 = p + 16 /\ p + 16 + 3 = p + 19 /\ rest - 3 = b[2] - 6
    BY <1>4, <1>5
  <2>3. QED
    BY <1>10, <2>1, <2>2 DEF Takes
<1>12. /\ Decoded(j)' /\ OwnBytes /\ Position(Start(inp), cursor') = p + 19
       /\ inp' = inp /\ offset' = offset
       /\ \/ pc' = "level5" /\ length' = 6 + 7 /\ 6 + 7 <= b[2]
          \/ pc' = "copy" /\ length' = b[2] /\ b[2] < 6 + 7
  <2>1. b[2] \in Nat /\ length \in Nat /\ length <= b[2] /\ 7 \in Nat
        /\ level.value = MinOf(b[2] - length, 7)
    BY <1>5, <1>7, <1>11
  <2>2. /\ Decoded(j)' /\ OwnBytes /\ Position(Start(inp), cursor') = p + 19
        /\ inp' = inp /\ offset' = offset
        /\ \/ pc' = "level5" /\ length' = length + 7 /\ length + 7 <= b[2]
           \/ pc' = "copy" /\ length' = b[2] /\ b[2] < length + 7
    BY <1>1, <1>11, <2>1, LevelStep, ZenonT(30)
  <2>3. QED
    BY <1>7, <2>2
<1>13. j < Count(inp)
  BY <1>2
<1>14. CASE pc' = "level5" /\ length' = 6 + 7 /\ 6 + 7 <= b[2]
  <2>1. length' = 13 /\ 13 <= b[2]
    BY <1>14
  <2>2. InCopy(j)'
    BY <1>2, <1>12, <1>13, <1>14, <2>1 DEF InCopy, LevelAt, AtBit, b, p
  <2>3. QED
    BY <1>12, <2>2
<1>15. CASE pc' = "copy" /\ length' = b[2] /\ b[2] < 6 + 7
  <2>1. rest < 10
    BY <1>5, <1>15
  <2>2. p + 19 = BitsTo(inp, j + 1)
    BY <1>4, <1>5, <1>9, <2>1
  <2>3. InCopy(j)'
    BY <1>2, <1>12, <1>13, <1>15, <2>2 DEF InCopy, AtBit, b, p
  <2>4. QED
    BY <1>12, <2>3
<1>16. QED
  BY <1>12, <1>14, <1>15

(* The third level of a length, of five bits.                               *)
LEMMA Level5Step ==
    ASSUME NEW j, Decoded(j), InCopy(j), Level5
    PROVE  Decoded(j)' /\ InCopy(j)' /\ OwnBytes
<1> DEFINE b == Blocks(inp)[j + 1]
           p == BitsTo(inp, j)
           rest == b[2] - 3
           level == read_max_8(inp.bytes, cursor, 5)
<1>1. pc = "level5" /\ AddLevel(level, 31, "level8")
  BY DEF Level5
<1>2. /\ inp \in Inputs /\ j \in 0 .. Count(inp) - 1 /\ Following(inp, j, b, p, pwrite)
      /\ ~IsLiteral(b) /\ offset = b[1] /\ Start(inp) \in Nat /\ Count(inp) \in Nat
  BY InCopyFacts
<1>3. LevelAt(b, p, 13, 19)
  BY <1>1 DEF InCopy
<1> HIDE DEF b, p, level
<1>4. p \in Nat /\ p + BitsOf(b) = BitsTo(inp, j + 1) /\ p + BitsOf(b) <= 8 * Start(inp)
  BY <1>2, CopyFacts
<1>5. BitsOf(b) = 14 + LevelBits(rest) /\ b[2] \in Nat
  BY <1>2, CopyFacts
<1>6. LengthAt(inp.bytes, Start(inp), p + 14, rest)
  BY <1>2, CopyFacts
<1>7. length = 13 /\ 13 <= b[2] /\ CursorAt(inp, cursor, p + 19)
  BY <1>3 DEF LevelAt, Decoded, AtBit, CursorAt
<1>8. rest \in Nat /\ rest >= 10
  BY <1>5, <1>7
<1>9. LevelBits(rest) \in Nat /\ LevelBits(rest) >= 10
      /\ (rest < 41 => LevelBits(rest) = 10)
  <2> HIDE DEF rest
  <2>1. QED
    BY <1>8, LevelFacts
<1>10. Takes(inp, p + 19, level, 5)
  <2>1. p + 19 \in Nat /\ p + 19 + 5 <= 8 * Start(inp)
    BY <1>2, <1>4, <1>5, <1>9
  <2>2. QED
    BY <1>2, <1>7, <2>1, ReadersTake DEF level
<1>11. level.value = MinOf(b[2] - 13, 31) /\ CursorAt(inp, level.next, p + 24)
  <2>1. Bits(inp.bytes, Start(inp), p + 14 + 5, 5) = MinOf(rest - 10, 31)
    <3> HIDE DEF rest
    <3>1. QED
      BY <1>6, <1>8 DEF LengthAt
  <2>2. p + 14 + 5 = p + 19 /\ p + 19 + 5 = p + 24 /\ rest - 10 = b[2] - 13
    BY <1>4, <1>5
  <2>3. QED
    BY <1>10, <2>1, <2>2 DEF Takes
<1>12. /\ Decoded(j)' /\ OwnBytes /\ Position(Start(inp), cursor') = p + 24
       /\ inp' = inp /\ offset' = offset
       /\ \/ pc' = "level8" /\ length' = 13 + 31 /\ 13 + 31 <= b[2]
          \/ pc' = "copy" /\ length' = b[2] /\ b[2] < 13 + 31
  <2>1. b[2] \in Nat /\ length \in Nat /\ length <= b[2] /\ 31 \in Nat
        /\ level.value = MinOf(b[2] - length, 31)
    BY <1>5, <1>7, <1>11
  <2>2. /\ Decoded(j)' /\ OwnBytes /\ Position(Start(inp), cursor') = p + 24
        /\ inp' = inp /\ offset' = offset
        /\ \/ pc' = "level8" /\ length' = length + 31 /\ length + 31 <= b[2]
           \/ pc' = "copy" /\ length' = b[2] /\ b[2] < length + 31
    BY <1>1, <1>11, <2>1, LevelStep, ZenonT(30)
  <2>3. QED
    BY <1>7, <2>2
<1>13. j < Count(inp)
  BY <1>2
<1>14. CASE pc' = "level8" /\ length' = 13 + 31 /\ 13 + 31 <= b[2]
  <2>1. length' = 44 /\ 44 <= b[2] /\ 44 + 255 * 0 = 44 /\ 24 + 8 * 0 = 24
        /\ 0 \in 0 .. length'
    BY <1>14
  <2>2. LevelAt(b, p, 44 + 255 * 0, 24 + 8 * 0)'
    BY <1>12, <2>1 DEF LevelAt, AtBit, b, p
  <2>3. InCopy(j)'
    BY <1>2, <1>12, <1>13, <1>14, <2>1, <2>2 DEF InCopy, b, p
  <2>4. QED
    BY <1>12, <2>3
<1>15. CASE pc' = "copy" /\ length' = b[2] /\ b[2] < 13 + 31
  <2>1. rest < 41
    BY <1>5, <1>15
  <2>2. p + 24 = BitsTo(inp, j + 1)
    BY <1>4, <1>5, <1>9, <2>1
  <2>3. InCopy(j)'
    BY <1>2, <1>12, <1>13, <1>15, <2>2 DEF InCopy, AtBit, b, p
  <2>4. QED
    BY <1>12, <2>3
<1>16. QED
  BY <1>12, <1>14, <1>15

(* The further levels of a length, of eight bits each.                      *)
LEMMA Level8Step ==
    ASSUME NEW j, Decoded(j), InCopy(j), Level8
    PROVE  Decoded(j)' /\ InCopy(j)' /\ OwnBytes
<1> DEFINE b == Blocks(inp)[j + 1]
           p == BitsTo(inp, j)
           rest == b[2] - 3
           level == read_8(inp.bytes, cursor)
<1>1. pc = "level8" /\ AddLevel(level, 255, "level8")
  BY DEF Level8
<1>2. /\ inp \in Inputs /\ j \in 0 .. Count(inp) - 1 /\ Following(inp, j, b, p, pwrite)
      /\ ~IsLiteral(b) /\ offset = b[1] /\ Start(inp) \in Nat /\ Count(inp) \in Nat
  BY InCopyFacts
<1>3. \E k \in 0 .. length : LevelAt(b, p, 44 + 255 * k, 24 + 8 * k)
  BY <1>1 DEF InCopy
<1> HIDE DEF b, p, level
<1>4. p \in Nat /\ p + BitsOf(b) = BitsTo(inp, j + 1) /\ p + BitsOf(b) <= 8 * Start(inp)
  BY <1>2, CopyFacts
<1>5. BitsOf(b) = 14 + LevelBits(rest) /\ b[2] \in Nat
  BY <1>2, CopyFacts
<1>6. LengthAt(inp.bytes, Start(inp), p + 14, rest)
  BY <1>2, CopyFacts
<1>7. PICK k \in 0 .. length : LevelAt(b, p, 44 + 255 * k, 24 + 8 * k)
  BY <1>3
<1> DEFINE l == 44 + 255 * k
           n == 24 + 8 * k
<1>8. length = l /\ l <= b[2] /\ CursorAt(inp, cursor, p + n)
  BY <1>7 DEF LevelAt, Decoded, AtBit, CursorAt
<1>9. k \in Nat /\ l \in Nat /\ n \in Nat
  <2>1. k \in Nat
    BY <1>7
  <2>2. QED
    BY <2>1
<1>10. /\ rest \in Nat /\ rest - 41 >= 255 * k /\ k \in 0 .. rest
       /\ rest - 41 - 255 * k = b[2] - l
  BY <1>5, <1>8, <1>9
<1>11. LevelBits(rest) \in Nat /\ LevelBits(rest) >= 18 + 8 * k
       /\ (rest - 41 < 255 * k + 255 => LevelBits(rest) = 18 + 8 * k)
  <2> HIDE DEF rest
  <2>1. QED
    BY <1>9, <1>10, LevelFacts
<1>12. Takes(inp, p + n, level, 8)
  <2>1. p + n \in Nat /\ p + n + 8 <= 8 * Start(inp)
    BY <1>2, <1>4, <1>5, <1>9, <1>11
  <2> HIDE DEF n
  <2>2. QED
    BY <1>2, <1>8, <2>1, ReadersTake DEF level
<1>13. level.value = MinOf(b[2] - l, 255) /\ CursorAt(inp, level.next, p + n + 8)
  <2>1. Bits(inp.bytes, Start(inp), p + 14 + 10 + 8 * k, 8) = MinOf(rest - 41 - 255 * k, 255)
    <3> HIDE DEF rest
    <3>1. QED
      BY <1>6, <1>10 DEF LengthAt
  <2>2. p + 14 + 10 + 8 * k = p + n
    BY <1>4, <1>9
  <2> HIDE DEF n, l, rest
  <2>3. QED
    BY <1>10, <1>12, <2>1, <2>2 DEF Takes
<1> HIDE DEF l, n
<1>14. /\ Decoded(j)' /\ OwnBytes /\ Position(Start(inp), cursor') = p + n + 8
       /\ inp' = inp /\ offset' = offset
       /\ \/ pc' = "level8" /\ length' = l + 255 /\ l + 255 <= b[2]
          \/ pc' = "copy" /\ length' = b[2] /\ b[2] < l + 255
  <2>1. b[2] \in Nat /\ length \in Nat /\ length <= b[2] /\ 255 \in Nat
        /\ level.value = MinOf(b[2] - length, 255)
    BY <1>5, <1>8, <1>9, <1>13
  <2> DEFINE q == p + n + 8
             size == b[2]
             full == 255
  <2>2. CursorAt(inp, level.next, q) /\ size \in Nat /\ length \in Nat /\ length <= size
        /\ full \in Nat
        /\ level.value = MinOf(size - length, full) /\ AddLevel(level, full, "level8")
    BY <1>1, <1>13, <2>1
  <2> HIDE DEF q, size, full, rest
  <2>3. /\ Decoded(j)' /\ OwnBytes /\ Position(Start(inp), cursor') = q
        /\ inp' = inp /\ offset' = offset
        /\ \/ pc' = "level8" /\ length' = length + full /\ length + full <= size
           \/ pc' = "copy" /\ length' = size /\ size < length + full
    BY <2>2, LevelStep
  <2>4. QED
    BY <1>8, <2>3 DEF q, size, full
<1>15. j < Count(inp)
  BY <1>2
<1>16. CASE pc' = "level8" /\ length' = l + 255 /\ l + 255 <= b[2]
  <2>1. l + 255 = 44 + 255 * (k + 1) /\ p + n + 8 = p + (24 + 8 * (k + 1))
        /\ k + 1 \in 0 .. l + 255
    BY <1>4, <1>9 DEF l, n
  <2>2. LevelAt(b, p, 44 + 255 * (k + 1), 24 + 8 * (k + 1))'
    BY <1>14, <1>16, <2>1 DEF LevelAt, AtBit, b, p
  <2>3. InCopy(j)'
    BY <1>2, <1>14, <1>15, <1>16, <2>1, <2>2 DEF InCopy, b, p
  <2>4. QED
    BY <1>14, <2>3
<1>17. CASE pc' = "copy" /\ length' = b[2] /\ b[2] < l + 255
  <2>1. rest - 41 < 255 * k + 255
    BY <1>5, <1>9, <1>17 DEF l
  <2>2. p + n + 8 = BitsTo(inp, j + 1)
    BY <1>4, <1>5, <1>9, <1>11, <2>1 DEF n
  <2>3. InCopy(j)'
    BY <1>2, <1>14, <1>15, <1>17, <2>2 DEF InCopy, AtBit, b, p
  <2>4. QED
    BY <1>14, <2>3
<1>18. QED
  BY <1>14, <1>16, <1>17

(* The bytes of a copy, in the parts of a short or of a long one.           *)
LEMMA CopyStep ==
    ASSUME NEW j, Decoded(j), InCopy(j), pc = "copy", CopyShort \/ CopyLong
    PROVE  Decoded(j + 1)' /\ AtBlock(j + 1)' /\ OwnBytes
<1> DEFINE b == Blocks(inp)[j + 1]
           p == BitsTo(inp, j)
           plain == Plain(inp)
           low == pwrite - length
<1>1. /\ inp \in Inputs /\ j \in 0 .. Count(inp) - 1 /\ Following(inp, j, b, p, pwrite)
      /\ ~IsLiteral(b) /\ offset = b[1] /\ Start(inp) \in Nat /\ Count(inp) \in Nat
  BY InCopyFacts
<1>2. length = b[2] /\ Position(Start(inp), cursor) = BitsTo(inp, j + 1)
  BY DEF InCopy, AtBit
<1> HIDE DEF b, p
<1>3. /\ BytesTo(inp, j + 1) = BytesTo(inp, j) + b[2]
      /\ BytesTo(inp, j) + b[2] <= inp.uncompressed_size
      /\ b[2] \in Nat /\ b[2] >= 3
  BY <1>1, CopyFacts
<1>4. b[1] \in Nat /\ b[1] >= 3 /\ pwrite + b[1] < Size(inp)
  BY <1>1, CopyFacts
<1>5. Repeats(plain, pwrite, b[1], b[2])
  BY <1>1, CopyFacts
<1>6. /\ HeaderBytes \in Nat \ {0} /\ BufferBytes \in Nat /\ Size(inp) <= BufferBytes
      /\ inp.uncompressed_size \in Nat /\ Size(inp) = inp.uncompressed_size + HeaderBytes
      /\ Len(plain) = Size(inp)
  BY <1>1, InputFacts
<1>7. /\ Fits(buf, BufferBytes, plain) /\ FileAbove(buf, plain, pwrite)
      /\ pwrite = Size(inp) - 1 - BytesTo(inp, j)
      /\ \A n \in 0 .. HeaderBytes - 1 : buf[n] = plain[n + 1]
      /\ cursor.cdata \in Int /\ cursor.bits_left \in 0 .. 7
  BY DEF Decoded
<1>8. BytesTo(inp, j) \in Nat
  <2>1. j \in 0 .. Count(inp)
    BY <1>1
  <2>2. QED
    BY <1>1, <2>1, BlockSums
<1>9. /\ pwrite \in Int /\ pwrite < Size(inp) /\ length \in Nat /\ length >= 3
      /\ low >= HeaderBytes - 1 /\ low = Size(inp) - 1 - BytesTo(inp, j + 1)
      /\ offset \in Nat \ {0} /\ pwrite - length >= -1 /\ pwrite + offset < Len(plain)
  <2>1. pwrite \in Int /\ pwrite < Size(inp)
    BY <1>6, <1>7, <1>8, SMTT(30)
  <2>2. length \in Nat /\ length >= 3
    BY <1>2, <1>3
  <2> DEFINE size == Size(inp)
             done == BytesTo(inp, j)
             next == BytesTo(inp, j + 1)
             us == inp.uncompressed_size
             n == b[2]
  <2>a. pwrite = size - 1 - done /\ next = done + n /\ done + n <= us /\ length = n
    BY <1>2, <1>3, <1>7
  <2>b. size = us + HeaderBytes /\ us \in Nat /\ HeaderBytes \in Nat /\ done \in Nat /\ n \in Nat
    BY <1>3, <1>6, <1>8
  <2>3. low = Size(inp) - 1 - BytesTo(inp, j + 1) /\ low >= HeaderBytes - 1
    <3> HIDE DEF size, done, next, us, n
    <3>1. low = size - 1 - next /\ low >= HeaderBytes - 1
      BY <2>a, <2>b
    <3>2. QED
      BY <3>1 DEF size, next
  <2>4. offset \in Nat \ {0}
    BY <1>1, <1>4
  <2>5. pwrite + offset < Len(plain)
    BY <1>1, <1>4, <1>6
  <2>6. pwrite - length >= -1
    <3> HIDE DEF size, done, next, us, n
    <3>1. QED
      BY <2>a, <2>b
  <2>7. QED
    BY <2>1, <2>2, <2>3, <2>4, <2>5, <2>6
<1>10. Repeats(plain, pwrite, offset, length)
  BY <1>1, <1>2, <1>5
<1>11. PICK k \in Nat : /\ k <= length
                        /\ buf' = Copied(Copied(buf, pwrite, offset, k), pwrite - k, offset,
                                         length - k)
                        /\ pwrite' = low
  <2>1. CASE CopyShort
    <3>1. /\ buf' = Copied(Copied(buf, pwrite, offset, 3), pwrite - 3, offset, length - 3)
          /\ pwrite' = low
      BY <2>1 DEF CopyShort, DEFAULT_PIPELINE_LENGTH
    <3>2. QED
      BY <1>9, <3>1
  <2>2. CASE CopyLong
    <3>1. /\ buf' = Copied(Copied(buf, pwrite, offset, 8), pwrite - 8, offset, length - 8)
          /\ pwrite' = pwrite - 8 - (length - 8) /\ length >= 8
      BY <2>2 DEF CopyLong, EXTRA_PIPELINE_LENGTH
    <3>2. pwrite' = low
      BY <1>9, <3>1
    <3>3. QED
      BY <3>1, <3>2
  <2>3. QED
    BY <2>1, <2>2
<1>12. /\ pc' = "flag" /\ inp' = inp /\ cursor' = cursor
  BY DEF CopyShort, CopyLong
<1> DEFINE c == Copied(Copied(buf, pwrite, offset, k), pwrite - k, offset, length - k)
<1>13. /\ Fits(c, BufferBytes, plain) /\ FileAbove(c, plain, low)
       /\ \A n \in 0 .. BufferBytes - 1 : n <= low \/ n > pwrite => c[n] = buf[n]
  <2>1. /\ BufferBytes \in Nat /\ Fits(buf, BufferBytes, plain) /\ FileAbove(buf, plain, pwrite)
        /\ Repeats(plain, pwrite, offset, length)
    BY <1>6, <1>7, <1>10
  <2>2. /\ pwrite \in Int /\ offset \in Nat \ {0} /\ length \in Nat /\ k \in Nat /\ k <= length
        /\ pwrite - length >= -1 /\ pwrite + offset < Len(plain)
    BY <1>9, <1>11
  <2>3. InParts(c, buf, pwrite, offset, k, length)
    BY DEF InParts
  <2>4. low \in Int /\ low >= -1 /\ IsSum(pwrite, low, length)
    BY <2>2 DEF IsSum
  <2> HIDE DEF plain, c, low
  <2>5. QED
    BY <2>1, <2>2, <2>3, <2>4, CopiedTwice
<1>14. buf' = c
  BY <1>11
<1> HIDE DEF c, low, plain
<1>15. \A n \in 0 .. HeaderBytes - 1 : c[n] = plain[n + 1]
  <2>1. \A n \in 0 .. HeaderBytes - 1 : n \in 0 .. BufferBytes - 1 /\ n <= low
    BY <1>6, <1>9 DEF low
  <2>2. QED
    BY <1>7, <1>13, <2>1
<1>16. j + 1 \in 0 .. Count(inp)
  BY <1>1
<1>17. Decoded(j + 1)'
  BY <1>1, <1>7, <1>9, <1>11, <1>12, <1>13, <1>14, <1>15, <1>16 DEF Decoded, plain
<1>18. AtBlock(j + 1)'
  BY <1>2, <1>12 DEF AtBlock, AtBit
<1>19. OwnBytes
  <2>1. DOMAIN buf = 0 .. BufferBytes - 1
    BY <1>7 DEF Fits
  <2>2. \A n \in 0 .. BufferBytes - 1 : n >= Size(inp) => n > pwrite
    BY <1>6, <1>9, SMTT(30)
  <2>3. QED
    BY <1>12, <1>13, <1>14, <2>1, <2>2 DEF OwnBytes
<1>20. QED
  BY <1>17, <1>18, <1>19

(* At the end of a call every byte of the file is in its place.             *)
LEMMA ReturnStep ==
    ASSUME NEW j, Decoded(j), Return
    PROVE  Idle' /\ OwnBytes
<1> DEFINE plain == Plain(inp)
<1>1. /\ pwrite < HeaderBytes /\ pc' = "idle" /\ inp' = inp /\ buf' = buf
      /\ result' = [n \in 1 .. Size(inp) |-> buf[n - 1]]
  BY DEF Return
<1>2. /\ inp \in Inputs /\ Fits(buf, BufferBytes, plain) /\ FileAbove(buf, plain, pwrite)
      /\ \A n \in 0 .. HeaderBytes - 1 : buf[n] = plain[n + 1]
      /\ pwrite = Size(inp) - 1 - BytesTo(inp, j) /\ j \in 0 .. Count(inp)
  BY DEF Decoded
<1>3. /\ HeaderBytes \in Nat /\ inp.uncompressed_size \in Nat
      /\ Size(inp) = inp.uncompressed_size + HeaderBytes
      /\ plain \in Seq(Byte) /\ Len(plain) = Size(inp)
  BY <1>2, InputFacts
<1>4. BytesTo(inp, j) \in Nat
  BY <1>2, BlockSums
<1> HIDE DEF plain
<1>5. ASSUME NEW n \in 1 .. Size(inp) PROVE buf[n - 1] = plain[n]
  <2> DEFINE m == n - 1
  <2>1. m + 1 = n /\ m \in 0 .. Size(inp) - 1
    BY <1>3
  <2> DEFINE size == Size(inp)
             done == BytesTo(inp, j)
             len == Len(plain)
             us == inp.uncompressed_size
  <2>a. pwrite = size - 1 - done /\ size = us + HeaderBytes /\ len = size /\ pwrite < HeaderBytes
    BY <1>1, <1>2, <1>3
  <2>b. us \in Nat /\ HeaderBytes \in Nat /\ done \in Nat /\ m \in 0 .. size - 1
    BY <1>3, <1>4, <2>1
  <2>2. m \in 0 .. HeaderBytes - 1 \/ m \in pwrite + 1 .. Len(plain) - 1
    <3> HIDE DEF size, done, len, us, m
    <3>1. m \in 0 .. HeaderBytes - 1 \/ m \in pwrite + 1 .. len - 1
      BY <2>a, <2>b
    <3>2. QED
      BY <3>1 DEF len
  <2> HIDE DEF m
  <2>3. buf[m] = plain[m + 1]
    BY <1>2, <2>2 DEF FileAbove
  <2>4. QED
    BY <2>1, <2>3 DEF m
<1>6. result' = plain
  <2>1. plain = [n \in 1 .. Size(inp) |-> plain[n]]
    BY <1>3
  <2>2. [n \in 1 .. Size(inp) |-> buf[n - 1]] = [n \in 1 .. Size(inp) |-> plain[n]]
    BY <1>5
  <2>3. QED
    BY <1>1, <2>1, <2>2
<1>7. buf \in [0 .. BufferBytes - 1 -> Byte]
  BY <1>2 DEF Fits
<1>8. QED
  BY <1>1, <1>2, <1>6, <1>7 DEF Idle, OwnBytes, plain

(* A new call has decoded nothing, and has the raw bytes in front.          *)
LEMMA DecompressStep ==
    ASSUME NEW i \in Inputs, LaylaInv, Decompress(i)
    PROVE  Decoded(0)' /\ AtBlock(0)' /\ OwnBytes
<1>1. /\ pc = "idle" /\ inp' = i /\ pwrite' = HeaderBytes + i.uncompressed_size - 1
      /\ cursor' = Cursor(Start(i), 0) /\ pc' = "flag"
      /\ buf' = [n \in DOMAIN buf |->
                    IF n < HeaderBytes THEN At(i.bytes, Start(i) + n) ELSE buf[n]]
  BY DEF Decompress, Start
<1>2. buf \in [0 .. BufferBytes - 1 -> Byte]
  BY <1>1 DEF LaylaInv, Idle, AtBlock, InCopy
<1>3. /\ HeaderBytes \in Nat \ {0} /\ BufferBytes \in Nat /\ Size(i) <= BufferBytes
      /\ i.uncompressed_size \in Nat /\ Size(i) = i.uncompressed_size + HeaderBytes
      /\ Len(Plain(i)) = Size(i) /\ Plain(i) \in Seq(Byte)
      /\ Start(i) \in Nat /\ Count(i) \in Nat
  BY InputFacts
<1>4. \A n \in 0 .. HeaderBytes - 1 : At(i.bytes, Start(i) + n) = Plain(i)[n + 1]
  BY InputFacts
<1>5. BytesTo(i, 0) = 0 /\ BitsTo(i, 0) = 0
  BY BlockSums
<1>6. \A n \in 0 .. HeaderBytes - 1 : n \in 0 .. BufferBytes - 1 /\ n + 1 \in 1 .. Len(Plain(i))
  BY <1>3, SMTT(30)
<1>7. \A n \in 0 .. HeaderBytes - 1 : buf'[n] = Plain(i)[n + 1]
  BY <1>1, <1>2, <1>3, <1>4, <1>6, SMTT(30)
<1>8. \A n \in 0 .. BufferBytes - 1 : n >= HeaderBytes => buf'[n] = buf[n]
  BY <1>1, <1>2, <1>3
<1>9. buf' \in [0 .. BufferBytes - 1 -> Byte]
  <2>1. \A n \in 0 .. HeaderBytes - 1 : buf'[n] \in Byte
    BY <1>3, <1>6, <1>7, SMTT(30)
  <2>2. \A n \in 0 .. BufferBytes - 1 : n \in 0 .. HeaderBytes - 1 \/ n >= HeaderBytes
    BY <1>3
  <2>3. \A n \in 0 .. BufferBytes - 1 : buf'[n] \in Byte
    BY <1>2, <1>8, <2>1, <2>2
  <2>4. DOMAIN buf' = 0 .. BufferBytes - 1 /\ buf' = [n \in DOMAIN buf' |-> buf'[n]]
    BY <1>1, <1>2
  <2>5. QED
    BY <2>3, <2>4
<1>10. Fits(buf', BufferBytes, Plain(i))
  BY <1>3, <1>9 DEF Fits
<1>11. pwrite' = Size(i) - 1 - BytesTo(i, 0) /\ FileAbove(buf', Plain(i), pwrite')
  BY <1>1, <1>3, <1>5, SMTT(30) DEF FileAbove
<1>12. /\ cursor'.cdata \in Int /\ cursor'.bits_left \in 0 .. 7
       /\ Position(Start(i), cursor') = BitsTo(i, 0)
  BY <1>1, <1>3, <1>5 DEF Cursor, Position
<1>13. 0 \in 0 .. Count(i)
  BY <1>3
<1>14. Decoded(0)' /\ AtBlock(0)'
  BY <1>1, <1>7, <1>10, <1>11, <1>12, <1>13 DEF Decoded, AtBlock, AtBit
<1>15. OwnBytes
  <2>1. \A n \in 0 .. BufferBytes - 1 : n >= Size(i) => n >= HeaderBytes
    BY <1>3
  <2>2. QED
    BY <1>1, <1>2, <1>8, <2>1 DEF OwnBytes
<1>16. QED
  BY <1>14, <1>15

(* ------------------------------ the theorems ---------------------------- *)

(* One step keeps the invariant, and writes to the bytes of its own call.   *)
LEMMA LaylaStep ==
    ASSUME LaylaInv, [Next]_vars
    PROVE  LaylaInv' /\ OwnBytes
<1> DEFINE Between(j) == Decoded(j) /\ (AtBlock(j) \/ InCopy(j))
<1>1. calls \in Nat
  BY DEF LaylaInv
<1>2. CASE UNCHANGED vars
  <2>1. LaylaInv'
    BY <1>2 DEF vars, LaylaInv, Idle, Decoded, AtBlock, InCopy, LevelAt, AtBit
  <2>2. OwnBytes
    BY <1>2 DEF vars, OwnBytes
  <2>3. QED
    BY <2>1, <2>2
<1>3. ASSUME NEW i \in Inputs, Decompress(i)
      PROVE  LaylaInv' /\ OwnBytes
  <2>1. Decoded(0)' /\ AtBlock(0)' /\ OwnBytes
    BY <1>3, DecompressStep
  <2>2. calls' \in Nat /\ 0 \in (0 .. Count(inp))'
    BY <1>1, <1>3, <2>1 DEF Decompress, Decoded
  <2>3. QED
    BY <2>1, <2>2 DEF LaylaInv
<1>4. CASE Running
  <2>1. PICK j \in 0 .. Count(inp) : Between(j)
    BY <1>4 DEF LaylaInv, Idle, Running, More, Literal, CopyBlock, Level3, Level5, Level8, CopyShort,
                CopyLong, Return
  <2>2. calls' = calls
    BY <1>4 DEF Running, Literal, CopyBlock, Level3, Level5, Level8, CopyShort, CopyLong, Return, AddLevel
  <2>3. CASE Literal
    <3>1. AtBlock(j)
      BY <2>1, <2>3 DEF Literal, More, InCopy
    <3>2. Decoded(j + 1)' /\ AtBlock(j + 1)' /\ OwnBytes
      BY <2>1, <2>3, <3>1, LiteralStep
    <3>3. j + 1 \in (0 .. Count(inp))'
      BY <3>2 DEF Decoded
    <3>4. QED
      BY <1>1, <2>2, <3>2, <3>3 DEF LaylaInv
  <2>4. CASE CopyBlock
    <3>1. AtBlock(j)
      BY <2>1, <2>4 DEF CopyBlock, More, InCopy
    <3>2. Decoded(j)' /\ InCopy(j)' /\ OwnBytes
      BY <2>1, <2>4, <3>1, CopyBlockStep
    <3>3. j \in (0 .. Count(inp))'
      BY <3>2 DEF Decoded
    <3>4. QED
      BY <1>1, <2>2, <3>2, <3>3 DEF LaylaInv
  <2>5. CASE Level3 \/ Level5 \/ Level8
    <3>1. InCopy(j)
      BY <2>1, <2>5 DEF Level3, Level5, Level8, AtBlock
    <3>2. Decoded(j)' /\ InCopy(j)' /\ OwnBytes
      BY <2>1, <2>5, <3>1, Level3Step, Level5Step, Level8Step
    <3>3. j \in (0 .. Count(inp))'
      BY <3>2 DEF Decoded
    <3>4. QED
      BY <1>1, <2>2, <3>2, <3>3 DEF LaylaInv
  <2>6. CASE CopyShort \/ CopyLong
    <3>1. InCopy(j) /\ pc = "copy"
      BY <2>1, <2>6 DEF CopyShort, CopyLong, AtBlock
    <3>2. Decoded(j + 1)' /\ AtBlock(j + 1)' /\ OwnBytes
      BY <2>1, <2>6, <3>1, CopyStep
    <3>3. j + 1 \in (0 .. Count(inp))'
      BY <3>2 DEF Decoded
    <3>4. QED
      BY <1>1, <2>2, <3>2, <3>3 DEF LaylaInv
  <2>7. CASE Return
    <3>1. Idle' /\ OwnBytes
      BY <2>1, <2>7, ReturnStep
    <3>2. QED
      BY <1>1, <2>2, <3>1 DEF LaylaInv
  <2>8. QED
    BY <1>4, <2>3, <2>4, <2>5, <2>6, <2>7 DEF Running
<1>5. QED
  BY <1>2, <1>3, <1>4 DEF Next

(* In every state of every decompression of streams a compressor made, the  *)
(* decompressor is between two calls, with the last file as its result, or  *)
(* at a place of one block: the cursor at its bit, the length as far as the *)
(* levels read give it, everything above pwrite as it was compressed.       *)
THEOREM LaylaInvariant == Spec => []LaylaInv
<1>1. Init => LaylaInv
  BY LaylaAssumption DEF Init, LaylaInv, Idle
<1>2. LaylaInv /\ [Next]_vars => LaylaInv'
  BY LaylaStep
<1>3. QED
  BY <1>1, <1>2, PTL DEF Spec

(* Where a decompression stands in the stream.                              *)
LEMMA PlaceFacts ==
    ASSUME NEW j, Decoded(j), AtBlock(j) \/ InCopy(j)
    PROVE  Position(Start(inp), cursor) \in Nat
<1>1. inp \in Inputs /\ j \in 0 .. Count(inp) /\ Count(inp) \in Nat
  BY InputFacts DEF Decoded
<1>2. BitsTo(inp, j) \in Nat
  BY <1>1, BlockSums
<1>3. CASE AtBlock(j)
  BY <1>2, <1>3 DEF AtBlock, AtBit
<1>4. CASE InCopy(j)
  <2>1. j + 1 \in 0 .. Count(inp)
    BY <1>1, <1>4 DEF InCopy
  <2>2. BitsTo(inp, j + 1) \in Nat
    BY <1>1, <2>1, BlockSums
  <2> DEFINE p == BitsTo(inp, j)
             q == Position(Start(inp), cursor)
  <2>3. \/ q = p + 16 \/ q = p + 19 \/ \E k \in 0 .. length : q = p + (24 + 8 * k)
        \/ q = BitsTo(inp, j + 1)
    BY <1>4 DEF InCopy, LevelAt, AtBit
  <2> HIDE DEF p, q
  <2>4. p \in Nat
    BY <1>2 DEF p
  <2>5. q \in Nat
    BY <2>2, <2>3, <2>4
  <2>6. QED
    BY <2>5 DEF q
<1>5. QED
  BY <1>3, <1>4

(* Every reader, wherever a decompression may use it, returns the next bits *)
(* of the stream and consumes exactly those, whether they lie in one byte,  *)
(* in two or in three.                                                      *)
THEOREM ReadersFollowTheStream == Spec => []ReadsAreTheStream
<1>1. LaylaInv => ReadsAreTheStream
  <2> SUFFICES ASSUME LaylaInv, pc # "idle" PROVE ReadsAreTheStream
    BY DEF ReadsAreTheStream
  <2>1. PICK j \in 0 .. Count(inp) : Decoded(j) /\ (AtBlock(j) \/ InCopy(j))
    BY DEF LaylaInv, Idle
  <2> DEFINE p == Position(Start(inp), cursor)
  <2>2. inp \in Inputs /\ p \in Nat
    BY <2>1, PlaceFacts DEF Decoded
  <2>3. CursorAt(inp, cursor, p)
    BY <2>1 DEF Decoded, CursorAt
  <2> HIDE DEF p
  <2>4. /\ p + 1 <= 8 * Start(inp) => Takes(inp, p, read_1(inp.bytes, cursor), 1)
        /\ p + 2 <= 8 * Start(inp) => Takes(inp, p, read_2(inp.bytes, cursor), 2)
        /\ p + 8 <= 8 * Start(inp) => Takes(inp, p, read_8(inp.bytes, cursor), 8)
        /\ p + 13 <= 8 * Start(inp) => Takes(inp, p, read_13(inp.bytes, cursor), 13)
        /\ p + 3 <= 8 * Start(inp) => Takes(inp, p, read_max_8(inp.bytes, cursor, 3), 3)
        /\ p + 5 <= 8 * Start(inp) => Takes(inp, p, read_max_8(inp.bytes, cursor, 5), 5)
    BY <2>2, <2>3, ReadersTake
  <2>5. ASSUME NEW r, NEW n, Takes(inp, p, r, n)
        PROVE  ReadsNext(inp.bytes, Start(inp), cursor, r, n)
    BY <2>5 DEF Takes, CursorAt, ReadsNext, p
  <2>6. QED
    BY <2>4, <2>5 DEF ReadsAreTheStream, Start, p
<1>2. QED
  BY <1>1, LaylaInvariant, PTL

(* A call decodes from the end of the file, each block whole and into its   *)
(* place, and what it returns is what was compressed, from the first byte   *)
(* to the last, whatever bytes the buffer held before.                      *)
THEOREM DecompressesWhatWasCompressed == Spec => []ResultIsPlain
<1>1. LaylaInv => ResultIsPlain
  <2> SUFFICES ASSUME LaylaInv PROVE ResultIsPlain
    OBVIOUS
  <2>1. pc = "idle" /\ calls > 0 => result = Plain(inp)
    BY DEF LaylaInv, Idle, AtBlock, InCopy
  <2>2. ASSUME pc = "flag" PROVE DecodedFromTheEnd
    <3>1. PICK j \in 0 .. Count(inp) : Decoded(j)
      BY <2>2 DEF LaylaInv, Idle
    <3>2. /\ inp \in Inputs /\ FileAbove(buf, Plain(inp), pwrite)
          /\ \A n \in 0 .. HeaderBytes - 1 : buf[n] = Plain(inp)[n + 1]
          /\ pwrite = Size(inp) - 1 - BytesTo(inp, j)
      BY <3>1 DEF Decoded
    <3>3. /\ HeaderBytes \in Nat /\ inp.uncompressed_size \in Nat
          /\ Size(inp) = inp.uncompressed_size + HeaderBytes /\ Len(Plain(inp)) = Size(inp)
      BY <3>2, InputFacts
    <3>4. BytesTo(inp, j) \in 0 .. inp.uncompressed_size
      BY <3>1, <3>2, BlockSums
    <3> DEFINE done == BytesTo(inp, j)
               size == Size(inp)
               rest == inp.uncompressed_size
    <3>5. pwrite = size - 1 - done /\ size = rest + HeaderBytes /\ done \in 0 .. rest
          /\ rest \in Nat /\ HeaderBytes \in Nat
      BY <3>2, <3>3, <3>4
    <3>6. pwrite >= HeaderBytes - 1
      <4> HIDE DEF done, size, rest
      <4>1. QED
        BY <3>5
    <3>7. QED
      BY <3>2, <3>3, <3>6 DEF DecodedFromTheEnd, FileAbove
  <2>3. QED
    BY <2>1, <2>2 DEF ResultIsPlain
<1>2. QED
  BY <1>1, LaylaInvariant, PTL

(* No step of a call, from the raw bytes to the last copy, changes a byte   *)
(* beyond those the call asked the FreeList for.                            *)
THEOREM CallsWriteTheirBytes == Spec => WritesOwnBytes
<1>1. LaylaInv /\ [Next]_vars => [OwnBytes]_vars
  BY LaylaStep
<1>2. [OwnBytes]_vars <=> [\A n \in DOMAIN buf : n >= Size(inp') => buf'[n] = buf[n]]_vars
  BY DEF OwnBytes
<1>3. QED
  BY <1>1, <1>2, LaylaInvariant, PTL DEF Spec, WritesOwnBytes
=============================================================================
