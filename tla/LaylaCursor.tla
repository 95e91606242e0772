----------------------------- MODULE LaylaCursor -----------------------------
(***************************************************************************)
(* LaylaDecompressorCursor (cpk/compress/layla.rs): the unrolled bit       *)
(* readers of the CriLAYLA decompressor.  Bytes are read downwards from a  *)
(* pointer, the bits of a byte from its high end.  A cursor is the byte it *)
(* is in and the number of bits of it not read yet; a reader takes the     *)
(* input and a cursor and returns the value and the next cursor.           *)
(***************************************************************************)
EXTENDS Integers

Byte == 0 .. 255

(* Bits as arithmetic.  `x >> n` is Shr, `x & BIT_MASK[n]` is Low; the      *)
(* operands of every `|` have no bit in common, so `|` is a sum.            *)
Pow2 == [n \in 0 .. 13 |-> CASE n = 0 -> 1 [] n = 1 -> 2 [] n = 2 -> 4 [] n = 3 -> 8
            [] n = 4 -> 16 [] n = 5 -> 32 [] n = 6 -> 64 [] n = 7 -> 128 [] n = 8 -> 256
            [] n = 9 -> 512 [] n = 10 -> 1024 [] n = 11 -> 2048 [] n = 12 -> 4096
            [] n = 13 -> 8192]
Shl(x, n) == x * Pow2[n]
Shr(x, n) == x \div Pow2[n]
Low(x, n) == x % Pow2[n]

(* A byte outside the input reads as -1.                                    *)
At(in, i) == IF i \in DOMAIN in THEN in[i] ELSE -1

Cursor(cdata, bits_left) == [cdata |-> cdata, bits_left |-> bits_left]
Read(value, c) == [value |-> value, next |-> c]

MinOf(a, b) == IF a <= b THEN a ELSE b

-----------------------------------------------------------------------------
read_1(in, c) ==
    LET n == IF c.bits_left # 0 THEN Cursor(c.cdata, c.bits_left - 1) ELSE Cursor(c.cdata - 1, 7)
    IN  Read(Low(Shr(At(in, n.cdata), n.bits_left), 1), n)

(* All the bits of the first byte, then up to eight of the second, then     *)
(* what is missing from a third.                                            *)
read_13(in, c) ==
    LET b == IF c.bits_left = 0 THEN Cursor(c.cdata - 1, 8) ELSE c
        rest == 13 - b.bits_left
        round == MinOf(rest, 8)
        two == Shl(Low(At(in, b.cdata), b.bits_left), round)
                + Low(Shr(At(in, b.cdata - 1), 8 - round), round)
        more == rest - round
    IN  IF more = 0 THEN Read(two, Cursor(b.cdata - 1, 8 - round))
        ELSE Read(Shl(two, more) + Low(Shr(At(in, b.cdata - 2), 8 - more), more),
                  Cursor(b.cdata - 2, 8 - more))

(* Eight bits always end one byte further down, bits_left as it was.        *)
read_8(in, c) ==
    LET extra == 8 - c.bits_left
    IN  Read(IF c.bits_left = 0 THEN At(in, c.cdata - 1)
             ELSE Shl(Low(At(in, c.cdata), c.bits_left), extra)
                    + Low(Shr(At(in, c.cdata - 1), c.bits_left), extra),
             Cursor(c.cdata - 1, c.bits_left))

(* Mutant: one bit left is taken for two.                                   *)
read_2_Fast(in, c) ==
    LET n == IF c.bits_left = 0 THEN Cursor(c.cdata - 1, 6)
             ELSE Cursor(c.cdata, (c.bits_left + 6) % 8)
    IN  Read(Low(Shr(At(in, n.cdata), n.bits_left), 2), n)

read_2(in, c) ==
    LET n == IF c.bits_left = 0 THEN Cursor(c.cdata - 1, 6) ELSE Cursor(c.cdata, c.bits_left - 2)
    IN  IF c.bits_left # 1 THEN Read(Low(Shr(At(in, n.cdata), n.bits_left), 2), n)
        ELSE Read(Shl(Low(At(in, c.cdata), 1), 1) + Shr(At(in, c.cdata - 1), 7),
                  Cursor(c.cdata - 1, 7))

(* At most two rounds: the bits left of this byte, then the rest.           *)
read_max_8(in, c, bits) ==
    LET b == IF c.bits_left = 0 THEN Cursor(c.cdata - 1, 8) ELSE c
        round == MinOf(bits, b.bits_left)
        one == Low(Shr(At(in, b.cdata), b.bits_left - round), round)
        more == bits - round
    IN  IF more = 0 THEN Read(one, Cursor(b.cdata, b.bits_left - round))
        ELSE Read(Shl(one, more) + Low(Shr(At(in, b.cdata - 1), 8 - more), more),
                  Cursor(b.cdata - 1, 8 - more))

-----------------------------------------------------------------------------
(* The reference: the input below byte `start` as one stream of bits.       *)
Bit(in, start, p) == Low(Shr(At(in, start - 1 - (p \div 8)), 7 - (p % 8)), 1)

(* The number whose binary digits are the n bits from position p on, up to  *)
(* thirteen, as no reader reads more.                                       *)
Bits(in, start, p, n) ==
    LET value[k \in 0 .. 13] ==
            IF k = 0 THEN 0 ELSE 2 * value[k - 1] + Bit(in, start, p + k - 1)
    IN  value[n]

(* How many bits a cursor has consumed.                                     *)
Position(start, c) == 8 * (start - c.cdata) - c.bits_left

(* A reader of n bits is correct when it returns the next n bits and        *)
(* consumes exactly them.                                                   *)
ReadsNext(in, start, c, r, n) ==
    /\ r.value = Bits(in, start, Position(start, c), n)
    /\ Position(start, r.next) = Position(start, c) + n
    /\ r.next.bits_left \in 0 .. 7
=============================================================================
