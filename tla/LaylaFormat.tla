----------------------------- MODULE LaylaFormat -----------------------------
(***************************************************************************)
(* The CriLAYLA format, as the head of cpk/compress/layla.rs describes it: *)
(* what a compressor, which is not part of the repository, makes of a      *)
(* list of blocks.  A block is <<byte>> or <<offset, length>>; the blocks  *)
(* describe the file from its last byte down to the raw ones in front.     *)
(***************************************************************************)
EXTENDS Integers, Sequences, SequencesExt

Digits(v, n) == [k \in 1 .. n |-> (v \div 2^(n - k)) % 2]

(* The levels of a length: 2, 3 and 5 bits, then bytes, each level only     *)
(* when all bits of the one before are set.                                 *)
LengthBits(len) ==
    LET r == len - 3
        eights == [k \in 1 .. 8 * (1 + (r - 41) \div 255) |->
                    IF k <= 8 * ((r - 41) \div 255) THEN 1
                    ELSE Digits((r - 41) % 255, 8)[1 + ((k - 1) % 8)]]
    IN  IF r < 3 THEN Digits(r, 2)
        ELSE IF r < 10 THEN Digits(3, 2) \o Digits(r - 3, 3)
        ELSE IF r < 41 THEN Digits(31, 5) \o Digits(r - 10, 5)
        ELSE Digits(1023, 10) \o eights

BlockBits(b) ==
    IF Len(b) = 1 THEN <<0>> \o Digits(b[1], 8)
    ELSE <<1>> \o Digits(b[1] - 3, 13) \o LengthBits(b[2])

(* The first bit is the highest of the last byte; the bytes go downwards.   *)
Packed(bits) ==
    LET n == (Len(bits) + 7) \div 8
        bit(k) == IF k <= Len(bits) THEN bits[k] ELSE 0
    IN  [i \in 0 .. n - 1 |->
            LET k == 8 * (n - 1 - i)
            IN  128 * bit(k + 1) + 64 * bit(k + 2) + 32 * bit(k + 3) + 16 * bit(k + 4)
                + 8 * bit(k + 5) + 4 * bit(k + 6) + 2 * bit(k + 7) + bit(k + 8)]

(* The bytes the blocks stand for, the last byte of the file first.         *)
Expanded(blocks) ==
    LET sofar[j \in 0 .. Len(blocks)] ==
            IF j = 0 THEN <<>>
            ELSE LET pre == sofar[j - 1]
                     b == blocks[j]
                     period == SubSeq(pre, Len(pre) - b[1] + 1, Len(pre))
                 IN  IF Len(b) = 1 THEN Append(pre, b[1])
                     ELSE pre \o [m \in 1 .. b[2] |-> period[1 + ((m - 1) % b[1])]]
    IN  sofar[Len(blocks)]

(* Blocks a compressor produces: no copy from beyond the end of the file.   *)
WellFormed(blocks) ==
    \A j \in DOMAIN blocks :
        Len(blocks[j]) = 2 => blocks[j][1] <= Len(Expanded(SubSeq(blocks, 1, j - 1)))

(* The file made of the raw bytes and the blocks, and its compressed form.  *)
File(raw, blocks) == raw \o Reverse(Expanded(blocks))
Compressed(raw, blocks) ==
    LET code == Packed(FlattenSeq([j \in DOMAIN blocks |-> BlockBits(blocks[j])]))
        n == (Len(FlattenSeq([j \in DOMAIN blocks |-> BlockBits(blocks[j])])) + 7) \div 8
    IN  [uncompressed_size |-> Len(Expanded(blocks)),
         uncompressed_header_offset |-> n,
         bytes |-> [i \in 0 .. n + Len(raw) - 1 |-> IF i < n THEN code[i] ELSE raw[i - n + 1]]]
=============================================================================
