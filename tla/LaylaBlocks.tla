---------------------------- MODULE LaylaBlocks ----------------------------
(***************************************************************************)
(* The CriLAYLA format as a relation, as the head of cpk/compress/layla.rs *)
(* describes it: when a stream of bits stands for a list of blocks, and    *)
(* the blocks for a file.  A block is a literal, <<byte>>, or a copy,      *)
(* <<offset, length>>; the blocks describe the file from its last byte     *)
(* down to the raw ones in front.                                          *)
(***************************************************************************)
EXTENDS LaylaCursor, Selection

IsLiteral(b) == Len(b) = 1

(* The bytes of the file a block stands for, and the bits it takes: a flag  *)
(* and a byte, or a flag, an offset and the levels of a length.             *)
BytesOf(b) == IF IsLiteral(b) THEN 1 ELSE b[2]
LevelBits(rest) ==
    IF rest < 3 THEN 2
    ELSE IF rest < 10 THEN 5
    ELSE IF rest < 41 THEN 10
    ELSE 18 + 8 * ((rest - 41) \div 255)
BitsOf(b) == IF IsLiteral(b) THEN 9 ELSE 14 + LevelBits(b[2] - 3)

(* The bytes, and the bits, of the first n blocks, for every n.             *)
ByteSums(blocks) == Sums([j \in 1 .. Len(blocks) |-> BytesOf(blocks[j])])
BitSums(blocks) == Sums([j \in 1 .. Len(blocks) |-> BitsOf(blocks[j])])

(* The levels of a length, at bit p: 2, 3 and 5 bits, then bytes; all bits  *)
(* of a level are set when the length goes on in the next.                  *)
LengthAt(in, start, p, rest) ==
    /\ Bits(in, start, p, 2) = MinOf(rest, 3)
    /\ rest >= 3 => Bits(in, start, p + 2, 3) = MinOf(rest - 3, 7)
    /\ rest >= 10 => Bits(in, start, p + 5, 5) = MinOf(rest - 10, 31)
    /\ \A k \in 0 .. rest :
        rest - 41 >= 255 * k =>
            Bits(in, start, p + 10 + 8 * k, 8) = MinOf(rest - 41 - 255 * k, 255)

(* The bits from p on, and the bytes of the file from `top` down, are those *)
(* of a block; a copy is of bytes that end before the file does.            *)
LiteralAt(in, start, p, plain, top, b) ==
    /\ Bits(in, start, p, 1) = 0
    /\ Bits(in, start, p + 1, 8) = b[1]
    /\ plain[top + 1] = b[1]

CopyAt(in, start, p, plain, top, b) ==
    /\ b[1] \in Nat /\ b[1] >= 3 /\ b[2] \in Nat /\ b[2] >= 3
    /\ Bits(in, start, p, 1) = 1
    /\ Bits(in, start, p + 1, 13) = b[1] - 3
    /\ LengthAt(in, start, p + 14, b[2] - 3)
    /\ top + b[1] < Len(plain)
    /\ \A m \in 0 .. b[2] - 1 : plain[top - m + 1] = plain[top - m + b[1] + 1]

(* The bytes `in`, of which the stream ends at byte `start`, are those of a *)
(* compressed form of `plain`, of which `raw` bytes are not compressed.     *)
Describes(in, start, raw, blocks, plain) ==
    LET bytes == ByteSums(blocks)
        bits == BitSums(blocks)
    IN  /\ \A n \in 0 .. start + raw - 1 : At(in, n) \in Byte
        /\ \A n \in 0 .. raw - 1 : At(in, start + n) = plain[n + 1]
        /\ raw + bytes[Len(blocks)] = Len(plain)
        /\ bits[Len(blocks)] <= 8 * start
        /\ \A j \in 1 .. Len(blocks) :
            LET top == Len(plain) - 1 - bytes[j - 1]
            IN  IF IsLiteral(blocks[j])
                THEN LiteralAt(in, start, bits[j - 1], plain, top, blocks[j])
                ELSE CopyAt(in, start, bits[j - 1], plain, top, blocks[j])
=============================================================================
