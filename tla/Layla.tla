-------------------------------- MODULE Layla --------------------------------
(***************************************************************************)
(* The CriLAYLA decompressor (cpk/compress/layla.rs): one buffer of the    *)
(* FreeList, taken for each call and given back, in which the bytes of     *)
(* earlier calls remain.  An input is the two fields of the LaylaHeader    *)
(* and the bytes after it: the compressed bits, read downwards from        *)
(* uncompressed_header_offset, and the raw first bytes of the file there.  *)
(***************************************************************************)
EXTENDS LaylaBlocks

CONSTANTS
    HeaderBytes,    \* UNCOMPRESSED_DATA_SIZE
    Inputs,         \* the inputs there are
    Plain(_),       \* what the compressor was given for an input
    Blocks(_),      \* the blocks it made of it
    BufferBytes,    \* the memory of the slab, from the node on
    Stale,          \* what a new buffer of the slab holds: any bytes
    MaxCalls        \* bound: calls of decompress

Size(i) == i.uncompressed_size + HeaderBytes

(* An input is what a compressor made of a file, and it fits in the memory. *)
ASSUME LaylaAssumption ==
    /\ HeaderBytes \in Nat \ {0} /\ MaxCalls \in Nat /\ BufferBytes \in Nat
    /\ Stale \subseteq [0 .. BufferBytes - 1 -> Byte]
    /\ \A i \in Inputs :
        /\ i.uncompressed_size \in Nat /\ i.uncompressed_header_offset \in Nat
        /\ Size(i) <= BufferBytes
        /\ Plain(i) \in Seq(Byte) /\ Len(Plain(i)) = Size(i)
        /\ Blocks(i) \in Seq(Seq(Nat))
        /\ Describes(i.bytes, i.uncompressed_header_offset, HeaderBytes, Blocks(i), Plain(i))

VARIABLES
    pc,         \* "idle", or where decompress stands
    inp,        \* the input of the call
    buf,        \* the memory the FreeList hands out, from byte 0 on
    pwrite,     \* the byte of buf written next
    cursor,     \* the bit cursor
    offset,     \* the offset of the copy being decoded
    length,     \* its length so far
    result,     \* what the last call returned
    calls       \* calls so far

vars == <<pc, inp, buf, pwrite, cursor, offset, length, result, calls>>

MIN_COPY_LENGTH == 3
DEFAULT_PIPELINE_LENGTH == 3
EXTRA_PIPELINE_LENGTH == 8

Init ==
    /\ pc = "idle" /\ inp = CHOOSE i \in Inputs : TRUE
    /\ buf \in Stale
    /\ pwrite = 0 /\ cursor = Cursor(0, 0) /\ offset = 0 /\ length = 0
    /\ result = <<>> /\ calls = 0

(* Mutant: the last byte is one too far.                                    *)
Decompress_OneAbove(i) ==
    /\ pc = "idle" /\ calls < MaxCalls
    /\ calls' = calls + 1
    /\ inp' = i
    /\ buf' = [n \in DOMAIN buf |->
                IF n < HeaderBytes THEN At(i.bytes, i.uncompressed_header_offset + n) ELSE buf[n]]
    /\ pwrite' = HeaderBytes + i.uncompressed_size
    /\ cursor' = Cursor(i.uncompressed_header_offset, 0)
    /\ pc' = "flag"
    /\ UNCHANGED <<offset, length, result>>

(* decompress: allocate, copy the raw bytes to the front, point behind the  *)
(* last byte.                                                               *)
Decompress(i) ==
    /\ pc = "idle" /\ calls < MaxCalls
    /\ calls' = calls + 1
    /\ inp' = i
    /\ buf' = [n \in DOMAIN buf |->
                IF n < HeaderBytes THEN At(i.bytes, i.uncompressed_header_offset + n) ELSE buf[n]]
    /\ pwrite' = HeaderBytes + i.uncompressed_size - 1
    /\ cursor' = Cursor(i.uncompressed_header_offset, 0)
    /\ pc' = "flag"
    /\ UNCHANGED <<offset, length, result>>

(* The head of the loop and the flag bit.                                   *)
More == pc = "flag" /\ pwrite >= HeaderBytes
Flag == read_1(inp.bytes, cursor)

(* Mutant: the byte is looked at, not taken.                                *)
Literal_Peeks ==
    /\ More /\ Flag.value = 0
    /\ buf' = [buf EXCEPT ![pwrite] = read_8(inp.bytes, Flag.next).value]
    /\ UNCHANGED <<pc, inp, pwrite, cursor, offset, length, result, calls>>

(* Eight bits, copied as they are.                                          *)
Literal ==
    /\ More /\ Flag.value = 0
    /\ LET b == read_8(inp.bytes, Flag.next)
       IN  /\ buf' = [buf EXCEPT ![pwrite] = b.value]
           /\ cursor' = b.next
    /\ pwrite' = pwrite - 1
    /\ UNCHANGED <<pc, inp, offset, length, result, calls>>

(* A copy: 13 bits of offset, then the length, in levels of 2, 3, 5 and any *)
(* number of 8 bits; the next level is read when all bits of one are set.   *)
CopyBlock ==
    /\ More /\ Flag.value = 1
    /\ \E o \in {read_13(inp.bytes, Flag.next)} : \E level \in {read_2(inp.bytes, o.next)} :
        /\ offset' = o.value + MIN_COPY_LENGTH
        /\ length' = MIN_COPY_LENGTH + level.value
        /\ cursor' = level.next
        /\ pc' = IF level.value = 3 THEN "level3" ELSE "copy"
    /\ UNCHANGED <<inp, buf, pwrite, result, calls>>

AddLevel(level, full, next) ==
    /\ length' = length + level.value
    /\ cursor' = level.next
    /\ pc' = IF level.value = full THEN next ELSE "copy"
    /\ UNCHANGED <<inp, buf, pwrite, offset, result, calls>>

(* Mutant: the level is four bits wide.                                     *)
Level3_FourBits == pc = "level3" /\ AddLevel(read_max_8(inp.bytes, cursor, 4), 7, "level5")

Level3 == pc = "level3" /\ AddLevel(read_max_8(inp.bytes, cursor, 3), 7, "level5")
Level5 == pc = "level5" /\ AddLevel(read_max_8(inp.bytes, cursor, 5), 31, "level8")
Level8 == pc = "level8" /\ AddLevel(read_8(inp.bytes, cursor), 255, "level8")

(* n bytes copied downwards one after the other, each from `off` above: a   *)
(* copy reads what it has just written when it is longer than `off`, so the *)
(* value comes from the first such place above `top`.  Beyond the buffer    *)
(* there is no telling (-1).                                                *)
Copied(b, top, off, n) ==
    [i \in DOMAIN b |->
        IF i \notin top - n + 1 .. top THEN b[i]
        ELSE At(b, i + off * (1 + (top - i) \div off))]

(* Three bytes in any case; then the rest of a short copy, or five more and *)
(* the rest of a long one.                                                  *)
CopyShort ==
    /\ pc = "copy" /\ length < EXTRA_PIPELINE_LENGTH
    /\ LET three == Copied(buf, pwrite, offset, DEFAULT_PIPELINE_LENGTH)
       IN  buf' = Copied(three, pwrite - DEFAULT_PIPELINE_LENGTH, offset,
                         length - DEFAULT_PIPELINE_LENGTH)
    /\ pwrite' = pwrite - length
    /\ pc' = "flag"
    /\ UNCHANGED <<inp, cursor, offset, length, result, calls>>

CopyLong ==
    /\ pc = "copy" /\ length >= EXTRA_PIPELINE_LENGTH
    /\ LET eight == Copied(buf, pwrite, offset, EXTRA_PIPELINE_LENGTH)
           rest == length - EXTRA_PIPELINE_LENGTH
       IN  /\ buf' = Copied(eight, pwrite - EXTRA_PIPELINE_LENGTH, offset, rest)
           /\ pwrite' = pwrite - EXTRA_PIPELINE_LENGTH - rest
    /\ pc' = "flag"
    /\ UNCHANGED <<inp, cursor, offset, length, result, calls>>

(* to_vec, and the drop of the node: the memory keeps its bytes.            *)
Return ==
    /\ pc = "flag" /\ pwrite < HeaderBytes
    /\ result' = [n \in 1 .. Size(inp) |-> buf[n - 1]]
    /\ pc' = "idle"
    /\ UNCHANGED <<inp, buf, pwrite, cursor, offset, length, calls>>

Running == Literal \/ CopyBlock \/ Level3 \/ Level5 \/ Level8 \/ CopyShort \/ CopyLong \/ Return

Next == Running \/ \E i \in Inputs : Decompress(i)

Spec == Init /\ [][Next]_vars /\ WF_vars(Running)

-----------------------------------------------------------------------------
(* At every place a decompression comes to, inside a byte or between two,   *)
(* each reader returns the next bits of the stream and consumes exactly     *)
(* those, whichever of them is used next.                                   *)
ReadsAreTheStream ==
    pc # "idle" =>
        LET start == inp.uncompressed_header_offset
            Reads(n, read) ==
                Position(start, cursor) + n <= 8 * start =>
                    ReadsNext(inp.bytes, start, cursor, read, n)
        IN  /\ Reads(1, read_1(inp.bytes, cursor))
            /\ Reads(2, read_2(inp.bytes, cursor))
            /\ Reads(8, read_8(inp.bytes, cursor))
            /\ Reads(13, read_13(inp.bytes, cursor))
            /\ \A n \in {3, 5} : Reads(n, read_max_8(inp.bytes, cursor, n))

(* At the head of the loop the raw bytes are in front, as they are in the   *)
(* input, and all that is above pwrite is what was compressed: a block is   *)
(* decoded whole, into its place, from bytes of this call and not of an     *)
(* earlier one, and nothing is written below the space that is left.        *)
DecodedFromTheEnd ==
    LET plain == Plain(inp) IN
    /\ pwrite >= HeaderBytes - 1
    /\ \A n \in 0 .. HeaderBytes - 1 : buf[n] = plain[n + 1]
    /\ \A n \in pwrite + 1 .. Size(inp) - 1 : buf[n] = plain[n + 1]

(* A call decodes from the end, and what it returns is what was compressed, *)
(* from the first byte to the last, whatever the buffer held before.        *)
ResultIsPlain ==
    /\ pc = "flag" => DecodedFromTheEnd
    /\ pc = "idle" /\ calls > 0 => result = Plain(inp)

(* A call writes to the bytes it asked for and to no others, from its first *)
(* step to its last: the rest of the memory belongs to other nodes.         *)
WritesOwnBytes ==
    [][\A n \in DOMAIN buf : n >= Size(inp') => buf'[n] = buf[n]]_vars

(* Every call returns: each round of the loop consumes some of the output.  *)
CallReturns == pc # "idle" ~> pc = "idle"
=============================================================================
