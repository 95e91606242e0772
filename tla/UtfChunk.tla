------------------------------ MODULE UtfChunk ------------------------------
(***************************************************************************)
(* The chunk a @UTF table of an archive lies in: a magic, a marker that is *)
(* zero when the table is enciphered, the length of the table in 64 bits,  *)
(* the table.  build_chunk of cpk/writer.rs, TableContainer of             *)
(* cpk/header.rs and TableDecryptor of cpk/encrypt/table.rs.               *)
(***************************************************************************)
EXTENDS UtfCodec

CONSTANT HeaderArea     \* 0x800: the most a CPK chunk may take

CPK_CHUNK_HEADER_SIZE == 16
Magic == [Cpk |-> <<67, 80, 75, 32>>, Toc |-> <<84, 79, 67, 32>>]
from_magic(s) ==
    IF \E kind \in DOMAIN Magic : Magic[kind] = s
    THEN CHOOSE kind \in DOMAIN Magic : Magic[kind] = s ELSE "Unknown"

Xor(a, b) ==
    LET differ(bit) == IF (a \div bit) % 2 # (b \div bit) % 2 THEN bit ELSE 0
    IN  differ(1) + differ(2) + differ(4) + differ(8) + differ(16) + differ(32) + differ(64)
            + differ(128)

(* decrypt_utf_scalar, and TableDecryptor::decrypt_utf_in_place: an         *)
(* exclusive or with a key that is multiplied by 21 from byte to byte.      *)
Power21[k \in Nat] ==
    IF k = 0 THEN 1
    ELSE LET half == Power21[k \div 2]
         IN  (half * half * (IF k % 2 = 1 THEN 21 ELSE 1)) % 256
decrypt_utf_scalar(input) ==
    [k \in DOMAIN input |-> Xor(input[k], (95 * Power21[k - 1]) % 256)]

ENCRYPTED_PREFIX == <<31, 158, 243, 245>>
is_encrypted(bytes) == SubSeq(bytes, 1, 4) = ENCRYPTED_PREFIX

LittleEndian(v, w) == Reverse(BigEndian(v, w))
Chunk(kind, marker, table) ==
    Magic[kind] \o [k \in 1 .. 4 |-> marker] \o LittleEndian(Len(table), 8) \o table
build_chunk(kind, table) == Chunk(kind, 255, table)

(* TableContainer::new over what follows a position of the archive: the     *)
(* bytes of the table, deciphered; <<>> when there is none.                 *)
NoContainer == [kind |-> "Unknown", table |-> <<>>]

TableContainer(stream) ==
    LET kind == from_magic(SubSeq(stream, 1, 4))
        size == Number(Reverse(Sub(stream, 8, 16)))
        table == Sub(stream, 16, 16 + size)
        plain == IF stream[5] = 0 THEN decrypt_utf_scalar(table) ELSE table
    IN  IF Len(stream) < CPK_CHUNK_HEADER_SIZE THEN NoContainer
        ELSE IF \/ size < HEADER_SIZE
                \/ kind = "Cpk" /\ size + CPK_CHUNK_HEADER_SIZE > HeaderArea
                \/ size > Len(stream) - CPK_CHUNK_HEADER_SIZE
        THEN NoContainer
        ELSE IF SubSeq(plain, 1, 4) # <<64, 85, 84, 70>> THEN NoContainer
        ELSE [kind |-> kind, table |-> plain]

(* A container of the kind wanted, and its table.                           *)
ReadTable(stream, kind) ==
    LET c == TableContainer(stream)
    IN  IF c.table = <<>> \/ c.kind # kind THEN Rejected ELSE HighTable(c.table)
=============================================================================
