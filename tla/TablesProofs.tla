----------------------------- MODULE TablesProofs -----------------------------
(***************************************************************************)
(* Proofs about UtfFile and Acb: for every table, every damage and every    *)
(* area of an archive's header, what the two readers of a @UTF table make   *)
(* of its bytes; and for every ACB file, what the lookups of AcbReader      *)
(* return.                                                                  *)
(***************************************************************************)
EXTENDS UtfFile, Acb, SelectionProofs

-----------------------------------------------------------------------------
(* Bytes and numbers.                                                      *)

(* A number of bytes is a natural number, of one byte the byte itself.      *)
LEMMA NumberType ==
    ASSUME NEW s \in Seq(Byte)
    PROVE  Number(s) \in Nat
<1> DEFINE w == Len(s)
           byte(k) == IF k < w THEN s[w - k] ELSE 0
<1>1. w \in Nat
  BY LenProperties
<1>2. ASSUME NEW k \in 0 .. 3
      PROVE  byte(k) \in Byte
  <2>1. CASE k < w
    <3>1. w - k \in 1 .. w
      BY <1>1, <2>1
    <3>2. s[w - k] \in Byte
      BY <3>1, ElementOfSeq
    <3>3. QED
      BY <2>1, <3>2
  <2>2. CASE ~(k < w)
    BY <2>2 DEF Byte
  <2>3. QED
    BY <2>1, <2>2
<1>3. byte(0) \in Byte /\ byte(1) \in Byte /\ byte(2) \in Byte /\ byte(3) \in Byte
  BY <1>2
<1>4. Number(s) = IF byte(3) > 63 \/ \E k \in 4 .. w - 1 : byte(k) # 0 THEN Huge
        ELSE byte(0) + 256 * byte(1) + 65536 * byte(2) + 16777216 * byte(3)
  BY DEF Number
<1>5. Huge \in Nat
  BY DEF Huge
<1> DEFINE b0 == byte(0)
           b1 == byte(1)
           b2 == byte(2)
           b3 == byte(3)
<1>6. b0 \in Byte /\ b1 \in Byte /\ b2 \in Byte /\ b3 \in Byte
  BY <1>3
<1>7. Number(s) = IF b3 > 63 \/ \E k \in 4 .. w - 1 : byte(k) # 0 THEN Huge
        ELSE b0 + 256 * b1 + 65536 * b2 + 16777216 * b3
  BY <1>4
<1> HIDE DEF byte, b0, b1, b2, b3
<1>8. b0 + 256 * b1 + 65536 * b2 + 16777216 * b3 \in Nat
  BY <1>6 DEF Byte
<1>9. QED
  BY <1>5, <1>7, <1>8

(* Bytes of a part of a sequence of bytes.                                  *)
LEMMA SubType ==
    ASSUME NEW S, NEW b \in Seq(S), NEW from \in Nat, NEW to \in Nat, to <= Len(b)
    PROVE  /\ Sub(b, from, to) \in Seq(S)
           /\ Len(Sub(b, from, to)) = IF from <= to THEN to - from ELSE 0
           /\ \A k \in 1 .. to - from : Sub(b, from, to)[k] = b[from + k]
<1>1. Len(b) \in Nat
  BY LenProperties
<1>2. \A k \in from + 1 .. to : b[k] \in S
  <2>1. \A k \in from + 1 .. to : k \in 1 .. Len(b)
    BY <1>1
  <2>2. QED
    BY <2>1, ElementOfSeq
<1>3. from + 1 \in Int /\ to \in Int
  OBVIOUS
<1>4. /\ SubSeq(b, from + 1, to) \in Seq(S)
      /\ Len(SubSeq(b, from + 1, to)) = IF from + 1 <= to THEN to - (from + 1) + 1 ELSE 0
      /\ \A k \in 1 .. to - (from + 1) + 1 : SubSeq(b, from + 1, to)[k] = b[from + 1 + k - 1]
  BY <1>2, <1>3, SubSeqProperties
<1>5. (IF from + 1 <= to THEN to - (from + 1) + 1 ELSE 0) = IF from <= to THEN to - from ELSE 0
  OBVIOUS
<1>6. ASSUME NEW k \in 1 .. to - from
      PROVE  SubSeq(b, from + 1, to)[k] = b[from + k]
  <2>1. k \in 1 .. to - (from + 1) + 1 /\ from + 1 + k - 1 = from + k
    OBVIOUS
  <2>2. QED
    BY <1>4, <2>1
<1>7. QED
  BY <1>4, <1>5, <1>6 DEF Sub

(* An element of a slice.                                                   *)
LEMMA SubAt ==
    ASSUME NEW S, NEW b \in Seq(S), NEW from \in Nat, NEW to \in Nat, to <= Len(b),
           NEW k \in 1 .. to - from
    PROVE  Sub(b, from, to)[k] = b[from + k]
BY SubType

(* The length of a slice.                                                   *)
LEMMA SubLen ==
    ASSUME NEW S, NEW b \in Seq(S), NEW from \in Nat, NEW to \in Nat, from <= to, to <= Len(b)
    PROVE  Len(Sub(b, from, to)) = to - from
BY SubType

(* The numbers of a header are natural numbers.                             *)
LEMMA HeaderType ==
    ASSUME NEW b \in Seq(Byte), Len(b) >= HEADER_SIZE
    PROVE  LET h == TableHeader(b) IN
           /\ h.size \in Nat /\ h.rows_offset \in Nat /\ h.string_pool_offset \in Nat
           /\ h.data_pool_offset \in Nat /\ h.column_count \in Nat
           /\ h.row_size \in Nat /\ h.row_count \in Nat
<1>1. ASSUME NEW o \in 0 .. 28, NEW w \in 1 .. 4
      PROVE  NumberAt(b, o, w) \in Nat
  <2>1. Len(b) \in Nat
    BY LenProperties
  <2>2. o \in Nat /\ o + w \in Nat /\ o + w <= Len(b)
    BY <2>1 DEF HEADER_SIZE
  <2>3. Sub(b, o, o + w) \in Seq(Byte)
    BY <2>2, SubType
  <2>4. QED
    BY <2>3, NumberType DEF NumberAt
<1>2. /\ NumberAt(b, 4, 4) \in Nat /\ NumberAt(b, 10, 2) \in Nat /\ NumberAt(b, 12, 4) \in Nat
      /\ NumberAt(b, 16, 4) \in Nat /\ NumberAt(b, 24, 2) \in Nat /\ NumberAt(b, 26, 2) \in Nat
      /\ NumberAt(b, 28, 4) \in Nat
  BY <1>1
<1> DEFINE h == TableHeader(b)
<1>3. /\ h.size = NumberAt(b, 4, 4) /\ h.rows_offset = NumberAt(b, 10, 2) + 8
      /\ h.string_pool_offset = NumberAt(b, 12, 4) + 8
      /\ h.data_pool_offset = NumberAt(b, 16, 4) + 8 /\ h.column_count = NumberAt(b, 24, 2)
      /\ h.row_size = NumberAt(b, 26, 2) /\ h.row_count = NumberAt(b, 28, 4)
  BY DEF TableHeader, HEADER_OFFSET
<1> HIDE DEF h
<1>4. h.size \in Nat /\ h.column_count \in Nat /\ h.row_size \in Nat /\ h.row_count \in Nat
  BY <1>2, <1>3
<1>5. \A n \in Nat : n + 8 \in Nat
  OBVIOUS
<1>6. h.rows_offset \in Nat /\ h.string_pool_offset \in Nat /\ h.data_pool_offset \in Nat
  BY <1>2, <1>3, <1>5
<1>7. QED
  BY <1>4, <1>6 DEF h

(* Rows that fit a space do not reach beyond it.                            *)
LEMMA RowsInSpace ==
    ASSUME NEW size \in Nat, NEW count \in Nat, NEW space \in Nat,
           size = 0 \/ count <= space \div size
    PROVE  size * count <= space
<1>1. CASE size = 0
  BY <1>1
<1>2. CASE size # 0
  <2> DEFINE q == space \div size
             r == space % size
  <2>1. q \in Nat /\ r \in Nat /\ space = size * q + r
    BY <1>2
  <2> HIDE DEF q, r
  <2>2. count <= q
    BY <1>2 DEF q
  <2>3. \E d \in Nat : q = count + d
    <3>1. q - count \in Nat /\ q = count + (q - count)
      BY <2>1, <2>2
    <3>2. QED
      BY <3>1
  <2>4. PICK d \in Nat : q = count + d
    BY <2>3
  <2>5. size * q = size * count + size * d /\ size * d \in Nat /\ size * count \in Nat
    BY <2>4
  <2>6. QED
    BY <2>1, <2>5
<1>3. QED
  BY <1>1, <1>2

-----------------------------------------------------------------------------
(* Whatever bytes it is given, the CPK code makes of them an error or a     *)
(* table within them whose rows and pools follow one another, or lacks the  *)
(* memory for the rows there would be.                                      *)
Contained(result, len) ==
    \/ result.outcome = "error"
    \/ /\ result.outcome = "table"
       /\ Len(result.alloc) \in 0 .. len
       /\ LET h == result.header IN
          /\ h.rows_offset + h.row_size * Len(result.rows) <= h.string_pool_offset
          /\ h.data_pool_offset <= Len(result.alloc)
    \/ /\ result.outcome = "abort"
       /\ result.header.row_size = 0 \/ MaxRows < len

(* An error is contained.                                                   *)
LEMMA RejectedContained == \A len : Contained(Rejected, len)
BY DEF Contained, Rejected

(* Rows of a byte and more are not more than the bytes of the table.        *)
LEMMA ExhaustedContained ==
    ASSUME NEW h, NEW len \in Nat, SectionsInOrder(h), RowsFit(h),
           h.size \in Nat, h.rows_offset \in Nat, h.string_pool_offset \in Nat,
           h.data_pool_offset \in Nat, h.row_size \in Nat, h.row_count \in Nat,
           h.size + 8 <= len, h.row_count > MaxRows
    PROVE  Contained(Exhausted(h), len)
<1> DEFINE O == h.rows_offset
           P == h.string_pool_offset
           D == h.data_pool_offset
           S == h.size
           Z == h.row_size
           C == h.row_count
<1>1. /\ O \in Nat /\ P \in Nat /\ D \in Nat /\ S \in Nat /\ Z \in Nat /\ C \in Nat
      /\ O <= P /\ P <= D /\ D <= S + 8 /\ S + 8 <= len /\ C > MaxRows
      /\ (Z = 0 \/ C <= (P - O) \div Z)
  BY DEF SectionsInOrder, RowsFit
<1>2. MaxRows \in Nat
  BY MemoryAssumption
<1> HIDE DEF O, P, D, S, Z, C
<1>3. P - O \in Nat
  BY <1>1
<1>4. Z * C <= P - O
  BY <1>1, <1>3, RowsInSpace
<1>5. Z # 0 => MaxRows < len
  <2> SUFFICES ASSUME Z # 0 PROVE MaxRows < len
    OBVIOUS
  <2>1. Z - 1 \in Nat /\ Z = 1 + (Z - 1)
    BY <1>1
  <2>2. \E d \in Nat : Z = 1 + d
    BY <2>1
  <2>3. PICK d \in Nat : Z = 1 + d
    BY <2>2
  <2>4. Z * C = C + d * C /\ d * C \in Nat
    BY <1>1, <2>3
  <2>5. QED
    BY <1>1, <1>2, <1>4, <2>4
<1>6. Exhausted(h).outcome = "abort" /\ Exhausted(h).header = h
  BY DEF Exhausted
<1>7. QED
  BY <1>5, <1>6 DEF Contained, Z

(* new_list of the rows gives as many as the header says.                   *)
LEMMA RowCount ==
    ASSUME NEW b, NEW h, NEW columns, h.row_count \in Nat,
           new_rows(b, h, columns).ok
    PROVE  Len(new_rows(b, h, columns).list) = h.row_count
<1> DEFINE N == h.row_count
           at(r, c) == RowAt(h, columns, r) + Width(columns, c - 1)
           row(r) == [c \in DOMAIN columns |->
            IF Has(columns[c].flag, ROW_STORAGE)
            THEN row_value(get_type(columns[c].flag),
                           Sub(b, at(r, c), at(r, c) + get_size(get_type(columns[c].flag))))
            ELSE NoValue]
           rows == [r \in 1 .. N |-> row(r)]
<1>1. new_rows(b, h, columns) = [ok |-> FALSE, list |-> <<>>]
        \/ new_rows(b, h, columns) = [ok |-> TRUE, list |-> rows]
  <2> HIDE DEF row
  <2>1. QED
    BY DEF new_rows, row
<1>2. Len(rows) = N
  <2> HIDE DEF row
  <2>1. QED
    OBVIOUS
<1> HIDE DEF rows
<1>3. QED
  BY <1>1, <1>2

(* HighTable::new over any bytes: the checks of the header, before a row or *)
(* a string is read, leave no section beyond the end.                       *)
LEMMA HighTableContained ==
    ASSUME NEW b \in Seq(Byte)
    PROVE  Contained(HighTable(b), Len(b))
<1> DEFINE h == TableHeader(b)
           L == Len(b)
           alloc == SubSeq(b, 1, h.size + 8)
           columns == new_columns(alloc, h.column_count)
           rows == new_rows(alloc, h, columns.list)
           pool == Sub(alloc, h.string_pool_offset, h.data_pool_offset)
           strings == parse_strings(pool, h.encoding)
           result == Table(alloc, h, columns.list, rows.list, strings.at)
<1>1. HighTable(b) =
        IF Len(b) < HEADER_SIZE \/ SubSeq(b, 1, 4) # <<64, 85, 84, 70>> THEN Rejected
        ELSE IF h.size + 8 > Len(b) \/ ~SectionsInOrder(h) \/ ~RowsFit(h) THEN Rejected
        ELSE IF ~columns.ok \/ columns.at > h.rows_offset
                \/ Width(columns.list, Len(columns.list)) > h.row_size THEN Rejected
        ELSE IF h.row_count > MaxRows THEN Exhausted(h)
        ELSE IF ~rows.ok THEN Rejected
        ELSE IF h.data_pool_offset > Len(alloc) THEN Panicked
        ELSE IF ~strings.ok THEN Rejected
        ELSE Table(alloc, h, columns.list, rows.list, strings.at)
  BY DEF HighTable
<1>2. /\ result.outcome = "table" /\ result.alloc = alloc /\ result.header = h
      /\ result.rows = rows.list
  BY DEF Table
<1>3. h.row_count \in Nat /\ rows.ok => Len(rows.list) = h.row_count
  BY RowCount
<1>4. Len(b) >= HEADER_SIZE =>
        /\ h.size \in Nat /\ h.rows_offset \in Nat /\ h.string_pool_offset \in Nat
        /\ h.data_pool_offset \in Nat /\ h.column_count \in Nat
        /\ h.row_size \in Nat /\ h.row_count \in Nat
  BY HeaderType
<1>5. h.size \in Nat /\ h.size + 8 <= Len(b) => Len(alloc) = h.size + 8
  <2> HIDE DEF h
  <2>1. ASSUME h.size \in Nat, h.size + 8 <= Len(b)
        PROVE  Len(SubSeq(b, 1, h.size + 8)) = h.size + 8
    <3> DEFINE n == h.size + 8
    <3>1. n \in Nat /\ n <= Len(b) /\ 0 \in Nat
      BY <2>1
    <3> HIDE DEF n
    <3>2. Len(Sub(b, 0, n)) = IF 0 <= n THEN n - 0 ELSE 0
      BY <3>1, SubType
    <3>3. Sub(b, 0, n) = SubSeq(b, 1, n)
      BY DEF Sub
    <3>4. Len(SubSeq(b, 1, n)) = n
      BY <3>1, <3>2, <3>3
    <3>5. QED
      BY <3>4 DEF n
  <2>2. QED
    BY <2>1
<1>6. L \in Nat
  BY LenProperties
<1>7. ASSUME L >= HEADER_SIZE, ~(h.size + 8 > L), SectionsInOrder(h), RowsFit(h), rows.ok
      PROVE  /\ ~(h.data_pool_offset > Len(alloc))
             /\ Contained(result, L)
  <2>1. /\ h.size \in Nat /\ h.rows_offset \in Nat /\ h.string_pool_offset \in Nat
        /\ h.data_pool_offset \in Nat /\ h.row_size \in Nat /\ h.row_count \in Nat
    BY <1>4, <1>7
  <2> DEFINE A == Len(alloc)
             S == h.size
             O == h.rows_offset
             P == h.string_pool_offset
             D == h.data_pool_offset
             Z == h.row_size
             C == h.row_count
             K == Len(rows.list)
  <2>2. O <= P /\ P <= D /\ D <= S + 8
    BY <1>7 DEF SectionsInOrder
  <2>3. Z = 0 \/ C <= (P - O) \div Z
    BY <1>7 DEF RowsFit
  <2>4. K = C
    BY <1>3, <1>7, <2>1
  <2>5. A = S + 8
    BY <1>5, <1>6, <1>7, <2>1
  <2>6. S + 8 <= L
    BY <1>6, <1>7, <2>1
  <2>7. /\ S \in Nat /\ O \in Nat /\ P \in Nat /\ D \in Nat /\ Z \in Nat /\ C \in Nat
    BY <2>1
  <2>8. Contained(result, L) <=>
            /\ A \in 0 .. L /\ O + Z * K <= P /\ D <= A
    BY <1>2, ZenonT(30) DEF Contained
  <2> HIDE DEF A, S, O, P, D, Z, C, K, h, L, alloc, columns, rows, pool, strings, result
  <2>9. P - O \in Nat
    BY <2>2, <2>7
  <2>10. Z * C <= P - O /\ Z * C \in Nat
    BY <2>3, <2>7, <2>9, RowsInSpace
  <2>11. A \in 0 .. L /\ O + Z * K <= P /\ D <= A
    BY <1>6, <2>2, <2>4, <2>5, <2>6, <2>7, <2>10
  <2>12. ~(D > A)
    BY <2>2, <2>5, <2>7
  <2>13. QED
    BY <2>8, <2>11, <2>12 DEF D, A
<1> HIDE DEF h, alloc, columns, rows, pool, strings
<1>8. ~(Len(b) < HEADER_SIZE) => L >= HEADER_SIZE
  BY <1>6 DEF HEADER_SIZE
<1>11. ASSUME L >= HEADER_SIZE, ~(h.size + 8 > L), SectionsInOrder(h), RowsFit(h),
              h.row_count > MaxRows
       PROVE  Contained(Exhausted(h), L)
  <2> HIDE DEF L
  <2>1. /\ h.size \in Nat /\ h.rows_offset \in Nat /\ h.string_pool_offset \in Nat
        /\ h.data_pool_offset \in Nat /\ h.row_size \in Nat /\ h.row_count \in Nat
    BY <1>4, <1>11 DEF L
  <2>2. h.size + 8 <= L
    BY <1>6, <1>11, <2>1
  <2>3. QED
    BY <1>6, <1>11, <2>1, <2>2, ExhaustedContained
<1>9. HighTable(b) # Rejected => Contained(HighTable(b), L)
  <2>0. CASE h.row_count > MaxRows
    <3>1. HighTable(b) = Rejected \/ HighTable(b) = Exhausted(h)
      BY <1>1, <2>0
    <3>2. HighTable(b) = Exhausted(h) /\ HighTable(b) # Rejected =>
            /\ ~(Len(b) < HEADER_SIZE) /\ ~(h.size + 8 > Len(b)) /\ SectionsInOrder(h)
            /\ RowsFit(h)
      BY <1>1
    <3> HIDE DEF L
    <3>3. ASSUME HighTable(b) # Rejected PROVE Contained(HighTable(b), L)
      <4>1. HighTable(b) = Exhausted(h)
        BY <3>1, <3>3
      <4>2. ~(Len(b) < HEADER_SIZE) /\ ~(h.size + 8 > L) /\ SectionsInOrder(h) /\ RowsFit(h)
        BY <3>2, <3>3, <4>1 DEF L
      <4>3. QED
        BY <1>8, <1>11, <2>0, <4>1, <4>2
    <3>4. QED
      BY <3>3
  <2>1. ASSUME HighTable(b) # Rejected, ~(h.row_count > MaxRows)
        PROVE  /\ ~(Len(b) < HEADER_SIZE) /\ ~(h.size + 8 > Len(b)) /\ SectionsInOrder(h)
               /\ RowsFit(h) /\ rows.ok
               /\ HighTable(b) = IF h.data_pool_offset > Len(alloc) THEN Panicked ELSE result
    BY <1>1, <2>1
  <2> HIDE DEF L, result
  <2>2. ASSUME HighTable(b) # Rejected, ~(h.row_count > MaxRows)
        PROVE  HighTable(b) = result /\ Contained(result, L)
    <3>1. L >= HEADER_SIZE /\ ~(h.size + 8 > L)
      BY <1>8, <2>1, <2>2 DEF L
    <3>2. ~(h.data_pool_offset > Len(alloc)) /\ Contained(result, L)
      BY <1>7, <2>1, <2>2, <3>1
    <3>3. QED
      BY <2>1, <2>2, <3>2
  <2>3. QED
    BY <2>0, <2>2
<1>10. QED
  BY <1>9, RejectedContained DEF L

(* An exclusive or is a byte, and undoing the cipher keeps the length.      *)
LEMMA XorType == \A a, k : Xor(a, k) \in Byte
<1> TAKE a, k
<1> DEFINE differ(bit) == IF (a \div bit) % 2 # (k \div bit) % 2 THEN bit ELSE 0
           d1 == differ(1)
           d2 == differ(2)
           d3 == differ(4)
           d4 == differ(8)
           d5 == differ(16)
           d6 == differ(32)
           d7 == differ(64)
           d8 == differ(128)
<1>1. /\ d1 \in {0, 1} /\ d2 \in {0, 2} /\ d3 \in {0, 4} /\ d4 \in {0, 8}
      /\ d5 \in {0, 16} /\ d6 \in {0, 32} /\ d7 \in {0, 64} /\ d8 \in {0, 128}
  OBVIOUS
<1>2. Xor(a, k) = d1 + d2 + d3 + d4 + d5 + d6 + d7 + d8
  BY DEF Xor
<1> HIDE DEF d1, d2, d3, d4, d5, d6, d7, d8
<1>3. QED
  BY <1>1, <1>2 DEF Byte

(* A deciphered byte is a byte.                                             *)
LEMMA DecryptType ==
    ASSUME NEW s, NEW len \in Nat, DOMAIN s = 1 .. len
    PROVE  decrypt_utf_scalar(s) \in Seq(Byte) /\ Len(decrypt_utf_scalar(s)) = len
<1> DEFINE f == decrypt_utf_scalar(s)
<1>1. f = [k \in 1 .. len |-> Xor(s[k], (95 * Power21[k - 1]) % 256)]
  BY DEF decrypt_utf_scalar
<1>2. f \in [1 .. len -> Byte]
  BY <1>1, XorType
<1> HIDE DEF f
<1>3. f \in Seq(Byte)
  BY <1>2, SeqDef
<1>4. Len(f) = len
  BY <1>2, <1>3, LenProperties
<1>5. QED
  BY <1>3, <1>4 DEF f

(* TableContainer::new gives no more bytes than follow the header of the    *)
(* chunk.                                                                   *)
LEMMA ContainerType ==
    ASSUME NEW stream \in Seq(Byte)
    PROVE  LET c == TableContainer(stream) IN
           /\ c.table \in Seq(Byte)
           /\ c.table = <<>> \/ Len(c.table) <= Len(stream) - CPK_CHUNK_HEADER_SIZE
<1> DEFINE c == TableContainer(stream)
           L == Len(stream)
           kind == from_magic(SubSeq(stream, 1, 4))
           size == Number(Reverse(Sub(stream, 8, 16)))
           table == Sub(stream, 16, 16 + size)
           plain == IF stream[5] = 0 THEN decrypt_utf_scalar(table) ELSE table
<1>1. c = IF L < CPK_CHUNK_HEADER_SIZE THEN NoContainer
          ELSE IF \/ size < HEADER_SIZE
                  \/ kind = "Cpk" /\ size + CPK_CHUNK_HEADER_SIZE > HeaderArea
                  \/ size > L - CPK_CHUNK_HEADER_SIZE
          THEN NoContainer
          ELSE IF SubSeq(plain, 1, 4) # <<64, 85, 84, 70>> THEN NoContainer
          ELSE [kind |-> kind, table |-> plain]
  BY DEF TableContainer
<1>2. L \in Nat
  BY LenProperties
<1>3. NoContainer.table = <<>> /\ <<>> \in Seq(Byte)
  BY DEF NoContainer
<1>4. ASSUME ~(L < CPK_CHUNK_HEADER_SIZE)
      PROVE  size \in Nat
  <2>1. 8 \in Nat /\ 16 \in Nat /\ 16 <= Len(stream)
    BY <1>2, <1>4 DEF CPK_CHUNK_HEADER_SIZE
  <2>2. Sub(stream, 8, 16) \in Seq(Byte)
    BY <2>1, SubType
  <2> DEFINE u == Sub(stream, 8, 16)
             r == Reverse(u)
  <2>3. Len(u) \in Nat /\ \A k \in 1 .. Len(u) : u[k] \in Byte
    BY <2>2, LenProperties, ElementOfSeq
  <2>4. r = [k \in 1 .. Len(u) |-> u[Len(u) - k + 1]]
    BY DEF Reverse
  <2> HIDE DEF u
  <2>5. r \in [1 .. Len(u) -> Byte]
    <3>1. \A k \in 1 .. Len(u) : Len(u) - k + 1 \in 1 .. Len(u)
      BY <2>3
    <3>2. QED
      BY <2>3, <2>4, <3>1
  <2> HIDE DEF r
  <2>6. r \in Seq(Byte)
    BY <2>3, <2>5, SeqDef
  <2>7. QED
    BY <2>6, NumberType DEF r, u
<1> HIDE DEF size
<1>5. ASSUME ~(L < CPK_CHUNK_HEADER_SIZE), ~(size > L - CPK_CHUNK_HEADER_SIZE)
      PROVE  plain \in Seq(Byte) /\ Len(plain) = size /\ size <= L - CPK_CHUNK_HEADER_SIZE
  <2>0. size \in Nat /\ L \in Nat /\ ~(size > L - 16)
    BY <1>2, <1>4, <1>5 DEF CPK_CHUNK_HEADER_SIZE
  <2> HIDE DEF L
  <2> DEFINE end == 16 + size
  <2>b. end \in Nat /\ 16 \in Nat /\ 16 <= end /\ end - 16 = size /\ end <= L
    BY <2>0
  <2> HIDE DEF end
  <2>1. end <= Len(stream)
    BY <2>b DEF L
  <2>c. Sub(stream, 16, end) \in Seq(Byte) /\ Len(Sub(stream, 16, end)) = end - 16
    <3> DEFINE z == 16
    <3>1. z \in Nat /\ z <= end /\ end \in Nat
      BY <2>b
    <3> HIDE DEF z
    <3>2. Sub(stream, z, end) \in Seq(Byte)
      BY <2>1, <3>1, SubType
    <3>3. Len(Sub(stream, z, end)) = end - z
      BY <2>1, <3>1, <3>2, SubLen
    <3>4. QED
      BY <3>2, <3>3 DEF z
  <2>2. table \in Seq(Byte) /\ Len(table) = end - 16
    BY <2>c DEF end
  <2>3. Len(table) = size
    BY <2>b, <2>2
  <2> HIDE DEF table
  <2>4. DOMAIN table = 1 .. size
    BY <2>2, <2>3, LenProperties
  <2>5. decrypt_utf_scalar(table) \in Seq(Byte) /\ Len(decrypt_utf_scalar(table)) = size
    BY <2>0, <2>4, DecryptType
  <2>6. plain \in Seq(Byte) /\ Len(plain) = size
    BY <2>2, <2>3, <2>5
  <2>7. size <= L - CPK_CHUNK_HEADER_SIZE
    BY <1>2, <1>5, <2>0 DEF CPK_CHUNK_HEADER_SIZE
  <2>8. QED
    BY <2>6, <2>7
<1> HIDE DEF table, plain, kind
<1>6. c = NoContainer \/ (c.table = plain /\ ~(L < CPK_CHUNK_HEADER_SIZE)
                          /\ ~(size > L - CPK_CHUNK_HEADER_SIZE))
  BY <1>1
<1> HIDE DEF c
<1>7. c.table \in Seq(Byte) /\ (c.table = <<>> \/ Len(c.table) <= L - CPK_CHUNK_HEADER_SIZE)
  BY <1>3, <1>5, <1>6
<1>8. QED
  BY <1>7 DEF c, L

(* What ReadTable makes of any bytes is contained in them.                  *)
LEMMA ReadTableContained ==
    ASSUME NEW stream \in Seq(Byte), NEW kind
    PROVE  Contained(ReadTable(stream, kind), Len(stream) - CPK_CHUNK_HEADER_SIZE)
<1> DEFINE c == TableContainer(stream)
           b == c.table
           M == Len(stream) - CPK_CHUNK_HEADER_SIZE
           h == HighTable(b)
<1>1. b \in Seq(Byte) /\ (b = <<>> \/ Len(b) <= M)
  BY ContainerType
<1>2. ReadTable(stream, kind) = IF b = <<>> \/ c.kind # kind THEN Rejected ELSE h
  BY DEF ReadTable
<1>3. M \in Int
  BY LenProperties DEF CPK_CHUNK_HEADER_SIZE
<1>4. Contained(h, Len(b))
  BY <1>1, HighTableContained
<1> HIDE DEF b, c, M, h
<1>5. Len(b) \in Nat
  BY <1>1, LenProperties
<1>6. ASSUME b # <<>>, h.outcome # "error"
      PROVE  Contained(h, M)
  <2> DEFINE A == Len(h.alloc)
  <2>1. CASE h.outcome = "table"
    <3>1. A \in 0 .. Len(b) /\ Len(b) <= M
      BY <1>1, <1>4, <1>6, <2>1 DEF Contained
    <3>2. A \in 0 .. M
      BY <1>3, <1>5, <3>1
    <3>3. QED
      BY <1>4, <1>6, <2>1, <3>2 DEF Contained
  <2>2. CASE h.outcome = "abort"
    <3>1. MaxRows < Len(b) => MaxRows < M
      BY <1>1, <1>3, <1>5, <1>6, MemoryAssumption
    <3>2. QED
      BY <1>4, <2>2, <3>1 DEF Contained
  <2>3. QED
    BY <1>4, <1>6, <2>1, <2>2 DEF Contained
<1>7. Contained(Rejected, M)
  BY RejectedContained
<1>8. b # <<>> => Contained(h, M)
  <2>1. h.outcome = "error" => Contained(h, M)
    BY DEF Contained
  <2>2. QED
    BY <1>6, <2>1
<1>9. QED
  BY <1>2, <1>7, <1>8 DEF M

-----------------------------------------------------------------------------
(* Sequences put one after the other.                                       *)

(* The recursive definition of FlattenSeq has the value it says.            *)
LEMMA FlattenStep ==
    ASSUME NEW q, NEW N \in Nat \ {0}, Len(q) = N
    PROVE  \E f : /\ FlattenSeq(q) = f[N] /\ f[1] = q[1]
                  /\ \A i \in 1 .. N - 1 : f[i + 1] = f[i] \o q[i + 1]
<1> DEFINE Good(m, g) == g = [n \in 1 .. m |-> IF n = 1 THEN q[n] ELSE g[n - 1] \o q[n]]
           S == {m \in 0 .. N : \E g : Good(m, g)}
<1>1. 0 \in S
  <2> DEFINE g == [n \in 1 .. 0 |-> q[n]]
  <2>1. g = [n \in 1 .. 0 |-> IF n = 1 THEN q[n] ELSE g[n - 1] \o q[n]]
    OBVIOUS
  <2> HIDE DEF g
  <2>2. Good(0, g)
    BY <2>1
  <2> HIDE DEF Good
  <2>3. QED
    BY <2>2
<1>2. ASSUME NEW m \in 0 .. N - 1, m \in S PROVE m + 1 \in S
  <2>0. PICK g : Good(m, g)
    <3> HIDE DEF Good
    <3>1. QED
      BY <1>2
  <2>1. g = [n \in 1 .. m |-> IF n = 1 THEN q[n] ELSE g[n - 1] \o q[n]]
    BY <2>0
  <2> DEFINE f == [n \in 1 .. m + 1 |->
                    IF n = m + 1 THEN (IF n = 1 THEN q[n] ELSE g[m] \o q[m + 1]) ELSE g[n]]
  <2>2. ASSUME NEW n \in 1 .. m + 1
        PROVE  f[n] = IF n = 1 THEN q[n] ELSE f[n - 1] \o q[n]
    <3>1. CASE n = m + 1
      <4>1. n # 1 => n - 1 = m /\ m \in 1 .. m + 1 /\ m # m + 1
        BY <3>1
      <4>2. n # 1 => f[n - 1] = g[m] /\ f[n] = g[m] \o q[n]
        BY <3>1, <4>1
      <4>3. n = 1 => f[n] = q[n]
        BY <3>1
      <4> HIDE DEF f
      <4>4. QED
        BY <4>2, <4>3
    <3>2. CASE n # m + 1
      <4>1. n \in 1 .. m /\ f[n] = g[n]
        BY <3>2
      <4>2. g[n] = IF n = 1 THEN q[n] ELSE g[n - 1] \o q[n]
        BY <2>1, <4>1
      <4>3. n # 1 => f[n - 1] = g[n - 1]
        BY <4>1
      <4> HIDE DEF f
      <4>4. QED
        BY <4>1, <4>2, <4>3
    <3>3. QED
      BY <3>1, <3>2
  <2>3. f = [n \in 1 .. m + 1 |-> IF n = 1 THEN q[n] ELSE f[n - 1] \o q[n]]
    <3>1. f = [n \in 1 .. m + 1 |-> f[n]]
      OBVIOUS
    <3> HIDE DEF f
    <3>2. QED
      BY <2>2, <3>1
  <2> HIDE DEF f
  <2>4. Good(m + 1, f)
    BY <2>3
  <2> HIDE DEF Good
  <2>5. m + 1 \in 0 .. N
    OBVIOUS
  <2>6. QED
    BY <2>4, <2>5
<1>3. N \in S
  <2> HIDE DEF S
  <2>1. 0 .. N \subseteq S
    BY <1>1, <1>2, UpTo
  <2>2. QED
    BY <2>1
<1> DEFINE flatten == CHOOSE g : g = [n \in 1 .. Len(q) |-> IF n = 1 THEN q[n] ELSE g[n - 1] \o q[n]]
<1>5. FlattenSeq(q) = flatten[N]
  BY DEF FlattenSeq
<1>4. Good(N, flatten)
  <2>1. \E g : Good(N, g)
    <3> HIDE DEF Good
    <3>1. QED
      BY <1>3
  <2>2. flatten = CHOOSE g : Good(N, g)
    OBVIOUS
  <2> HIDE DEF Good, flatten
  <2>3. QED
    BY <2>1, <2>2
<1> HIDE DEF flatten
<1>6. ASSUME NEW n \in 1 .. N
      PROVE  flatten[n] = IF n = 1 THEN q[n] ELSE flatten[n - 1] \o q[n]
  BY <1>4
<1>7. flatten[1] = q[1]
  BY <1>6
<1>8. ASSUME NEW i \in 1 .. N - 1 PROVE flatten[i + 1] = flatten[i] \o q[i + 1]
  <2>1. i + 1 \in 1 .. N /\ i + 1 # 1 /\ (i + 1) - 1 = i
    OBVIOUS
  <2>2. QED
    BY <1>6, <2>1
<1>9. QED
  BY <1>5, <1>7, <1>8

(* Sequences over S give one over S, as long as all of them: the elements   *)
(* of each come after those of the ones before it.                          *)
Lengths(q, N) == [n \in 1 .. N |-> Len(q[n])]
Flattened(S, N, q) ==
    /\ FlattenSeq(q) \in Seq(S) /\ Len(FlattenSeq(q)) = Total(Lengths(q, N))
    /\ \A n \in 0 .. N : Sums(Lengths(q, N))[n] \in 0 .. Total(Lengths(q, N))
    /\ \A n \in 1 .. N : Sums(Lengths(q, N))[n] = Sums(Lengths(q, N))[n - 1] + Len(q[n])
    /\ \A n \in 1 .. N : \A k \in 1 .. Len(q[n]) :
        FlattenSeq(q)[Sums(Lengths(q, N))[n - 1] + k] = q[n][k]
(* FlattenSeq of n pieces lays them one after the other.                    *)
LEMMA FlattenFacts ==
    ASSUME NEW S, NEW N \in Nat, NEW q, Len(q) = N, N = 0 => q = <<>>,
           \A n \in 1 .. N : q[n] \in Seq(S)
    PROVE  Flattened(S, N, q)
<1> DEFINE h == Lengths(q, N)
<1>1. /\ Len(h) = N /\ \A n \in 1 .. N : h[n] = Len(q[n]) /\ h[n] \in Nat
  BY LenProperties DEF Lengths
<1> HIDE DEF h
<1>2. /\ Sums(h)[0] = 0 /\ \A n \in 1 .. N : Sums(h)[n] = Sums(h)[n - 1] + h[n]
      /\ \A n \in 0 .. N : Sums(h)[n] \in Nat
  BY <1>1, SumsFacts
<1> DEFINE s == Sums(h)
<1>a. /\ s[0] = 0 /\ \A n \in 1 .. N : s[n] = s[n - 1] + Len(q[n])
      /\ \A n \in 0 .. N : s[n] \in Nat
      /\ \A n \in 1 .. N : Len(q[n]) \in Nat
  BY <1>1, <1>2
<1>b. Total(h) = s[N]
  BY <1>1 DEF Total
<1> HIDE DEF s
<1>3. CASE N = 0
  <2>1. FlattenSeq(q) = <<>>
    BY <1>3 DEF FlattenSeq
  <2>2. Total(h) = 0
    BY <1>3, <1>a, <1>b
  <2>3. \A n \in 0 .. N : s[n] \in 0 .. Total(h)
    BY <1>3, <1>a, <2>2
  <2>4. QED
    BY <1>3, <2>1, <2>2, <2>3, <1>a DEF h, s, Flattened
<1>4. CASE N # 0
  <2>0. N \in Nat \ {0}
    BY <1>4
  <2>1. PICK f : /\ FlattenSeq(q) = f[N] /\ f[1] = q[1]
                 /\ \A i \in 1 .. N - 1 : f[i + 1] = f[i] \o q[i + 1]
    BY <2>0, FlattenStep
  <2> DEFINE Good(m) == /\ f[m] \in Seq(S) /\ Len(f[m]) = s[m]
                        /\ \A n \in 0 .. m : s[n] <= s[m]
                        /\ \A n \in 1 .. m : \A k \in 1 .. Len(q[n]) : f[m][s[n - 1] + k] = q[n][k]
             G == {m \in 0 .. N : m = 0 \/ Good(m)}
  <2>2. 0 \in G
    OBVIOUS
  <2>3. ASSUME NEW m \in 0 .. N - 1, m \in G PROVE Good(m + 1)
    <3>1. CASE m = 0
      <4>1. 1 \in 1 .. N /\ 1 - 1 = 0
        BY <1>4
      <4>2. q[1] \in Seq(S) /\ Len(q[1]) \in Nat /\ s[1] = Len(q[1])
        BY <1>a, <4>1
      <4>3. f[1] \in Seq(S) /\ Len(f[1]) = s[1]
        BY <2>1, <4>2
      <4>4. \A n \in 0 .. 1 : s[n] <= s[1]
        BY <1>a, <4>2
      <4>5. \A n \in 1 .. 1 : \A k \in 1 .. Len(q[n]) : f[1][s[n - 1] + k] = q[n][k]
        BY <1>a, <2>1, <4>1, <4>2
      <4>6. Good(1)
        BY <4>3, <4>4, <4>5
      <4> HIDE DEF Good
      <4>7. QED
        BY <3>1, <4>6
    <3>2. CASE m # 0
      <4>1. m \in 1 .. N - 1 /\ m + 1 \in 1 .. N /\ (m + 1) - 1 = m
        BY <3>2
      <4>2. Good(m)
        BY <2>3, <3>2
      <4> DEFINE a == f[m]
                 b == q[m + 1]
      <4>x. a \in Seq(S) /\ b \in Seq(S) /\ Len(a) = s[m]
        BY <4>1, <4>2
      <4>y. s[m + 1] = s[m] + Len(b) /\ s[m] \in Nat /\ Len(b) \in Nat
        <5>1. s[m + 1] = s[(m + 1) - 1] + Len(q[m + 1]) /\ Len(q[m + 1]) \in Nat
          BY <1>a, <4>1
        <5>2. s[m] \in Nat
          BY <1>a, <4>1
        <5>3. QED
          BY <4>1, <5>1, <5>2
      <4>z. f[m + 1] = a \o b
        BY <2>1, <4>1
      <4>3. a \in Seq(S) /\ b \in Seq(S) /\ Len(a) = s[m] /\ s[m + 1] = s[m] + Len(b)
            /\ s[m] \in Nat /\ Len(b) \in Nat /\ f[m + 1] = a \o b /\ b = q[m + 1]
        BY <4>x, <4>y, <4>z
      <4>4. /\ \A n \in 0 .. m : s[n] <= s[m]
            /\ \A n \in 1 .. m : \A k \in 1 .. Len(q[n]) : a[s[n - 1] + k] = q[n][k]
        BY <4>2
      <4> HIDE DEF Good, a, b
      <4>5. /\ a \o b \in Seq(S) /\ Len(a \o b) = Len(a) + Len(b)
            /\ \A i \in 1 .. Len(a) + Len(b) : (a \o b)[i] = IF i <= Len(a) THEN a[i] ELSE b[i - Len(a)]
        BY <4>3, ConcatProperties
      <4>6. f[m + 1] \in Seq(S) /\ Len(f[m + 1]) = s[m + 1]
        BY <4>3, <4>5
      <4>7. \A n \in 0 .. m + 1 : s[n] <= s[m + 1]
        <5>1. ASSUME NEW n \in 0 .. m + 1 PROVE s[n] <= s[m + 1]
          <6>1. CASE n = m + 1
            BY <4>1, <1>a, <6>1, SMTT(30)
          <6>2. CASE n # m + 1
            <7>1. n \in 0 .. m /\ n \in 0 .. N
              BY <4>1, <6>2
            <7>2. s[n] <= s[m] /\ s[n] \in Nat
              BY <1>a, <4>4, <7>1
            <7>3. QED
              BY <4>3, <7>2, SMTT(30)
          <6>3. QED
            BY <6>1, <6>2
        <5>2. QED
          BY <5>1
      <4>8. ASSUME NEW n \in 1 .. m + 1, NEW k \in 1 .. Len(q[n])
            PROVE  f[m + 1][s[n - 1] + k] = q[n][k]
        <5>1. CASE n = m + 1
          <6>1. k \in 1 .. Len(b) /\ s[n - 1] = s[m]
            BY <4>1, <4>3, <5>1
          <6> DEFINE z == s[m]
                     u == Len(a)
                     l == Len(b)
                     c == z + k
          <6>2. u = z /\ z \in Nat /\ l \in Nat /\ k \in 1 .. l
            BY <4>3, <6>1
          <6>3. \A i \in 1 .. u + l : (a \o b)[i] = IF i <= u THEN a[i] ELSE b[i - u]
            BY <4>5
          <6>4. q[n][k] = b[k] /\ f[m + 1] = a \o b /\ s[n - 1] = z
            BY <4>3, <5>1, <6>1
          <6> HIDE DEF z, u, l
          <6>5. c \in 1 .. u + l /\ ~(c <= u) /\ c - u = k
            BY <6>2
          <6> HIDE DEF c
          <6>6. (a \o b)[c] = b[k]
            BY <6>3, <6>5
          <6>7. QED
            BY <6>4, <6>6 DEF c
        <5>2. CASE n # m + 1
          <6>1. n \in 1 .. m /\ n \in 1 .. N /\ n - 1 \in 0 .. N
            BY <4>1, <5>2
          <6> DEFINE l == Len(q[n])
                     z == s[n - 1]
                     y == s[n]
          <6>2. l \in Nat /\ z \in Nat /\ y = z + l /\ y <= s[m] /\ k \in 1 .. l
            BY <1>a, <4>4, <6>1
          <6>3. a[z + k] = q[n][k]
            BY <4>4, <6>1
          <6> HIDE DEF l, z, y
          <6> DEFINE u == Len(a)
                     w == Len(b)
          <6>a. u \in Nat /\ w \in Nat /\ s[m] = u
            BY <4>3
          <6> HIDE DEF u, w
          <6>4. z + k \in 1 .. Len(a) + Len(b) /\ z + k <= Len(a)
            <7>1. z + k \in 1 .. u + w /\ z + k <= u
              BY <6>2, <6>a
            <7>2. QED
              BY <7>1 DEF u, w
          <6>5. (a \o b)[z + k] = a[z + k]
            BY <4>5, <6>4
          <6>6. QED
            BY <4>3, <6>3, <6>5 DEF z
        <5>3. QED
          BY <5>1, <5>2
      <4>9. QED
        BY <4>6, <4>7, <4>8 DEF Good
    <3>3. QED
      BY <3>1, <3>2
  <2>4. 0 .. N \subseteq G
    <3>1. ASSUME NEW m \in 0 .. N - 1, m \in G PROVE m + 1 \in G
      <4>1. Good(m + 1)
        BY <2>3, <3>1
      <4>2. m + 1 \in 0 .. N
        OBVIOUS
      <4> HIDE DEF Good
      <4>3. QED
        BY <4>1, <4>2
    <3> HIDE DEF G
    <3>2. QED
      BY <2>2, <3>1, UpTo
  <2>5. Good(N)
    <3>1. N \in G
      BY <2>4
    <3> HIDE DEF Good
    <3>2. QED
      BY <1>4, <3>1
  <2>6. \A n \in 0 .. N : s[n] \in 0 .. s[N]
    BY <1>a, <2>5
  <2>7. /\ FlattenSeq(q) \in Seq(S) /\ Len(FlattenSeq(q)) = Total(h)
        /\ \A n \in 0 .. N : s[n] \in 0 .. Total(h)
        /\ \A n \in 1 .. N : s[n] = s[n - 1] + Len(q[n])
        /\ \A n \in 1 .. N : \A k \in 1 .. Len(q[n]) : FlattenSeq(q)[s[n - 1] + k] = q[n][k]
    BY <1>a, <1>b, <2>1, <2>5, <2>6
  <2>8. QED
    BY <2>7 DEF h, s, Flattened
<1>5. QED
  BY <1>3, <1>4

(* The same for a sequence given by its elements.                           *)
LEMMA FlattenOf ==
    ASSUME NEW S, NEW N \in Nat, NEW q, q = [n \in 1 .. N |-> q[n]],
           \A n \in 1 .. N : q[n] \in Seq(S)
    PROVE  Flattened(S, N, q)
<1>1. q \in [1 .. N -> Seq(S)]
  OBVIOUS
<1>2. q \in Seq(Seq(S)) /\ Len(q) = N
  <2>1. q \in Seq(Seq(S))
    BY <1>1, SeqDef
  <2>2. DOMAIN q = 1 .. N
    BY <1>1
  <2>3. QED
    BY <2>1, <2>2, LenProperties
<1>3. N = 0 => q = <<>>
  BY <1>2, EmptySeq
<1>4. QED
  BY <1>2, <1>3, FlattenFacts

(* A sequence of the sequences over a set is one over the larger set.       *)
LEMMA Wider ==
    ASSUME NEW A, NEW B, A \subseteq B, NEW s \in Seq(A)
    PROVE  s \in Seq(B)
<1>1. Len(s) \in Nat /\ s \in [1 .. Len(s) -> A]
  BY LenProperties
<1>2. s \in [1 .. Len(s) -> B]
  BY <1>1
<1>3. QED
  BY <1>1, <1>2, SeqDef

(* Every byte of a number is one.                                           *)
LEMMA ByteOfType == \A v \in Int : \A p : ByteOf(v, p) \in Byte
<1> SUFFICES ASSUME NEW v \in Int, NEW p PROVE ByteOf(v, p) \in Byte
  OBVIOUS
<1>1. \A x \in Int : x % 256 \in Byte
  BY DEF Byte
<1>2. v \in Int /\ v \div 256 \in Int /\ v \div 65536 \in Int /\ v \div 16777216 \in Int
  OBVIOUS
<1> DEFINE a == v % 256
           b == (v \div 256) % 256
           c == (v \div 65536) % 256
           d == (v \div 16777216) % 256
<1>3. a \in Byte /\ b \in Byte /\ c \in Byte /\ d \in Byte /\ 0 \in Byte
  BY <1>1, <1>2 DEF Byte
<1>4. ByteOf(v, p) = CASE p = 0 -> a [] p = 1 -> b [] p = 2 -> c [] p = 3 -> d [] OTHER -> 0
  BY DEF ByteOf
<1> HIDE DEF a, b, c, d
<1>5. QED
  BY <1>3, <1>4

(* A number is written as bytes.                                            *)
LEMMA BigEndianType ==
    ASSUME NEW v \in Int, NEW w \in Nat
    PROVE  BigEndian(v, w) \in Seq(Byte) /\ Len(BigEndian(v, w)) = w
<1> DEFINE f == BigEndian(v, w)
<1>1. f \in [1 .. w -> Byte]
  BY ByteOfType DEF BigEndian
<1> HIDE DEF f
<1>2. f \in Seq(Byte)
  BY <1>1, SeqDef
<1>3. QED
  BY <1>1, <1>2, LenProperties DEF f

(* Zeros are bytes.                                                         *)
LEMMA ZerosType ==
    ASSUME NEW n \in Nat
    PROVE  [k \in 1 .. n |-> 0] \in Seq(Byte) /\ Len([k \in 1 .. n |-> 0]) = n
<1> DEFINE f == [k \in 1 .. n |-> 0]
<1>1. f \in [1 .. n -> Byte]
  BY DEF Byte
<1>2. DOMAIN f = 1 .. n
  OBVIOUS
<1> HIDE DEF f
<1>3. f \in Seq(Byte)
  BY <1>1, SeqDef
<1>4. Len(f) = n
  BY <1>2, <1>3, LenProperties
<1>5. QED
  BY <1>3, <1>4 DEF f

-----------------------------------------------------------------------------
(* What is interned.                                                       *)

(* The pool of the first n strings is bytes.                                *)
LEMMA PoolType ==
    ASSUME NEW strings \in Seq(Seq(Char)), NEW n \in 0 .. Len(strings)
    PROVE  PoolPart(strings, n) \in Seq(Byte)
<1> DEFINE q == [i \in 1 .. n |-> IF IsFirst(strings, i) THEN Append(strings[i], 0) ELSE <<>>]
<1>1. n \in Nat /\ Len(strings) \in Nat
  BY LenProperties
<1>2. \A i \in 1 .. n : q[i] \in Seq(Byte)
  <2>1. ASSUME NEW i \in 1 .. n PROVE q[i] \in Seq(Byte)
    <3>1. i \in 1 .. Len(strings)
      BY <1>1
    <3>a. strings[i] \in Seq(Char)
      BY <3>1, ElementOfSeq
    <3>b. Char \subseteq Byte /\ 0 \in Byte
      BY DEF Byte, Char
    <3>2. strings[i] \in Seq(Byte) /\ 0 \in Byte
      BY <3>a, <3>b, Wider
    <3>3. Append(strings[i], 0) \in Seq(Byte)
      BY <3>2, AppendProperties
    <3>4. QED
      BY <3>3
  <2>2. QED
    BY <2>1
<1>3. q = [i \in 1 .. n |-> q[i]]
  OBVIOUS
<1>4. PoolPart(strings, n) = <<0>> \o FlattenSeq(q)
  BY DEF PoolPart
<1> HIDE DEF q
<1>5. FlattenSeq(q) \in Seq(Byte)
  <2>1. Flattened(Byte, n, q)
    BY <1>1, <1>2, <1>3, FlattenOf
  <2>2. QED
    BY <2>1 DEF Flattened
<1>6. <<0>> \in Seq(Byte)
  BY DEF Byte
<1>7. QED
  BY <1>4, <1>5, <1>6, ConcatProperties

(* A string that is not empty has a first place.                            *)
LEMMA FirstPlace ==
    ASSUME NEW strings \in Seq(Seq(Char)), NEW j \in 1 .. Len(strings), strings[j] # <<>>
    PROVE  \E i \in 1 .. j : strings[i] = strings[j] /\ IsFirst(strings, i)
<1> DEFINE T == {n \in Nat : n \in 1 .. j /\ strings[n] = strings[j]}
<1>1. Len(strings) \in Nat
  BY LenProperties
<1>2. j \in T
  BY <1>1
<1>3. PICK i \in T : \A m \in T : i <= m
  BY <1>2, LeastNatural
<1>4. ASSUME NEW m \in 1 .. i - 1 PROVE strings[m] # strings[i]
  <2>1. m \in Nat /\ m \in 1 .. j /\ i \in Nat /\ ~(i <= m) /\ strings[i] = strings[j]
    BY <1>1, <1>3, SMTT(30)
  <2>2. m \notin T
    BY <1>3, <2>1
  <2>3. QED
    BY <2>1, <2>2
<1>5. i \in 1 .. j /\ strings[i] = strings[j]
  BY <1>3
<1>6. IsFirst(strings, i)
  BY <1>4, <1>5 DEF IsFirst
<1>7. QED
  BY <1>5, <1>6

(* The offset of a string that was interned is a natural number.            *)
LEMMA InternType ==
    ASSUME NEW strings \in Seq(Seq(Char)), NEW j \in 1 .. Len(strings)
    PROVE  intern_string(strings, strings[j]) \in Nat
<1>1. CASE strings[j] = <<>>
  BY <1>1 DEF intern_string
<1>2. CASE strings[j] # <<>>
  <2> DEFINE i == CHOOSE i \in DOMAIN strings : strings[i] = strings[j] /\ IsFirst(strings, i)
  <2>1. DOMAIN strings = 1 .. Len(strings) /\ Len(strings) \in Nat
    BY LenProperties
  <2>2. \E k \in DOMAIN strings : strings[k] = strings[j] /\ IsFirst(strings, k)
    <3>1. PICK k \in 1 .. j : strings[k] = strings[j] /\ IsFirst(strings, k)
      BY <1>2, FirstPlace
    <3>2. k \in DOMAIN strings
      BY <2>1
    <3>3. QED
      BY <3>1, <3>2
  <2>3. i \in DOMAIN strings
    BY <2>2
  <2>4. intern_string(strings, strings[j]) = Len(PoolPart(strings, i - 1))
    BY <1>2 DEF intern_string
  <2> HIDE DEF i
  <2>5. i - 1 \in 0 .. Len(strings)
    BY <2>1, <2>3
  <2>6. PoolPart(strings, i - 1) \in Seq(Byte)
    BY <2>5, PoolType
  <2>7. QED
    BY <2>4, <2>6, LenProperties
<1>3. QED
  BY <1>1, <1>2

-----------------------------------------------------------------------------
(* The parts of a table.                                                    *)

Types == {"Byte", "SByte", "UInt16", "Int16", "UInt32", "Int32", "UInt64", "Int64",
          "Single", "Double", "String", "Data", "Guid"}
Numeric == Types \ {"String", "Data", "Guid"}

(* A flag whose type is not invalid has one of the thirteen types.          *)
LEMMA TypeFacts ==
    ASSUME NEW flag \in Nat, get_type(flag) # "Invalid"
    PROVE  get_type(flag) \in Types
<1> DEFINE N == 13
           k == 1 + (flag % 16)
<1>1. N \in Nat /\ Len(TypeNames) = N /\ DOMAIN TypeNames = 1 .. N
  BY DEF TypeNames
<1>2. flag % 16 \in Nat
  OBVIOUS
<1>3. flag % 16 < Len(TypeNames) /\ get_type(flag) = TypeNames[k]
  BY DEF get_type
<1>4. k \in 1 .. 13
  BY <1>1, <1>2, <1>3
<1> HIDE DEF k
<1>5. TypeNames[k] \in Types
  BY <1>4 DEF TypeNames, Types
<1>6. QED
  BY <1>3, <1>5

(* No value takes more than sixteen bytes.                                  *)
LEMMA SizeType == \A type : get_size(type) \in 0 .. 16
BY DEF get_size

(* What a value of a type is.                                               *)
LEMMA ValueFacts ==
    ASSUME NEW type \in Types, NEW v, IsValue(type, v)
    PROVE  /\ v.type = type /\ v = Value(type, v.v)
           /\ type = "String" => v.v \in Seq(Char)
           /\ type = "Data" => v.v \in Seq(Byte)
           /\ type = "Guid" => v.v \in Seq(Byte) /\ Len(v.v) = 16
           /\ type \in Numeric => v.v \in Nat /\ v.v <= Limit(type) /\ Limit(type) \in Nat
<1>0. v = Value(type, v.v)
  BY DEF IsValue
<1>1. v.type = type
  <2>1. Value(type, v.v).type = type
    BY DEF Value
  <2>2. QED
    BY <1>0, <2>1
<1>2. Limit(type) \in Nat
  BY DEF Limit, Huge
<1>3. CASE type = "String"
  BY <1>1, <1>3 DEF IsValue, Numeric
<1>4. CASE type = "Data"
  BY <1>1, <1>4 DEF IsValue, Numeric
<1>5. CASE type = "Guid"
  BY <1>1, <1>5 DEF IsValue, Numeric
<1>6. CASE type \notin {"String", "Data", "Guid"}
  <2>1. v.v \in 0 .. Limit(type)
    BY <1>6 DEF IsValue
  <2>2. QED
    BY <1>0, <1>1, <1>2, <1>6, <2>1
<1>7. QED
  BY <1>0, <1>3, <1>4, <1>5, <1>6

(* The columns with row storage, in their order.                            *)
LEMMA StoredFacts ==
    ASSUME NEW t, IsTable(t)
    PROVE  /\ Len(t.columns) \in Nat /\ Columns(t) = 1 .. Len(t.columns)
           /\ Len(t.rows) \in Nat /\ DOMAIN t.rows = 1 .. Len(t.rows)
           /\ Len(Stored(t)) \in Nat /\ DOMAIN Stored(t) = 1 .. Len(Stored(t))
           /\ \A k \in DOMAIN Stored(t) :
                /\ Stored(t)[k] \in Columns(t)
                /\ Has(t.columns[Stored(t)[k]].flag, ROW_STORAGE)
<1> DEFINE n == Len(t.columns)
           P == {c \in Columns(t) : Has(t.columns[c].flag, ROW_STORAGE)}
           f == [c \in Columns(t) |-> c]
<1>1. n \in Nat /\ Columns(t) = 1 .. n
  BY LenProperties DEF IsTable, Columns
<1>2. Len(t.rows) \in Nat /\ DOMAIN t.rows = 1 .. Len(t.rows)
  BY LenProperties DEF IsTable
<1>3. P \in SUBSET (1 .. n)
  BY <1>1
<1>4. Stored(t) = Kept(f, P)
  BY DEF Stored
<1> HIDE DEF n, P, f
<1>5. /\ Cardinality(P) \in Nat
      /\ DOMAIN Kept(f, P) = 1 .. Cardinality(P) /\ Len(Kept(f, P)) = Cardinality(P)
      /\ \A k \in 1 .. Cardinality(P) : Nth(P, k) \in P /\ Kept(f, P)[k] = f[Nth(P, k)]
  BY <1>1, <1>3, KeptFacts
<1>6. \A c \in P : f[c] = c
  BY <1>1, <1>3 DEF f
<1>7. \A k \in 1 .. Cardinality(P) : Stored(t)[k] \in P
  BY <1>4, <1>5, <1>6
<1>8. QED
  BY <1>1, <1>2, <1>4, <1>5, <1>7 DEF P, n

(* A stored value is one of the type of its column.                         *)
LEMMA StoredValue ==
    ASSUME NEW t, IsTable(t), NEW r \in DOMAIN t.rows, NEW k \in DOMAIN Stored(t)
    PROVE  LET c == Stored(t)[k] IN
           c \in Columns(t) /\ TypeOf(t, c) \in Types /\ IsValue(TypeOf(t, c), t.rows[r][c])
<1> DEFINE c == Stored(t)[k]
<1>1. c \in Columns(t) /\ Has(t.columns[c].flag, ROW_STORAGE)
  BY StoredFacts
<1> HIDE DEF c
<1>2. IsColumn(t.columns[c]) /\ IsValue(TypeOf(t, c), t.rows[r][c])
  BY <1>1 DEF IsTable
<1>3. TypeOf(t, c) \in Types
  <2> DEFINE flag == t.columns[c].flag
  <2>a. flag \in 0 .. 127 /\ get_type(flag) # "Invalid"
    BY <1>2 DEF IsColumn
  <2>b. TypeOf(t, c) = get_type(flag)
    BY DEF TypeOf
  <2> HIDE DEF flag
  <2>1. flag \in Nat /\ get_type(flag) # "Invalid" /\ TypeOf(t, c) = get_type(flag)
    BY <2>a, <2>b
  <2>2. QED
    BY <2>1, TypeFacts
<1>4. QED
  BY <1>1, <1>2, <1>3 DEF c

(* Sums of one number over and over are its multiples.                      *)
LEMMA ConstantSums ==
    ASSUME NEW N \in Nat, NEW w \in Nat, NEW h, Len(h) = N, \A n \in 1 .. N : h[n] = w
    PROVE  /\ \A n \in 0 .. N : Sums(h)[n] = n * w
           /\ Total(h) = N * w
<1>1. /\ Sums(h)[0] = 0 /\ \A n \in 1 .. N : Sums(h)[n] = Sums(h)[n - 1] + h[n]
  BY SumsFacts
<1> DEFINE G == {n \in 0 .. N : Sums(h)[n] = n * w}
<1>2. 0 \in G
  BY <1>1
<1>3. ASSUME NEW n \in 0 .. N - 1, n \in G PROVE n + 1 \in G
  <2>1. n + 1 \in 1 .. N /\ (n + 1) - 1 = n
    OBVIOUS
  <2>2. Sums(h)[n + 1] = n * w + w
    BY <1>1, <1>3, <2>1
  <2>3. n * w + w = (n + 1) * w
    OBVIOUS
  <2>4. QED
    BY <2>1, <2>2, <2>3
<1>4. 0 .. N \subseteq G
  <2> HIDE DEF G
  <2>1. QED
    BY <1>2, <1>3, UpTo
<1>5. QED
  BY <1>4 DEF Total

(* The stored values, row by row.                                           *)
Values(t) == {t.rows[r][Stored(t)[k]] : r \in DOMAIN t.rows, k \in DOMAIN Stored(t)}

(* What is stored is a value of some type.                                  *)
LEMMA ValuesType ==
    ASSUME NEW t, IsTable(t), NEW v \in Values(t)
    PROVE  \E type \in Types : IsValue(type, v)
<1>1. PICK r \in DOMAIN t.rows, k \in DOMAIN Stored(t) : v = t.rows[r][Stored(t)[k]]
  BY DEF Values
<1>2. QED
  BY <1>1, StoredValue

(* The fields of all rows, row after row.                                   *)
LEMMA FieldsFacts ==
    ASSUME NEW t, IsTable(t)
    PROVE  LET W == Len(Stored(t))
               N == Len(t.rows)
           IN  /\ Fields(t) \in Seq(Values(t)) /\ Len(Fields(t)) = N * W
               /\ \A r \in 1 .. N, k \in 1 .. W :
                    /\ (r - 1) * W + k \in 1 .. Len(Fields(t))
                    /\ Fields(t)[(r - 1) * W + k] = t.rows[r][Stored(t)[k]]
<1> DEFINE W == Len(Stored(t))
           N == Len(t.rows)
           q == [r \in DOMAIN t.rows |-> [k \in DOMAIN Stored(t) |-> t.rows[r][Stored(t)[k]]]]
           F == Fields(t)
           V == Values(t)
           h == Lengths(q, N)
<1>1. /\ W \in Nat /\ DOMAIN Stored(t) = 1 .. W /\ N \in Nat /\ DOMAIN t.rows = 1 .. N
  BY StoredFacts
<1>2. F = FlattenSeq(q)
  BY DEF Fields
<1>3. q = [r \in 1 .. N |-> q[r]]
  BY <1>1
<1>4. ASSUME NEW r \in 1 .. N
      PROVE  /\ q[r] \in Seq(V) /\ Len(q[r]) = W
             /\ \A k \in 1 .. W : q[r][k] = t.rows[r][Stored(t)[k]]
  <2> DEFINE g == [k \in DOMAIN Stored(t) |-> t.rows[r][Stored(t)[k]]]
  <2>1. q[r] = g
    BY <1>1
  <2>2. g = [k \in 1 .. W |-> g[k]] /\ \A k \in 1 .. W : g[k] = t.rows[r][Stored(t)[k]]
    BY <1>1
  <2>3. \A k \in 1 .. W : g[k] \in V
    BY <1>1, SMTT(30) DEF Values
  <2> HIDE DEF g, V, q, W, N
  <2>4. g \in [1 .. W -> V] /\ DOMAIN g = 1 .. W
    BY <2>2, <2>3
  <2>5. g \in Seq(V)
    BY <1>1, <2>4, SeqDef
  <2>6. Len(g) = W
    BY <1>1, <2>4, <2>5, LenProperties
  <2>7. QED
    BY <2>1, <2>2, <2>5, <2>6
<1> HIDE DEF q, V, W, N
<1>5. Flattened(V, N, q)
  BY <1>1, <1>3, <1>4, FlattenOf
<1>6. Len(h) = N /\ \A n \in 1 .. N : h[n] = W
  BY <1>1, <1>4 DEF Lengths
<1> HIDE DEF h
<1>7. (\A n \in 0 .. N : Sums(h)[n] = n * W) /\ Total(h) = N * W
  BY <1>1, <1>6, ConstantSums
<1> HIDE DEF F
<1>8. F \in Seq(V) /\ Len(F) = N * W
  BY <1>2, <1>5, <1>7 DEF Flattened, h
<1>9. ASSUME NEW r \in 1 .. N, NEW k \in 1 .. W
      PROVE  (r - 1) * W + k \in 1 .. Len(F) /\ F[(r - 1) * W + k] = t.rows[r][Stored(t)[k]]
  <2>1. k \in 1 .. Len(q[r]) /\ r - 1 \in 0 .. N
    BY <1>1, <1>4
  <2>2. F[Sums(h)[r - 1] + k] = q[r][k]
    BY <1>2, <1>5, <2>1 DEF Flattened, h
  <2>3. F[(r - 1) * W + k] = t.rows[r][Stored(t)[k]]
    BY <1>4, <1>7, <2>1, <2>2
  <2>4. Sums(h)[r] \in 0 .. Total(h) /\ Sums(h)[r] = Sums(h)[r - 1] + Len(q[r])
    BY <1>1, <1>5 DEF Flattened, h
  <2> DEFINE a == (r - 1) * W
             b == N * W
             c == r * W
  <2>5. c \in 0 .. b /\ c = a + W
    BY <1>1, <1>4, <1>7, <2>1, <2>4
  <2>6. a \in Nat /\ b \in Nat
    <3>1. r - 1 \in Nat
      OBVIOUS
    <3>2. QED
      BY <1>1, <3>1
  <2> HIDE DEF a, b, c
  <2>7. a + k \in 1 .. b
    BY <1>1, <2>5, <2>6
  <2>8. QED
    BY <1>8, <2>3, <2>7 DEF a, b
<1>10. QED
  BY <1>8, <1>9 DEF W, N, F, V

(* The strings of a table: its name, those of its columns, those of its     *)
(* rows and those of its defaults.                                          *)
In(x, s) == \E j \in 1 .. Len(s) : s[j] = x

(* A concatenation has what its parts have.                                 *)
LEMMA ConcatHas ==
    ASSUME NEW S, NEW a \in Seq(S), NEW b \in Seq(S)
    PROVE  a \o b \in Seq(S) /\ \A x : In(x, a) \/ In(x, b) => In(x, a \o b)
<1>1. /\ a \o b \in Seq(S) /\ Len(a \o b) = Len(a) + Len(b)
      /\ \A i \in 1 .. Len(a) + Len(b) : (a \o b)[i] = IF i <= Len(a) THEN a[i] ELSE b[i - Len(a)]
  BY ConcatProperties
<1>2. Len(a) \in Nat /\ Len(b) \in Nat
  BY LenProperties
<1> DEFINE u == Len(a)
           w == Len(b)
           c == a \o b
<1>3. c \in Seq(S) /\ Len(c) = u + w /\ u \in Nat /\ w \in Nat
      /\ \A i \in 1 .. u + w : c[i] = IF i <= u THEN a[i] ELSE b[i - u]
  BY <1>1, <1>2
<1> HIDE DEF u, w, c
<1>4. ASSUME NEW x, In(x, a) PROVE In(x, c)
  <2>1. PICK j \in 1 .. u : a[j] = x
    BY <1>4 DEF In, u
  <2>2. j \in 1 .. u + w /\ c[j] = x
    BY <1>3, <2>1
  <2>3. QED
    BY <1>3, <2>2 DEF In
<1>5. ASSUME NEW x, In(x, b) PROVE In(x, c)
  <2>1. PICK j \in 1 .. w : b[j] = x
    BY <1>5 DEF In, w
  <2>2. u + j \in 1 .. u + w /\ ~(u + j <= u) /\ u + j - u = j
    BY <1>3, <2>1
  <2>3. c[u + j] = x
    BY <1>3, <2>1, <2>2
  <2>4. QED
    BY <1>3, <2>2, <2>3 DEF In
<1>6. QED
  BY <1>3, <1>4, <1>5 DEF c

(* A function on 1 .. n is a sequence.                                      *)
LEMMA MapSeq ==
    ASSUME NEW S, NEW n \in Nat, NEW f, f = [i \in 1 .. n |-> f[i]], \A i \in 1 .. n : f[i] \in S
    PROVE  f \in Seq(S) /\ Len(f) = n /\ \A i \in 1 .. n : In(f[i], f)
<1>1. f \in [1 .. n -> S] /\ DOMAIN f = 1 .. n
  OBVIOUS
<1>2. f \in Seq(S)
  BY <1>1, SeqDef
<1>3. Len(f) = n
  BY <1>1, <1>2, LenProperties
<1>4. QED
  BY <1>2, <1>3 DEF In

NameOf(t, c) == t.columns[c].name
(* Every string of the table is among those interned.                       *)
LEMMA StringsFacts ==
    ASSUME NEW t, IsTable(t)
    PROVE  /\ Strings(t) \in Seq(Seq(Char))
           /\ In(t.name, Strings(t))
           /\ \A c \in Columns(t) : In(NameOf(t, c), Strings(t))
           /\ \A r \in DOMAIN t.rows, k \in DOMAIN Stored(t) :
                t.rows[r][Stored(t)[k]].type = "String"
                    => In(t.rows[r][Stored(t)[k]].v, Strings(t))
           /\ \A c \in Columns(t) :
                Has(t.columns[c].flag, DEFAULT_VALUE) /\ TypeOf(t, c) = "String"
                    => In(t.columns[c].default.v, Strings(t))
<1> DEFINE A == <<t.name>>
           B == [c \in Columns(t) |-> NameOf(t, c)]
           C == [i \in DOMAIN Fields(t) |-> IF Fields(t)[i].type = "String" THEN Fields(t)[i].v ELSE <<>>]
           D == [c \in Columns(t) |-> IF Has(t.columns[c].flag, DEFAULT_VALUE) /\ TypeOf(t, c) = "String"
                                      THEN t.columns[c].default.v ELSE <<>>]
           S == Seq(Char)
           n == Len(t.columns)
           W == Len(Stored(t))
           N == Len(t.rows)
           M == Len(Fields(t))
<1>0. Strings(t) = ((A \o B) \o C) \o D
  BY DEF Strings, NameOf
<1>1. /\ n \in Nat /\ Columns(t) = 1 .. n /\ W \in Nat /\ DOMAIN Stored(t) = 1 .. W
      /\ N \in Nat /\ DOMAIN t.rows = 1 .. N
  BY StoredFacts
<1>2. /\ Fields(t) \in Seq(Values(t))
      /\ \A r \in 1 .. N, k \in 1 .. W :
            /\ (r - 1) * W + k \in 1 .. M
            /\ Fields(t)[(r - 1) * W + k] = t.rows[r][Stored(t)[k]]
  BY FieldsFacts
<1>3. M \in Nat /\ DOMAIN Fields(t) = 1 .. M /\ \A i \in 1 .. M : Fields(t)[i] \in Values(t)
  BY <1>2, LenProperties, ElementOfSeq
<1>4. t.name \in S /\ <<>> \in S /\ \A c \in Columns(t) : NameOf(t, c) \in S
  BY DEF IsTable, IsColumn, NameOf
<1>5. A \in Seq(S) /\ In(t.name, A)
  <2>1. A \in Seq(S) /\ Len(A) = 1 /\ A[1] = t.name
    BY <1>4
  <2>2. QED
    BY <2>1 DEF In
<1>6. B \in Seq(S) /\ \A c \in Columns(t) : In(NameOf(t, c), B)
  <2>1. B = [c \in 1 .. n |-> B[c]] /\ \A c \in 1 .. n : B[c] = NameOf(t, c)
    BY <1>1
  <2> HIDE DEF B, S, n
  <2>2. \A c \in 1 .. n : B[c] \in S
    BY <1>1, <1>4, <2>1
  <2>3. B \in Seq(S) /\ \A c \in 1 .. n : In(B[c], B)
    BY <1>1, <2>1, <2>2, MapSeq
  <2>4. QED
    BY <1>1, <2>1, <2>3
<1>7. /\ C \in Seq(S)
      /\ \A i \in 1 .. M : Fields(t)[i].type = "String" => In(Fields(t)[i].v, C)
  <2>1. C = [i \in 1 .. M |-> C[i]]
        /\ \A i \in 1 .. M : C[i] = IF Fields(t)[i].type = "String" THEN Fields(t)[i].v ELSE <<>>
    BY <1>3
  <2>2. ASSUME NEW i \in 1 .. M PROVE C[i] \in S
    <3>1. Fields(t)[i] \in Values(t)
      BY <1>3
    <3>2. PICK type \in Types : IsValue(type, Fields(t)[i])
      BY <3>1, ValuesType
    <3>3. Fields(t)[i].type = "String" => Fields(t)[i].v \in S
      BY <3>2, ValueFacts
    <3>4. QED
      BY <1>4, <2>1, <3>3
  <2> HIDE DEF C, S, M
  <2>3. C \in Seq(S) /\ \A i \in 1 .. M : In(C[i], C)
    BY <1>3, <2>1, <2>2, MapSeq
  <2>4. QED
    BY <2>1, <2>3
<1>8. /\ D \in Seq(S)
      /\ \A c \in Columns(t) :
            Has(t.columns[c].flag, DEFAULT_VALUE) /\ TypeOf(t, c) = "String"
                => In(t.columns[c].default.v, D)
  <2>1. D = [c \in 1 .. n |-> D[c]]
        /\ \A c \in 1 .. n : D[c] = IF Has(t.columns[c].flag, DEFAULT_VALUE) /\ TypeOf(t, c) = "String"
                                    THEN t.columns[c].default.v ELSE <<>>
    BY <1>1
  <2>2. ASSUME NEW c \in 1 .. n PROVE D[c] \in S
    <3>1. IsColumn(t.columns[c])
      BY <1>1 DEF IsTable
    <3>2. ASSUME Has(t.columns[c].flag, DEFAULT_VALUE), TypeOf(t, c) = "String"
          PROVE  t.columns[c].default.v \in S
      <4>1. IsValue("String", t.columns[c].default)
        BY <3>1, <3>2 DEF IsColumn, TypeOf
      <4>2. "String" \in Types
        BY DEF Types
      <4>3. QED
        BY <4>1, <4>2, ValueFacts
    <3>3. QED
      BY <1>4, <2>1, <3>2
  <2> HIDE DEF D, S, n
  <2>3. D \in Seq(S) /\ \A c \in 1 .. n : In(D[c], D)
    BY <1>1, <2>1, <2>2, MapSeq
  <2>4. QED
    BY <1>1, <2>1, <2>3
<1>9. ASSUME NEW r \in DOMAIN t.rows, NEW k \in DOMAIN Stored(t),
             t.rows[r][Stored(t)[k]].type = "String"
      PROVE  In(t.rows[r][Stored(t)[k]].v, C)
  <2>1. r \in 1 .. N /\ k \in 1 .. W
    BY <1>1
  <2> DEFINE i == (r - 1) * W + k
  <2>2. i \in 1 .. M /\ Fields(t)[i] = t.rows[r][Stored(t)[k]]
    BY <1>2, <2>1
  <2> HIDE DEF i, C
  <2>3. QED
    BY <1>7, <1>9, <2>2
<1> HIDE DEF A, B, C, D, S, n, M, W, N
<1>10. A \o B \in Seq(S) /\ \A x : In(x, A) \/ In(x, B) => In(x, A \o B)
  BY <1>5, <1>6, ConcatHas
<1>11. (A \o B) \o C \in Seq(S) /\ \A x : In(x, A \o B) \/ In(x, C) => In(x, (A \o B) \o C)
  BY <1>7, <1>10, ConcatHas
<1>12. /\ ((A \o B) \o C) \o D \in Seq(S)
       /\ \A x : In(x, (A \o B) \o C) \/ In(x, D) => In(x, ((A \o B) \o C) \o D)
  BY <1>8, <1>11, ConcatHas
<1>13. \A x : In(x, A) \/ In(x, B) \/ In(x, C) \/ In(x, D) => In(x, Strings(t))
  BY <1>0, <1>10, <1>11, <1>12
<1>14. Strings(t) \in Seq(S)
  BY <1>0, <1>12
<1>15. QED
  BY <1>5, <1>6, <1>8, <1>9, <1>13, <1>14 DEF S

(* The data before a field is bytes.                                        *)
LEMMA DataType ==
    ASSUME NEW t, IsTable(t), NEW i \in 1 .. Len(Fields(t)) + 1
    PROVE  DataBefore(t, i) \in Seq(Byte)
<1> DEFINE M == Len(Fields(t))
           n == i - 1
           q == [j \in 1 .. i - 1 |-> DataOf(Fields(t)[j])]
<1>1. Fields(t) \in Seq(Values(t))
  BY FieldsFacts
<1>2. M \in Nat /\ \A j \in 1 .. M : Fields(t)[j] \in Values(t)
  BY <1>1, LenProperties, ElementOfSeq
<1>3. n \in Nat /\ \A j \in 1 .. n : j \in 1 .. M
  BY <1>2
<1>4. q = [j \in 1 .. n |-> q[j]] /\ \A j \in 1 .. n : q[j] = DataOf(Fields(t)[j])
  OBVIOUS
<1>5. ASSUME NEW j \in 1 .. n PROVE q[j] \in Seq(Byte)
  <2>1. PICK type \in Types : IsValue(type, Fields(t)[j])
    BY <1>2, <1>3, ValuesType
  <2>2. Fields(t)[j].type = "Data" => Fields(t)[j].v \in Seq(Byte)
    BY <2>1, ValueFacts
  <2>3. DataOf(Fields(t)[j]) \in Seq(Byte)
    BY <2>2 DEF DataOf
  <2>4. QED
    BY <1>4, <2>3
<1>6. DataBefore(t, i) = FlattenSeq(q)
  BY DEF DataBefore
<1> HIDE DEF q, n, M
<1>7. Flattened(Byte, n, q)
  BY <1>3, <1>4, <1>5, FlattenOf
<1>8. QED
  BY <1>6, <1>7 DEF Flattened

(* A field takes the bytes its type says.                                   *)
LEMMA FieldType ==
    ASSUME NEW strings \in Seq(Seq(Char)), NEW type \in Types, NEW v, IsValue(type, v),
           type = "String" => In(v.v, strings), NEW at \in Nat
    PROVE  /\ FieldBytes(strings, v, at) \in Seq(Byte)
           /\ Len(FieldBytes(strings, v, at)) = get_size(type)
<1>0. v.type = type
  BY ValueFacts
<1>1. CASE type = "String"
  <2>1. PICK j \in 1 .. Len(strings) : strings[j] = v.v
    BY <1>1 DEF In
  <2>2. intern_string(strings, v.v) \in Nat
    BY <2>1, InternType
  <2>3. FieldBytes(strings, v, at) = BigEndian(intern_string(strings, v.v), 4)
    BY <1>0, <1>1 DEF FieldBytes
  <2>4. get_size(type) = 4
    BY <1>1 DEF get_size
  <2> DEFINE x == intern_string(strings, v.v)
  <2>5. x \in Int /\ 4 \in Nat
    BY <2>2
  <2> HIDE DEF x
  <2>6. BigEndian(x, 4) \in Seq(Byte) /\ Len(BigEndian(x, 4)) = 4
    BY <2>5, BigEndianType
  <2>7. QED
    BY <2>3, <2>4, <2>6 DEF x
<1>2. CASE type = "Data"
  <2>1. v.v \in Seq(Byte)
    BY <1>2, ValueFacts
  <2>2. Len(v.v) \in Nat
    BY <2>1, LenProperties
  <2> DEFINE a == BigEndian(at, 4)
             b == BigEndian(Len(v.v), 4)
  <2>3. a \in Seq(Byte) /\ Len(a) = 4 /\ b \in Seq(Byte) /\ Len(b) = 4
    <3> DEFINE x == Len(v.v)
    <3>1. x \in Int /\ at \in Int /\ 4 \in Nat
      BY <2>2
    <3> HIDE DEF x
    <3>2. BigEndian(x, 4) \in Seq(Byte) /\ Len(BigEndian(x, 4)) = 4
      BY <3>1, BigEndianType
    <3>3. BigEndian(at, 4) \in Seq(Byte) /\ Len(BigEndian(at, 4)) = 4
      BY <3>1, BigEndianType
    <3>4. QED
      BY <3>2, <3>3 DEF x
  <2>4. FieldBytes(strings, v, at) = a \o b
    BY <1>0, <1>2 DEF FieldBytes
  <2>5. get_size(type) = 8
    BY <1>2 DEF get_size
  <2> HIDE DEF a, b
  <2>6. a \o b \in Seq(Byte) /\ Len(a \o b) = Len(a) + Len(b)
    BY <2>3, ConcatProperties
  <2>7. QED
    BY <2>3, <2>4, <2>5, <2>6
<1>3. CASE type = "Guid"
  <2>1. v.v \in Seq(Byte) /\ Len(v.v) = 16
    BY <1>3, ValueFacts
  <2>2. FieldBytes(strings, v, at) = v.v
    BY <1>0, <1>3 DEF FieldBytes
  <2>3. get_size(type) = 16
    BY <1>3 DEF get_size
  <2>4. QED
    BY <2>1, <2>2, <2>3
<1>4. CASE type \in Numeric
  <2>1. v.v \in Nat
    BY <1>4, ValueFacts
  <2>2. FieldBytes(strings, v, at) = BigEndian(v.v, get_size(type))
    BY <1>0, <1>4 DEF FieldBytes, Numeric
  <2>3. get_size(type) \in Nat
    BY SizeType, SMTT(30)
  <2>4. QED
    BY <2>1, <2>2, <2>3, BigEndianType
<1>5. QED
  BY <1>1, <1>2, <1>3, <1>4 DEF Numeric

(* The bytes of a row.                                                      *)
LEMMA RowType ==
    ASSUME NEW t, IsTable(t), NEW r \in DOMAIN t.rows
    PROVE  RowBytes(t, r) \in Seq(Byte) /\ Len(RowBytes(t, r)) = row_size(t)
<1> DEFINE W == Len(Stored(t))
           N == Len(t.rows)
           M == Len(Fields(t))
           at(k) == Len(DataBefore(t, (r - 1) * Len(Stored(t)) + k))
           field(k) == FieldBytes(Strings(t), t.rows[r][Stored(t)[k]], at(k))
           q == [k \in DOMAIN Stored(t) |-> field(k)]
           pad == [k \in 1 .. t.padding |-> 0]
           sizes == [k \in DOMAIN Stored(t) |-> get_size(TypeOf(t, Stored(t)[k]))]
<1>1. /\ W \in Nat /\ DOMAIN Stored(t) = 1 .. W /\ N \in Nat /\ DOMAIN t.rows = 1 .. N
  BY StoredFacts
<1>2. ASSUME NEW k \in 1 .. W
      PROVE  field(k) \in Seq(Byte) /\ Len(field(k)) = get_size(TypeOf(t, Stored(t)[k]))
  <2> DEFINE type == TypeOf(t, Stored(t)[k])
             v == t.rows[r][Stored(t)[k]]
             i == (r - 1) * W + k
  <2>1. k \in DOMAIN Stored(t) /\ r \in 1 .. N
    BY <1>1
  <2>2. type \in Types /\ IsValue(type, v)
    BY <2>1, StoredValue
  <2>3. Strings(t) \in Seq(Seq(Char)) /\ (v.type = "String" => In(v.v, Strings(t)))
    BY <2>1, StringsFacts
  <2>4. v.type = type
    BY <2>2, ValueFacts
  <2>5. i \in 1 .. M /\ M \in Nat
    <3>1. Fields(t) \in Seq(Values(t)) /\ i \in 1 .. M
      BY <2>1, FieldsFacts
    <3>2. QED
      BY <3>1, LenProperties
  <2> HIDE DEF i
  <2>6. i \in 1 .. Len(Fields(t)) + 1
    BY <2>5
  <2>7. DataBefore(t, i) \in Seq(Byte)
    BY <2>6, DataType
  <2>8. at(k) \in Nat
    BY <2>7, LenProperties DEF i
  <2> HIDE DEF at, type, v
  <2>9. /\ FieldBytes(Strings(t), v, at(k)) \in Seq(Byte)
        /\ Len(FieldBytes(Strings(t), v, at(k))) = get_size(type)
    BY <2>2, <2>3, <2>4, <2>8, FieldType
  <2>10. QED
    BY <2>9 DEF v, type
<1>3. q = [k \in 1 .. W |-> q[k]] /\ \A k \in 1 .. W : q[k] = field(k)
  BY <1>1
<1>4. sizes = [k \in 1 .. W |-> get_size(TypeOf(t, Stored(t)[k]))]
  BY <1>1
<1>5. t.padding \in Nat
  BY DEF IsTable
<1>6. pad \in Seq(Byte) /\ Len(pad) = t.padding
  BY <1>5, ZerosType
<1>7. RowBytes(t, r) = FlattenSeq(q) \o pad
  BY DEF RowBytes
<1>8. row_size(t) = t.padding + Total(sizes)
  BY DEF row_size
<1> HIDE DEF field, q, pad, sizes, W
<1>9. \A k \in 1 .. W : q[k] \in Seq(Byte) /\ Len(q[k]) = get_size(TypeOf(t, Stored(t)[k]))
  BY <1>2, <1>3
<1>10. Flattened(Byte, W, q)
  BY <1>1, <1>3, <1>9, FlattenOf
<1>11. Lengths(q, W) = sizes
  BY <1>4, <1>9 DEF Lengths
<1>12. FlattenSeq(q) \in Seq(Byte) /\ Len(FlattenSeq(q)) = Total(sizes)
  BY <1>10, <1>11 DEF Flattened
<1>13. Total(sizes) \in Nat
  BY <1>12, LenProperties
<1> DEFINE f == FlattenSeq(q)
<1> HIDE DEF f
<1>14. f \o pad \in Seq(Byte) /\ Len(f \o pad) = Len(f) + Len(pad)
  BY <1>6, <1>12, ConcatProperties DEF f
<1>15. QED
  BY <1>5, <1>6, <1>7, <1>8, <1>12, <1>13, <1>14 DEF f

(* The bytes of a column.                                                   *)
LEMMA ColumnType ==
    ASSUME NEW t, IsTable(t), NEW c \in Columns(t)
    PROVE  ColumnBytes(t, c) \in Seq(Byte)
<1> DEFINE col == t.columns[c]
           name == BigEndian(intern_string(Strings(t), col.name), 4)
           default == FieldBytes(Strings(t), col.default, 0)
           A == <<col.flag>>
           B == IF Has(col.flag, NAME) THEN name ELSE <<>>
           D == IF Has(col.flag, DEFAULT_VALUE) THEN default ELSE <<>>
<1>1. IsColumn(col)
  BY DEF IsTable
<1>2. /\ Strings(t) \in Seq(Seq(Char)) /\ In(col.name, Strings(t))
      /\ Has(col.flag, DEFAULT_VALUE) /\ TypeOf(t, c) = "String" => In(col.default.v, Strings(t))
  BY StringsFacts DEF NameOf
<1>3. TypeOf(t, c) = get_type(col.flag)
  BY DEF TypeOf
<1>4. ColumnBytes(t, c) = (A \o B) \o D
  BY DEF ColumnBytes
<1> HIDE DEF col
<1>5. col.flag \in 0 .. 127 /\ get_type(col.flag) # "Invalid"
      /\ (Has(col.flag, DEFAULT_VALUE) => IsValue(get_type(col.flag), col.default))
  BY <1>1 DEF IsColumn
<1>6. name \in Seq(Byte)
  <2>1. PICK j \in 1 .. Len(Strings(t)) : Strings(t)[j] = col.name
    BY <1>2 DEF In
  <2> DEFINE x == intern_string(Strings(t), col.name)
  <2>2. x \in Nat
    BY <1>2, <2>1, InternType
  <2> HIDE DEF x
  <2>3. x \in Int /\ 4 \in Nat
    BY <2>2
  <2>4. BigEndian(x, 4) \in Seq(Byte)
    BY <2>3, BigEndianType
  <2>5. QED
    BY <2>4 DEF x
<1>7. Has(col.flag, DEFAULT_VALUE) => default \in Seq(Byte)
  <2>1. ASSUME Has(col.flag, DEFAULT_VALUE) PROVE default \in Seq(Byte)
    <3> DEFINE type == get_type(col.flag)
               v == col.default
    <3>1. IsValue(type, v) /\ type # "Invalid" /\ col.flag \in Nat
      BY <1>5, <2>1
    <3>2. type \in Types
      BY <3>1, TypeFacts
    <3>3. v.type = type
      BY <3>1, <3>2, ValueFacts
    <3>4. type = "String" => In(v.v, Strings(t))
      BY <1>2, <1>3, <2>1
    <3>5. 0 \in Nat
      OBVIOUS
    <3> HIDE DEF type, v
    <3>6. FieldBytes(Strings(t), v, 0) \in Seq(Byte)
      BY <1>2, <3>1, <3>2, <3>4, <3>5, FieldType
    <3>7. QED
      BY <3>6 DEF v
  <2>2. QED
    BY <2>1
<1>8. A \in Seq(Byte)
  <2>1. col.flag \in Byte
    BY <1>5 DEF Byte
  <2>2. QED
    BY <2>1
<1>9. B \in Seq(Byte) /\ D \in Seq(Byte)
  BY <1>6, <1>7
<1> HIDE DEF A, B, D
<1>10. A \o B \in Seq(Byte)
  BY <1>8, <1>9, ConcatProperties
<1>11. (A \o B) \o D \in Seq(Byte)
  BY <1>9, <1>10, ConcatProperties
<1>12. QED
  BY <1>4, <1>11

(* The parts of the table.                                                  *)
LEMMA PartsType ==
    ASSUME NEW t, IsTable(t)
    PROVE  /\ AllColumns(t) \in Seq(Byte) /\ AllRows(t) \in Seq(Byte)
           /\ StringPool(Strings(t)) \in Seq(Byte) /\ AllData(t) \in Seq(Byte)
           /\ Len(AllRows(t)) = Len(t.rows) * row_size(t)
           /\ row_size(t) \in Nat
<1> DEFINE n == Len(t.columns)
           N == Len(t.rows)
           q == [c \in Columns(t) |-> ColumnBytes(t, c)]
           p == [r \in DOMAIN t.rows |-> RowBytes(t, r)]
           h == Lengths(p, N)
           z == row_size(t)
<1>1. n \in Nat /\ Columns(t) = 1 .. n /\ N \in Nat /\ DOMAIN t.rows = 1 .. N
  BY StoredFacts
<1>2. q = [c \in 1 .. n |-> q[c]] /\ p = [r \in 1 .. N |-> p[r]]
  BY <1>1
<1>3. \A c \in 1 .. n : q[c] \in Seq(Byte)
  BY <1>1, ColumnType
<1>4. \A r \in 1 .. N : p[r] \in Seq(Byte) /\ Len(p[r]) = z
  BY <1>1, RowType
<1>5. AllColumns(t) = FlattenSeq(q) /\ AllRows(t) = FlattenSeq(p)
  BY DEF AllColumns, AllRows
<1>z. z \in Nat
  <2> DEFINE W == Len(Stored(t))
             sizes == [k \in DOMAIN Stored(t) |-> get_size(TypeOf(t, Stored(t)[k]))]
  <2>1. W \in Nat /\ DOMAIN Stored(t) = 1 .. W /\ t.padding \in Nat
    BY StoredFacts DEF IsTable
  <2>2. sizes = [k \in 1 .. W |-> sizes[k]] /\ \A k \in 1 .. W : sizes[k] \in Nat
    <3>1. \A type : get_size(type) \in Nat
      BY SizeType
    <3>2. \A k \in 1 .. W : sizes[k] = get_size(TypeOf(t, Stored(t)[k]))
      BY <2>1
    <3>3. sizes = [k \in 1 .. W |-> sizes[k]]
      BY <2>1
    <3>4. QED
      BY <3>1, <3>2, <3>3
  <2>3. z = t.padding + Total(sizes)
    BY DEF row_size
  <2> HIDE DEF sizes, W, z
  <2>4. sizes \in Seq(Nat) /\ Len(sizes) = W
    BY <2>1, <2>2, MapSeq
  <2>5. Sums(sizes)[W] \in Nat
    BY <2>1, <2>2, <2>4, SumsFacts
  <2>6. QED
    BY <2>1, <2>3, <2>4, <2>5 DEF Total
<1> HIDE DEF q, p, n, N, z
<1>6. Flattened(Byte, n, q) /\ Flattened(Byte, N, p)
  BY <1>1, <1>2, <1>3, <1>4, FlattenOf
<1>7. Len(h) = N /\ \A r \in 1 .. N : h[r] = z
  BY <1>1, <1>4 DEF Lengths
<1> HIDE DEF h
<1>8. Total(h) = N * z
  BY <1>1, <1>7, <1>z, ConstantSums
<1>9. StringPool(Strings(t)) \in Seq(Byte)
  <2>1. Strings(t) \in Seq(Seq(Char))
    BY StringsFacts
  <2> DEFINE s == Strings(t)
             l == Len(s)
  <2>2. l \in Nat
    BY <2>1, LenProperties
  <2> HIDE DEF s, l
  <2>3. l \in 0 .. l
    BY <2>2
  <2>4. PoolPart(s, l) \in Seq(Byte)
    BY <2>1, <2>3, PoolType DEF s, l
  <2>5. QED
    BY <2>4 DEF StringPool, s, l
<1>10. AllData(t) \in Seq(Byte)
  <2> DEFINE M == Len(Fields(t))
  <2>1. M \in Nat
    BY FieldsFacts, LenProperties
  <2>2. M + 1 \in 1 .. M + 1
    BY <2>1
  <2>3. QED
    BY <2>2, DataType DEF AllData
<1>11. QED
  BY <1>5, <1>6, <1>8, <1>9, <1>10, <1>z DEF Flattened, h, N, z

-----------------------------------------------------------------------------
(* Pieces: s lies in b, o bytes from its start.                             *)
Piece(b, o, s) == o + Len(s) <= Len(b) /\ \A k \in 1 .. Len(s) : b[o + k] = s[k]

(* The pieces of a part are pieces of the whole.                            *)
LEMMA PieceConcat ==
    ASSUME NEW S, NEW a \in Seq(S), NEW b \in Seq(S)
    PROVE  /\ a \o b \in Seq(S) /\ Len(a \o b) = Len(a) + Len(b)
           /\ \A s \in Seq(S), o \in Nat : Piece(a, o, s) => Piece(a \o b, o, s)
           /\ \A s \in Seq(S), o \in Nat : Piece(b, o, s) => Piece(a \o b, Len(a) + o, s)
           /\ Piece(a \o b, 0, a) /\ Piece(a \o b, Len(a), b)
<1>1. /\ a \o b \in Seq(S) /\ Len(a \o b) = Len(a) + Len(b)
      /\ \A i \in 1 .. Len(a) + Len(b) : (a \o b)[i] = IF i <= Len(a) THEN a[i] ELSE b[i - Len(a)]
  BY ConcatProperties
<1> DEFINE u == Len(a)
           w == Len(b)
           c == a \o b
<1>2. c \in Seq(S) /\ Len(c) = u + w /\ u \in Nat /\ w \in Nat
      /\ \A i \in 1 .. u + w : c[i] = IF i <= u THEN a[i] ELSE b[i - u]
  BY <1>1, LenProperties
<1>3. a \in Seq(S) /\ b \in Seq(S)
  OBVIOUS
<1> HIDE DEF u, w, c
<1>4. ASSUME NEW s \in Seq(S), NEW o \in Nat, Piece(a, o, s)
      PROVE  Piece(c, o, s)
  <2> DEFINE l == Len(s)
  <2>1. l \in Nat /\ o + l <= u /\ \A k \in 1 .. l : a[o + k] = s[k]
    BY <1>4, LenProperties DEF Piece, u
  <2> HIDE DEF l
  <2>2. o + l <= Len(c)
    BY <1>2, <2>1
  <2>3. ASSUME NEW k \in 1 .. l PROVE c[o + k] = s[k]
    <3>1. o + k \in 1 .. u + w /\ o + k <= u
      BY <1>2, <2>1
    <3>2. c[o + k] = a[o + k]
      BY <1>2, <3>1
    <3>3. QED
      BY <2>1, <3>2
  <2>4. QED
    BY <2>2, <2>3 DEF Piece, l
<1>5. ASSUME NEW s \in Seq(S), NEW o \in Nat, Piece(b, o, s)
      PROVE  Piece(c, u + o, s)
  <2> DEFINE l == Len(s)
  <2>1. l \in Nat /\ o + l <= w /\ \A k \in 1 .. l : b[o + k] = s[k]
    BY <1>5, LenProperties DEF Piece, w
  <2> HIDE DEF l
  <2>2. (u + o) + l <= Len(c)
    BY <1>2, <2>1, SMTT(30)
  <2>3. ASSUME NEW k \in 1 .. l PROVE c[(u + o) + k] = s[k]
    <3> DEFINE i == (u + o) + k
    <3>1. i \in 1 .. u + w /\ ~(i <= u) /\ i - u = o + k
      BY <1>2, <2>1
    <3> HIDE DEF i
    <3>2. c[i] = b[o + k]
      BY <1>2, <3>1
    <3>3. c[i] = s[k]
      BY <2>1, <3>2
    <3>4. QED
      BY <3>3 DEF i
  <2>4. QED
    BY <2>2, <2>3 DEF Piece, l
<1>6. Piece(a, 0, a) /\ Piece(b, 0, b)
  BY <1>2 DEF Piece, u, w
<1>7. Piece(c, 0, a)
  BY <1>3, <1>4, <1>6
<1>8. Piece(c, u, b)
  <2>1. Piece(c, u + 0, b)
    BY <1>3, <1>5, <1>6
  <2>2. u + 0 = u
    BY <1>2
  <2>3. QED
    BY <2>1, <2>2
<1>9. QED
  BY <1>2, <1>4, <1>5, <1>7, <1>8 DEF c, u, w

(* The same for sequences of known lengths.                                 *)
Appended(a, b, c, n, m) ==
    /\ c \in Seq(Byte) /\ Len(c) = n + m
    /\ \A s \in Seq(Byte), o \in Nat : Piece(a, o, s) => Piece(c, o, s)
    /\ \A s \in Seq(Byte), o \in Nat : Piece(b, o, s) => Piece(c, n + o, s)
    /\ Piece(c, 0, a) /\ Piece(c, n, b)

(* A concatenation is a part with another appended.                         *)
LEMMA Grow ==
    ASSUME NEW a \in Seq(Byte), NEW b \in Seq(Byte), NEW n, NEW m, Len(a) = n, Len(b) = m
    PROVE  Appended(a, b, a \o b, n, m)
BY PieceConcat DEF Appended

(* A piece is cut out again, and a piece of a piece is a piece.             *)
LEMMA PieceSub ==
    ASSUME NEW S, NEW b \in Seq(S), NEW s \in Seq(S), NEW o \in Nat, Piece(b, o, s)
    PROVE  Sub(b, o, o + Len(s)) = s
<1> DEFINE l == Len(s)
           e == o + l
           x == Sub(b, o, e)
<1>1. l \in Nat /\ e \in Nat /\ e <= Len(b) /\ \A k \in 1 .. l : b[o + k] = s[k]
  BY LenProperties DEF Piece
<1>2. e - o = l /\ o <= e
  BY <1>1
<1>0. e = o + l
  OBVIOUS
<1> HIDE DEF e
<1>3. x \in Seq(S) /\ Len(x) = (IF o <= e THEN e - o ELSE 0) /\ \A k \in 1 .. e - o : x[k] = b[o + k]
  BY <1>1, SubType
<1> HIDE DEF x
<1>4. Len(x) = l /\ \A k \in 1 .. l : x[k] = s[k]
  BY <1>1, <1>2, <1>3
<1>5. x = s
  BY <1>3, <1>4, SeqEqual
<1>6. QED
  BY <1>5 DEF x, e

(* A piece of a piece is a piece.                                           *)
LEMMA PieceOfPiece ==
    ASSUME NEW S, NEW b \in Seq(S), NEW s \in Seq(S), NEW u \in Seq(S),
           NEW o \in Nat, NEW p \in Nat, Piece(b, o, s), Piece(s, p, u)
    PROVE  Piece(b, o + p, u)
<1> DEFINE B == Len(b)
           L == Len(s)
           M == Len(u)
<1>1. B \in Nat /\ L \in Nat /\ M \in Nat /\ o + L <= B /\ p + M <= L
      /\ (\A k \in 1 .. L : b[o + k] = s[k]) /\ (\A k \in 1 .. M : s[p + k] = u[k])
  BY LenProperties DEF Piece
<1> HIDE DEF B, L, M
<1>2. (o + p) + M <= B
  BY <1>1
<1>3. ASSUME NEW k \in 1 .. M PROVE b[(o + p) + k] = u[k]
  <2>1. p + k \in 1 .. L /\ (o + p) + k = o + (p + k)
    BY <1>1
  <2>2. QED
    BY <1>1, <2>1
<1>4. QED
  BY <1>2, <1>3 DEF Piece, B, M

(* What the header of a table says.                                         *)
LEMMA HeaderFacts ==
    ASSUME NEW t, IsTable(t)
    PROVE  /\ Header(t) \in Seq(Byte) /\ Len(Header(t)) = 32
           /\ Piece(Header(t), 0, <<64, 85, 84, 70>>)
           /\ Piece(Header(t), 4, BigEndian(data_start(t) + Len(AllData(t)) - 8, 4))
           /\ Piece(Header(t), 8, <<0, 1>>)
           /\ Piece(Header(t), 10, BigEndian(rows_start(t) - HEADER_OFFSET, 2))
           /\ Piece(Header(t), 12, BigEndian(pool_start(t) - HEADER_OFFSET, 4))
           /\ Piece(Header(t), 16, BigEndian(data_start(t) - HEADER_OFFSET, 4))
           /\ Piece(Header(t), 24, BigEndian(Len(t.columns), 2))
           /\ Piece(Header(t), 26, BigEndian(row_size(t), 2))
           /\ Piece(Header(t), 28, BigEndian(Len(t.rows), 4))
<1> DEFINE A == <<64, 85, 84, 70>>
           B == BigEndian(data_start(t) + Len(AllData(t)) - 8, 4)
           C == <<0, 1>>
           D == BigEndian(rows_start(t) - HEADER_OFFSET, 2)
           E == BigEndian(pool_start(t) - HEADER_OFFSET, 4)
           F == BigEndian(data_start(t) - HEADER_OFFSET, 4)
           G == BigEndian(intern_string(Strings(t), t.name), 4)
           H == BigEndian(Len(t.columns), 2)
           I == BigEndian(row_size(t), 2)
           J == BigEndian(Len(t.rows), 4)
           S == Seq(Byte)
<1>0. Header(t) = (((((((A \o B) \o (C \o D)) \o E) \o F) \o G) \o (H \o I)) \o J)
  BY DEF Header
<1>1. /\ data_start(t) + Len(AllData(t)) - 8 \in Int /\ rows_start(t) - HEADER_OFFSET \in Int
      /\ pool_start(t) - HEADER_OFFSET \in Int /\ data_start(t) - HEADER_OFFSET \in Int
  <2>1. /\ Len(AllColumns(t)) \in Nat /\ Len(AllRows(t)) \in Nat
        /\ Len(StringPool(Strings(t))) \in Nat /\ Len(AllData(t)) \in Nat
    BY PartsType, LenProperties
  <2>2. rows_start(t) \in Nat
    BY <2>1 DEF rows_start, HEADER_SIZE
  <2>3. pool_start(t) \in Nat
    BY <2>1, <2>2 DEF pool_start
  <2>4. data_start(t) \in Nat
    BY <2>1, <2>3 DEF data_start
  <2>5. QED
    BY <2>1, <2>2, <2>3, <2>4, SMTT(30) DEF HEADER_OFFSET
<1>2. intern_string(Strings(t), t.name) \in Int
  <2>1. Strings(t) \in Seq(Seq(Char)) /\ In(t.name, Strings(t))
    BY StringsFacts
  <2>2. PICK j \in 1 .. Len(Strings(t)) : Strings(t)[j] = t.name
    BY <2>1 DEF In
  <2>3. intern_string(Strings(t), t.name) \in Nat
    BY <2>1, <2>2, InternType
  <2>4. QED
    BY <2>3
<1>3. Len(t.columns) \in Int /\ row_size(t) \in Int /\ Len(t.rows) \in Int
  <2>1. Len(t.columns) \in Nat /\ row_size(t) \in Nat /\ Len(t.rows) \in Nat
    BY StoredFacts, PartsType
  <2>2. QED
    BY <2>1
<1>4. /\ A \in S /\ Len(A) = 4 /\ C \in S /\ Len(C) = 2
  BY DEF Byte
<1>5. /\ B \in S /\ Len(B) = 4 /\ D \in S /\ Len(D) = 2 /\ E \in S /\ Len(E) = 4
      /\ F \in S /\ Len(F) = 4
  BY <1>1, BigEndianType
<1>6. /\ G \in S /\ Len(G) = 4
  BY <1>2, BigEndianType
<1>7. H \in S /\ Len(H) = 2 /\ I \in S /\ Len(I) = 2 /\ J \in S /\ Len(J) = 4
  BY <1>3, BigEndianType
<1> HIDE DEF A, B, C, D, E, F, G, H, I, J
<1> DEFINE P1 == A \o B
           Q1 == C \o D
           Q2 == H \o I
           P2 == P1 \o Q1
           P3 == P2 \o E
           P4 == P3 \o F
           P5 == P4 \o G
           P6 == P5 \o Q2
           P7 == P6 \o J
<1>s. S = Seq(Byte)
  OBVIOUS
<1>8. /\ P1 \in S /\ Len(P1) = 8 /\ Piece(P1, 0, A) /\ Piece(P1, 4, B)
      /\ Q1 \in S /\ Len(Q1) = 4 /\ Piece(Q1, 0, C) /\ Piece(Q1, 2, D)
      /\ Q2 \in S /\ Len(Q2) = 4 /\ Piece(Q2, 0, H) /\ Piece(Q2, 2, I)
  <2>1. Appended(A, B, P1, 4, 4)
    BY <1>4, <1>5, Grow
  <2>2. Appended(C, D, Q1, 2, 2)
    BY <1>4, <1>5, Grow
  <2>3. Appended(H, I, Q2, 2, 2)
    BY <1>7, Grow
  <2> HIDE DEF P1, Q1, Q2
  <2>4. QED
    BY <2>1, <2>2, <2>3, <1>4, <1>5, <1>7 DEF Appended
<1> HIDE DEF P1, Q1, Q2
<1>9. /\ P2 \in S /\ Len(P2) = 12 /\ Piece(P2, 0, A) /\ Piece(P2, 4, B) /\ Piece(P2, 8, C)
       /\ Piece(P2, 10, D)
  <2>1. Appended(P1, Q1, P2, 8, 4)
    BY <1>8, Grow
  <2> HIDE DEF P2
  <2>2. QED
    BY <2>1, <1>4, <1>5, <1>8 DEF Appended
<1> HIDE DEF P2
<1>10. /\ P3 \in S /\ Len(P3) = 16 /\ Piece(P3, 0, A) /\ Piece(P3, 4, B) /\ Piece(P3, 8, C)
       /\ Piece(P3, 10, D) /\ Piece(P3, 12, E)
  <2>1. Appended(P2, E, P3, 12, 4)
    BY <1>5, <1>9, Grow
  <2> HIDE DEF P3
  <2>2. QED
    BY <2>1, <1>4, <1>5, <1>9 DEF Appended
<1> HIDE DEF P3
<1>11. /\ P4 \in S /\ Len(P4) = 20 /\ Piece(P4, 0, A) /\ Piece(P4, 4, B) /\ Piece(P4, 8, C)
       /\ Piece(P4, 10, D) /\ Piece(P4, 12, E) /\ Piece(P4, 16, F)
  <2>1. Appended(P3, F, P4, 16, 4)
    BY <1>5, <1>10, Grow
  <2> HIDE DEF P4
  <2>2. QED
    BY <2>1, <1>4, <1>5, <1>10 DEF Appended
<1> HIDE DEF P4
<1>12. /\ P5 \in S /\ Len(P5) = 24 /\ Piece(P5, 0, A) /\ Piece(P5, 4, B) /\ Piece(P5, 8, C)
       /\ Piece(P5, 10, D) /\ Piece(P5, 12, E) /\ Piece(P5, 16, F)
  <2>1. Appended(P4, G, P5, 20, 4)
    BY <1>6, <1>11, Grow
  <2> HIDE DEF P5
  <2>2. QED
    BY <2>1, <1>4, <1>5, <1>11 DEF Appended
<1> HIDE DEF P5
<1>13. /\ P6 \in S /\ Len(P6) = 28 /\ Piece(P6, 0, A) /\ Piece(P6, 4, B) /\ Piece(P6, 8, C)
       /\ Piece(P6, 10, D) /\ Piece(P6, 12, E) /\ Piece(P6, 16, F) /\ Piece(P6, 24, H)
       /\ Piece(P6, 26, I)
  <2>1. Appended(P5, Q2, P6, 24, 4)
    BY <1>8, <1>12, Grow
  <2> HIDE DEF P6
  <2>2. QED
    BY <2>1, <1>4, <1>5, <1>7, <1>8, <1>12 DEF Appended
<1> HIDE DEF P6
<1>14. /\ P7 \in S /\ Len(P7) = 32 /\ Piece(P7, 0, A) /\ Piece(P7, 4, B) /\ Piece(P7, 8, C)
       /\ Piece(P7, 10, D) /\ Piece(P7, 12, E) /\ Piece(P7, 16, F) /\ Piece(P7, 24, H)
       /\ Piece(P7, 26, I) /\ Piece(P7, 28, J)
  <2>1. Appended(P6, J, P7, 28, 4)
    BY <1>7, <1>13, Grow
  <2> HIDE DEF P7
  <2>2. QED
    BY <2>1, <1>4, <1>5, <1>7, <1>13 DEF Appended
<1>15. Header(t) = P7
  BY <1>0 DEF P1, Q1, Q2, P2, P3, P4, P5, P6
<1> HIDE DEF P7
<1>16. QED
  BY <1>14, <1>15 DEF A, B, C, D, E, F, H, I, J

(* The bytes of a table, part by part.                                      *)
LEMMA ImageFacts ==
    ASSUME NEW t, IsTable(t)
    PROVE  /\ Image(t) \in Seq(Byte) /\ Len(Image(t)) = data_start(t) + Len(AllData(t))
           /\ rows_start(t) = 32 + Len(AllColumns(t))
           /\ rows_start(t) \in Nat /\ pool_start(t) \in Nat /\ data_start(t) \in Nat
           /\ Piece(Image(t), 0, Header(t)) /\ Piece(Image(t), 32, AllColumns(t))
           /\ Piece(Image(t), rows_start(t), AllRows(t))
           /\ Piece(Image(t), pool_start(t), StringPool(Strings(t)))
           /\ Piece(Image(t), data_start(t), AllData(t))
<1> DEFINE H == Header(t)
           C == AllColumns(t)
           R == AllRows(t)
           P == StringPool(Strings(t))
           D == AllData(t)
           p1 == rows_start(t)
           p2 == pool_start(t)
           p3 == data_start(t)
           S == Seq(Byte)
           I1 == H \o C
           I2 == I1 \o R
           I3 == I2 \o P
           I4 == I3 \o D
<1>1. /\ H \in S /\ Len(H) = 32 /\ C \in S /\ R \in S /\ P \in S /\ D \in S
  BY HeaderFacts, PartsType
<1>2. /\ Len(C) \in Nat /\ Len(R) \in Nat /\ Len(P) \in Nat /\ Len(D) \in Nat
  BY <1>1, LenProperties
<1>3. /\ p1 = 32 + Len(C) /\ p2 = p1 + Len(R) /\ p3 = p2 + Len(P)
  BY DEF rows_start, pool_start, data_start, HEADER_SIZE
<1>4. Image(t) = I4
  BY DEF Image
<1> HIDE DEF H, C, R, P, D, p1, p2, p3
<1>5. p1 \in Nat /\ p2 \in Nat /\ p3 \in Nat
  BY <1>2, <1>3
<1>6. I1 \in S /\ Len(I1) = p1 /\ Piece(I1, 0, H) /\ Piece(I1, 32, C)
  <2>1. Appended(H, C, I1, 32, Len(C))
    BY <1>1, Grow
  <2> HIDE DEF I1
  <2>2. QED
    BY <2>1, <1>3 DEF Appended
<1> HIDE DEF I1
<1>7. /\ I2 \in S /\ Len(I2) = p2 /\ Piece(I2, 0, H) /\ Piece(I2, 32, C) /\ Piece(I2, p1, R)
  <2>1. Appended(I1, R, I2, p1, Len(R))
    BY <1>1, <1>6, Grow
  <2> HIDE DEF I2
  <2>2. QED
    BY <2>1, <1>1, <1>3, <1>6 DEF Appended
<1> HIDE DEF I2
<1>8. /\ I3 \in S /\ Len(I3) = p3 /\ Piece(I3, 0, H) /\ Piece(I3, 32, C) /\ Piece(I3, p1, R)
      /\ Piece(I3, p2, P)
  <2>1. Appended(I2, P, I3, p2, Len(P))
    BY <1>1, <1>7, Grow
  <2> HIDE DEF I3
  <2>2. QED
    BY <2>1, <1>1, <1>3, <1>5, <1>7 DEF Appended
<1> HIDE DEF I3
<1>9. /\ I4 \in S /\ Len(I4) = p3 + Len(D) /\ Piece(I4, 0, H) /\ Piece(I4, 32, C) /\ Piece(I4, p1, R)
      /\ Piece(I4, p2, P) /\ Piece(I4, p3, D)
  <2>1. Appended(I3, D, I4, p3, Len(D))
    BY <1>1, <1>8, Grow
  <2> HIDE DEF I4
  <2>2. QED
    BY <2>1, <1>1, <1>3, <1>5, <1>8 DEF Appended
<1> HIDE DEF I4
<1>10. QED
  BY <1>3, <1>4, <1>5, <1>9 DEF H, C, R, P, D, p1, p2, p3

-----------------------------------------------------------------------------
(* The chunk.                                                              *)

(* Bytes backwards.                                                         *)
LEMMA ReverseType ==
    ASSUME NEW s \in Seq(Byte)
    PROVE  /\ Reverse(s) \in Seq(Byte) /\ Len(Reverse(s)) = Len(s)
           /\ \A k \in 1 .. Len(s) : Reverse(s)[k] = s[Len(s) - k + 1]
<1> DEFINE l == Len(s)
           r == Reverse(s)
<1>1. l \in Nat /\ \A k \in 1 .. l : s[k] \in Byte
  BY LenProperties, ElementOfSeq
<1>2. r = [k \in 1 .. l |-> s[l - k + 1]]
  BY DEF Reverse
<1> HIDE DEF l, r
<1>3. \A k \in 1 .. l : l - k + 1 \in 1 .. l
  BY <1>1
<1>4. r \in [1 .. l -> Byte] /\ DOMAIN r = 1 .. l
  BY <1>1, <1>2, <1>3
<1>5. r \in Seq(Byte)
  BY <1>1, <1>4, SeqDef
<1>6. Len(r) = l
  BY <1>1, <1>4, <1>5, LenProperties
<1>7. QED
  BY <1>2, <1>5, <1>6 DEF l, r

(* Magic, marker, length, table.                                            *)
LEMMA ChunkFacts ==
    ASSUME NEW kind \in DOMAIN Magic, NEW marker \in Byte, NEW table \in Seq(Byte)
    PROVE  LET c == Chunk(kind, marker, table) IN
           /\ c \in Seq(Byte) /\ Len(c) = 16 + Len(table)
           /\ Magic[kind] \in Seq(Byte) /\ Len(Magic[kind]) = 4 /\ Piece(c, 0, Magic[kind])
           /\ c[5] = marker
           /\ LittleEndian(Len(table), 8) \in Seq(Byte) /\ Len(LittleEndian(Len(table), 8)) = 8
           /\ Piece(c, 8, LittleEndian(Len(table), 8)) /\ Piece(c, 16, table)
<1> DEFINE A == Magic[kind]
           B == [k \in 1 .. 4 |-> marker]
           C == LittleEndian(Len(table), 8)
           I1 == A \o B
           I2 == I1 \o C
           I3 == I2 \o table
           S == Seq(Byte)
           L == Len(table)
<1>0. L \in Nat
  BY LenProperties
<1>1. A \in S /\ Len(A) = 4
  <2>1. kind \in {"Cpk", "Toc"}
    BY DEF Magic
  <2>2. CASE kind = "Cpk"
    <3>1. A = <<67, 80, 75, 32>>
      BY <2>2 DEF Magic
    <3> HIDE DEF A
    <3>2. QED
      BY <3>1 DEF Byte
  <2>3. CASE kind = "Toc"
    <3>1. A = <<84, 79, 67, 32>>
      BY <2>3 DEF Magic
    <3> HIDE DEF A
    <3>2. QED
      BY <3>1 DEF Byte
  <2>4. QED
    BY <2>1, <2>2, <2>3
<1>2. B \in S /\ Len(B) = 4 /\ B[1] = marker
  <2> DEFINE N == 4
  <2>1. B \in [1 .. N -> Byte] /\ DOMAIN B = 1 .. N /\ B[1] = marker /\ N \in Nat
    OBVIOUS
  <2> HIDE DEF B, N
  <2>2. B \in S
    BY <2>1, SeqDef
  <2>3. Len(B) = N
    BY <2>1, <2>2, LenProperties
  <2>4. QED
    BY <2>1, <2>2, <2>3 DEF N
<1>3. C \in S /\ Len(C) = 8
  <2> DEFINE e == BigEndian(Len(table), 8)
             N == 8
  <2>1. L \in Int /\ N \in Nat
    BY <1>0
  <2> HIDE DEF L, N
  <2>2. BigEndian(L, N) \in S /\ Len(BigEndian(L, N)) = N
    BY <2>1, BigEndianType
  <2>3. e \in S /\ Len(e) = 8 /\ C = Reverse(e)
    BY <2>2 DEF L, N, LittleEndian
  <2> HIDE DEF e
  <2>4. QED
    BY <2>3, ReverseType
<1>4. Chunk(kind, marker, table) = I3
  BY DEF Chunk
<1>5. table \in S
  OBVIOUS
<1> HIDE DEF A, B, C, L
<1>6. /\ I1 \in S /\ Len(I1) = 8 /\ Piece(I1, 0, A) /\ Piece(I1, 4, B)
  <2>1. Appended(A, B, I1, 4, 4)
    BY <1>1, <1>2, Grow
  <2> HIDE DEF I1
  <2>2. QED
    BY <2>1 DEF Appended
<1> HIDE DEF I1
<1>7. /\ I2 \in S /\ Len(I2) = 16 /\ Piece(I2, 0, A) /\ Piece(I2, 4, B) /\ Piece(I2, 8, C)
  <2>1. Appended(I1, C, I2, 8, 8)
    BY <1>3, <1>6, Grow
  <2> HIDE DEF I2
  <2>2. QED
    BY <2>1, <1>1, <1>2, <1>6 DEF Appended
<1> HIDE DEF I2
<1>8. /\ I3 \in S /\ Len(I3) = 16 + L /\ Piece(I3, 0, A) /\ Piece(I3, 4, B) /\ Piece(I3, 8, C)
      /\ Piece(I3, 16, table)
  <2>1. Appended(I2, table, I3, 16, L)
    BY <1>5, <1>7, Grow DEF L
  <2> HIDE DEF I3
  <2>2. QED
    BY <2>1, <1>1, <1>2, <1>3, <1>7 DEF Appended
<1> HIDE DEF I3
<1>9. I3[5] = marker
  <2>1. 1 \in 1 .. Len(B) /\ 4 + 1 = 5
    BY <1>2
  <2>2. I3[4 + 1] = B[1]
    BY <1>8, <2>1 DEF Piece
  <2>3. QED
    BY <1>2, <2>1, <2>2
<1>10. QED
  BY <1>1, <1>3, <1>4, <1>8, <1>9 DEF A, C, L

-----------------------------------------------------------------------------
(* What lies in the archive is bytes, whatever happened to it, and what was *)
(* opened is what the readers make of those bytes.                          *)
UtfInv ==
    /\ image \in Seq(Byte)
    /\ opened = Unopened \/ (source # <<>> /\ opened = ReadTable(image, form.kind))

(* A chunk and what follows it are bytes.                                   *)
LEMMA TrailerType ==
    ASSUME NEW kind \in DOMAIN Magic, NEW marker \in Byte, NEW table \in Seq(Byte), NEW n \in Nat
    PROVE  Chunk(kind, marker, table) \o Zeros(n) \in Seq(Byte)
<1>1. Chunk(kind, marker, table) \in Seq(Byte)
  BY ChunkFacts
<1>2. Zeros(n) \in Seq(Byte)
  BY ZerosType DEF Zeros
<1>3. QED
  BY <1>1, <1>2, ConcatProperties

(* The bytes the builder or another tool writes.                            *)
LEMMA WrittenType ==
    /\ \A i \in BuilderInputs, kind \in Kinds, n \in Trailers :
        Build(i, kind, n) => image' \in Seq(Byte)
    /\ \A t \in OtherTables, kind \in Kinds, cipher \in BOOLEAN, n \in Trailers :
        OtherTool(t, kind, cipher, n) => image' \in Seq(Byte)
<1>0. 255 \in Byte /\ 0 \in Byte
  BY DEF Byte
<1>1. ASSUME NEW i \in BuilderInputs, NEW kind \in Kinds, NEW n \in Trailers, Build(i, kind, n)
      PROVE  image' \in Seq(Byte)
  <2> DEFINE t == BuilderTable(i.name, i.columns, i.rows)
             table == build(i.name, i.columns, i.rows)
  <2>1. kind \in DOMAIN Magic /\ n \in Nat /\ (WellTyped(i.columns, i.rows) => IsTable(t))
    BY UtfAssumption
  <2>2. image' = IF table = <<>> THEN <<>> ELSE Chunk(kind, 255, table) \o Zeros(n)
    BY <1>1 DEF Build, build_chunk
  <2>3. table = <<>> \/ (WellTyped(i.columns, i.rows) /\ table = Image(t))
    BY DEF build
  <2> HIDE DEF t, table
  <2>4. CASE table = <<>>
    BY <2>2, <2>4
  <2>5. CASE table # <<>>
    <3>1. table \in Seq(Byte)
      BY <2>1, <2>3, <2>5, ImageFacts
    <3>2. QED
      BY <1>0, <2>1, <2>2, <2>5, <3>1, TrailerType
  <2>6. QED
    BY <2>4, <2>5
<1>2. ASSUME NEW t \in OtherTables, NEW kind \in Kinds, NEW cipher \in BOOLEAN, NEW n \in Trailers,
             OtherTool(t, kind, cipher, n)
      PROVE  image' \in Seq(Byte)
  <2> DEFINE e == decrypt_utf_scalar(Image(t))
  <2>1. kind \in DOMAIN Magic /\ n \in Nat /\ IsTable(t)
    BY UtfAssumption
  <2>2. Image(t) \in Seq(Byte)
    BY <2>1, ImageFacts
  <2>3. Len(Image(t)) \in Nat /\ DOMAIN Image(t) = 1 .. Len(Image(t))
    BY <2>2, LenProperties
  <2>4. e \in Seq(Byte)
    BY <2>3, DecryptType
  <2>5. image' = (IF cipher THEN Chunk(kind, 0, e) ELSE Chunk(kind, 255, Image(t))) \o Zeros(n)
    BY <1>2 DEF OtherTool
  <2> HIDE DEF e
  <2>6. CASE cipher
    BY <1>0, <2>1, <2>4, <2>5, <2>6, TrailerType
  <2>7. CASE ~cipher
    BY <1>0, <2>1, <2>2, <2>5, <2>7, TrailerType
  <2>8. QED
    BY <2>6, <2>7
<1>3. QED
  BY <1>1, <1>2

(* Every step keeps the invariant.                                          *)
LEMMA UtfStep == UtfInv /\ [Next]_vars => UtfInv'
<1> SUFFICES ASSUME UtfInv, [Next]_vars
             PROVE  UtfInv'
  OBVIOUS
<1>1. image \in Seq(Byte) /\ Len(image) \in Nat /\ DOMAIN image = 1 .. Len(image)
  BY LenProperties DEF UtfInv
<1>2. ASSUME NEW i \in BuilderInputs, NEW kind \in Kinds, NEW n \in Trailers, Build(i, kind, n)
      PROVE  UtfInv'
  <2>1. opened = Unopened /\ opened' = opened
    BY <1>2 DEF Build, UtfInv
  <2>2. image' \in Seq(Byte)
    BY <1>2, WrittenType
  <2>3. Unopened' = Unopened
    BY DEF Unopened
  <2>4. QED
    BY <2>1, <2>2, <2>3 DEF UtfInv
<1>3. ASSUME NEW t \in OtherTables, NEW kind \in Kinds, NEW cipher \in BOOLEAN, NEW n \in Trailers,
             OtherTool(t, kind, cipher, n)
      PROVE  UtfInv'
  <2>1. opened = Unopened /\ opened' = opened
    BY <1>3 DEF OtherTool, UtfInv
  <2>2. image' \in Seq(Byte)
    BY <1>3, WrittenType
  <2>3. QED
    BY <2>1, <2>2 DEF UtfInv, Unopened
<1>4. ASSUME NEW k \in DOMAIN image, NEW b \in DamageBytes, ChangeByte(k, b)
      PROVE  UtfInv'
  <2>1. opened = Unopened /\ opened' = opened /\ image' = [image EXCEPT ![k] = b]
    BY <1>4 DEF ChangeByte, Intact
  <2>2. b \in Byte
    BY UtfAssumption
  <2>3. image' \in Seq(Byte)
    BY <1>1, <2>1, <2>2, ExceptSeq
  <2>4. QED
    BY <2>1, <2>3 DEF UtfInv, Unopened
<1>5. ASSUME NEW n \in 0 .. Len(image) - 1, CutShort(n)
      PROVE  UtfInv'
  <2>1. opened = Unopened /\ opened' = opened /\ image' = SubSeq(image, 1, n)
    BY <1>5 DEF CutShort, Intact
  <2>2. image' \in Seq(Byte)
    BY <1>1, <2>1
  <2>3. QED
    BY <2>1, <2>2 DEF UtfInv, Unopened
<1>6. CASE Open
  <2>1. source' # <<>> /\ image' = image /\ form' = form /\ opened' = ReadTable(image, form.kind)
    BY <1>6 DEF Open
  <2>2. ReadTable(image', form'.kind) = ReadTable(image, form.kind)
    BY <2>1
  <2>3. opened' = ReadTable(image', form'.kind)
    BY <2>1, <2>2
  <2>4. QED
    BY <1>1, <2>1, <2>3 DEF UtfInv
<1>7. ASSUME UNCHANGED <<source, form, image, opened>>
      PROVE  UtfInv'
  BY <1>7 DEF UtfInv, Unopened
<1>8. CASE OpenAcb
  BY <1>7, <1>8 DEF OpenAcb
<1>9. CASE UNCHANGED vars
  BY <1>7, <1>9 DEF vars
<1>10. QED
  BY <1>2, <1>3, <1>4, <1>5, <1>6, <1>8, <1>9 DEF Next

(* DamageIsContained: whichever bytes of the chunk change and wherever it   *)
(* is cut short, TableContainer::new and HighTable::new of cpk/header.rs    *)
(* end with an error or with a table whose rows end before its string pool  *)
(* and whose data pool starts within the bytes there are.  The slice of the *)
(* string pool never panics.                                                *)
THEOREM DamageNeverPanics == UtfSpec => []DamageIsContained
<1>1. Init => UtfInv
  <2>1. ASSUME Init
        PROVE  image \in Seq(Byte) /\ opened = Unopened
    BY <2>1 DEF Init
  <2>2. QED
    BY <2>1 DEF UtfInv
<1>2. UtfInv => DamageIsContained
  <2> SUFFICES ASSUME UtfInv, opened # Unopened
               PROVE  DamageIsContained
    BY DEF DamageIsContained
  <2> DEFINE M == Len(image) - CPK_CHUNK_HEADER_SIZE
  <2>1. image \in Seq(Byte) /\ opened = ReadTable(image, form.kind)
    BY DEF UtfInv
  <2>2. Contained(ReadTable(image, form.kind), M)
    BY <2>1, ReadTableContained
  <2>3. M \in Int
    BY <2>1, LenProperties DEF CPK_CHUNK_HEADER_SIZE
  <2>4. opened.outcome = "table" /\ Len(opened.alloc) \in 0 .. M => Len(opened.alloc) <= M
    BY <2>3
  <2> HIDE DEF M
  <2>5. Contained(opened, M)
    BY <2>1, <2>2
  <2>7. MaxRows < M => MaxRows < Len(image)
    BY <2>1, LenProperties, MemoryAssumption DEF M, CPK_CHUNK_HEADER_SIZE
  <2>6. QED
    BY <2>3, <2>4, <2>5, <2>7 DEF DamageIsContained, Contained, M
<1>3. QED
  BY <1>1, <1>2, UtfStep, PTL DEF UtfSpec

(* Two quotients are one.                                                   *)
LEMMA Quotients ==
    ASSUME NEW v \in Nat
    PROVE  /\ v \div 65536 = (v \div 256) \div 256
           /\ v \div 16777216 = ((v \div 256) \div 256) \div 256
<1> DEFINE a == v \div 256
           b == a \div 256
           c == b \div 256
<1>1. a \in Nat /\ 256 * a <= v /\ v < 256 * a + 256
  OBVIOUS
<1>2. b \in Nat /\ 256 * b <= a /\ a < 256 * b + 256
  BY <1>1
<1>3. c \in Nat /\ 256 * c <= b /\ b < 256 * c + 256
  BY <1>2
<1> HIDE DEF a, b, c
<1>4. 65536 * b <= v /\ v < 65536 * b + 65536
  BY <1>1, <1>2
<1>5. 16777216 * c <= v /\ v < 16777216 * c + 16777216
  BY <1>2, <1>3, <1>4
<1>6. v \div 65536 = b
  BY <1>2, <1>4
<1>7. v \div 16777216 = c
  BY <1>3, <1>5
<1>8. QED
  BY <1>6, <1>7 DEF a, b, c

(* Its last byte and the rest make up a number.                             *)
LEMMA LastByte ==
    ASSUME NEW x \in Nat
    PROVE  x \div 256 \in Nat /\ x = 256 * (x \div 256) + (x % 256) /\ x % 256 \in 0 .. 255
<1>1. x \div 256 \in Nat
  OBVIOUS
<1>2. x % 256 = x - 256 * (x \div 256)
  OBVIOUS
<1>3. x % 256 \in 0 .. 255
  OBVIOUS
<1>4. x = 256 * (x \div 256) + (x % 256)
  <2> DEFINE a == x \div 256
             b == x % 256
  <2>1. a \in Nat /\ b \in 0 .. 255 /\ b = x - 256 * a
    BY <1>1, <1>2, <1>3
  <2> HIDE DEF a, b
  <2>2. x = 256 * a + b
    BY <2>1
  <2>3. QED
    BY <2>2 DEF a, b
<1>5. QED
  BY <1>1, <1>3, <1>4

(* A number is read back from its bytes, if they are enough for it.         *)
FitsIn(v, w) == w \in {1, 2, 4, 8} /\ (w = 1 => v <= 255) /\ (w = 2 => v <= 65535)

(* What BigEndian writes, Number reads.                                     *)
LEMMA NumberBack ==
    ASSUME NEW v \in Nat, v < Huge, NEW w, FitsIn(v, w)
    PROVE  Number(BigEndian(v, w)) = v
<1> DEFINE s == BigEndian(v, w)
           a == v \div 256
           b == a \div 256
           c == b \div 256
           byte(k) == IF k < w THEN s[w - k] ELSE 0
<1>0. w \in {1, 2, 4, 8} /\ w \in Nat
  BY DEF FitsIn
<1>1. Len(s) = w
  BY <1>0, BigEndianType
<1>2. \A k \in Nat : k < w => s[w - k] = ByteOf(v, k)
  <2>1. \A k \in Nat : k < w => w - k \in 1 .. w /\ w - (w - k) = k
    BY <1>0
  <2>2. QED
    BY <2>1 DEF BigEndian
<1>3. Number(s) = IF byte(3) > 63 \/ \E k \in 4 .. w - 1 : byte(k) # 0 THEN Huge
                  ELSE byte(0) + 256 * byte(1) + 65536 * byte(2) + 16777216 * byte(3)
  BY <1>1 DEF Number
<1> HIDE DEF s
<1>4. a \in Nat /\ b \in Nat /\ c \in Nat /\ v = 256 * a + (v % 256) /\ a = 256 * b + (a % 256)
      /\ b = 256 * c + (b % 256) /\ v % 256 \in 0 .. 255 /\ a % 256 \in 0 .. 255
      /\ b % 256 \in 0 .. 255
  <2>2. a \in Nat /\ v = 256 * a + (v % 256) /\ v % 256 \in 0 .. 255
    BY LastByte
  <2> HIDE DEF a
  <2>3. b \in Nat /\ a = 256 * b + (a % 256) /\ a % 256 \in 0 .. 255
    BY LastByte, <2>2
  <2> HIDE DEF b
  <2>4. c \in Nat /\ b = 256 * c + (b % 256) /\ b % 256 \in 0 .. 255
    BY LastByte, <2>3
  <2>5. QED
    BY <2>2, <2>3, <2>4
<1>5. v \div 65536 = b /\ v \div 16777216 = c
  BY Quotients
<1> HIDE DEF a, b, c
<1> DEFINE x == v % 256
           y == a % 256
           z == b % 256
<1>x. /\ a \in Nat /\ b \in Nat /\ c \in Nat /\ x \in 0 .. 255 /\ y \in 0 .. 255 /\ z \in 0 .. 255
      /\ v = 256 * a + x /\ a = 256 * b + y /\ b = 256 * c + z
  BY <1>4
<1>y. x = v % 256 /\ y = a % 256 /\ z = b % 256
  OBVIOUS
<1> HIDE DEF x, y, z
<1>6. c < 64 /\ c % 256 = c
  <2>1. v < 1073741824
    BY DEF Huge
  <2>2. c < 64
    BY <1>x, <2>1
  <2>3. QED
    BY <1>x, <2>2
<1>s. (w = 1 => a = 0 /\ b = 0 /\ c = 0 /\ y = 0 /\ z = 0) /\ (w = 2 => b = 0 /\ c = 0 /\ z = 0)
  BY <1>x DEF FitsIn
<1>7. /\ ByteOf(v, 0) = x /\ ByteOf(v, 1) = y /\ ByteOf(v, 2) = z
      /\ ByteOf(v, 3) = c /\ \A k \in Nat : k >= 4 => ByteOf(v, k) = 0
  BY <1>5, <1>6, <1>y DEF ByteOf, a
<1>8. byte(0) = x
  BY <1>0, <1>2, <1>7
<1>9. byte(1) = y
  <2>1. CASE w = 1
    BY <1>s, <2>1
  <2>2. CASE w # 1
    BY <1>0, <1>2, <1>7, <2>2
  <2>3. QED
    BY <2>1, <2>2
<1>10. byte(2) = z /\ byte(3) = c
  <2>1. CASE w \in {1, 2}
    BY <1>s, <2>1
  <2>2. CASE w \notin {1, 2}
    BY <1>0, <1>2, <1>7, <2>2
  <2>3. QED
    BY <2>1, <2>2
<1>11. \A k \in 4 .. w - 1 : byte(k) = 0
  <2>1. \A k \in 4 .. w - 1 : k \in Nat /\ k < w /\ k >= 4
    BY <1>0
  <2>2. QED
    BY <1>2, <1>7, <2>1
<1>a. ~(byte(3) > 63)
  BY <1>x, <1>6, <1>10
<1> HIDE DEF byte
<1>12. Number(s) = byte(0) + 256 * byte(1) + 65536 * byte(2) + 16777216 * byte(3)
  BY <1>3, <1>a, <1>11
<1>13. v = x + 256 * y + 65536 * z + 16777216 * c
  BY <1>x
<1>14. QED
  BY <1>8, <1>9, <1>10, <1>12, <1>13 DEF s

(* A number that lies in the bytes is read.                                 *)
LEMMA NumberHere ==
    ASSUME NEW b \in Seq(Byte), NEW o \in Nat, NEW v \in Nat, v < Huge, NEW w, FitsIn(v, w),
           Piece(b, o, BigEndian(v, w))
    PROVE  NumberAt(b, o, w) = v
<1> DEFINE s == BigEndian(v, w)
<1>1. w \in Nat /\ v \in Int
  BY DEF FitsIn
<1>2. s \in Seq(Byte) /\ Len(s) = w
  BY <1>1, BigEndianType
<1> HIDE DEF s
<1>3. Sub(b, o, o + Len(s)) = s
  BY <1>2, PieceSub DEF s
<1>4. NumberAt(b, o, w) = Number(s)
  BY <1>2, <1>3 DEF NumberAt
<1>5. QED
  BY <1>4, NumberBack DEF s

-----------------------------------------------------------------------------
(* The string pool.                                                        *)

(* Sums of a sequence depend on what is summed only.                        *)
Begins(h, n, g, m) ==
    /\ n \in Nat /\ m \in Nat /\ n <= m /\ Len(h) = n /\ Len(g) = m
    /\ \A i \in 1 .. m : g[i] \in Nat
    /\ \A i \in 1 .. n : h[i] = g[i]

(* The sums of a beginning are sums of the whole, and no larger than its    *)
(* own.                                                                     *)
LEMMA PrefixSums ==
    ASSUME NEW n, NEW m, NEW h, NEW g, Begins(h, n, g, m)
    PROVE  /\ \A i \in 0 .. n : Sums(h)[i] = Sums(g)[i]
           /\ Total(h) = Sums(g)[n]
<1> USE DEF Begins
<1>1. \A i \in 1 .. n : h[i] \in Nat
  OBVIOUS
<1>2. /\ Sums(h)[0] = 0 /\ \A i \in 1 .. n : Sums(h)[i] = Sums(h)[i - 1] + h[i]
  BY <1>1, SumsFacts
<1>3. /\ Sums(g)[0] = 0 /\ \A i \in 1 .. m : Sums(g)[i] = Sums(g)[i - 1] + g[i]
  BY SumsFacts
<1> DEFINE G == {i \in 0 .. n : Sums(h)[i] = Sums(g)[i]}
<1>4. 0 \in G
  BY <1>2, <1>3
<1>5. ASSUME NEW i \in 0 .. n - 1, i \in G PROVE i + 1 \in G
  <2>1. i + 1 \in 1 .. n /\ i + 1 \in 1 .. m /\ (i + 1) - 1 = i
    OBVIOUS
  <2>2. Sums(h)[i + 1] = Sums(h)[i] + h[i + 1] /\ Sums(g)[i + 1] = Sums(g)[i] + g[i + 1]
    BY <1>2, <1>3, <2>1
  <2>3. QED
    BY <1>5, <2>1, <2>2
<1>6. 0 .. n \subseteq G
  <2> HIDE DEF G
  <2>1. QED
    BY <1>4, <1>5, UpTo
<1>7. QED
  BY <1>6 DEF Total

(* What the i-th string adds to the pool, and where the first n end.        *)
Interns(s, i) == IF IsFirst(s, i) THEN Append(s[i], 0) ELSE <<>>
InternSizes(s) == [i \in 1 .. Len(s) |-> Len(Interns(s, i))]
PoolEnd(s, n) == 1 + Sums(InternSizes(s))[n]
Ascii == 0 .. 127

(* A string that is added is followed by its NUL byte.                      *)
LEMMA InternsFacts ==
    ASSUME NEW s \in Seq(Seq(Char)), NEW i \in 1 .. Len(s)
    PROVE  /\ Interns(s, i) \in Seq(Ascii) /\ Len(Interns(s, i)) \in Nat
           /\ IsFirst(s, i) =>
                /\ Len(Interns(s, i)) = Len(s[i]) + 1 /\ Interns(s, i)[Len(s[i]) + 1] = 0
                /\ \A k \in 1 .. Len(s[i]) : Interns(s, i)[k] = s[i][k]
           /\ ~IsFirst(s, i) => Len(Interns(s, i)) = 0
<1>1. s[i] \in Seq(Char)
  BY ElementOfSeq
<1>2. Char \subseteq Ascii /\ 0 \in Ascii
  BY DEF Char, Ascii
<1>3. s[i] \in Seq(Ascii)
  BY <1>1, <1>2, Wider
<1>4. /\ Append(s[i], 0) \in Seq(Ascii) /\ Len(Append(s[i], 0)) = Len(s[i]) + 1
      /\ \A k \in 1 .. Len(s[i]) : Append(s[i], 0)[k] = s[i][k]
      /\ Append(s[i], 0)[Len(s[i]) + 1] = 0
  BY <1>2, <1>3, AppendProperties
<1>5. Interns(s, i) \in Seq(Ascii)
  BY <1>4 DEF Interns
<1>6. Len(Interns(s, i)) \in Nat
  BY <1>5, LenProperties
<1>7. ~IsFirst(s, i) => Len(Interns(s, i)) = 0
  BY DEF Interns
<1>8. QED
  BY <1>4, <1>5, <1>6, <1>7 DEF Interns

(* The pool of the first n strings, in the pool of all.                     *)
LEMMA PoolParts ==
    ASSUME NEW s \in Seq(Seq(Char)), NEW n \in 0 .. Len(s)
    PROVE  /\ PoolPart(s, n) \in Seq(Ascii) /\ Len(PoolPart(s, n)) = PoolEnd(s, n)
           /\ PoolEnd(s, n) \in Nat \ {0} /\ PoolPart(s, n)[1] = 0
           /\ \A i \in 1 .. n : /\ PoolEnd(s, i) = PoolEnd(s, i - 1) + Len(Interns(s, i))
                                /\ PoolEnd(s, i) <= PoolEnd(s, n) /\ PoolEnd(s, i - 1) \in Nat \ {0}
                                /\ \A k \in 1 .. Len(Interns(s, i)) :
                                    PoolPart(s, n)[PoolEnd(s, i - 1) + k] = Interns(s, i)[k]
<1> DEFINE q == [i \in 1 .. n |-> IF IsFirst(s, i) THEN Append(s[i], 0) ELSE <<>>]
           L == Len(s)
           h == Lengths(q, n)
           g == InternSizes(s)
           f == FlattenSeq(q)
<1>1. L \in Nat /\ n \in Nat /\ n <= L /\ \A i \in 1 .. n : i \in 1 .. L
  BY LenProperties
<1>2. q = [i \in 1 .. n |-> q[i]] /\ \A i \in 1 .. n : q[i] = Interns(s, i)
  BY DEF Interns
<1>3. PoolPart(s, n) = <<0>> \o f
  BY DEF PoolPart
<1>4. Len(g) = L /\ \A i \in 1 .. L : g[i] = Len(Interns(s, i))
  BY <1>1 DEF InternSizes
<1>5. \A i \in 1 .. L : g[i] \in Nat
  BY <1>4, InternsFacts
<1>6. \A i \in 1 .. n : q[i] \in Seq(Ascii)
  BY <1>1, <1>2, InternsFacts, ZenonT(30)
<1> HIDE DEF q, L, g
<1>7. Flattened(Ascii, n, q)
  BY <1>1, <1>2, <1>6, FlattenOf
<1>8. Len(h) = n /\ \A i \in 1 .. n : h[i] = g[i]
  BY <1>1, <1>2, <1>4 DEF Lengths
<1>9. /\ f \in Seq(Ascii) /\ Len(f) = Total(h) /\ \A i \in 0 .. n : Sums(h)[i] \in 0 .. Total(h)
      /\ \A i \in 1 .. n : Sums(h)[i] = Sums(h)[i - 1] + Len(q[i])
      /\ \A i \in 1 .. n : \A k \in 1 .. Len(q[i]) : f[Sums(h)[i - 1] + k] = q[i][k]
  BY <1>7 DEF Flattened
<1> HIDE DEF h, f
<1>a. n \in Nat /\ L \in Nat /\ n <= L
  BY <1>1
<1>b. f \in Seq(Ascii)
  BY <1>9
<1>10. (\A i \in 0 .. n : Sums(h)[i] = Sums(g)[i]) /\ Total(h) = Sums(g)[n]
  <2>1. Len(g) = L /\ \A i \in 1 .. L : g[i] \in Nat
    BY <1>4, <1>5
  <2>2. Len(h) = n /\ \A i \in 1 .. n : h[i] = g[i]
    BY <1>8
  <2>3. Begins(h, n, g, L)
    BY <1>a, <2>1, <2>2 DEF Begins
  <2>4. QED
    BY <2>3, PrefixSums
<1>11. \A i \in 0 .. n : PoolEnd(s, i) = 1 + Sums(h)[i]
  BY <1>10 DEF PoolEnd, g
<1>12. Len(f) \in Nat /\ PoolEnd(s, n) = 1 + Len(f)
  <2>1. n \in 0 .. n
    BY <1>1
  <2>2. QED
    BY <1>9, <1>10, <1>11, <2>1, LenProperties
<1>13. 0 \in Ascii
  BY DEF Ascii
<1> DEFINE z == <<0>>
           p == z \o f
<1>14. z \in Seq(Ascii) /\ Len(z) = 1 /\ z[1] = 0
  BY <1>13
<1> HIDE DEF z
<1>15. /\ p \in Seq(Ascii) /\ Len(p) = Len(z) + Len(f)
       /\ \A i \in 1 .. Len(z) + Len(f) : p[i] = IF i <= Len(z) THEN z[i] ELSE f[i - Len(z)]
  BY <1>b, <1>14, ConcatProperties
<1> HIDE DEF p
<1>16. p[1] = 0
  <2>1. 1 \in 1 .. Len(z) + Len(f) /\ 1 <= Len(z)
    BY <1>12, <1>14
  <2>2. QED
    BY <1>14, <1>15, <2>1
<1>17. ASSUME NEW i \in 1 .. n
       PROVE  /\ PoolEnd(s, i) = PoolEnd(s, i - 1) + Len(Interns(s, i))
              /\ PoolEnd(s, i) <= PoolEnd(s, n) /\ PoolEnd(s, i - 1) \in Nat \ {0}
              /\ \A k \in 1 .. Len(Interns(s, i)) : p[PoolEnd(s, i - 1) + k] = Interns(s, i)[k]
  <2> DEFINE a == Sums(h)[i - 1]
             b == Sums(h)[i]
             l == Len(Interns(s, i))
  <2>1. i \in 0 .. n /\ i - 1 \in 0 .. n /\ i \in 1 .. Len(s)
    BY <1>1 DEF L
  <2>2. l \in Nat
    BY <2>1, InternsFacts
  <2>3. a \in 0 .. Len(f) /\ b \in 0 .. Len(f) /\ b = a + l
    BY <1>2, <1>9, <2>1
  <2>4. \A k \in 1 .. l : f[a + k] = Interns(s, i)[k]
    BY <1>2, <1>9
  <2>5. PoolEnd(s, i - 1) = 1 + a /\ PoolEnd(s, i) = 1 + b
    BY <1>11, <2>1
  <2> HIDE DEF a, b, l
  <2>6. ASSUME NEW k \in 1 .. l PROVE p[(1 + a) + k] = Interns(s, i)[k]
    <3> DEFINE c == (1 + a) + k
    <3>1. c \in 1 .. Len(z) + Len(f) /\ ~(c <= Len(z)) /\ c - Len(z) = a + k
      BY <1>12, <1>14, <2>2, <2>3
    <3> HIDE DEF c
    <3>2. p[c] = f[a + k]
      BY <1>15, <3>1
    <3>3. QED
      BY <2>4, <3>2 DEF c
  <2>7. b <= Len(f) /\ 1 + a \in Nat \ {0}
    BY <1>12, <2>3
  <2>8. PoolEnd(s, i) <= PoolEnd(s, n)
    BY <1>12, <2>3, <2>5
  <2>9. PoolEnd(s, i) = PoolEnd(s, i - 1) + l
    BY <1>12, <2>2, <2>3, <2>5
  <2>10. QED
    BY <2>5, <2>6, <2>7, <2>8, <2>9 DEF l
<1>18. Len(p) = PoolEnd(s, n) /\ PoolEnd(s, n) \in Nat \ {0}
  BY <1>12, <1>14, <1>15
<1>19. QED
  BY <1>3, <1>15, <1>16, <1>17, <1>18 DEF p, z

(* Every string of the pool, the first byte too, comes after a NUL byte.    *)
LEMMA NulBefore ==
    ASSUME NEW s \in Seq(Seq(Char))
    PROVE  \A n \in 0 .. Len(s) : StringPool(s)[PoolEnd(s, n)] = 0
<1> DEFINE L == Len(s)
           P == StringPool(s)
           G == {n \in 0 .. L : P[PoolEnd(s, n)] = 0}
<1>0. L \in Nat /\ L \in 0 .. L
  BY LenProperties
<1>1. /\ P[1] = 0
      /\ \A i \in 1 .. L : /\ PoolEnd(s, i) = PoolEnd(s, i - 1) + Len(Interns(s, i))
                           /\ PoolEnd(s, i - 1) \in Nat \ {0}
                           /\ \A k \in 1 .. Len(Interns(s, i)) :
                                P[PoolEnd(s, i - 1) + k] = Interns(s, i)[k]
  BY <1>0, PoolParts DEF StringPool
<1>2. PoolEnd(s, 0) = 1
  <2>1. Len(InternSizes(s)) = L /\ \A i \in 1 .. L : InternSizes(s)[i] \in Nat
    BY <1>0, InternsFacts DEF InternSizes
  <2>2. Sums(InternSizes(s))[0] = 0
    BY <1>0, <2>1, SumsFacts
  <2>3. QED
    BY <2>2 DEF PoolEnd
<1> HIDE DEF P
<1>3. 0 \in G
  BY <1>0, <1>1, <1>2
<1>4. ASSUME NEW n \in 0 .. L - 1, n \in G PROVE n + 1 \in G
  <2> DEFINE i == n + 1
             l == Len(Interns(s, i))
             e == PoolEnd(s, n)
  <2>1. i \in 1 .. L /\ i - 1 = n /\ i \in 0 .. L
    BY <1>0
  <2>2. PoolEnd(s, i) = e + l /\ e \in Nat /\ \A k \in 1 .. l : P[e + k] = Interns(s, i)[k]
    BY <1>1, <2>1
  <2>3. P[e] = 0
    BY <1>4
  <2>4. /\ l \in Nat /\ (~IsFirst(s, i) => l = 0)
        /\ IsFirst(s, i) => l = Len(s[i]) + 1 /\ Interns(s, i)[Len(s[i]) + 1] = 0
    BY <2>1, InternsFacts
  <2> HIDE DEF l, e, i
  <2>5. CASE IsFirst(s, i)
    <3>1. s[i] \in Seq(Char)
      BY <2>1, ElementOfSeq
    <3>2. Len(s[i]) \in Nat
      BY <3>1, LenProperties
    <3>3. l \in 1 .. l /\ Interns(s, i)[l] = 0
      BY <2>4, <2>5, <3>2
    <3>4. P[PoolEnd(s, i)] = 0
      BY <2>2, <3>3
    <3>5. QED
      BY <2>1, <3>4 DEF i
  <2>6. CASE ~IsFirst(s, i)
    <3>1. PoolEnd(s, i) = e
      BY <2>2, <2>4, <2>6
    <3>2. QED
      BY <2>1, <2>3, <3>1 DEF i
  <2>7. QED
    BY <2>5, <2>6
<1>5. 0 .. L \subseteq G
  <2> HIDE DEF G, L
  <2>1. QED
    BY <1>0, <1>3, <1>4, UpTo
<1>6. QED
  BY <1>5 DEF P

(* A string that was interned lies in the pool, at the offset it was given, *)
(* between two NUL bytes.                                                   *)
LiesAt(P, o, x) ==
    /\ o \in Nat /\ Len(x) \in Nat /\ o + Len(x) + 1 <= Len(P)
    /\ o = 0 \/ P[o] = 0
    /\ \A k \in 1 .. Len(x) : P[o + k] = x[k]
    /\ P[o + Len(x) + 1] = 0

(* A string of the table is at the offset intern_string gives it.           *)
LEMMA Interned ==
    ASSUME NEW s \in Seq(Seq(Char)), NEW x, In(x, s)
    PROVE  /\ LiesAt(StringPool(s), intern_string(s, x), x)
           /\ intern_string(s, x) = 0 <=> x = <<>>
<1> DEFINE L == Len(s)
           P == StringPool(s)
<1>0. L \in Nat /\ L \in 0 .. L /\ DOMAIN s = 1 .. L
  BY LenProperties
<1>1. PICK j \in 1 .. L : s[j] = x
  BY DEF In
<1>2. /\ P[1] = 0 /\ Len(P) = PoolEnd(s, L) /\ PoolEnd(s, L) \in Nat \ {0}
      /\ \A i \in 1 .. L : /\ PoolEnd(s, i) = PoolEnd(s, i - 1) + Len(Interns(s, i))
                           /\ PoolEnd(s, i) <= PoolEnd(s, L)
                           /\ PoolEnd(s, i - 1) \in Nat \ {0}
                           /\ \A k \in 1 .. Len(Interns(s, i)) :
                                P[PoolEnd(s, i - 1) + k] = Interns(s, i)[k]
  BY <1>0, PoolParts, SMTT(30) DEF StringPool
<1>z. \A n \in 0 .. L : P[PoolEnd(s, n)] = 0
  BY NulBefore
<1> HIDE DEF P
<1>3. CASE x = <<>>
  <2>1. intern_string(s, x) = 0 /\ Len(x) = 0
    BY <1>3 DEF intern_string
  <2>2. QED
    BY <1>2, <1>3, <2>1 DEF LiesAt, P
<1>4. CASE x # <<>>
  <2> DEFINE i == CHOOSE i \in DOMAIN s : s[i] = x /\ IsFirst(s, i)
  <2>1. \E k \in DOMAIN s : s[k] = x /\ IsFirst(s, k)
    <3>1. PICK k \in 1 .. j : s[k] = s[j] /\ IsFirst(s, k)
      BY <1>1, <1>4, FirstPlace
    <3>2. k \in DOMAIN s /\ s[k] = x
      BY <1>0, <1>1, <3>1
    <3>3. QED
      BY <3>1, <3>2
  <2>2. i \in DOMAIN s /\ s[i] = x /\ IsFirst(s, i)
    BY <2>1
  <2>3. intern_string(s, x) = Len(PoolPart(s, i - 1))
    BY <1>4 DEF intern_string
  <2> HIDE DEF i
  <2>4. i \in 1 .. L /\ i - 1 \in 0 .. L
    BY <1>0, <2>2
  <2> DEFINE o == PoolEnd(s, i - 1)
             w == Len(x)
             y == Interns(s, i)
  <2>5. intern_string(s, x) = o
    BY <2>3, <2>4, PoolParts
  <2>6. x \in Seq(Char)
    BY <2>2, <2>4, ElementOfSeq
  <2>7. w \in Nat
    BY <2>6, LenProperties
  <2>8. Len(y) = w + 1 /\ y[w + 1] = 0 /\ \A k \in 1 .. w : y[k] = x[k]
    BY <2>2, <2>4, InternsFacts
  <2>9. /\ PoolEnd(s, i) = o + Len(y) /\ PoolEnd(s, i) <= Len(P) /\ o \in Nat \ {0}
        /\ \A k \in 1 .. Len(y) : P[o + k] = y[k]
    BY <1>2, <2>4
  <2>10. P[o] = 0
    BY <1>z, <2>4
  <2> HIDE DEF o, w, y
  <2>11. o + w + 1 <= Len(P)
    BY <1>2, <2>7, <2>8, <2>9
  <2>12. \A k \in 1 .. w : P[o + k] = x[k]
    BY <2>7, <2>8, <2>9
  <2>13. P[o + w + 1] = 0
    <3>1. w + 1 \in 1 .. Len(y) /\ o + w + 1 = o + (w + 1)
      BY <2>7, <2>8, <2>9
    <3>2. QED
      BY <2>8, <2>9, <3>1
  <2>14. LiesAt(P, o, x)
    BY <2>7, <2>9, <2>10, <2>11, <2>12, <2>13 DEF LiesAt, w
  <2>15. o # 0
    BY <2>9
  <2>16. QED
    BY <1>4, <2>5, <2>14, <2>15 DEF P
<1>5. QED
  BY <1>3, <1>4

(* A character is not NUL, and no byte above 127.                           *)
LEMMA CharFacts == (\A c \in Char : c # 0) /\ (\A c \in Ascii : ~(c > 127)) /\ -1 \notin Char
BY DEF Char, Ascii

(* The strings of the pool, and how the readers find one by its offset.     *)
StringsOf(t) == LET P == StringPool(Strings(t)) IN [o \in Starts(P) |-> StringAt(P, o)]

(* parse_strings finds in the pool the strings that begin at its offsets.   *)
LEMMA PoolParsed ==
    ASSUME NEW s \in Seq(Seq(Char))
    PROVE  parse_strings(StringPool(s), "UTF8")
                = [ok |-> TRUE, at |-> [o \in Starts(StringPool(s)) |-> StringAt(StringPool(s), o)]]
<1> DEFINE P == StringPool(s)
           L == Len(s)
<1>0. L \in Nat /\ L \in 0 .. L
  BY LenProperties
<1>1. P \in Seq(Ascii) /\ Len(P) = PoolEnd(s, L)
  BY <1>0, PoolParts DEF StringPool
<1>2. P[Len(P)] = 0
  BY <1>0, <1>1, NulBefore
<1>3. DOMAIN P = 1 .. Len(P) /\ \A k \in 1 .. Len(P) : P[k] \in Ascii
  BY <1>1, LenProperties, ElementOfSeq
<1> HIDE DEF P
<1>4. ASSUME NEW k \in DOMAIN P PROVE ~(P[k] > 127)
  <2>1. P[k] \in Ascii
    BY <1>3
  <2>2. QED
    BY <2>1, CharFacts
<1>5. QED
  BY <1>2, <1>4 DEF parse_strings, P

(* A string is found at its offset.                                         *)
LEMMA StringFound ==
    ASSUME NEW P \in Seq(Ascii), NEW o, NEW x \in Seq(Char), LiesAt(P, o, x)
    PROVE  get_string([p \in Starts(P) |-> StringAt(P, p)], o) = x
<1> DEFINE N == Len(P)
           w == Len(x)
           Ends(e) == P[e + 1] = 0 /\ \A k \in o .. e - 1 : P[k + 1] # 0
           end == CHOOSE e \in o .. N - 1 : Ends(e)
           g == [p \in Starts(P) |-> StringAt(P, p)]
<1>1. /\ N \in Nat /\ o \in Nat /\ w \in Nat /\ o + w + 1 <= N /\ (o = 0 \/ P[o] = 0)
      /\ (\A k \in 1 .. w : P[o + k] = x[k]) /\ P[o + w + 1] = 0
  BY LenProperties DEF LiesAt
<1>2. \A k \in 1 .. w : x[k] # 0
  <2>1. ASSUME NEW k \in 1 .. w PROVE x[k] # 0
    <3>1. x[k] \in Char
      BY ElementOfSeq
    <3>2. QED
      BY <3>1, CharFacts
  <2>2. QED
    BY <2>1
<1> HIDE DEF N, w
<1>3. o \in Starts(P)
  BY <1>1 DEF Starts, N
<1>4. StringAt(P, o) = Sub(P, o, end)
  BY DEF StringAt, N
<1>5. o + w \in o .. N - 1 /\ Ends(o + w)
  <2>1. ASSUME NEW k \in o .. (o + w) - 1 PROVE P[k + 1] # 0
    <3> DEFINE j == k + 1 - o
    <3>1. j \in 1 .. w /\ o + j = k + 1
      BY <1>1
    <3> HIDE DEF j
    <3>2. P[o + j] = x[j] /\ x[j] # 0
      BY <1>1, <1>2, <3>1
    <3>3. QED
      BY <3>1, <3>2
  <2>2. P[(o + w) + 1] = 0
    BY <1>1
  <2>3. QED
    BY <1>1, <2>1, <2>2
<1>6. end \in o .. N - 1 /\ Ends(end)
  <2> HIDE DEF Ends
  <2>1. \E e \in o .. N - 1 : Ends(e)
    BY <1>5
  <2>2. QED
    BY <2>1
<1> HIDE DEF end
<1>7. end = o + w
  <2>1. CASE end < o + w
    <3>1. end \in o .. (o + w) - 1
      BY <1>1, <1>6, <2>1
    <3>2. QED
      BY <1>5, <1>6, <3>1
  <2>2. CASE end > o + w
    <3>1. o + w \in o .. end - 1
      BY <1>1, <1>6, <2>2
    <3>2. QED
      BY <1>5, <1>6, <3>1
  <2>3. QED
    BY <1>1, <1>6, <2>1, <2>2
<1>8. Char \subseteq Ascii
  BY DEF Char, Ascii
<1>9. x \in Seq(Ascii)
  BY <1>8, Wider
<1>10. Piece(P, o, x)
  BY <1>1 DEF Piece, N, w
<1>11. Sub(P, o, o + Len(x)) = x
  BY <1>1, <1>9, <1>10, PieceSub
<1>12. StringAt(P, o) = x
  BY <1>4, <1>7, <1>11 DEF w
<1>13. o \in DOMAIN g /\ g[o] = StringAt(P, o)
  BY <1>3
<1> HIDE DEF g
<1>14. get_string(g, o) = x
  BY <1>12, <1>13 DEF get_string
<1>15. QED
  BY <1>14 DEF g

(* A string of a table is found at the offset it was interned at.           *)
LEMMA InternedFound ==
    ASSUME NEW t, IsTable(t), NEW x, In(x, Strings(t))
    PROVE  /\ get_string(StringsOf(t), intern_string(Strings(t), x)) = x
           /\ x \in Seq(Char)
<1> DEFINE s == Strings(t)
           P == StringPool(s)
           L == Len(s)
<1>1. s \in Seq(Seq(Char))
  BY StringsFacts
<1>2. L \in Nat /\ L \in 0 .. L
  BY <1>1, LenProperties
<1>3. P \in Seq(Ascii)
  BY <1>1, <1>2, PoolParts DEF StringPool
<1>4. x \in Seq(Char)
  <2>1. PICK j \in 1 .. L : s[j] = x
    BY DEF In
  <2> HIDE DEF s
  <2>2. QED
    BY <1>1, <2>1, ElementOfSeq
<1>5. LiesAt(P, intern_string(s, x), x)
  BY <1>1, Interned
<1>6. StringsOf(t) = [p \in Starts(P) |-> StringAt(P, p)]
  BY DEF StringsOf
<1> HIDE DEF s, P
<1>7. QED
  BY <1>3, <1>4, <1>5, <1>6, StringFound DEF s

-----------------------------------------------------------------------------
(* What the readers make of a table: the sizes of it are small.             *)
Sized(t) == IsTable(t) /\ IsSmall(t) /\ Fits(t)

(* The bound on numbers is above those of two bytes.                        *)
LEMMA HugeFacts == Huge \in Nat /\ 65535 < Huge
BY DEF Huge

(* The offsets of a table are numbers of their fields.                      *)
LEMMA Offsets ==
    ASSUME NEW t, Sized(t)
    PROVE  /\ IsTable(t)
           /\ Len(Image(t)) \in Nat /\ Len(Image(t)) < Huge
           /\ 32 <= rows_start(t) /\ rows_start(t) <= pool_start(t)
           /\ pool_start(t) < data_start(t) /\ data_start(t) <= Len(Image(t))
           /\ rows_start(t) \in Nat /\ pool_start(t) \in Nat /\ data_start(t) \in Nat
           /\ pool_start(t) = rows_start(t) + Len(t.rows) * row_size(t)
           /\ row_size(t) \in Nat /\ Len(t.rows) \in Nat /\ Len(t.columns) \in Nat
           /\ data_start(t) = pool_start(t) + Len(StringPool(Strings(t)))
           /\ Len(StringPool(Strings(t))) \in Nat
           /\ Len(AllData(t)) \in Nat /\ Len(Image(t)) = data_start(t) + Len(AllData(t))
<1> DEFINE a == Len(AllColumns(t))
           b == Len(AllRows(t))
           p == Len(StringPool(Strings(t)))
           d == Len(AllData(t))
<1>0. IsTable(t) /\ IsSmall(t)
  BY DEF Sized
<1>1. a \in Nat /\ b \in Nat /\ p \in Nat /\ d \in Nat
  BY <1>0, PartsType, LenProperties
<1>2. b = Len(t.rows) * row_size(t) /\ row_size(t) \in Nat
  BY <1>0, PartsType
<1>3. Len(t.rows) \in Nat /\ Len(t.columns) \in Nat
  BY <1>0, StoredFacts
<1>4. p # 0
  <2> DEFINE s == Strings(t)
             L == Len(s)
  <2>1. s \in Seq(Seq(Char))
    BY <1>0, StringsFacts
  <2>2. L \in Nat /\ L \in 0 .. L
    BY <2>1, LenProperties
  <2> HIDE DEF s
  <2>3. Len(PoolPart(s, L)) \in Nat \ {0}
    BY <2>1, <2>2, PoolParts
  <2>4. QED
    BY <2>3 DEF StringPool, s
<1>5. rows_start(t) = 32 + a /\ pool_start(t) = rows_start(t) + b /\ data_start(t) = pool_start(t) + p
  BY DEF rows_start, pool_start, data_start, HEADER_SIZE
<1>6. Len(Image(t)) = data_start(t) + d
  BY <1>0, ImageFacts
<1>7. Len(Image(t)) < Huge
  BY <1>0 DEF IsSmall
<1> DEFINE n == Len(t.rows) * row_size(t)
<1>8. n = b
  BY <1>2
<1> HIDE DEF a, b, p, d, n
<1>9. /\ Len(Image(t)) \in Nat
      /\ 32 <= rows_start(t) /\ rows_start(t) <= pool_start(t)
      /\ pool_start(t) < data_start(t) /\ data_start(t) <= Len(Image(t))
      /\ rows_start(t) \in Nat /\ pool_start(t) \in Nat /\ data_start(t) \in Nat
      /\ pool_start(t) = rows_start(t) + n
  BY <1>1, <1>4, <1>5, <1>6, <1>8
<1>10. QED
  BY <1>0, <1>1, <1>2, <1>3, <1>5, <1>6, <1>7, <1>9 DEF p, d, n

(* A number lies in the bytes.                                              *)
HasNumber(b, o, v, w) ==
    o \in Nat /\ v \in Nat /\ v < Huge /\ FitsIn(v, w) /\ Piece(b, o, BigEndian(v, w))

(* A number that lies in the bytes is read there.                           *)
LEMMA NumberFound ==
    ASSUME NEW b \in Seq(Byte), NEW o, NEW v, NEW w, HasNumber(b, o, v, w)
    PROVE  NumberAt(b, o, w) = v
BY NumberHere DEF HasNumber

(* It lies in what it is a part of.                                         *)
LEMMA NumberWithin ==
    ASSUME NEW b \in Seq(Byte), NEW h \in Seq(Byte), NEW p \in Nat, Piece(b, p, h),
           NEW o, NEW v, NEW w, HasNumber(h, o, v, w)
    PROVE  HasNumber(b, p + o, v, w)
<1> DEFINE s == BigEndian(v, w)
<1>1. v \in Int /\ w \in Nat /\ o \in Nat
  BY DEF HasNumber, FitsIn
<1>2. s \in Seq(Byte)
  BY <1>1, BigEndianType
<1>3. Piece(h, o, s)
  BY DEF HasNumber
<1> HIDE DEF s
<1>4. Piece(b, p + o, s)
  BY <1>1, <1>2, <1>3, PieceOfPiece
<1>5. p + o \in Nat
  BY <1>1
<1>6. QED
  BY <1>4, <1>5 DEF HasNumber, s

(* The header, as the readers have it.                                      *)
ReadHeader(t) ==
    [size |-> Len(Image(t)) - 8, encoding |-> "UTF8", rows_offset |-> rows_start(t),
     string_pool_offset |-> pool_start(t), data_pool_offset |-> data_start(t),
     column_count |-> Len(t.columns), row_size |-> row_size(t), row_count |-> Len(t.rows)]

(* It is read from whatever begins with it.                                 *)
LEMMA HeaderRead ==
    ASSUME NEW t, Sized(t), NEW b \in Seq(Byte), Piece(b, 0, Header(t))
    PROVE  TableHeader(b) = ReadHeader(t)
<1> DEFINE H == Header(t)
           S == Seq(Byte)
           size == data_start(t) + Len(AllData(t)) - 8
           rows == rows_start(t) - HEADER_OFFSET
           pool == pool_start(t) - HEADER_OFFSET
           data0 == data_start(t) - HEADER_OFFSET
           n == Len(t.columns)
           z == row_size(t)
           N == Len(t.rows)
<1>0. IsTable(t) /\ IsSmall(t) /\ Fits(t)
  BY DEF Sized
<1>1. /\ H \in S /\ Piece(H, 4, BigEndian(size, 4)) /\ Piece(H, 8, <<0, 1>>)
      /\ Piece(H, 10, BigEndian(rows, 2)) /\ Piece(H, 12, BigEndian(pool, 4))
      /\ Piece(H, 16, BigEndian(data0, 4)) /\ Piece(H, 24, BigEndian(n, 2))
      /\ Piece(H, 26, BigEndian(z, 2)) /\ Piece(H, 28, BigEndian(N, 4))
  BY <1>0, HeaderFacts
<1>2. /\ size \in Nat /\ size < Huge /\ rows \in Nat /\ rows < Huge /\ pool \in Nat /\ pool < Huge
      /\ data0 \in Nat /\ data0 < Huge /\ z \in Nat /\ N \in Nat /\ n \in Nat
      /\ size = Len(Image(t)) - 8 /\ rows + 8 = rows_start(t) /\ pool + 8 = pool_start(t)
      /\ data0 + 8 = data_start(t)
  <2> DEFINE L == Len(Image(t))
             r == rows_start(t)
             p == pool_start(t)
             d == data_start(t)
             a == Len(AllData(t))
  <2>1. /\ L \in Nat /\ L < Huge /\ 32 <= r /\ r <= p /\ p < d /\ d <= L /\ r \in Nat /\ p \in Nat
        /\ d \in Nat /\ a \in Nat /\ L = d + a /\ z \in Nat /\ N \in Nat /\ n \in Nat
    BY Offsets
  <2>2. size = d + a - 8 /\ rows = r - 8 /\ pool = p - 8 /\ data0 = d - 8
    BY DEF HEADER_OFFSET
  <2>3. Huge \in Nat
    BY HugeFacts
  <2> HIDE DEF L, r, p, d, a, size, rows, pool, data0, z, N, n
  <2>4. /\ size \in Nat /\ size < Huge /\ rows \in Nat /\ rows < Huge /\ pool \in Nat /\ pool < Huge
        /\ data0 \in Nat /\ data0 < Huge /\ size = L - 8 /\ rows + 8 = r /\ pool + 8 = p
        /\ data0 + 8 = d
    BY <2>1, <2>2, <2>3
  <2>5. QED
    BY <2>1, <2>4 DEF L, r, p, d
<1>3. rows <= 65535 /\ n <= 65535 /\ z <= 65535 /\ n < Huge /\ z < Huge /\ N < Huge
  <2>1. rows <= 65535 /\ n <= 65535 /\ z <= 65535 /\ N < Huge
    BY <1>0 DEF Fits, IsSmall
  <2>2. n \in Nat /\ z \in Nat
    BY <1>2
  <2> HIDE DEF n, z, rows, N
  <2>3. QED
    BY <2>1, <2>2, HugeFacts
<1> HIDE DEF H, size, rows, pool, data0, n, z, N
<1>4. ASSUME NEW o, NEW v, NEW w, HasNumber(H, o, v, w)
      PROVE  NumberAt(b, o, w) = v
  <2>1. 0 \in Nat /\ Piece(b, 0, H) /\ 0 + o = o
    BY <1>4 DEF H, HasNumber
  <2>2. HasNumber(b, 0 + o, v, w)
    BY <1>1, <1>4, <2>1, NumberWithin
  <2>3. QED
    BY <2>1, <2>2, NumberFound
<1>5. HasNumber(H, 4, size, 4) /\ HasNumber(H, 12, pool, 4) /\ HasNumber(H, 16, data0, 4)
      /\ HasNumber(H, 28, N, 4)
  BY <1>1, <1>2, <1>3 DEF HasNumber, FitsIn
<1>6. HasNumber(H, 10, rows, 2) /\ HasNumber(H, 24, n, 2) /\ HasNumber(H, 26, z, 2)
  BY <1>1, <1>2, <1>3 DEF HasNumber, FitsIn
<1>a. /\ NumberAt(b, 4, 4) = size /\ NumberAt(b, 12, 4) = pool /\ NumberAt(b, 16, 4) = data0
      /\ NumberAt(b, 28, 4) = N /\ NumberAt(b, 10, 2) = rows /\ NumberAt(b, 24, 2) = n
      /\ NumberAt(b, 26, 2) = z
  BY <1>4, <1>5, <1>6
<1>7. NumberAt(b, 9, 1) = 1
  <2> DEFINE s == BigEndian(1, 1)
  <2>0. 1 \in Int /\ 1 \in Nat
    OBVIOUS
  <2>1. s \in S /\ Len(s) = 1
    BY <2>0, BigEndianType
  <2>2. s[1] = 1
    BY DEF BigEndian, ByteOf
  <2>3. 9 + 1 <= Len(H) /\ H[9 + 1] = 1
    <3>1. Len(<<0, 1>>) = 2 /\ 2 \in 1 .. 2 /\ <<0, 1>>[2] = 1
      OBVIOUS
    <3>2. 8 + 2 <= Len(H) /\ H[8 + 2] = 1
      BY <1>1, <3>1 DEF Piece
    <3>3. QED
      BY <3>2
  <2> HIDE DEF s
  <2>4. Piece(H, 9, s)
    BY <2>1, <2>2, <2>3 DEF Piece
  <2>5. HasNumber(H, 9, 1, 1)
    BY <2>4, HugeFacts DEF HasNumber, FitsIn, s
  <2>6. QED
    BY <1>4, <2>5
<1>8. ReadHeader(t) = [size |-> size, encoding |-> "UTF8", rows_offset |-> rows + HEADER_OFFSET,
        string_pool_offset |-> pool + HEADER_OFFSET, data_pool_offset |-> data0 + HEADER_OFFSET,
        column_count |-> n, row_size |-> z, row_count |-> N]
  BY <1>2 DEF ReadHeader, HEADER_OFFSET, n, z, N
<1>9. (IF NumberAt(b, 9, 1) = 0 THEN "ShiftJIS" ELSE "UTF8") = "UTF8"
  BY <1>7
<1>10. QED
  BY <1>a, <1>8, <1>9 DEF TableHeader

-----------------------------------------------------------------------------
(* A field.                                                                *)

(* What a value is read as.                                                 *)
ReadAs(strings, v, at) ==
    CASE v.type = "String" -> Value("String", intern_string(strings, v.v))
      [] v.type = "Data" -> [type |-> "Data", offset |-> at, length |-> Len(v.v)]
      [] OTHER -> v
Storable(strings, type, v, at) ==
    /\ strings \in Seq(Seq(Char)) /\ Len(StringPool(strings)) < Huge
    /\ type \in Types /\ IsValue(type, v) /\ at \in Nat /\ at < Huge
    /\ type = "String" => In(v.v, strings)
    /\ type = "Data" => Len(v.v) < Huge

(* The first byte of a number of four bytes or more has no high bit.        *)
LEMMA TopByte ==
    ASSUME NEW v \in Nat, v < Huge, NEW w \in {4, 8}
    PROVE  ~(BigEndian(v, w)[1] > 127)
<1> DEFINE c == v \div 16777216
<1>1. BigEndian(v, w)[1] = ByteOf(v, w - 1)
  BY DEF BigEndian
<1>2. c \in Nat /\ 16777216 * c <= v
  OBVIOUS
<1> HIDE DEF c
<1>3. v < 1073741824
  BY DEF Huge
<1>4. c < 64
  BY <1>2, <1>3
<1>5. c % 256 = c
  BY <1>2, <1>4
<1>6. ByteOf(v, 3) = c
  BY <1>5 DEF ByteOf, c
<1>7. ByteOf(v, 7) = 0
  BY DEF ByteOf
<1>8. CASE w = 4
  BY <1>1, <1>2, <1>4, <1>6, <1>8
<1>9. CASE w = 8
  BY <1>1, <1>7, <1>9
<1>10. QED
  BY <1>8, <1>9

(* A sequence is all of itself.                                             *)
LEMMA SubSeqAll ==
    ASSUME NEW S, NEW s \in Seq(S), NEW n, Len(s) = n
    PROVE  SubSeq(s, 1, n) = s
<1>1. Len(s) \in Nat
  BY LenProperties
<1>2. 0 \in Nat /\ Piece(s, 0, s)
  BY <1>1 DEF Piece
<1>3. Sub(s, 0, 0 + Len(s)) = s
  BY <1>2, PieceSub
<1>4. 0 + 1 = 1 /\ 0 + Len(s) = n
  BY <1>1
<1>5. QED
  BY <1>3, <1>4 DEF Sub

(* Values that are numbers.                                                 *)
LEMMA NumberRead ==
    ASSUME NEW type \in Numeric, NEW v, IsValue(type, v)
    PROVE  row_value(type, BigEndian(v.v, get_size(type))) = v
<1> DEFINE x == v.v
           w == get_size(type)
           s == BigEndian(x, w)
           n == Number(SubSeq(s, 1, w))
<1>1. type \in Types /\ type \notin {"String", "Data", "Guid", "Invalid"}
  BY DEF Numeric, Types
<1>2. x \in Nat /\ x <= Limit(type) /\ v = Value(type, x)
  BY <1>1, ValueFacts
<1>3. x < Huge
  BY <1>2, HugeFacts DEF Limit
<1>4. FitsIn(x, w)
  <2>1. type \in {"Byte", "SByte"} => w = 1 /\ x <= 255
    BY <1>2 DEF Limit, get_size
  <2>2. type \in {"UInt16", "Int16"} => w = 2 /\ x <= 65535
    BY <1>2 DEF Limit, get_size
  <2>3. type \in {"UInt32", "Int32", "Single"} => w = 4
    BY DEF get_size
  <2>4. type \in {"UInt64", "Int64", "Double"} => w = 8
    BY DEF get_size
  <2>5. type \in {"Byte", "SByte", "UInt16", "Int16", "UInt32", "Int32", "Single", "UInt64",
                  "Int64", "Double"}
    BY DEF Numeric, Types
  <2> HIDE DEF x, w
  <2>6. QED
    BY <2>1, <2>2, <2>3, <2>4, <2>5 DEF FitsIn
<1>5. x \in Int /\ w \in Nat
  BY <1>2, <1>4 DEF FitsIn
<1> HIDE DEF x, w
<1>6. s \in Seq(Byte) /\ Len(s) = w
  BY <1>5, BigEndianType
<1>7. Number(s) = x
  BY <1>2, <1>3, <1>4, NumberBack
<1> HIDE DEF s
<1>8. n = x
  BY <1>6, <1>7, SubSeqAll
<1> HIDE DEF n
<1>9. row_value(type, s) =
        CASE type = "SByte" -> Value(type, Signed(n, 128))
          [] type = "Int16" -> Value(type, Signed(n, 32768))
          [] type \in {"Int32", "Int64"} -> Value(type, IF s[1] > 127 THEN -Huge ELSE n)
          [] OTHER -> Value(type, n)
  BY <1>1 DEF row_value, n, w
<1>10. CASE type = "SByte"
  <2>1. x <= 127
    BY <1>2, <1>10 DEF Limit
  <2>2. Signed(n, 128) = x
    BY <1>2, <1>8, <2>1 DEF Signed
  <2>3. QED
    BY <1>2, <1>9, <1>10, <2>2 DEF s, x, w
<1>11. CASE type = "Int16"
  <2>1. x <= 32767
    BY <1>2, <1>11 DEF Limit
  <2>2. Signed(n, 32768) = x
    BY <1>2, <1>8, <2>1 DEF Signed
  <2>3. QED
    BY <1>2, <1>9, <1>11, <2>2 DEF s, x, w
<1>12. CASE type \in {"Int32", "Int64"}
  <2>1. w \in {4, 8}
    BY <1>12 DEF w, get_size
  <2>2. ~(s[1] > 127)
    BY <1>2, <1>3, <2>1, TopByte DEF s
  <2>3. QED
    BY <1>2, <1>8, <1>9, <1>12, <2>2 DEF s, x, w
<1>13. CASE type \notin {"SByte", "Int16", "Int32", "Int64"}
  BY <1>2, <1>8, <1>9, <1>13 DEF s, x, w
<1>14. QED
  BY <1>10, <1>11, <1>12, <1>13

(* Data: an offset and a length.                                            *)
LEMMA DataRead ==
    ASSUME NEW a \in Nat, a < Huge, NEW l \in Nat, l < Huge
    PROVE  row_value("Data", BigEndian(a, 4) \o BigEndian(l, 4))
                = [type |-> "Data", offset |-> a, length |-> l]
<1> DEFINE x == BigEndian(a, 4)
           y == BigEndian(l, 4)
           s == x \o y
<1>0. a \in Int /\ l \in Int /\ 4 \in Nat /\ FitsIn(a, 4) /\ FitsIn(l, 4)
  BY DEF FitsIn
<1>1. x \in Seq(Byte) /\ Len(x) = 4 /\ y \in Seq(Byte) /\ Len(y) = 4
  BY <1>0, BigEndianType
<1>2. Number(x) = a /\ Number(y) = l
  BY <1>0, NumberBack
<1> HIDE DEF x, y
<1>3. s \in Seq(Byte) /\ Piece(s, 0, x) /\ Piece(s, 4, y)
  BY <1>1, PieceConcat
<1> HIDE DEF s
<1>4. Sub(s, 0, 0 + Len(x)) = x /\ Sub(s, 4, 4 + Len(y)) = y
  <2>1. 0 \in Nat /\ 4 \in Nat
    OBVIOUS
  <2>2. Sub(s, 0, 0 + Len(x)) = x
    BY <1>1, <1>3, <2>1, PieceSub
  <2>3. Sub(s, 4, 4 + Len(y)) = y
    BY <1>1, <1>3, <2>1, PieceSub
  <2>4. QED
    BY <2>2, <2>3
<1>5. SubSeq(s, 1, 4) = x /\ SubSeq(s, 5, 8) = y
  <2>1. 0 + Len(x) = 4 /\ 4 + Len(y) = 8 /\ 0 + 1 = 1 /\ 4 + 1 = 5
    BY <1>1
  <2>2. QED
    BY <1>4, <2>1 DEF Sub
<1>6. row_value("Data", s) = [type |-> "Data", offset |-> Number(SubSeq(s, 1, 4)),
                              length |-> Number(SubSeq(s, 5, 8))]
  BY DEF row_value
<1>7. QED
  BY <1>2, <1>5, <1>6 DEF s, x, y

(* A field is read as what its value stands for.                            *)
LEMMA FieldRead ==
    ASSUME NEW strings, NEW type, NEW v, NEW at, Storable(strings, type, v, at)
    PROVE  row_value(type, FieldBytes(strings, v, at)) = ReadAs(strings, v, at)
<1>0. /\ strings \in Seq(Seq(Char)) /\ Len(StringPool(strings)) < Huge
      /\ type \in Types /\ IsValue(type, v) /\ at \in Nat /\ at < Huge
  BY DEF Storable
<1>1. v.type = type
  BY <1>0, ValueFacts
<1>2. CASE type = "String"
  <2> DEFINE x == intern_string(strings, v.v)
             s == BigEndian(x, 4)
             P == StringPool(strings)
  <2>1. In(v.v, strings)
    BY <1>2 DEF Storable
  <2>2. LiesAt(P, x, v.v)
    BY <1>0, <2>1, Interned
  <2>3. x \in Nat /\ x < Huge
    <3> DEFINE l == Len(v.v)
               p == Len(P)
    <3>1. x \in Nat /\ l \in Nat /\ x + l + 1 <= p
      BY <2>2 DEF LiesAt
    <3>2. p < Huge /\ p \in Nat /\ Huge \in Nat
      <4>1. P \in Seq(Byte)
        <5> DEFINE L == Len(strings)
        <5>1. L \in Nat /\ L \in 0 .. L
          BY <1>0, LenProperties
        <5>2. PoolPart(strings, L) \in Seq(Byte)
          BY <1>0, <5>1, PoolType
        <5>3. QED
          BY <5>2 DEF StringPool
      <4>2. QED
        BY <1>0, <4>1, LenProperties, HugeFacts
    <3> HIDE DEF l, p, x, P
    <3>3. QED
      BY <3>1, <3>2
  <2> HIDE DEF x, P
  <2>4. FitsIn(x, 4) /\ 4 \in Nat /\ x \in Int
    BY <2>3 DEF FitsIn
  <2>5. s \in Seq(Byte) /\ Len(s) = 4
    BY <2>4, BigEndianType
  <2>6. Number(s) = x
    BY <2>3, <2>4, NumberBack
  <2>7. FieldBytes(strings, v, at) = s
    BY <1>1, <1>2 DEF FieldBytes, x
  <2> HIDE DEF s
  <2>8. SubSeq(s, 1, 4) = s
    BY <2>5, SubSeqAll
  <2>9. row_value("String", s) = Value("String", Number(SubSeq(s, 1, 4)))
    BY DEF row_value, get_size
  <2>10. ReadAs(strings, v, at) = Value("String", x)
    BY <1>1, <1>2 DEF ReadAs, x
  <2>11. QED
    BY <1>2, <2>6, <2>7, <2>8, <2>9, <2>10
<1>3. CASE type = "Data"
  <2> DEFINE l == Len(v.v)
  <2>1. v.v \in Seq(Byte)
    BY <1>0, <1>3, ValueFacts
  <2>2. l \in Nat /\ l < Huge
    BY <1>3, <2>1, LenProperties DEF Storable
  <2>3. FieldBytes(strings, v, at) = BigEndian(at, 4) \o BigEndian(l, 4)
    BY <1>1, <1>3 DEF FieldBytes
  <2>4. ReadAs(strings, v, at) = [type |-> "Data", offset |-> at, length |-> l]
    BY <1>1, <1>3 DEF ReadAs
  <2> HIDE DEF l
  <2>5. QED
    BY <1>0, <1>3, <2>2, <2>3, <2>4, DataRead
<1>4. CASE type = "Guid"
  <2>1. v.v \in Seq(Byte) /\ Len(v.v) = 16 /\ v = Value(type, v.v)
    BY <1>0, <1>4, ValueFacts
  <2>2. FieldBytes(strings, v, at) = v.v
    BY <1>1, <1>4 DEF FieldBytes
  <2>3. SubSeq(v.v, 1, 16) = v.v
    BY <2>1, SubSeqAll
  <2>4. row_value(type, v.v) = Value(type, SubSeq(v.v, 1, 16))
    BY <1>4 DEF row_value
  <2>5. ReadAs(strings, v, at) = v
    BY <1>1, <1>4 DEF ReadAs
  <2>6. QED
    BY <2>1, <2>2, <2>3, <2>4, <2>5
<1>5. CASE type \in Numeric
  <2>1. FieldBytes(strings, v, at) = BigEndian(v.v, get_size(type))
    BY <1>1, <1>5 DEF FieldBytes, Numeric
  <2>2. ReadAs(strings, v, at) = v
    BY <1>1, <1>5 DEF ReadAs, Numeric
  <2>3. QED
    BY <1>0, <1>5, <2>1, <2>2, NumberRead
<1>6. QED
  BY <1>0, <1>2, <1>3, <1>4, <1>5 DEF Numeric

(* It is read from wherever it lies.                                        *)
LEMMA FieldFound ==
    ASSUME NEW strings, NEW type, NEW v, NEW at, Storable(strings, type, v, at),
           NEW b \in Seq(Byte), NEW o \in Nat, Piece(b, o, FieldBytes(strings, v, at))
    PROVE  /\ row_value(type, Sub(b, o, o + get_size(type))) = ReadAs(strings, v, at)
           /\ o + get_size(type) <= Len(b)
<1> DEFINE s == FieldBytes(strings, v, at)
<1>1. s \in Seq(Byte) /\ Len(s) = get_size(type)
  BY FieldType DEF Storable
<1>2. row_value(type, s) = ReadAs(strings, v, at)
  BY FieldRead
<1>3. Piece(b, o, s)
  OBVIOUS
<1> HIDE DEF s
<1>4. Sub(b, o, o + Len(s)) = s
  BY <1>1, <1>3, PieceSub
<1>5. QED
  BY <1>1, <1>2, <1>3, <1>4 DEF Piece

-----------------------------------------------------------------------------
(* The columns.                                                            *)

(* A column, as the readers have it.                                        *)
ReadColumn(t, c) ==
    LET col == t.columns[c] IN
    [flag |-> col.flag,
     name |-> IF Has(col.flag, NAME) THEN intern_string(Strings(t), col.name) ELSE NoName,
     default |-> IF Has(col.flag, DEFAULT_VALUE) THEN ReadAs(Strings(t), col.default, 0) ELSE NoValue]
ReadColumns(t) == [c \in 1 .. Len(t.columns) |-> ReadColumn(t, c)]

DefaultAt(t, c) == IF Has(t.columns[c].flag, NAME) THEN 5 ELSE 1
ColumnSize(t, c) ==
    DefaultAt(t, c) + IF Has(t.columns[c].flag, DEFAULT_VALUE) THEN get_size(TypeOf(t, c)) ELSE 0

(* A name of the table is at a small offset.                                *)
LEMMA InternSmall ==
    ASSUME NEW t, Sized(t), NEW x, In(x, Strings(t))
    PROVE  /\ intern_string(Strings(t), x) \in Nat /\ intern_string(Strings(t), x) < Huge
           /\ Len(StringPool(Strings(t))) < Huge /\ Strings(t) \in Seq(Seq(Char))
<1> DEFINE o == intern_string(Strings(t), x)
           P == StringPool(Strings(t))
           l == Len(x)
           p == Len(P)
           d == data_start(t)
           q == pool_start(t)
           I == Len(Image(t))
<1>1. IsTable(t) /\ Strings(t) \in Seq(Seq(Char))
  BY StringsFacts DEF Sized
<1>2. LiesAt(P, o, x)
  BY <1>1, Interned
<1>3. o \in Nat /\ l \in Nat /\ o + l + 1 <= p
  BY <1>2 DEF LiesAt
<1>4. p \in Nat /\ d = q + p /\ q \in Nat /\ d \in Nat /\ d <= I /\ I \in Nat /\ I < Huge
  BY Offsets
<1>5. Huge \in Nat
  BY HugeFacts
<1> HIDE DEF o, P, l, p, d, q, I
<1>6. o < Huge /\ p < Huge
  BY <1>3, <1>4, <1>5
<1>7. QED
  BY <1>1, <1>3, <1>6 DEF o, p, P

(* The parts of a column.                                                   *)
LEMMA ColumnParts ==
    ASSUME NEW t, Sized(t), NEW c \in Columns(t)
    PROVE  LET col == t.columns[c]
               s == ColumnBytes(t, c)
           IN  /\ s \in Seq(Byte) /\ Len(s) = ColumnSize(t, c) /\ ColumnSize(t, c) \in Nat \ {0}
               /\ col.flag \in 0 .. 127 /\ TypeOf(t, c) \in Types
               /\ HasNumber(s, 0, col.flag, 1)
               /\ Has(col.flag, NAME) => HasNumber(s, 1, intern_string(Strings(t), col.name), 4)
               /\ Has(col.flag, DEFAULT_VALUE) =>
                    /\ Storable(Strings(t), TypeOf(t, c), col.default, 0)
                    /\ Piece(s, DefaultAt(t, c), FieldBytes(Strings(t), col.default, 0))
<1> DEFINE col == t.columns[c]
           x == intern_string(Strings(t), col.name)
           name == BigEndian(x, 4)
           default == FieldBytes(Strings(t), col.default, 0)
           type == TypeOf(t, c)
           A == <<col.flag>>
           B == IF Has(col.flag, NAME) THEN name ELSE <<>>
           D == IF Has(col.flag, DEFAULT_VALUE) THEN default ELSE <<>>
           m == DefaultAt(t, c) - 1
           l == ColumnSize(t, c) - DefaultAt(t, c)
<1>0. IsTable(t)
  BY DEF Sized
<1>1. IsColumn(col)
  BY <1>0 DEF IsTable
<1>2. /\ Strings(t) \in Seq(Seq(Char)) /\ In(col.name, Strings(t))
      /\ Has(col.flag, DEFAULT_VALUE) /\ type = "String" => In(col.default.v, Strings(t))
  BY <1>0, StringsFacts DEF NameOf
<1>3. type = get_type(col.flag)
  BY DEF TypeOf
<1>4. ColumnBytes(t, c) = (A \o B) \o D
  BY DEF ColumnBytes
<1>x. x \in Nat /\ x < Huge /\ Len(StringPool(Strings(t))) < Huge
  BY <1>2, InternSmall
<1>5. /\ col.flag \in 0 .. 127 /\ type \in Types
      /\ Has(col.flag, DEFAULT_VALUE) =>
            IsValue(type, col.default) /\ (type = "Data" => col.default.v = <<>>)
  <2>1. col.flag \in 0 .. 127 /\ get_type(col.flag) # "Invalid"
    BY <1>1 DEF IsColumn
  <2>2. col.flag \in Nat
    BY <2>1
  <2>3. type \in Types
    BY <1>3, <2>1, <2>2, TypeFacts
  <2>4. QED
    BY <1>1, <1>3, <2>1, <2>3 DEF IsColumn
<1>6. /\ Has(col.flag, NAME) => m = 4
      /\ ~Has(col.flag, NAME) => m = 0
      /\ Has(col.flag, DEFAULT_VALUE) => l = get_size(type)
      /\ ~Has(col.flag, DEFAULT_VALUE) => l = 0
      /\ m \in {0, 4} /\ l \in Nat /\ DefaultAt(t, c) = 1 + m /\ ColumnSize(t, c) = (1 + m) + l
  <2> DEFINE z == get_size(type)
  <2>1. z \in Nat
    BY SizeType
  <2> HIDE DEF z, type
  <2>2. ColumnSize(t, c) = DefaultAt(t, c) + IF Has(col.flag, DEFAULT_VALUE) THEN z ELSE 0
    BY DEF ColumnSize, z, type
  <2>3. DefaultAt(t, c) = IF Has(col.flag, NAME) THEN 5 ELSE 1
    BY DEF DefaultAt
  <2> HIDE DEF col
  <2>4. QED
    BY <2>1, <2>2, <2>3 DEF z
<1> HIDE DEF m, l
<1>7. Has(col.flag, DEFAULT_VALUE) => Storable(Strings(t), type, col.default, 0)
  <2>1. 0 \in Nat /\ 0 < Huge /\ Len(<<>>) = 0
    BY HugeFacts
  <2>2. QED
    BY <1>2, <1>5, <1>x, <2>1 DEF Storable
<1>8. A \in Seq(Byte) /\ Len(A) = 1 /\ A[1] = col.flag
  <2>1. col.flag \in Byte
    BY <1>5 DEF Byte
  <2>2. QED
    BY <2>1
<1> HIDE DEF x
<1>9. name \in Seq(Byte) /\ Len(name) = 4
  <2>1. x \in Int /\ 4 \in Nat
    BY <1>x
  <2>2. QED
    BY <2>1, BigEndianType
<1>10. Has(col.flag, DEFAULT_VALUE) => default \in Seq(Byte) /\ Len(default) = l
  BY <1>6, <1>7, FieldType DEF Storable
<1> HIDE DEF col, name, default, type
<1>11. B \in Seq(Byte) /\ Len(B) = m /\ (Has(col.flag, NAME) => B = name)
  <2>1. <<>> \in Seq(Byte) /\ Len(<<>>) = 0
    OBVIOUS
  <2>2. QED
    BY <1>6, <1>9, <2>1
<1>12. D \in Seq(Byte) /\ Len(D) = l /\ (Has(col.flag, DEFAULT_VALUE) => D = default)
  <2>1. <<>> \in Seq(Byte) /\ Len(<<>>) = 0
    OBVIOUS
  <2>2. QED
    BY <1>6, <1>10, <2>1
<1> HIDE DEF A, B, D
<1> DEFINE E == A \o B
           F == E \o D
<1>13. E \in Seq(Byte) /\ Len(E) = 1 + m /\ Piece(E, 0, A) /\ Piece(E, 1, B)
  <2>1. Appended(A, B, E, 1, m)
    BY <1>8, <1>11, Grow
  <2> HIDE DEF E
  <2>2. QED
    BY <2>1 DEF Appended
<1> HIDE DEF E
<1>14. F \in Seq(Byte) /\ Len(F) = (1 + m) + l /\ Piece(F, 0, A) /\ Piece(F, 1, B)
       /\ Piece(F, 1 + m, D)
  <2>1. Appended(E, D, F, 1 + m, l)
    BY <1>12, <1>13, Grow
  <2> HIDE DEF F
  <2>2. 0 \in Nat /\ 1 \in Nat
    OBVIOUS
  <2>3. QED
    BY <2>1, <2>2, <1>8, <1>11, <1>13 DEF Appended
<1>15. ColumnBytes(t, c) = F
  BY <1>4 DEF E
<1> HIDE DEF F
<1>16. HasNumber(F, 0, col.flag, 1)
  <2> DEFINE s == BigEndian(col.flag, 1)
             f == col.flag
  <2>0. f \in 0 .. 127
    BY <1>5
  <2>1. f \in Nat /\ f \in Int /\ 1 \in Nat /\ f <= 127 /\ f % 256 = f
    <3> HIDE DEF f
    <3>1. QED
      BY <2>0
  <2>2. s \in Seq(Byte) /\ Len(s) = 1
    BY <2>1, BigEndianType
  <2>3. s[1] = f
    BY <2>1 DEF BigEndian, ByteOf
  <2> HIDE DEF s, f
  <2>4. 0 + 1 <= Len(F) /\ F[0 + 1] = A[1]
    BY <1>8, <1>14 DEF Piece
  <2>5. A[1] = f
    BY <1>8 DEF f
  <2>6. Piece(F, 0, s)
    BY <2>2, <2>3, <2>4, <2>5 DEF Piece
  <2>7. f < Huge /\ FitsIn(f, 1)
    BY <2>1, HugeFacts DEF FitsIn
  <2>8. QED
    BY <2>1, <2>6, <2>7 DEF HasNumber, s, f
<1>17. Has(col.flag, NAME) => HasNumber(F, 1, x, 4)
  BY <1>x, <1>11, <1>14 DEF HasNumber, FitsIn, name
<1>18. Has(col.flag, DEFAULT_VALUE) => Piece(F, DefaultAt(t, c), default)
  BY <1>6, <1>12, <1>14
<1>19. Len(F) = ColumnSize(t, c) /\ ColumnSize(t, c) \in Nat \ {0}
  BY <1>6, <1>14
<1>20. QED
  BY <1>5, <1>7, <1>14, <1>15, <1>16, <1>17, <1>18, <1>19 DEF col, x, default, type

(* NextColumn for the flag it finds.                                        *)
NextAs(b, p, flag, at, list) ==
    LET type == get_type(flag)
        name == at + 1
        default == IF Has(flag, NAME) THEN name + 4 ELSE name
        end == IF Has(flag, DEFAULT_VALUE) THEN default + get_size(type) ELSE default
    IN  IF \/ at >= Len(b)
           \/ Has(flag, DEFAULT_VALUE) /\ type = "Invalid"
           \/ end > Len(b)
        THEN [p EXCEPT !.ok = FALSE]
        ELSE [ok |-> TRUE, at |-> end, list |-> Append(list,
                [flag |-> flag,
                 name |-> IF Has(flag, NAME) THEN NumberAt(b, name, 4) ELSE NoName,
                 default |-> IF Has(flag, DEFAULT_VALUE) THEN row_value(type, Sub(b, default, end))
                             ELSE NoValue])]

(* A column that lies at a place is read there.                             *)
LEMMA NextRead ==
    ASSUME NEW t, Sized(t), NEW c \in Columns(t), NEW b \in Seq(Byte), NEW o \in Nat,
           Piece(b, o, ColumnBytes(t, c)), NEW l
    PROVE  NextColumn(b, [ok |-> TRUE, at |-> o, list |-> l])
                = [ok |-> TRUE, at |-> o + ColumnSize(t, c), list |-> Append(l, ReadColumn(t, c))]
<1> DEFINE p == [ok |-> TRUE, at |-> o, list |-> l]
           col == t.columns[c]
           s == ColumnBytes(t, c)
           x == intern_string(Strings(t), col.name)
           type == TypeOf(t, c)
           flag == col.flag
           d == DefaultAt(t, c)
           w == get_size(type)
           z == ColumnSize(t, c)
           strings == Strings(t)
<1>1. /\ s \in Seq(Byte) /\ Len(s) = z /\ z \in Nat \ {0}
      /\ flag \in 0 .. 127 /\ type \in Types /\ HasNumber(s, 0, flag, 1)
      /\ Has(flag, NAME) => HasNumber(s, 1, x, 4)
      /\ Has(flag, DEFAULT_VALUE) =>
            /\ Storable(strings, type, col.default, 0)
            /\ Piece(s, d, FieldBytes(strings, col.default, 0))
  BY ColumnParts
<1>2. d = (IF Has(flag, NAME) THEN 5 ELSE 1) /\ z = d + (IF Has(flag, DEFAULT_VALUE) THEN w ELSE 0)
  BY DEF DefaultAt, ColumnSize
<1>3. type = get_type(flag) /\ type # "Invalid"
  BY <1>1 DEF TypeOf, Types
<1>4. Piece(b, o, s)
  OBVIOUS
<1>5. ReadColumn(t, c) =
        [flag |-> flag, name |-> IF Has(flag, NAME) THEN x ELSE NoName,
         default |-> IF Has(flag, DEFAULT_VALUE) THEN ReadAs(strings, col.default, 0) ELSE NoValue]
  BY DEF ReadColumn
<1>6. Len(b) \in Nat /\ w \in Nat
  BY LenProperties, SizeType
<1> DEFINE N == Len(b)
           default == col.default
<1> HIDE DEF s, x, type, flag, d, w, z, strings, default, N
<1>7. N \in Nat /\ o + z <= N /\ d \in Nat
  BY <1>1, <1>2, <1>4, <1>6 DEF Piece, N
<1>8. NumberAt(b, o, 1) = flag
  <2>1. HasNumber(b, o + 0, flag, 1)
    BY <1>1, <1>4, NumberWithin
  <2>2. o + 0 = o
    OBVIOUS
  <2>3. QED
    BY <2>1, <2>2, NumberFound
<1>9. Has(flag, NAME) => NumberAt(b, o + 1, 4) = x
  <2>1. ASSUME Has(flag, NAME) PROVE NumberAt(b, o + 1, 4) = x
    <3>1. HasNumber(b, o + 1, x, 4)
      BY <1>1, <1>4, <2>1, NumberWithin
    <3>2. QED
      BY <3>1, NumberFound
  <2>2. QED
    BY <2>1
<1>10. Has(flag, DEFAULT_VALUE) =>
            row_value(type, Sub(b, o + d, o + z)) = ReadAs(strings, default, 0)
  <2>1. ASSUME Has(flag, DEFAULT_VALUE)
        PROVE  row_value(type, Sub(b, o + d, o + z)) = ReadAs(strings, default, 0)
    <3> DEFINE f == FieldBytes(strings, default, 0)
    <3>1. Storable(strings, type, default, 0) /\ Piece(s, d, f)
      BY <1>1, <2>1 DEF default
    <3>2. f \in Seq(Byte)
      BY <3>1, FieldType DEF Storable
    <3> HIDE DEF f
    <3>3. Piece(b, o + d, f)
      BY <1>1, <1>4, <1>7, <3>1, <3>2, PieceOfPiece
    <3>4. o + d \in Nat
      BY <1>7
    <3>5. row_value(type, Sub(b, o + d, (o + d) + get_size(type))) = ReadAs(strings, default, 0)
      BY <3>1, <3>3, <3>4, FieldFound DEF f
    <3>6. (o + d) + get_size(type) = o + z
      BY <1>2, <1>6, <1>7, <2>1 DEF w
    <3>7. QED
      BY <3>5, <3>6
  <2>2. QED
    BY <2>1
<1> DEFINE name2 == o + 1
           default2 == IF Has(flag, NAME) THEN name2 + 4 ELSE name2
           end2 == IF Has(flag, DEFAULT_VALUE) THEN default2 + get_size(type) ELSE default2
<1>11. default2 = o + d /\ end2 = o + z
  <2>1. default2 = o + d
    BY <1>2, <1>7
  <2> HIDE DEF default2
  <2>2. end2 = o + z
    BY <1>2, <1>6, <1>7, <2>1, SMTT(30) DEF w
  <2>3. QED
    BY <2>1, <2>2
<1> HIDE DEF default2, end2
<1>12. NextColumn(b, p) =
        IF \/ o >= N
           \/ Has(flag, DEFAULT_VALUE) /\ type = "Invalid"
           \/ end2 > N
        THEN [p EXCEPT !.ok = FALSE]
        ELSE [ok |-> TRUE, at |-> end2, list |-> Append(l,
                [flag |-> flag, name |-> IF Has(flag, NAME) THEN NumberAt(b, name2, 4) ELSE NoName,
                 default |-> IF Has(flag, DEFAULT_VALUE) THEN row_value(type, Sub(b, default2, end2))
                             ELSE NoValue])]
  <2>1. p.at = o /\ p.list = l
    OBVIOUS
  <2> HIDE DEF p
  <2>2. NextColumn(b, p) = NextAs(b, p, NumberAt(b, p.at, 1), p.at, p.list)
    BY DEF NextColumn, NextAs
  <2>3. NextColumn(b, p) = NextAs(b, p, flag, o, l)
    BY <1>8, <2>1, <2>2
  <2>4. get_type(flag) = type
    BY <1>3
  <2> HIDE DEF N
  <2>5. QED
    BY <2>3, <2>4 DEF NextAs, default2, end2, N
<1>13. ~(o >= N) /\ ~(end2 > N)
  BY <1>1, <1>7, <1>11
<1> HIDE DEF p
<1>14. NextColumn(b, p) =
        [ok |-> TRUE, at |-> end2, list |-> Append(l,
                [flag |-> flag, name |-> IF Has(flag, NAME) THEN NumberAt(b, name2, 4) ELSE NoName,
                 default |-> IF Has(flag, DEFAULT_VALUE) THEN row_value(type, Sub(b, default2, end2))
                             ELSE NoValue])]
  BY <1>3, <1>12, <1>13
<1>15. (IF Has(flag, NAME) THEN NumberAt(b, name2, 4) ELSE NoName)
            = IF Has(flag, NAME) THEN x ELSE NoName
  BY <1>9
<1>16. (IF Has(flag, DEFAULT_VALUE) THEN row_value(type, Sub(b, default2, end2)) ELSE NoValue)
            = IF Has(flag, DEFAULT_VALUE) THEN ReadAs(strings, default, 0) ELSE NoValue
  BY <1>10, <1>11
<1>17. QED
  BY <1>5, <1>11, <1>14, <1>15, <1>16 DEF p, z, default

(* The columns before the k-th take that many bytes, one each at least.     *)
ColumnSizes(t) == [c \in 1 .. Len(t.columns) |-> ColumnSize(t, c)]

(* The bytes of the columns lie one after the other.                        *)
LEMMA ColumnsLie ==
    ASSUME NEW t, Sized(t)
    PROVE  LET n == Len(t.columns)
               S == Sums(ColumnSizes(t))
           IN  /\ n \in Nat /\ Columns(t) = 1 .. n
               /\ S[0] = 0 /\ \A c \in 0 .. n : S[c] \in Nat /\ c <= S[c]
               /\ \A c \in 1 .. n : /\ S[c] = S[c - 1] + ColumnSize(t, c)
                                    /\ Piece(AllColumns(t), S[c - 1], ColumnBytes(t, c))
               /\ AllColumns(t) \in Seq(Byte) /\ Len(AllColumns(t)) = S[n]
<1> DEFINE n == Len(t.columns)
           q == [c \in Columns(t) |-> ColumnBytes(t, c)]
           h == ColumnSizes(t)
           S == Sums(h)
           f == AllColumns(t)
<1>1. n \in Nat /\ Columns(t) = 1 .. n
  BY StoredFacts DEF Sized
<1>2. q = [c \in 1 .. n |-> q[c]] /\ \A c \in 1 .. n : q[c] = ColumnBytes(t, c)
  BY <1>1
<1>3. \A c \in 1 .. n : /\ ColumnBytes(t, c) \in Seq(Byte) /\ Len(ColumnBytes(t, c)) = ColumnSize(t, c)
                        /\ ColumnSize(t, c) \in Nat \ {0}
  BY <1>1, ColumnParts
<1>4. f = FlattenSeq(q)
  BY DEF AllColumns
<1>5. h = [c \in 1 .. n |-> ColumnSize(t, c)]
  BY DEF ColumnSizes
<1> HIDE DEF n, q, h, f
<1>6. Len(h) = n /\ \A c \in 1 .. n : h[c] = ColumnSize(t, c) /\ h[c] \in Nat
  BY <1>1, <1>3, <1>5
<1>7. Flattened(Byte, n, q)
  BY <1>1, <1>2, <1>3, FlattenOf
<1>8. Lengths(q, n) = h
  BY <1>2, <1>3, <1>5 DEF Lengths
<1>9. /\ S[0] = 0 /\ (\A c \in 1 .. n : S[c] = S[c - 1] + h[c]) /\ \A c \in 0 .. n : S[c] \in Nat
  BY <1>1, <1>6, SumsFacts
<1>10. /\ f \in Seq(Byte) /\ Len(f) = Total(h) /\ \A c \in 0 .. n : S[c] \in 0 .. Total(h)
       /\ \A c \in 1 .. n : \A k \in 1 .. Len(q[c]) : f[S[c - 1] + k] = q[c][k]
  BY <1>4, <1>7, <1>8 DEF Flattened
<1>11. Total(h) = S[n]
  BY <1>6 DEF Total
<1> HIDE DEF S
<1>12. \A c \in 0 .. n : c <= S[c]
  <2> DEFINE G == {c \in 0 .. n : c <= S[c]}
  <2>1. 0 \in G
    BY <1>1, <1>9
  <2>2. ASSUME NEW c \in 0 .. n - 1, c \in G PROVE c + 1 \in G
    <3>1. c + 1 \in 1 .. n /\ (c + 1) - 1 = c /\ c \in 0 .. n /\ c + 1 \in 0 .. n
      BY <1>1
    <3>2. S[c + 1] = S[c] + h[c + 1] /\ h[c + 1] \in Nat \ {0} /\ S[c] \in Nat
      BY <1>3, <1>6, <1>9, <3>1
    <3>3. QED
      BY <2>2, <3>1, <3>2
  <2>3. 0 .. n \subseteq G
    <3> HIDE DEF G
    <3>1. QED
      BY <1>1, <2>1, <2>2, UpTo
  <2>4. QED
    BY <2>3
<1>13. ASSUME NEW c \in 1 .. n
       PROVE  S[c] = S[c - 1] + ColumnSize(t, c) /\ Piece(f, S[c - 1], ColumnBytes(t, c))
  <2>1. c \in 0 .. n /\ c - 1 \in 0 .. n
    BY <1>1
  <2>2. S[c] = S[c - 1] + ColumnSize(t, c) /\ Len(q[c]) = ColumnSize(t, c)
    BY <1>2, <1>3, <1>6, <1>9
  <2>3. S[c] <= Len(f) /\ S[c] \in Nat
    <3>1. S[c] \in 0 .. Total(h)
      BY <1>10, <2>1
    <3>2. QED
      BY <1>9, <1>10, <2>1, <3>1
  <2>4. S[c - 1] + Len(q[c]) <= Len(f)
    BY <2>2, <2>3
  <2>5. Piece(f, S[c - 1], q[c])
    BY <1>10, <2>4 DEF Piece
  <2>6. QED
    BY <1>2, <2>2, <2>5
<1>14. QED
  BY <1>1, <1>9, <1>10, <1>11, <1>12, <1>13 DEF n, S, h, f

(* All columns are read, one after the other.                               *)
ColumnsUpTo(t, k) ==
    [ok |-> TRUE, at |-> 32 + Sums(ColumnSizes(t))[k], list |-> [c \in 1 .. k |-> ReadColumn(t, c)]]
ReadNext(b, p) == IF p.ok THEN NextColumn(b, p) ELSE p
FirstColumn == [ok |-> TRUE, at |-> 32, list |-> <<>>]

(* The next column is read after those before it.                           *)
LEMMA ColumnStep ==
    ASSUME NEW t, Sized(t), NEW b \in Seq(Byte), Piece(b, 32, AllColumns(t)),
           NEW k \in 0 .. Len(t.columns) - 1
    PROVE  ReadNext(b, ColumnsUpTo(t, k)) = ColumnsUpTo(t, k + 1)
<1> DEFINE n == Len(t.columns)
           S == Sums(ColumnSizes(t))
           f == AllColumns(t)
           c == k + 1
           s == ColumnBytes(t, c)
           o == 32 + S[k]
           R == {ReadColumn(t, d) : d \in 1 .. n}
           l == [d \in 1 .. k |-> ReadColumn(t, d)]
           m == [d \in 1 .. c |-> ReadColumn(t, d)]
           z == ColumnSize(t, c)
<1>1. /\ n \in Nat /\ Columns(t) = 1 .. n /\ f \in Seq(Byte)
      /\ \A d \in 0 .. n : S[d] \in Nat
      /\ \A d \in 1 .. n : S[d] = S[d - 1] + ColumnSize(t, d) /\ Piece(f, S[d - 1], ColumnBytes(t, d))
  BY ColumnsLie
<1>2. c \in 1 .. n /\ c - 1 = k /\ k \in 0 .. n /\ k \in Nat /\ c \in Nat
  BY <1>1
<1>3. S[c] = S[k] + z /\ Piece(f, S[k], s) /\ S[k] \in Nat
  BY <1>1, <1>2
<1>4. s \in Seq(Byte) /\ z \in Nat
  BY <1>1, <1>2, ColumnParts
<1>5. Piece(b, 32, f)
  OBVIOUS
<1> HIDE DEF n, S, f, s, z
<1>6. Piece(b, o, s)
  <2>1. 32 \in Nat
    OBVIOUS
  <2>2. QED
    BY <1>1, <1>3, <1>4, <1>5, <2>1, PieceOfPiece
<1>7. o \in Nat
  BY <1>3
<1>8. Append(l, ReadColumn(t, c)) = m
  <2>1. l = [d \in 1 .. k |-> l[d]] /\ m = [d \in 1 .. c |-> m[d]]
        /\ (\A d \in 1 .. k : l[d] = ReadColumn(t, d)) /\ \A d \in 1 .. c : m[d] = ReadColumn(t, d)
    OBVIOUS
  <2>2. (\A d \in 1 .. k : l[d] \in R) /\ (\A d \in 1 .. c : m[d] \in R) /\ ReadColumn(t, c) \in R
    <3>1. (\A d \in 1 .. k : d \in 1 .. n) /\ \A d \in 1 .. c : d \in 1 .. n
      BY <1>1, <1>2
    <3>2. QED
      BY <1>2, <3>1
  <2> DEFINE x == ReadColumn(t, c)
             a == Append(l, x)
  <2> HIDE DEF l, m, R, c, x
  <2>m. c \in Nat /\ k \in Nat
    BY <1>2
  <2>i. l = [d \in 1 .. k |-> l[d]] /\ \A d \in 1 .. k : l[d] \in R
    BY <2>1, <2>2
  <2>j. m = [d \in 1 .. c |-> m[d]] /\ \A d \in 1 .. c : m[d] \in R
    BY <2>1, <2>2
  <2>k. l \in Seq(R) /\ Len(l) = k
    BY <2>m, <2>i, MapSeq
  <2>l. m \in Seq(R) /\ Len(m) = c
    BY <2>m, <2>j, MapSeq
  <2>3. l \in Seq(R) /\ Len(l) = k /\ m \in Seq(R) /\ Len(m) = c
    BY <2>k, <2>l
  <2>4. x \in R
    BY <2>2 DEF x
  <2>5. /\ a \in Seq(R) /\ Len(a) = Len(l) + 1 /\ (\A i \in 1 .. Len(l) : a[i] = l[i])
        /\ a[Len(l) + 1] = x
    BY <2>3, <2>4, AppendProperties
  <2> HIDE DEF a
  <2>c. c = k + 1
    BY DEF c
  <2>6. ASSUME NEW i \in 1 .. c PROVE a[i] = m[i]
    <3>1. CASE i = c
      BY <2>1, <2>3, <2>5, <2>c, <3>1 DEF x
    <3>2. CASE i # c
      <4>1. i \in 1 .. k
        BY <1>2, <2>c, <3>2
      <4>2. QED
        BY <2>1, <2>3, <2>5, <4>1
    <3>3. QED
      BY <3>1, <3>2
  <2>7. Len(a) = Len(m)
    BY <2>3, <2>5, <2>c
  <2>8. a = m
    BY <2>3, <2>5, <2>6, <2>7, SeqEqual
  <2>9. QED
    BY <2>8 DEF a, x
<1> HIDE DEF l, m, c, o
<1>9. NextColumn(b, [ok |-> TRUE, at |-> o, list |-> l]) = [ok |-> TRUE, at |-> o + z, list |-> m]
  <2>1. c \in Columns(t) /\ Piece(b, o, ColumnBytes(t, c))
    BY <1>1, <1>2, <1>6 DEF s
  <2>2. NextColumn(b, [ok |-> TRUE, at |-> o, list |-> l])
            = [ok |-> TRUE, at |-> o + ColumnSize(t, c), list |-> Append(l, ReadColumn(t, c))]
    BY <1>7, <2>1, NextRead
  <2>3. QED
    BY <1>8, <2>2 DEF z
<1>10. ColumnsUpTo(t, k) = [ok |-> TRUE, at |-> o, list |-> l]
  BY DEF ColumnsUpTo, o, l, S
<1>11. ColumnsUpTo(t, c) = [ok |-> TRUE, at |-> o + z, list |-> m]
  <2>1. o + z = 32 + S[c]
    BY <1>3, <1>4 DEF o
  <2>2. QED
    BY <2>1 DEF ColumnsUpTo, m, S
<1>12. QED
  BY <1>9, <1>10, <1>11 DEF ReadNext, c

(* The recursion of Column::new_list has one solution.                      *)
LEMMA ColumnsRead ==
    ASSUME NEW t, Sized(t), NEW b \in Seq(Byte), Piece(b, 32, AllColumns(t))
    PROVE  new_columns(b, Len(t.columns))
                = [ok |-> TRUE, at |-> rows_start(t), list |-> ReadColumns(t)]
<1> DEFINE n == Len(t.columns)
           S == Sums(ColumnSizes(t))
           e == [k \in 0 .. n |-> ColumnsUpTo(t, k)]
           Solves(g) == g = [k \in 0 .. n |-> IF k = 0 THEN FirstColumn ELSE ReadNext(b, g[k - 1])]
           upto == CHOOSE g : Solves(g)
<1>1. /\ n \in Nat /\ S[0] = 0 /\ (\A k \in 0 .. n : S[k] \in Nat /\ k <= S[k])
      /\ AllColumns(t) \in Seq(Byte) /\ Len(AllColumns(t)) = S[n]
  BY ColumnsLie
<1>2. Len(b) \in Nat /\ 32 + Len(AllColumns(t)) <= Len(b)
  BY LenProperties DEF Piece
<1>3. n <= Len(b)
  BY <1>1, <1>2, SMTT(30)
<1>4. \A k \in 0 .. n - 1 : ReadNext(b, ColumnsUpTo(t, k)) = ColumnsUpTo(t, k + 1)
  BY ColumnStep
<1>5. ColumnsUpTo(t, 0) = FirstColumn
  <2>1. [c \in 1 .. 0 |-> ReadColumn(t, c)] = <<>>
    OBVIOUS
  <2>2. QED
    BY <1>1, <2>1 DEF ColumnsUpTo, FirstColumn
<1>6. ColumnsUpTo(t, n) = [ok |-> TRUE, at |-> rows_start(t), list |-> ReadColumns(t)]
  BY <1>1 DEF ColumnsUpTo, ReadColumns, rows_start, HEADER_SIZE
<1>7. new_columns(b, n) = IF n > Len(b) THEN [ok |-> FALSE, at |-> 0, list |-> <<>>] ELSE upto[n]
  BY DEF new_columns, ReadNext, FirstColumn, HEADER_SIZE
<1> HIDE DEF n, S
<1>8. Solves(e)
  <2>1. ASSUME NEW k \in 0 .. n
        PROVE  e[k] = IF k = 0 THEN FirstColumn ELSE ReadNext(b, e[k - 1])
    <3>1. CASE k = 0
      BY <1>5, <3>1
    <3>2. CASE k # 0
      <4>1. k - 1 \in 0 .. n - 1 /\ k - 1 \in 0 .. n /\ (k - 1) + 1 = k
        BY <1>1, <3>2
      <4>2. e[k] = ColumnsUpTo(t, k) /\ e[k - 1] = ColumnsUpTo(t, k - 1)
        BY <4>1
      <4>3. ReadNext(b, ColumnsUpTo(t, k - 1)) = ColumnsUpTo(t, (k - 1) + 1)
        BY <1>4, <4>1
      <4> HIDE DEF e
      <4>4. QED
        BY <3>2, <4>1, <4>2, <4>3
    <3>3. QED
      BY <3>1, <3>2
  <2>2. e = [k \in 0 .. n |-> e[k]]
    OBVIOUS
  <2> HIDE DEF e
  <2>3. e = [k \in 0 .. n |-> IF k = 0 THEN FirstColumn ELSE ReadNext(b, e[k - 1])]
    BY <2>1, <2>2
  <2>4. QED
    BY <2>3
<1>9. Solves(upto)
  <2> HIDE DEF Solves
  <2>1. QED
    BY <1>8
<1> HIDE DEF upto, e
<1>10. upto[0] = FirstColumn /\ \A k \in 1 .. n : upto[k] = ReadNext(b, upto[k - 1])
  <2>1. ASSUME NEW k \in 0 .. n
        PROVE  upto[k] = IF k = 0 THEN FirstColumn ELSE ReadNext(b, upto[k - 1])
    BY <1>9
  <2>2. QED
    BY <1>1, <2>1
<1> HIDE DEF Solves
<1>11. n \in 0 .. n /\ upto[n] = ColumnsUpTo(t, n)
  <2> DEFINE G == {k \in 0 .. n : upto[k] = ColumnsUpTo(t, k)}
  <2>1. 0 \in G
    BY <1>1, <1>5, <1>10
  <2>2. ASSUME NEW k \in 0 .. n - 1, k \in G PROVE k + 1 \in G
    <3>1. k + 1 \in 1 .. n /\ (k + 1) - 1 = k /\ k + 1 \in 0 .. n
      BY <1>1
    <3>2. upto[k + 1] = ReadNext(b, upto[k])
      BY <1>10, <3>1
    <3>3. QED
      BY <1>4, <2>2, <3>1, <3>2
  <2>3. 0 .. n \subseteq G
    <3> HIDE DEF G
    <3>1. QED
      BY <1>1, <2>1, <2>2, UpTo
  <2>4. n \in 0 .. n
    BY <1>1
  <2>5. QED
    BY <2>3, <2>4
<1>12. ~(n > Len(b))
  BY <1>1, <1>2, <1>3
<1>13. QED
  BY <1>6, <1>7, <1>11, <1>12 DEF n

-----------------------------------------------------------------------------
(* The rows.                                                               *)

(* The data of a field lies in the data of the table, after all that comes  *)
(* before it.                                                               *)
LEMMA DataLies ==
    ASSUME NEW t, IsTable(t), NEW i \in 1 .. Len(Fields(t))
    PROVE  /\ DataOf(Fields(t)[i]) \in Seq(Byte) /\ Len(DataBefore(t, i)) \in Nat
           /\ Piece(AllData(t), Len(DataBefore(t, i)), DataOf(Fields(t)[i]))
<1> DEFINE M == Len(Fields(t))
           n == i - 1
           q == [j \in 1 .. (M + 1) - 1 |-> DataOf(Fields(t)[j])]
           p == [j \in 1 .. i - 1 |-> DataOf(Fields(t)[j])]
           g == Lengths(q, M)
           h == Lengths(p, n)
           S == Sums(g)
<1>1. Fields(t) \in Seq(Values(t))
  BY FieldsFacts
<1>2. M \in Nat /\ \A j \in 1 .. M : Fields(t)[j] \in Values(t)
  BY <1>1, LenProperties, ElementOfSeq
<1>3. n \in Nat /\ (M + 1) - 1 = M /\ n + 1 = i /\ i \in 1 .. M /\ n <= M
  BY <1>2
<1>4. ASSUME NEW j \in 1 .. M PROVE DataOf(Fields(t)[j]) \in Seq(Byte)
  <2>1. PICK type \in Types : IsValue(type, Fields(t)[j])
    BY <1>2, ValuesType
  <2>2. Fields(t)[j].type = "Data" => Fields(t)[j].v \in Seq(Byte)
    BY <2>1, ValueFacts
  <2>3. QED
    BY <2>2 DEF DataOf
<1>5. /\ q = [j \in 1 .. M |-> q[j]] /\ (\A j \in 1 .. M : q[j] = DataOf(Fields(t)[j]))
      /\ p = [j \in 1 .. n |-> p[j]] /\ (\A j \in 1 .. n : p[j] = DataOf(Fields(t)[j]))
  BY <1>3
<1>6. AllData(t) = FlattenSeq(q) /\ DataBefore(t, i) = FlattenSeq(p)
  BY DEF AllData, DataBefore
<1> HIDE DEF q, p, n, M
<1>7. Flattened(Byte, M, q)
  BY <1>2, <1>4, <1>5, FlattenOf
<1>8. Flattened(Byte, n, p)
  <2>1. \A j \in 1 .. n : j \in 1 .. M
    BY <1>2, <1>3
  <2>2. \A j \in 1 .. n : p[j] \in Seq(Byte)
    BY <1>4, <1>5, <2>1
  <2>3. QED
    BY <1>3, <1>5, <2>2, FlattenOf
<1>9. Len(g) = M /\ \A j \in 1 .. M : g[j] = Len(q[j]) /\ g[j] \in Nat
  <2>1. \A j \in 1 .. M : Len(q[j]) \in Nat
    BY <1>4, <1>5, LenProperties
  <2>2. QED
    BY <1>2, <2>1 DEF Lengths
<1>10. Len(h) = n /\ \A j \in 1 .. n : h[j] = g[j]
  <2>1. \A j \in 1 .. n : j \in 1 .. M
    BY <1>2, <1>3
  <2>2. \A j \in 1 .. n : p[j] = q[j]
    BY <1>5, <2>1
  <2>3. QED
    BY <1>3, <1>9, <2>1, <2>2 DEF Lengths
<1> HIDE DEF g, h
<1>11. Total(h) = S[n]
  <2>1. Begins(h, n, g, M)
    BY <1>2, <1>3, <1>9, <1>10 DEF Begins
  <2>2. QED
    BY <2>1, PrefixSums
<1>12. Len(DataBefore(t, i)) = S[n]
  BY <1>6, <1>8, <1>11 DEF Flattened, h
<1>13. /\ FlattenSeq(q) \in Seq(Byte) /\ Len(FlattenSeq(q)) = Total(g)
       /\ S[i] \in 0 .. Total(g) /\ S[n] \in 0 .. Total(g) /\ S[i] = S[n] + Len(q[i])
       /\ \A k \in 1 .. Len(q[i]) : FlattenSeq(q)[S[n] + k] = q[i][k]
  <2>1. i \in 1 .. M /\ i \in 0 .. M /\ n \in 0 .. M /\ i - 1 = n
    BY <1>2, <1>3
  <2>2. QED
    BY <1>7, <2>1 DEF Flattened, g
<1>14. Total(g) \in Nat
  BY <1>13, LenProperties
<1> HIDE DEF S
<1>15. S[n] + Len(q[i]) <= Len(FlattenSeq(q)) /\ S[n] \in Nat
  BY <1>13, <1>14
<1>16. Piece(FlattenSeq(q), S[n], q[i])
  BY <1>13, <1>15 DEF Piece
<1>17. q[i] = DataOf(Fields(t)[i])
  BY <1>3, <1>5
<1>18. QED
  BY <1>3, <1>4, <1>6, <1>12, <1>15, <1>16, <1>17

(* The data before a field and its own are the data before the next one.    *)
LEMMA DataStep ==
    ASSUME NEW t, IsTable(t), NEW i \in 1 .. Len(Fields(t))
    PROVE  /\ Len(DataBefore(t, i)) \in Nat
           /\ Len(DataBefore(t, i + 1)) = Len(DataBefore(t, i)) + Len(DataOf(Fields(t)[i]))
<1> DEFINE M == Len(Fields(t))
           n == i - 1
           q == [j \in 1 .. (i + 1) - 1 |-> DataOf(Fields(t)[j])]
           p == [j \in 1 .. i - 1 |-> DataOf(Fields(t)[j])]
           g == Lengths(q, i)
           h == Lengths(p, n)
           S == Sums(g)
<1>1. Fields(t) \in Seq(Values(t))
  BY FieldsFacts
<1>2. M \in Nat /\ \A j \in 1 .. M : Fields(t)[j] \in Values(t)
  BY <1>1, LenProperties, ElementOfSeq
<1>3. n \in Nat /\ i \in Nat /\ (i + 1) - 1 = i /\ n + 1 = i /\ i \in 1 .. i /\ n \in 0 .. i /\ i <= M
  BY <1>2
<1>4. ASSUME NEW j \in 1 .. i PROVE DataOf(Fields(t)[j]) \in Seq(Byte)
  <2>1. j \in 1 .. M
    BY <1>2, <1>3
  <2>2. PICK type \in Types : IsValue(type, Fields(t)[j])
    BY <1>2, <2>1, ValuesType
  <2>3. Fields(t)[j].type = "Data" => Fields(t)[j].v \in Seq(Byte)
    BY <2>2, ValueFacts
  <2>4. QED
    BY <2>3 DEF DataOf
<1>5. /\ q = [j \in 1 .. i |-> q[j]] /\ (\A j \in 1 .. i : q[j] = DataOf(Fields(t)[j]))
      /\ p = [j \in 1 .. n |-> p[j]] /\ (\A j \in 1 .. n : p[j] = DataOf(Fields(t)[j]))
  BY <1>3
<1>6. DataBefore(t, i + 1) = FlattenSeq(q) /\ DataBefore(t, i) = FlattenSeq(p)
  BY DEF DataBefore
<1>7. \A j \in 1 .. n : j \in 1 .. i
  BY <1>3
<1> HIDE DEF q, p, n, M
<1>8. Flattened(Byte, i, q) /\ Flattened(Byte, n, p)
  <2>1. \A j \in 1 .. i : q[j] \in Seq(Byte)
    BY <1>4, <1>5
  <2>2. \A j \in 1 .. n : p[j] \in Seq(Byte)
    BY <1>4, <1>5, <1>7
  <2>3. Flattened(Byte, i, q)
    BY <1>3, <1>5, <2>1, FlattenOf
  <2>4. QED
    BY <1>3, <1>5, <2>2, <2>3, FlattenOf
<1>9. /\ Len(g) = i /\ \A j \in 1 .. i : g[j] = Len(q[j]) /\ g[j] \in Nat
      /\ Len(h) = n /\ \A j \in 1 .. n : h[j] = g[j]
  <2>1. \A j \in 1 .. i : Len(q[j]) \in Nat
    BY <1>4, <1>5, LenProperties
  <2>2. \A j \in 1 .. n : p[j] = q[j]
    BY <1>5, <1>7
  <2>3. QED
    BY <1>3, <1>7, <2>1, <2>2 DEF Lengths
<1> HIDE DEF g, h
<1>10. Total(h) = S[n]
  <2>1. Begins(h, n, g, i)
    BY <1>3, <1>9 DEF Begins
  <2>2. QED
    BY <2>1, PrefixSums
<1>11. Len(FlattenSeq(p)) = S[n] /\ FlattenSeq(p) \in Seq(Byte)
  BY <1>8, <1>10 DEF Flattened, h
<1>12. Len(FlattenSeq(q)) = S[i] /\ S[i] = S[n] + Len(q[i])
  <2>1. Len(FlattenSeq(q)) = Total(g) /\ Total(g) = S[i]
    BY <1>8, <1>9 DEF Flattened, g, Total
  <2>2. S[i] = S[i - 1] + Len(q[i]) /\ i - 1 = n
    BY <1>3, <1>8 DEF Flattened, g
  <2>3. QED
    BY <2>1, <2>2
<1>13. q[i] = DataOf(Fields(t)[i])
  BY <1>3, <1>5
<1>14. Len(FlattenSeq(p)) \in Nat
  BY <1>11, LenProperties
<1>15. QED
  BY <1>6, <1>11, <1>12, <1>13, <1>14

(* Sums with zeros for what is left out are those of what is kept.          *)
Left(P, n, w) == [c \in 1 .. n |-> IF c \in P THEN w[c] ELSE 0]

(* Summing what is kept is summing with zeros for the rest.                 *)
LEMMA KeptSums ==
    ASSUME NEW n \in Nat, NEW P \in SUBSET (1 .. n), NEW w, \A c \in 1 .. n : w[c] \in Nat
    PROVE  LET g == Left(P, n, w)
               h == [k \in 1 .. Cardinality(P) |-> w[Nth(P, k)]]
           IN  /\ \A k \in 1 .. Cardinality(P) : Sums(g)[Nth(P, k) - 1] = Sums(h)[k - 1]
               /\ Sums(g)[n] = Sums(h)[Cardinality(P)]
<1> DEFINE K == Cardinality(P)
           x(k) == Nth(P, k)
           g == Left(P, n, w)
           h == [k \in 1 .. K |-> w[x(k)]]
<1>1. /\ K \in Nat
      /\ \A k \in 1 .. K : x(k) \in P
      /\ \A j, k \in 1 .. K : j < k => x(j) < x(k)
      /\ \A i \in P : \E k \in 1 .. K : x(k) = i
  BY KeptFacts
<1>2. /\ Len(g) = n /\ \A c \in 1 .. n : g[c] \in Nat
      /\ \A c \in 1 .. n : g[c] = IF c \in P THEN w[c] ELSE 0
  <2>1. g = [c \in 1 .. n |-> g[c]] /\ \A c \in 1 .. n : g[c] = (IF c \in P THEN w[c] ELSE 0)
    BY DEF Left
  <2> HIDE DEF g
  <2>2. \A c \in 1 .. n : g[c] \in Nat
    BY <2>1
  <2>3. Len(g) = n
    BY <2>1, <2>2, MapSeq
  <2>4. QED
    BY <2>1, <2>2, <2>3
<1>p. \A k \in 1 .. K : x(k) \in 1 .. n
  BY <1>1
<1> HIDE DEF K, x
<1>3. Len(h) = K /\ \A k \in 1 .. K : h[k] = w[x(k)] /\ h[k] \in Nat
  BY <1>1, <1>p
<1> HIDE DEF g, h
<1>4. Sums(g)[0] = 0 /\ \A c \in 1 .. n : Sums(g)[c] = Sums(g)[c - 1] + g[c]
  BY <1>2, SumsFacts
<1>5. Sums(h)[0] = 0 /\ \A k \in 1 .. K : Sums(h)[k] = Sums(h)[k - 1] + h[k]
  BY <1>1, <1>3, SumsFacts, ZenonT(30)
<1>a. \A c \in 0 .. n : Sums(g)[c] \in Nat
  BY <1>2, SumsFacts
<1> DEFINE At(c, j) == /\ Sums(g)[c] = Sums(h)[j]
                       /\ \A k \in 1 .. K : k <= j <=> x(k) <= c
           G == {c \in 0 .. n : \E j \in 0 .. K : At(c, j)}
<1>6. 0 \in G
  <2>1. 0 \in 0 .. K /\ 0 \in 0 .. n
    BY <1>1
  <2>2. At(0, 0)
    BY <1>4, <1>5, <1>p
  <2> HIDE DEF At
  <2>3. QED
    BY <2>1, <2>2
<1>7. ASSUME NEW c \in 0 .. n - 1, c \in G PROVE c + 1 \in G
  <2>0. c + 1 \in 1 .. n /\ (c + 1) - 1 = c /\ c + 1 \in 0 .. n
    OBVIOUS
  <2>1. PICK j \in 0 .. K : At(c, j)
    BY <1>7
  <2>2. Sums(g)[c + 1] = Sums(g)[c] + g[c + 1] /\ Sums(g)[c] \in Nat
    BY <1>4, <1>a, <2>0
  <2>3. CASE c + 1 \in P
    <3>1. PICK k \in 1 .. K : x(k) = c + 1
      BY <1>1, <2>3
    <3>2. ~(k <= j)
      BY <2>1, <3>1
    <3>3. k = j + 1
      <4>1. CASE j + 1 < k
        <5>1. j + 1 \in 1 .. K
          BY <1>1, <4>1
        <5>2. x(j + 1) < c + 1 /\ x(j + 1) \in 1 .. n
          BY <1>1, <1>p, <3>1, <4>1, <5>1
        <5>3. x(j + 1) <= c
          BY <5>2
        <5>4. j + 1 <= j
          BY <2>1, <5>1, <5>3
        <5>5. QED
          BY <5>4
      <4>2. CASE ~(j + 1 < k)
        BY <1>1, <3>2, <4>2
      <4>3. QED
        BY <4>1, <4>2
    <3>4. Sums(g)[c + 1] = Sums(h)[k]
      <4>1. g[c + 1] = w[c + 1]
        BY <1>2, <2>0, <2>3
      <4>2. h[k] = w[c + 1]
        BY <1>3, <3>1
      <4>3. Sums(h)[k] = Sums(h)[j] + h[k]
        <5>1. k - 1 = j
          BY <1>1, <3>3
        <5>2. QED
          BY <1>5, <5>1
      <4>4. QED
        BY <2>1, <2>2, <4>1, <4>2, <4>3
    <3>5. ASSUME NEW i \in 1 .. K PROVE i <= k <=> x(i) <= c + 1
      <4>1. i < k => x(i) < x(k)
        BY <1>1
      <4>2. k < i => x(k) < x(i)
        BY <1>1
      <4>3. x(i) \in 1 .. n
        BY <1>p
      <4>4. i = k => x(i) = x(k)
        OBVIOUS
      <4>5. QED
        BY <1>1, <3>1, <4>1, <4>2, <4>3, <4>4
    <3>6. k \in 0 .. K /\ At(c + 1, k)
      BY <1>1, <3>4, <3>5
    <3> HIDE DEF At
    <3>7. QED
      BY <2>0, <3>6
  <2>4. CASE c + 1 \notin P
    <3>1. Sums(g)[c + 1] = Sums(h)[j]
      <4>1. g[c + 1] = 0
        BY <1>2, <2>0, <2>4
      <4>2. QED
        BY <2>1, <2>2, <4>1
    <3>2. ASSUME NEW k \in 1 .. K PROVE k <= j <=> x(k) <= c + 1
      <4>1. x(k) # c + 1 /\ x(k) \in 1 .. n
        BY <1>1, <1>p, <2>4
      <4>2. k <= j <=> x(k) <= c
        BY <2>1
      <4>3. QED
        BY <4>1, <4>2
    <3>3. At(c + 1, j)
      BY <3>1, <3>2
    <3> HIDE DEF At
    <3>4. QED
      BY <2>0, <3>3
  <2>5. QED
    BY <2>3, <2>4
<1>8. 0 .. n \subseteq G
  <2> HIDE DEF G
  <2>1. QED
    BY <1>6, <1>7, UpTo
<1>9. ASSUME NEW k \in 1 .. K PROVE Sums(g)[x(k) - 1] = Sums(h)[k - 1]
  <2>1. x(k) \in 1 .. n /\ x(k) - 1 \in 0 .. n
    BY <1>p
  <2>2. PICK j \in 0 .. K : At(x(k) - 1, j)
    BY <1>8, <2>1
  <2>3. ~(k <= j)
    BY <2>1, <2>2
  <2>4. j = k - 1
    <3>1. CASE k = 1
      BY <1>1, <2>3, <3>1
    <3>2. CASE k # 1
      <4>1. k - 1 \in 1 .. K /\ k - 1 < k
        BY <1>1, <3>2
      <4>2. x(k - 1) < x(k) /\ x(k - 1) \in 1 .. n
        BY <1>1, <1>p, <4>1
      <4>3. x(k - 1) <= x(k) - 1
        BY <2>1, <4>2
      <4>4. k - 1 <= j
        BY <2>2, <4>1, <4>3
      <4>5. QED
        BY <1>1, <2>3, <4>4
    <3>3. QED
      BY <3>1, <3>2
  <2>5. QED
    BY <2>2, <2>4
<1>10. Sums(g)[n] = Sums(h)[K]
  <2>1. n \in 0 .. n
    OBVIOUS
  <2>2. PICK j \in 0 .. K : At(n, j)
    BY <1>8, <2>1
  <2>3. j = K
    <3>1. CASE K = 0
      BY <3>1
    <3>2. CASE K # 0
      <4>1. K \in 1 .. K
        BY <1>1, <3>2
      <4>2. x(K) \in 1 .. n
        BY <1>p, <4>1
      <4>3. K <= j
        BY <2>2, <4>1, <4>2
      <4>4. QED
        BY <1>1, <4>3
    <3>3. QED
      BY <3>1, <3>2
  <2>4. QED
    BY <2>2, <2>3
<1>11. QED
  BY <1>9, <1>10 DEF g, h, K, x

(* The stored columns: each once, in their order.                           *)
StoredSet(t) == {c \in Columns(t) : Has(t.columns[c].flag, ROW_STORAGE)}
SizeOf(t, c) == get_size(TypeOf(t, c))
StoredSizes(t) == [k \in 1 .. Len(Stored(t)) |-> SizeOf(t, Stored(t)[k])]

(* Every stored column occurs once among the stored ones, and no other      *)
(* does.                                                                    *)
LEMMA StoredOnce ==
    ASSUME NEW t, IsTable(t)
    PROVE  LET P == StoredSet(t)
               W == Len(Stored(t))
           IN  /\ P \in SUBSET (1 .. Len(t.columns)) /\ W = Cardinality(P) /\ W \in Nat
               /\ \A k \in 1 .. W : Stored(t)[k] = Nth(P, k) /\ Nth(P, k) \in P
               /\ \A j, k \in 1 .. W : Stored(t)[j] = Stored(t)[k] => j = k
               /\ \A c \in P : \E k \in 1 .. W : Stored(t)[k] = c
<1> DEFINE n == Len(t.columns)
           P == StoredSet(t)
           f == [c \in Columns(t) |-> c]
           K == Cardinality(P)
<1>1. n \in Nat /\ Columns(t) = 1 .. n
  BY StoredFacts
<1>2. P \in SUBSET (1 .. n)
  BY <1>1 DEF StoredSet
<1>3. Stored(t) = Kept(f, P)
  BY DEF Stored, StoredSet
<1> HIDE DEF n, P, f
<1>4. /\ K \in Nat
      /\ DOMAIN Kept(f, P) = 1 .. K /\ Len(Kept(f, P)) = K
      /\ \A k \in 1 .. K : Nth(P, k) \in P /\ Kept(f, P)[k] = f[Nth(P, k)]
      /\ \A j, k \in 1 .. K : j < k => Nth(P, j) < Nth(P, k)
      /\ \A i \in P : \E k \in 1 .. K : Nth(P, k) = i
  BY <1>1, <1>2, KeptFacts, ZenonT(30)
<1>5. \A c \in P : f[c] = c /\ c \in Int
  BY <1>1, <1>2 DEF f
<1> HIDE DEF K
<1>6. \A k \in 1 .. K : Stored(t)[k] = Nth(P, k) /\ Nth(P, k) \in P /\ Nth(P, k) \in Int
  BY <1>3, <1>4, <1>5
<1>7. ASSUME NEW j \in 1 .. K, NEW k \in 1 .. K, Stored(t)[j] = Stored(t)[k] PROVE j = k
  <2>1. Nth(P, j) = Nth(P, k) /\ Nth(P, j) \in Int
    BY <1>6, <1>7
  <2>2. ~(j < k) /\ ~(k < j)
    BY <1>4, <2>1
  <2>3. QED
    BY <1>4, <2>2
<1>8. Len(Stored(t)) = K
  BY <1>3, <1>4
<1>9. QED
  BY <1>2, <1>4, <1>6, <1>7, <1>8 DEF P, n, K

(* Where the readers look for a field in its row.                           *)
LEMMA Widths ==
    ASSUME NEW t, IsTable(t)
    PROVE  LET W == Len(Stored(t))
               S == Sums(StoredSizes(t))
               n == Len(t.columns)
           IN  /\ \A k \in 1 .. W : Width(ReadColumns(t), Stored(t)[k] - 1) = S[k - 1]
               /\ Width(ReadColumns(t), n) = S[W]
               /\ \A k \in 0 .. W : S[k] \in Nat
               /\ row_size(t) = t.padding + S[W] /\ t.padding \in Nat
<1> DEFINE n == Len(t.columns)
           P == StoredSet(t)
           W == Len(Stored(t))
           w == [c \in 1 .. n |-> SizeOf(t, c)]
           g == Left(P, n, w)
           h == [k \in 1 .. Cardinality(P) |-> w[Nth(P, k)]]
           z == StoredSizes(t)
           S == Sums(z)
           L == ReadColumns(t)
           part(m) == [c \in 1 .. m |-> IF Has(L[c].flag, ROW_STORAGE)
                                        THEN get_size(get_type(L[c].flag)) ELSE 0]
<1>1. n \in Nat /\ Columns(t) = 1 .. n /\ DOMAIN Stored(t) = 1 .. W /\ t.padding \in Nat
  BY StoredFacts DEF IsTable
<1>2. /\ P \in SUBSET (1 .. n) /\ W = Cardinality(P) /\ W \in Nat
      /\ \A k \in 1 .. W : Stored(t)[k] = Nth(P, k) /\ Nth(P, k) \in P
  BY StoredOnce
<1>3. \A c \in 1 .. n : w[c] = SizeOf(t, c) /\ w[c] \in Nat
  BY SizeType, SMTT(30) DEF SizeOf
<1>4. z = [k \in 1 .. W |-> SizeOf(t, Stored(t)[k])]
  BY DEF StoredSizes
<1>5. row_size(t) = t.padding + Total(z)
  BY <1>1 DEF row_size, StoredSizes, SizeOf
<1>6. \A c \in 1 .. n : L[c].flag = t.columns[c].flag
  BY DEF ReadColumns, ReadColumn
<1>7. \A m : Width(L, m) = Total(part(m))
  BY DEF Width
<1>8. h = z
  <2>1. \A k \in 1 .. W : w[Nth(P, k)] = SizeOf(t, Stored(t)[k])
    BY <1>2, <1>3
  <2>2. QED
    BY <1>2, <1>4, <2>1
<1>9. \A c \in 1 .. n : c \in P <=> Has(t.columns[c].flag, ROW_STORAGE)
  BY <1>1 DEF StoredSet
<1> HIDE DEF n, P, W, w, z, L
<1>10. /\ \A k \in 1 .. W : Sums(g)[Nth(P, k) - 1] = Sums(z)[k - 1]
       /\ Sums(g)[n] = Sums(z)[W]
  <2>1. \A c \in 1 .. n : w[c] \in Nat
    BY <1>3
  <2>2. /\ \A k \in 1 .. Cardinality(P) : Sums(g)[Nth(P, k) - 1] = Sums(h)[k - 1]
        /\ Sums(g)[n] = Sums(h)[Cardinality(P)]
    BY <1>1, <1>2, <2>1, KeptSums
  <2> HIDE DEF g, h
  <2>3. QED
    BY <1>2, <1>8, <2>2
<1>11. /\ Len(g) = n /\ \A c \in 1 .. n : g[c] \in Nat
       /\ \A c \in 1 .. n : g[c] = IF c \in P THEN w[c] ELSE 0
  <2>1. g = [c \in 1 .. n |-> g[c]] /\ \A c \in 1 .. n : g[c] = (IF c \in P THEN w[c] ELSE 0)
    BY DEF Left
  <2> HIDE DEF g
  <2>2. \A c \in 1 .. n : g[c] \in Nat
    BY <1>3, <2>1
  <2>3. Len(g) = n
    BY <1>1, <2>1, <2>2, MapSeq
  <2>4. QED
    BY <2>1, <2>2, <2>3
<1> HIDE DEF g, h
<1>12. ASSUME NEW m \in 0 .. n PROVE Width(L, m) = Sums(g)[m]
  <2> DEFINE p == part(m)
  <2>1. p = [c \in 1 .. m |-> p[c]] /\ \A c \in 1 .. m : p[c] = g[c]
    <3>1. ASSUME NEW c \in 1 .. m PROVE p[c] = g[c]
      <4>1. c \in 1 .. n
        BY <1>1
      <4>2. L[c].flag = t.columns[c].flag /\ w[c] = get_size(get_type(t.columns[c].flag))
        BY <1>3, <1>6, <4>1 DEF SizeOf, TypeOf
      <4>3. p[c] = IF Has(t.columns[c].flag, ROW_STORAGE) THEN w[c] ELSE 0
        BY <4>2
      <4>4. QED
        BY <1>9, <1>11, <4>1, <4>3
    <3>2. QED
      BY <3>1
  <2> HIDE DEF p
  <2>2. m \in Nat /\ m <= n /\ \A c \in 1 .. m : c \in 1 .. n
    BY <1>1
  <2>3. \A c \in 1 .. m : p[c] \in Nat
    BY <1>11, <2>1, <2>2
  <2>4. Len(p) = m
    BY <2>1, <2>2, <2>3, MapSeq
  <2>5. Begins(p, m, g, n)
    BY <1>1, <1>11, <2>1, <2>2, <2>4 DEF Begins
  <2>6. Total(p) = Sums(g)[m]
    BY <2>5, PrefixSums
  <2>7. QED
    BY <1>7, <2>6 DEF p
<1>13. \A k \in 1 .. W : Width(L, Stored(t)[k] - 1) = Sums(z)[k - 1]
  <2>1. ASSUME NEW k \in 1 .. W PROVE Width(L, Stored(t)[k] - 1) = Sums(z)[k - 1]
    <3> DEFINE m == Nth(P, k) - 1
    <3>0. Nth(P, k) \in 1 .. n
      BY <1>2
    <3>1. Stored(t)[k] = Nth(P, k) /\ m \in 0 .. n
      BY <1>1, <1>2, <3>0
    <3>2. Sums(g)[m] = Sums(z)[k - 1]
      BY <1>10
    <3> HIDE DEF m
    <3>3. QED
      BY <1>12, <3>1, <3>2 DEF m
  <2>2. QED
    BY <2>1
<1>14. Width(L, n) = Sums(z)[W]
  <2>1. n \in 0 .. n
    BY <1>1
  <2>2. QED
    BY <1>10, <1>12, <2>1
<1>15. Len(z) = W /\ \A k \in 0 .. W : Sums(z)[k] \in Nat
  <2>1. z = [k \in 1 .. W |-> z[k]] /\ \A k \in 1 .. W : z[k] \in Nat
    BY <1>4, SizeType, SMTT(30) DEF SizeOf
  <2>2. Len(z) = W
    BY <1>2, <2>1, MapSeq
  <2>3. QED
    BY <1>2, <2>1, <2>2, SumsFacts
<1>16. row_size(t) = t.padding + Sums(z)[W]
  BY <1>5, <1>15 DEF Total
<1>17. QED
  BY <1>1, <1>13, <1>14, <1>15, <1>16 DEF n, W, z, L

(* The value of the k-th stored column in a row, its number among all       *)
(* fields and where its data lies.                                          *)
FieldValue(t, r, k) == t.rows[r][Stored(t)[k]]
FieldNo(t, r, k) == (r - 1) * Len(Stored(t)) + k
FieldData(t, r, k) == Len(DataBefore(t, FieldNo(t, r, k)))
FieldHere(t, r, k) == FieldBytes(Strings(t), FieldValue(t, r, k), FieldData(t, r, k))

(* Every field can be stored.                                               *)
LEMMA FieldStorable ==
    ASSUME NEW t, Sized(t), NEW r \in 1 .. Len(t.rows), NEW k \in 1 .. Len(Stored(t))
    PROVE  /\ Storable(Strings(t), TypeOf(t, Stored(t)[k]), FieldValue(t, r, k), FieldData(t, r, k))
           /\ FieldHere(t, r, k) \in Seq(Byte)
           /\ Len(FieldHere(t, r, k)) = SizeOf(t, Stored(t)[k])
           /\ FieldValue(t, r, k).type = "Data" =>
                /\ FieldValue(t, r, k).v \in Seq(Byte)
                /\ Piece(AllData(t), FieldData(t, r, k), FieldValue(t, r, k).v)
<1> DEFINE v == FieldValue(t, r, k)
           type == TypeOf(t, Stored(t)[k])
           i == FieldNo(t, r, k)
           at == FieldData(t, r, k)
           D == AllData(t)
           d == DataOf(v)
<1>0. IsTable(t)
  BY DEF Sized
<1>1. r \in DOMAIN t.rows /\ k \in DOMAIN Stored(t)
  BY <1>0, StoredFacts
<1>2. type \in Types /\ IsValue(type, v)
  BY <1>0, <1>1, StoredValue DEF FieldValue
<1>3. v.type = type /\ (type = "Data" => v.v \in Seq(Byte))
  BY <1>2, ValueFacts
<1>4. Strings(t) \in Seq(Seq(Char)) /\ (type = "String" => In(v.v, Strings(t)))
  BY <1>0, <1>1, <1>3, StringsFacts DEF FieldValue
<1>5. i \in 1 .. Len(Fields(t)) /\ Fields(t)[i] = v
  BY <1>0, FieldsFacts DEF FieldNo, FieldValue
<1> HIDE DEF v, type, i
<1>6. DataOf(Fields(t)[i]) \in Seq(Byte) /\ at \in Nat /\ Piece(D, at, DataOf(Fields(t)[i]))
  BY <1>0, <1>5, DataLies DEF FieldData, i
<1>7. d \in Seq(Byte) /\ Piece(D, at, d) /\ Len(d) \in Nat
  BY <1>5, <1>6, LenProperties
<1>8. Len(D) \in Nat /\ Len(D) < Huge
  <2> DEFINE a == Len(D)
             b == Len(Image(t))
             c == data_start(t)
  <2>1. a \in Nat /\ b \in Nat /\ b < Huge /\ c \in Nat /\ b = c + a
    BY Offsets
  <2>2. Huge \in Nat
    BY HugeFacts
  <2> HIDE DEF a, b, c
  <2>3. a < Huge
    BY <2>1, <2>2
  <2>4. QED
    BY <2>1, <2>3 DEF a
<1> HIDE DEF at, D
<1>9. at + Len(d) <= Len(D)
  BY <1>7 DEF Piece
<1> DEFINE l == Len(d)
           a == Len(D)
<1>10. at < Huge /\ l < Huge
  <2>1. Huge \in Nat /\ at \in Nat /\ l \in Nat /\ a \in Nat /\ a < Huge /\ at + l <= a
    BY <1>6, <1>7, <1>8, <1>9, HugeFacts
  <2> HIDE DEF l, a
  <2>2. QED
    BY <2>1
<1>11. type = "Data" => d = v.v
  BY <1>3 DEF DataOf
<1>12. type = "Data" => Len(v.v) < Huge
  BY <1>10, <1>11
<1>13. Len(StringPool(Strings(t))) < Huge
  <2>1. In(t.name, Strings(t))
    BY <1>0, StringsFacts
  <2>2. QED
    BY <2>1, InternSmall
<1>14. Storable(Strings(t), type, v, at)
  BY <1>2, <1>4, <1>6, <1>10, <1>12, <1>13 DEF Storable
<1>15. FieldHere(t, r, k) = FieldBytes(Strings(t), v, at)
  BY DEF FieldHere, v, at
<1>16. FieldHere(t, r, k) \in Seq(Byte) /\ Len(FieldHere(t, r, k)) = get_size(type)
  BY <1>2, <1>4, <1>6, <1>15, FieldType
<1>17. v.type = "Data" => v.v \in Seq(Byte) /\ Piece(D, at, v.v)
  BY <1>3, <1>7, <1>11
<1>18. QED
  BY <1>14, <1>16, <1>17 DEF v, at, D, type, SizeOf

(* A field lies in its row.                                                 *)
LEMMA FieldLies ==
    ASSUME NEW t, Sized(t), NEW r \in 1 .. Len(t.rows), NEW k \in 1 .. Len(Stored(t))
    PROVE  Piece(RowBytes(t, r), Sums(StoredSizes(t))[k - 1], FieldHere(t, r, k))
<1> DEFINE W == Len(Stored(t))
           at(j) == Len(DataBefore(t, (r - 1) * Len(Stored(t)) + j))
           field(j) == FieldBytes(Strings(t), t.rows[r][Stored(t)[j]], at(j))
           q == [j \in DOMAIN Stored(t) |-> field(j)]
           pad == [j \in 1 .. t.padding |-> 0]
           z == StoredSizes(t)
           f == FlattenSeq(q)
           o == Sums(z)[k - 1]
           u == FieldHere(t, r, k)
<1>0. IsTable(t) /\ t.padding \in Nat
  BY DEF Sized, IsTable
<1>1. W \in Nat /\ DOMAIN Stored(t) = 1 .. W
  BY <1>0, StoredFacts
<1>2. q = [j \in 1 .. W |-> q[j]] /\ \A j \in 1 .. W : q[j] = FieldHere(t, r, j)
  BY <1>1 DEF FieldHere, FieldValue, FieldData, FieldNo
<1>3. \A j \in 1 .. W : FieldHere(t, r, j) \in Seq(Byte)
                        /\ Len(FieldHere(t, r, j)) = SizeOf(t, Stored(t)[j])
  BY FieldStorable
<1>4. RowBytes(t, r) = f \o pad
  BY DEF RowBytes
<1>5. pad \in Seq(Byte)
  BY <1>0, ZerosType
<1>6. z = [j \in 1 .. W |-> SizeOf(t, Stored(t)[j])]
  BY DEF StoredSizes
<1>7. k \in 1 .. W
  OBVIOUS
<1>w. \A j \in 0 .. W : Sums(z)[j] \in Nat
  BY <1>0, Widths
<1> HIDE DEF q, pad, W, z
<1>8. Flattened(Byte, W, q)
  BY <1>1, <1>2, <1>3, FlattenOf
<1>9. Lengths(q, W) = z
  BY <1>2, <1>3, <1>6 DEF Lengths
<1>10. /\ f \in Seq(Byte) /\ Len(f) = Total(z)
       /\ Sums(z)[k] \in 0 .. Total(z) /\ Sums(z)[k] = o + Len(q[k])
       /\ \A j \in 1 .. Len(q[k]) : f[o + j] = q[k][j]
  <2>1. k \in 0 .. W
    BY <1>1, <1>7
  <2>2. QED
    BY <1>7, <1>8, <1>9, <2>1 DEF Flattened
<1>11. o \in Nat
  BY <1>1, <1>7, <1>w
<1> HIDE DEF f, o
<1>12. o + Len(q[k]) <= Len(f)
  <2>1. Len(f) \in Nat
    BY <1>10, LenProperties
  <2>2. QED
    BY <1>10, <2>1
<1>13. Piece(f, o, q[k])
  BY <1>10, <1>12 DEF Piece
<1>14. q[k] = u /\ u \in Seq(Byte)
  BY <1>2, <1>3, <1>7
<1> HIDE DEF u
<1>15. Piece(f, o, u)
  BY <1>13, <1>14
<1>16. Piece(f \o pad, o, u)
  BY <1>5, <1>10, <1>11, <1>14, <1>15, PieceConcat
<1>17. QED
  BY <1>4, <1>16 DEF o, u, z

(* A row lies among the rows.                                               *)
LEMMA RowLies ==
    ASSUME NEW t, IsTable(t), NEW r \in 1 .. Len(t.rows)
    PROVE  /\ (r - 1) * row_size(t) \in Nat
           /\ Piece(AllRows(t), (r - 1) * row_size(t), RowBytes(t, r))
<1> DEFINE N == Len(t.rows)
           p == [i \in DOMAIN t.rows |-> RowBytes(t, i)]
           h == Lengths(p, N)
           z == row_size(t)
           f == AllRows(t)
           m == r - 1
           o == m * z
<1>1. N \in Nat /\ DOMAIN t.rows = 1 .. N /\ z \in Nat
  BY StoredFacts, PartsType
<1>2. p = [i \in 1 .. N |-> p[i]] /\ \A i \in 1 .. N : p[i] = RowBytes(t, i)
  BY <1>1
<1>3. \A i \in 1 .. N : RowBytes(t, i) \in Seq(Byte) /\ Len(RowBytes(t, i)) = z
  BY <1>1, RowType
<1>4. f = FlattenSeq(p)
  BY DEF AllRows
<1>5. r \in 1 .. N /\ m \in 0 .. N /\ r \in 0 .. N
  BY <1>1
<1> HIDE DEF p, N, z, f, m
<1>6. Flattened(Byte, N, p)
  BY <1>1, <1>2, <1>3, FlattenOf
<1>7. Len(h) = N /\ \A i \in 1 .. N : h[i] = z
  BY <1>1, <1>2, <1>3 DEF Lengths
<1> HIDE DEF h
<1>8. \A i \in 0 .. N : Sums(h)[i] = i * z
  BY <1>1, <1>7, ConstantSums
<1>9. /\ f \in Seq(Byte) /\ Len(f) = Total(h) /\ Sums(h)[r] \in 0 .. Total(h)
      /\ Sums(h)[r] = Sums(h)[r - 1] + Len(p[r])
      /\ \A j \in 1 .. Len(p[r]) : f[Sums(h)[r - 1] + j] = p[r][j]
  BY <1>4, <1>5, <1>6 DEF Flattened, h
<1>10. Sums(h)[r - 1] = o
  <2>1. Sums(h)[m] = m * z
    BY <1>5, <1>8
  <2>2. QED
    BY <2>1 DEF m
<1>11. o \in Nat
  <2>1. m \in Nat
    BY <1>1, <1>5
  <2>2. QED
    BY <1>1, <2>1
<1> HIDE DEF o
<1>12. o + Len(p[r]) <= Len(f)
  <2>1. Len(f) \in Nat
    BY <1>9, LenProperties
  <2>2. QED
    BY <1>9, <1>10, <2>1
<1>13. Piece(f, o, p[r])
  BY <1>9, <1>10, <1>12 DEF Piece
<1>14. p[r] = RowBytes(t, r)
  BY <1>2, <1>5
<1>15. QED
  BY <1>11, <1>13, <1>14 DEF o, m, z, f

(* Row::new_list, row by row.                                               *)
Readable(b, h, columns) ==
    /\ \A c \in DOMAIN columns : get_type(columns[c].flag) # "Invalid"
    /\ \/ Width(columns, Len(columns)) = 0
       \/ /\ h.row_count <= Len(b)
          /\ RowAt(h, columns, h.row_count) + Width(columns, Len(columns)) <= Len(b)
FieldAt(b, type, o) == row_value(type, Sub(b, o, o + get_size(type)))
RowOf(b, h, columns, r) ==
    [c \in DOMAIN columns |->
        IF Has(columns[c].flag, ROW_STORAGE)
        THEN FieldAt(b, get_type(columns[c].flag), RowAt(h, columns, r) + Width(columns, c - 1))
        ELSE NoValue]

(* The rows are these.                                                      *)
LEMMA RowsAs ==
    ASSUME NEW b, NEW h, NEW columns
    PROVE  new_rows(b, h, columns) =
        IF h.row_count > 0 /\ ~Readable(b, h, columns) THEN [ok |-> FALSE, list |-> <<>>]
        ELSE [ok |-> TRUE, list |-> [r \in 1 .. h.row_count |-> RowOf(b, h, columns, r)]]
BY DEF new_rows, Readable, RowOf, FieldAt

(* The parts of a table, wherever it lies at the start of some bytes.       *)
LEMMA PartsLie ==
    ASSUME NEW t, Sized(t), NEW b \in Seq(Byte), Piece(b, 0, Image(t))
    PROVE  /\ Piece(b, 0, Header(t)) /\ Piece(b, 32, AllColumns(t))
           /\ Piece(b, rows_start(t), AllRows(t))
           /\ Piece(b, pool_start(t), StringPool(Strings(t)))
           /\ Piece(b, data_start(t), AllData(t))
<1> DEFINE I == Image(t)
<1>0. IsTable(t)
  BY DEF Sized
<1>1. /\ I \in Seq(Byte) /\ rows_start(t) \in Nat /\ pool_start(t) \in Nat /\ data_start(t) \in Nat
      /\ Piece(I, 0, Header(t)) /\ Piece(I, 32, AllColumns(t))
      /\ Piece(I, rows_start(t), AllRows(t))
      /\ Piece(I, pool_start(t), StringPool(Strings(t)))
      /\ Piece(I, data_start(t), AllData(t))
  BY <1>0, ImageFacts
<1>2. /\ Header(t) \in Seq(Byte) /\ AllColumns(t) \in Seq(Byte) /\ AllRows(t) \in Seq(Byte)
      /\ StringPool(Strings(t)) \in Seq(Byte) /\ AllData(t) \in Seq(Byte)
  BY <1>0, HeaderFacts, PartsType
<1> HIDE DEF I
<1>3. ASSUME NEW o \in Nat, NEW s \in Seq(Byte), Piece(I, o, s) PROVE Piece(b, o, s)
  <2>1. 0 \in Nat /\ Piece(b, 0, I) /\ 0 + o = o
    BY DEF I
  <2>2. Piece(b, 0 + o, s)
    BY <1>1, <1>3, <2>1, PieceOfPiece
  <2>3. QED
    BY <2>1, <2>2
<1>4. 0 \in Nat /\ 32 \in Nat
  OBVIOUS
<1>5. Piece(b, 0, Header(t)) /\ Piece(b, 32, AllColumns(t))
  BY <1>1, <1>2, <1>3, <1>4
<1>6. Piece(b, rows_start(t), AllRows(t)) /\ Piece(b, pool_start(t), StringPool(Strings(t)))
      /\ Piece(b, data_start(t), AllData(t))
  BY <1>1, <1>2, <1>3
<1>7. QED
  BY <1>5, <1>6

(* A field is found where the readers look for it.                          *)
ReadField(t, r, k) == ReadAs(Strings(t), FieldValue(t, r, k), FieldData(t, r, k))

(* A stored field of a row is read at its place.                            *)
LEMMA FieldFoundInRow ==
    ASSUME NEW t, Sized(t), NEW b \in Seq(Byte), Piece(b, 0, Image(t)),
           NEW r \in 1 .. Len(t.rows), NEW k \in 1 .. Len(Stored(t))
    PROVE  FieldAt(b, TypeOf(t, Stored(t)[k]),
                   (rows_start(t) + (r - 1) * row_size(t)) + Sums(StoredSizes(t))[k - 1])
                = ReadField(t, r, k)
<1> DEFINE R == rows_start(t)
           m == (r - 1) * row_size(t)
           s == Sums(StoredSizes(t))[k - 1]
           type == TypeOf(t, Stored(t)[k])
           v == FieldValue(t, r, k)
           at == FieldData(t, r, k)
           u == FieldHere(t, r, k)
           A == AllRows(t)
           w == RowBytes(t, r)
           o == (R + m) + s
<1>0. IsTable(t)
  BY DEF Sized
<1>1. R \in Nat
  BY Offsets
<1>2. m \in Nat /\ Piece(A, m, w)
  BY <1>0, RowLies
<1>3. s \in Nat
  <2>1. Len(Stored(t)) \in Nat
    BY <1>0, StoredFacts
  <2>2. k - 1 \in 0 .. Len(Stored(t))
    BY <2>1
  <2>3. QED
    BY <1>0, <2>2, Widths
<1>4. Piece(w, s, u)
  BY FieldLies
<1>5. Storable(Strings(t), type, v, at) /\ u \in Seq(Byte) /\ u = FieldBytes(Strings(t), v, at)
  BY FieldStorable DEF FieldHere
<1>6. A \in Seq(Byte)
  BY <1>0, PartsType
<1>7. w \in Seq(Byte)
  <2>1. r \in DOMAIN t.rows
    BY <1>0, StoredFacts
  <2>2. QED
    BY <1>0, <2>1, RowType
<1>8. Piece(b, R, A)
  BY PartsLie
<1> HIDE DEF R, m, s, A, w, u, type, v, at
<1>9. Piece(b, R + m, w)
  BY <1>1, <1>2, <1>6, <1>7, <1>8, PieceOfPiece
<1>10. R + m \in Nat /\ o \in Nat
  BY <1>1, <1>2, <1>3
<1>11. Piece(b, o, u)
  BY <1>3, <1>4, <1>5, <1>7, <1>9, <1>10, PieceOfPiece
<1> HIDE DEF o
<1>12. row_value(type, Sub(b, o, o + get_size(type))) = ReadAs(Strings(t), v, at)
  BY <1>5, <1>10, <1>11, FieldFound
<1>13. QED
  BY <1>12 DEF FieldAt, ReadField, o, R, m, s, type, v, at

(* Products.                                                                *)
LEMMA Multiples ==
    ASSUME NEW n \in Nat \ {0}, NEW z \in Nat
    PROVE  /\ (n - 1) * z + z = n * z /\ (n - 1) * z \in Nat /\ n * z \in Nat
           /\ z # 0 => n <= n * z
<1> DEFINE m == n - 1
           p == m * z
<1>1. m \in Nat /\ n = m + 1
  OBVIOUS
<1>2. p \in Nat
  BY <1>1
<1>3. n * z = p + z
  BY <1>1
<1>4. z # 0 => m <= p
  <2> HIDE DEF m
  <2>1. z # 0 => m * z >= m * 1
    BY <1>1
  <2>2. QED
    BY <1>1, <2>1
<1>5. p + z \in Nat
  BY <1>2
<1>6. z # 0 => n <= n * z
  <2> DEFINE q == n * z
  <2>1. q = p + z
    BY <1>3
  <2> HIDE DEF p, q, m
  <2>2. z # 0 => n <= q
    BY <1>1, <1>2, <1>4, <2>1
  <2>3. QED
    BY <2>2 DEF q
<1>7. QED
  BY <1>2, <1>3, <1>5, <1>6

(* A row, as the readers have it.                                           *)
PlaceOf(t, c) == CHOOSE k \in 1 .. Len(Stored(t)) : Stored(t)[k] = c
ReadRow(t, r) ==
    [c \in 1 .. Len(t.columns) |->
        IF Has(t.columns[c].flag, ROW_STORAGE) THEN ReadField(t, r, PlaceOf(t, c)) ELSE NoValue]
ReadRows(t) == [r \in 1 .. Len(t.rows) |-> ReadRow(t, r)]

(* Every stored column has its place.                                       *)
LEMMA Placed ==
    ASSUME NEW t, IsTable(t), NEW c \in Columns(t), Has(t.columns[c].flag, ROW_STORAGE)
    PROVE  PlaceOf(t, c) \in 1 .. Len(Stored(t)) /\ Stored(t)[PlaceOf(t, c)] = c
<1>1. c \in StoredSet(t)
  BY DEF StoredSet
<1>2. \E k \in 1 .. Len(Stored(t)) : Stored(t)[k] = c
  BY <1>1, StoredOnce
<1>3. QED
  BY <1>2 DEF PlaceOf

(* The list of columns.                                                     *)
LEMMA ReadColumnsFacts ==
    ASSUME NEW t, Sized(t)
    PROVE  LET L == ReadColumns(t) IN
           /\ Len(L) = Len(t.columns) /\ DOMAIN L = 1 .. Len(t.columns)
           /\ Columns(t) = 1 .. Len(t.columns) /\ Len(t.columns) \in Nat
           /\ \A c \in 1 .. Len(t.columns) :
                /\ L[c].flag = t.columns[c].flag /\ L[c] = ReadColumn(t, c)
                /\ get_type(L[c].flag) = TypeOf(t, c) /\ TypeOf(t, c) \in Types
<1> DEFINE n == Len(t.columns)
           L == ReadColumns(t)
           R == {ReadColumn(t, c) : c \in 1 .. n}
<1>0. IsTable(t)
  BY DEF Sized
<1>1. n \in Nat /\ Columns(t) = 1 .. n
  BY <1>0, StoredFacts
<1>2. L = [c \in 1 .. n |-> L[c]] /\ \A c \in 1 .. n : L[c] = ReadColumn(t, c) /\ L[c] \in R
  BY DEF ReadColumns
<1>3. \A c \in 1 .. n : ReadColumn(t, c).flag = t.columns[c].flag
  BY DEF ReadColumn
<1>4. \A c \in 1 .. n : TypeOf(t, c) \in Types
  BY <1>1, ColumnParts
<1> HIDE DEF L, n, R
<1>5. Len(L) = n
  BY <1>1, <1>2, MapSeq
<1>6. DOMAIN L = 1 .. n
  BY <1>2
<1>7. QED
  BY <1>1, <1>2, <1>3, <1>4, <1>5, <1>6 DEF L, n, TypeOf

(* What the readers ask of the rows.                                        *)
LEMMA RowsReadable ==
    ASSUME NEW t, Sized(t), NEW b \in Seq(Byte), Piece(b, 0, Image(t)), Len(t.rows) > 0
    PROVE  Readable(b, ReadHeader(t), ReadColumns(t))
<1> DEFINE h == ReadHeader(t)
           L == ReadColumns(t)
           N == Len(t.rows)
           z == row_size(t)
           R == rows_start(t)
           B == Len(b)
           x == Width(L, Len(L))
           S == Sums(StoredSizes(t))[Len(Stored(t))]
           pad == t.padding
           m == (N - 1) * z
           y == N * z
           I == Len(Image(t))
           p == pool_start(t)
<1>0. IsTable(t)
  BY DEF Sized
<1>1. /\ Len(L) = Len(t.columns) /\ DOMAIN L = 1 .. Len(t.columns)
      /\ \A c \in 1 .. Len(t.columns) : get_type(L[c].flag) \in Types
  BY ReadColumnsFacts
<1>2. \A c \in DOMAIN L : get_type(L[c].flag) # "Invalid"
  BY <1>1 DEF Types
<1>3. x = S /\ S \in Nat /\ z = pad + S /\ pad \in Nat
  <2>1. Len(Stored(t)) \in Nat
    BY <1>0, StoredFacts
  <2>2. Len(Stored(t)) \in 0 .. Len(Stored(t))
    BY <2>1
  <2>3. Width(L, Len(t.columns)) = S /\ S \in Nat /\ z = pad + S /\ pad \in Nat
    BY <1>0, <2>2, Widths
  <2>4. QED
    BY <1>1, <2>3
<1>4. /\ R \in Nat /\ z \in Nat /\ N \in Nat /\ p = R + y /\ p <= I /\ I \in Nat /\ p \in Nat
  <2>1. /\ R \in Nat /\ z \in Nat /\ N \in Nat /\ p = R + y /\ I \in Nat /\ p \in Nat
        /\ p < data_start(t) /\ data_start(t) <= I /\ data_start(t) \in Nat
    BY Offsets
  <2>2. QED
    BY <2>1, SMTT(30)
<1>5. B \in Nat /\ I <= B
  <2>1. 0 + I <= B /\ I \in Nat
    BY Offsets DEF Piece
  <2>2. QED
    BY <2>1, LenProperties
<1>6. N # 0
  BY <1>4
<1>7. h.row_count = N /\ RowAt(h, L, N) = R + m
  BY DEF ReadHeader, RowAt
<1> HIDE DEF N, z, R, B, x, S, pad, I, p, h, L
<1>8. m + z = y /\ m \in Nat /\ y \in Nat /\ (z # 0 => N <= y)
  BY <1>4, <1>6, Multiples
<1> HIDE DEF m, y
<1>9. x = 0 \/ (N <= B /\ (R + m) + x <= B)
  BY <1>3, <1>4, <1>5, <1>8
<1>10. QED
  BY <1>2, <1>7, <1>9 DEF Readable, x, B, h, L

(* All rows are read.                                                       *)
LEMMA RowsRead ==
    ASSUME NEW t, Sized(t), NEW b \in Seq(Byte), Piece(b, 0, Image(t))
    PROVE  new_rows(b, ReadHeader(t), ReadColumns(t)) = [ok |-> TRUE, list |-> ReadRows(t)]
<1> DEFINE h == ReadHeader(t)
           L == ReadColumns(t)
           N == Len(t.rows)
           n == Len(t.columns)
<1>0. IsTable(t)
  BY DEF Sized
<1>1. N \in Nat
  BY <1>0, StoredFacts
<1>2. /\ Len(L) = n /\ DOMAIN L = 1 .. n /\ Columns(t) = 1 .. n
      /\ \A c \in 1 .. n : L[c].flag = t.columns[c].flag /\ get_type(L[c].flag) = TypeOf(t, c)
  BY ReadColumnsFacts
<1>3. h.row_count = N
  BY DEF ReadHeader
<1>r. \A r : RowAt(h, L, r) = rows_start(t) + (r - 1) * row_size(t)
  BY DEF ReadHeader, RowAt
<1> HIDE DEF h, L
<1>4. ASSUME NEW r \in 1 .. N PROVE RowOf(b, h, L, r) = ReadRow(t, r)
  <2> DEFINE a == rows_start(t) + (r - 1) * row_size(t)
             F(c) == IF Has(L[c].flag, ROW_STORAGE)
                     THEN FieldAt(b, get_type(L[c].flag), RowAt(h, L, r) + Width(L, c - 1))
                     ELSE NoValue
             G(c) == IF Has(t.columns[c].flag, ROW_STORAGE) THEN ReadField(t, r, PlaceOf(t, c))
                     ELSE NoValue
  <2>1. RowAt(h, L, r) = a
    BY <1>r
  <2>2. ASSUME NEW c \in 1 .. n PROVE F(c) = G(c)
    <3>1. CASE ~Has(t.columns[c].flag, ROW_STORAGE)
      BY <1>2, <3>1
    <3>2. CASE Has(t.columns[c].flag, ROW_STORAGE)
      <4> DEFINE k == PlaceOf(t, c)
                 W == Len(Stored(t))
      <4>1. k \in 1 .. W /\ Stored(t)[k] = c
        BY <1>0, <1>2, <3>2, Placed
      <4> HIDE DEF k
      <4>2. Width(L, Stored(t)[k] - 1) = Sums(StoredSizes(t))[k - 1]
        BY <1>0, <4>1, Widths DEF L
      <4>3. FieldAt(b, TypeOf(t, Stored(t)[k]), a + Sums(StoredSizes(t))[k - 1])
                = ReadField(t, r, k)
        BY <4>1, FieldFoundInRow
      <4>4. FieldAt(b, TypeOf(t, c), a + Width(L, c - 1)) = ReadField(t, r, k)
        BY <4>1, <4>2, <4>3
      <4> HIDE DEF a
      <4>5. F(c) = FieldAt(b, TypeOf(t, c), a + Width(L, c - 1))
        BY <1>2, <2>1, <3>2
      <4>6. QED
        BY <3>2, <4>4, <4>5 DEF k
    <3>3. QED
      BY <3>1, <3>2
  <2>3. RowOf(b, h, L, r) = [c \in 1 .. n |-> F(c)]
    BY <1>2 DEF RowOf
  <2>4. ReadRow(t, r) = [c \in 1 .. n |-> G(c)]
    BY DEF ReadRow
  <2> HIDE DEF F, G
  <2>5. QED
    BY <2>2, <2>3, <2>4
<1>5. ~(N > 0 /\ ~Readable(b, h, L))
  BY RowsReadable DEF h, L
<1>6. new_rows(b, h, L) = [ok |-> TRUE, list |-> [r \in 1 .. N |-> RowOf(b, h, L, r)]]
  BY <1>3, <1>5, RowsAs
<1>7. [r \in 1 .. N |-> RowOf(b, h, L, r)] = ReadRows(t)
  BY <1>4 DEF ReadRows
<1>8. QED
  BY <1>6, <1>7 DEF h, L

-----------------------------------------------------------------------------
(* Both readers, on a table nothing happened to.                           *)

(* What the readers make of a table in the bytes b.                         *)
ReadAll(t, b) == Table(b, ReadHeader(t), ReadColumns(t), ReadRows(t), StringsOf(t))

(* The checks of HighTable::new of cpk/header.rs, and those of acb/.        *)
CheckedTable(b, h, alloc, columns, rows, strings) ==
    IF Len(b) < HEADER_SIZE \/ SubSeq(b, 1, 4) # <<64, 85, 84, 70>> THEN Rejected
    ELSE IF h.size + 8 > Len(b) \/ ~SectionsInOrder(h) \/ ~RowsFit(h) THEN Rejected
    ELSE IF ~columns.ok \/ columns.at > h.rows_offset
            \/ Width(columns.list, Len(columns.list)) > h.row_size THEN Rejected
    ELSE IF h.row_count > MaxRows THEN Exhausted(h)
    ELSE IF ~rows.ok THEN Rejected
    ELSE IF h.data_pool_offset > Len(alloc) THEN Panicked
    ELSE IF ~strings.ok THEN Rejected
    ELSE Table(alloc, h, columns.list, rows.list, strings.at)

(* HighTable::new, once the parts it reads are known.                       *)
LEMMA HighTableIs ==
    ASSUME NEW b, NEW h, NEW alloc, NEW columns, NEW rows, NEW strings,
           h = TableHeader(b), alloc = SubSeq(b, 1, h.size + 8),
           columns = new_columns(alloc, h.column_count),
           rows = new_rows(alloc, h, columns.list),
           strings = parse_strings(Sub(alloc, h.string_pool_offset, h.data_pool_offset), h.encoding)
    PROVE  HighTable(b) = CheckedTable(b, h, alloc, columns, rows, strings)
BY DEF HighTable, CheckedTable

UncheckedTable(b, h, columns, rows, strings) ==
    IF ~columns.ok THEN Rejected
    ELSE IF h.string_pool_offset > h.data_pool_offset \/ h.data_pool_offset > Len(b)
    THEN Panicked
    ELSE IF h.row_count > MaxRows THEN Exhausted(h)
    ELSE IF ~rows.ok \/ ~strings.ok THEN Rejected
    ELSE Table(b, h, columns.list, rows.list, strings.at)
FirstBytes(b) == [k \in 1 .. HEADER_SIZE |-> IF k <= Len(b) THEN b[k] ELSE 0]

(* The same of the ACB reader.                                              *)
LEMMA AcbHighTableIs ==
    ASSUME NEW b, NEW h, NEW columns, NEW rows, NEW strings,
           h = TableHeader(FirstBytes(b)),
           columns = new_columns(b, h.column_count),
           rows = new_rows(b, h, columns.list),
           strings = parse_strings(Sub(b, h.string_pool_offset, h.data_pool_offset), h.encoding)
    PROVE  AcbHighTable(b) = UncheckedTable(b, h, columns, rows, strings)
BY DEF AcbHighTable, UncheckedTable, FirstBytes

(* The sections, and the pool between two of them.                          *)
LEMMA SectionsRead ==
    ASSUME NEW t, Sized(t), NEW b \in Seq(Byte), Piece(b, 0, Image(t))
    PROVE  LET h == ReadHeader(t) IN
           /\ SectionsInOrder(h) /\ RowsFit(h)
           /\ h.size + 8 = Len(Image(t)) /\ Len(Image(t)) <= Len(b) /\ Len(b) \in Nat
           /\ h.string_pool_offset <= h.data_pool_offset /\ h.data_pool_offset <= Len(Image(t))
           /\ h.string_pool_offset \in Nat /\ h.data_pool_offset \in Nat /\ Len(Image(t)) \in Nat
           /\ Width(ReadColumns(t), Len(ReadColumns(t))) <= h.row_size
           /\ Width(ReadColumns(t), Len(ReadColumns(t))) \in Nat /\ h.row_size \in Nat
           /\ HEADER_SIZE <= Len(b)
           /\ parse_strings(Sub(b, h.string_pool_offset, h.data_pool_offset), h.encoding)
                = [ok |-> TRUE, at |-> StringsOf(t)]
<1> DEFINE h == ReadHeader(t)
           I == Len(Image(t))
           B == Len(b)
           R == rows_start(t)
           p == pool_start(t)
           d == data_start(t)
           z == row_size(t)
           N == Len(t.rows)
           x == Width(ReadColumns(t), Len(ReadColumns(t)))
           P == StringPool(Strings(t))
           y == N * z
<1>0. IsTable(t)
  BY DEF Sized
<1>1. /\ I \in Nat /\ 32 <= R /\ R <= p /\ p < d /\ d <= I /\ R \in Nat /\ p \in Nat /\ d \in Nat
      /\ p = R + y /\ z \in Nat /\ N \in Nat /\ d = p + Len(P)
  BY Offsets
<1>2. /\ h.size = I - 8 /\ h.encoding = "UTF8" /\ h.rows_offset = R /\ h.string_pool_offset = p
      /\ h.data_pool_offset = d /\ h.row_size = z /\ h.row_count = N
  BY DEF ReadHeader
<1>3. B \in Nat /\ I <= B
  <2>1. 0 + I <= B
    BY DEF Piece
  <2>2. QED
    BY <1>1, <2>1, LenProperties
<1>4. x \in Nat /\ x <= z
  <2> DEFINE W == Len(Stored(t))
             s == Sums(StoredSizes(t))[W]
  <2>1. Len(ReadColumns(t)) = Len(t.columns)
    BY ReadColumnsFacts
  <2>2. W \in Nat
    BY <1>0, StoredFacts
  <2>3. W \in 0 .. W
    BY <2>2
  <2>4. Width(ReadColumns(t), Len(t.columns)) = s /\ s \in Nat /\ z = t.padding + s
        /\ t.padding \in Nat
    BY <1>0, <2>3, Widths
  <2> HIDE DEF s
  <2>5. QED
    BY <2>1, <2>4
<1>5. Sub(b, p, d) = P
  <2>1. Piece(b, p, P)
    BY PartsLie
  <2>2. P \in Seq(Byte)
    BY <1>0, PartsType
  <2> HIDE DEF P, p, d
  <2>3. Sub(b, p, p + Len(P)) = P
    BY <1>1, <2>1, <2>2, PieceSub
  <2>4. QED
    BY <1>1, <2>3
<1>6. parse_strings(P, "UTF8") = [ok |-> TRUE, at |-> StringsOf(t)]
  <2>1. Strings(t) \in Seq(Seq(Char))
    BY <1>0, StringsFacts
  <2>2. QED
    BY <2>1, PoolParsed DEF StringsOf
<1> HIDE DEF h, I, B, R, p, d, z, N, x, P
<1>7. SectionsInOrder(h)
  BY <1>1, <1>2 DEF SectionsInOrder, HEADER_SIZE
<1>8. RowsFit(h)
  <2>1. CASE z = 0
    BY <1>2, <2>1 DEF RowsFit
  <2>2. CASE z # 0
    <3>1. (N * z) \div z = N
      BY <1>1, <2>2
    <3>2. y = p - R
      <4>1. y \in Nat
        BY <1>1
      <4> HIDE DEF y
      <4>2. QED
        BY <1>1, <4>1
    <3>3. (p - R) \div z = N
      BY <3>1, <3>2
    <3>4. N <= (p - R) \div z
      BY <1>1, <3>3
    <3>5. QED
      BY <1>2, <3>4 DEF RowsFit
  <2>3. QED
    BY <2>1, <2>2
<1>9. h.size + 8 = I /\ 32 <= B
  BY <1>1, <1>2, <1>3
<1>10. p <= d
  BY <1>1
<1>11. parse_strings(Sub(b, h.string_pool_offset, h.data_pool_offset), h.encoding)
            = [ok |-> TRUE, at |-> StringsOf(t)]
  BY <1>2, <1>5, <1>6
<1>12. QED
  BY <1>1, <1>2, <1>3, <1>4, <1>7, <1>8, <1>9, <1>10, <1>11 DEF HEADER_SIZE, h, I, B, x

(* There is memory for its rows.                                            *)
LEMMA RowsReserved ==
    ASSUME NEW t, Sized(t)
    PROVE  ~(Len(t.rows) > MaxRows)
<1> DEFINE N == Len(t.rows)
<1>1. N \in Nat
  BY Offsets
<1>2. N <= MaxRows
  BY DEF Sized, IsSmall
<1> HIDE DEF N
<1>3. ~(N > MaxRows)
  BY <1>1, <1>2, MemoryAssumption
<1>4. QED
  BY <1>3 DEF N

(* HighTable::new of cpk/header.rs accepts it.                              *)
LEMMA TableRead ==
    ASSUME NEW t, Sized(t)
    PROVE  HighTable(Image(t)) = ReadAll(t, Image(t))
<1> DEFINE b == Image(t)
           h == ReadHeader(t)
           L == ReadColumns(t)
           columns == [ok |-> TRUE, at |-> rows_start(t), list |-> L]
           rows == [ok |-> TRUE, list |-> ReadRows(t)]
           strings == [ok |-> TRUE, at |-> StringsOf(t)]
           magic == <<64, 85, 84, 70>>
<1>0. IsTable(t)
  BY DEF Sized
<1>1. b \in Seq(Byte) /\ Len(b) \in Nat
  BY <1>0, ImageFacts, LenProperties
<1>2. Piece(b, 0, Image(t))
  BY <1>1 DEF Piece
<1>3. Piece(b, 0, Header(t)) /\ Piece(b, 32, AllColumns(t))
  BY <1>1, <1>2, PartsLie
<1>4. TableHeader(b) = h
  BY <1>1, <1>3, HeaderRead
<1>5. /\ SectionsInOrder(h) /\ RowsFit(h) /\ h.size + 8 = Len(b)
      /\ h.data_pool_offset <= Len(b) /\ h.data_pool_offset \in Nat
      /\ Width(L, Len(L)) <= h.row_size /\ Width(L, Len(L)) \in Nat /\ h.row_size \in Nat
      /\ HEADER_SIZE <= Len(b)
      /\ parse_strings(Sub(b, h.string_pool_offset, h.data_pool_offset), h.encoding) = strings
  BY <1>1, <1>2, SectionsRead
<1>6. new_columns(b, Len(t.columns)) = columns /\ h.column_count = Len(t.columns)
  BY <1>1, <1>3, ColumnsRead DEF ReadHeader
<1>7. new_rows(b, h, L) = rows
  BY <1>1, <1>2, RowsRead
<1>8. SubSeq(b, 1, h.size + 8) = b
  BY <1>1, <1>5, SubSeqAll
<1>9. SubSeq(b, 1, 4) = magic
  <2> DEFINE H == Header(t)
  <2>1. H \in Seq(Byte) /\ Piece(H, 0, magic) /\ magic \in Seq(Byte) /\ Len(magic) = 4
    BY <1>0, HeaderFacts DEF Byte
  <2>2. 0 \in Nat /\ 0 + 0 = 0 /\ 0 + 1 = 1 /\ 0 + 4 = 4 /\ Piece(b, 0, H)
    BY <1>3
  <2> HIDE DEF H, magic, b
  <2>3. Piece(b, 0 + 0, magic)
    BY <1>1, <2>1, <2>2, PieceOfPiece
  <2>4. Sub(b, 0, 0 + Len(magic)) = magic
    BY <1>1, <2>1, <2>2, <2>3, PieceSub
  <2>5. QED
    BY <2>1, <2>2, <2>4 DEF Sub
<1>10. h.rows_offset = rows_start(t) /\ rows_start(t) \in Nat
  BY Offsets DEF ReadHeader
<1>16. ~(h.row_count > MaxRows)
  BY RowsReserved DEF ReadHeader
<1> HIDE DEF b, h, L, magic
<1>11. HighTable(b) = CheckedTable(b, h, b, columns, rows, strings)
  <2>1. columns.list = L
    OBVIOUS
  <2>2. new_columns(b, h.column_count) = columns
    BY <1>6
  <2>3. new_rows(b, h, columns.list) = rows
    BY <1>7, <2>1
  <2> HIDE DEF columns, rows, strings
  <2>4. h = TableHeader(b) /\ b = SubSeq(b, 1, h.size + 8) /\ columns = new_columns(b, h.column_count)
    BY <1>4, <1>8, <2>2
  <2>5. QED
    BY <1>5, <2>3, <2>4, HighTableIs
<1>12. ~(Len(b) < HEADER_SIZE) /\ SubSeq(b, 1, 4) = <<64, 85, 84, 70>>
  BY <1>1, <1>5, <1>9 DEF HEADER_SIZE, magic
<1>13. ~(h.size + 8 > Len(b)) /\ ~(columns.at > h.rows_offset) /\ ~(h.data_pool_offset > Len(b))
       /\ ~(Width(L, Len(L)) > h.row_size)
  BY <1>1, <1>5, <1>10, SMTT(30)
<1>14. CheckedTable(b, h, b, columns, rows, strings) = Table(b, h, L, ReadRows(t), StringsOf(t))
  BY <1>5, <1>12, <1>13, <1>16 DEF CheckedTable
<1>15. QED
  BY <1>11, <1>14 DEF ReadAll, b, h, L

(* HighTable::new of acb/header.rs too, also when bytes follow the table.   *)
LEMMA AcbTableRead ==
    ASSUME NEW t, Sized(t), NEW b \in Seq(Byte), Piece(b, 0, Image(t))
    PROVE  AcbHighTable(b) = ReadAll(t, b)
<1> DEFINE h == ReadHeader(t)
           L == ReadColumns(t)
           H == Header(t)
           columns == [ok |-> TRUE, at |-> rows_start(t), list |-> L]
           rows == [ok |-> TRUE, list |-> ReadRows(t)]
           strings == [ok |-> TRUE, at |-> StringsOf(t)]
           first == FirstBytes(b)
<1>0. IsTable(t)
  BY DEF Sized
<1>3. Piece(b, 0, H) /\ Piece(b, 32, AllColumns(t))
  BY PartsLie
<1>5. /\ h.string_pool_offset <= h.data_pool_offset /\ h.data_pool_offset <= Len(Image(t))
      /\ h.string_pool_offset \in Nat /\ h.data_pool_offset \in Nat /\ Len(Image(t)) \in Nat
      /\ Len(Image(t)) <= Len(b) /\ Len(b) \in Nat /\ HEADER_SIZE <= Len(b)
      /\ parse_strings(Sub(b, h.string_pool_offset, h.data_pool_offset), h.encoding) = strings
  BY SectionsRead
<1>4. TableHeader(first) = h
  <2>1. H \in Seq(Byte) /\ Len(H) = 32
    BY <1>0, HeaderFacts
  <2>2. /\ first = [k \in 1 .. 32 |-> first[k]]
        /\ \A k \in 1 .. 32 : first[k] = IF k <= Len(b) THEN b[k] ELSE 0
    BY DEF FirstBytes, HEADER_SIZE
  <2>p. Piece(b, 0, H)
    BY <1>3
  <2>l. Len(b) \in Nat /\ 32 <= Len(b)
    BY <1>5 DEF HEADER_SIZE
  <2> HIDE DEF first, H
  <2>3. \A k \in 1 .. 32 : first[k] = b[k] /\ b[k] = H[k] /\ b[k] \in Byte
    <3>1. ASSUME NEW k \in 1 .. 32 PROVE first[k] = b[k] /\ b[k] = H[k] /\ b[k] \in Byte
      <4>1. k <= Len(b) /\ k \in 1 .. Len(b)
        BY <2>l
      <4>o. 0 + k = k /\ k \in 1 .. Len(H)
        BY <2>1
      <4>p. b[0 + k] = H[k]
        BY <2>p, <4>o DEF Piece
      <4>2. b[k] = H[k]
        BY <4>o, <4>p
      <4>3. b[k] \in Byte
        BY <4>1, ElementOfSeq
      <4>4. QED
        BY <2>2, <4>1, <4>2, <4>3
    <3>2. QED
      BY <3>1
  <2>4. first \in Seq(Byte) /\ Len(first) = 32
    <3>1. 32 \in Nat /\ \A k \in 1 .. 32 : first[k] \in Byte
      BY <2>3
    <3>2. QED
      BY <2>2, <3>1, MapSeq
  <2>5. Piece(first, 0, H)
    <3>1. \A k \in 1 .. 32 : 0 + k = k
      OBVIOUS
    <3>2. \A k \in 1 .. 32 : first[0 + k] = H[k]
      BY <2>3, <3>1
    <3>3. QED
      BY <2>1, <2>4, <3>2 DEF Piece
  <2>6. QED
    BY <2>4, <2>5, HeaderRead DEF H
<1>6. new_columns(b, Len(t.columns)) = columns /\ h.column_count = Len(t.columns)
  BY <1>3, ColumnsRead DEF ReadHeader
<1>7. new_rows(b, h, L) = rows
  BY RowsRead
<1>16. ~(h.row_count > MaxRows)
  BY RowsReserved DEF ReadHeader
<1> HIDE DEF h, L, first
<1>11. AcbHighTable(b) = UncheckedTable(b, h, columns, rows, strings)
  <2>1. columns.list = L
    OBVIOUS
  <2>2. new_columns(b, h.column_count) = columns
    BY <1>6
  <2>3. new_rows(b, h, columns.list) = rows
    BY <1>7, <2>1
  <2> HIDE DEF columns, rows, strings
  <2>4. h = TableHeader(FirstBytes(b)) /\ columns = new_columns(b, h.column_count)
    BY <1>4, <2>2 DEF first
  <2>5. QED
    BY <1>5, <2>3, <2>4, AcbHighTableIs
<1>13. ~(h.string_pool_offset > h.data_pool_offset) /\ ~(h.data_pool_offset > Len(b))
  BY <1>5
<1>14. UncheckedTable(b, h, columns, rows, strings) = Table(b, h, L, ReadRows(t), StringsOf(t))
  BY <1>13, <1>16 DEF UncheckedTable
<1>15. QED
  BY <1>11, <1>14 DEF ReadAll, h, L

-----------------------------------------------------------------------------
(* Values by name.                                                         *)

(* What is read for a value stands for it.                                  *)
LEMMA ValueBack ==
    ASSUME NEW t, Sized(t), NEW b \in Seq(Byte), Piece(b, 0, Image(t)),
           NEW type, NEW v, NEW at, Storable(Strings(t), type, v, at),
           type = "Data" => v.v = <<>> \/ Piece(AllData(t), at, v.v)
    PROVE  /\ SameValue(ReadAll(t, b), ReadAs(Strings(t), v, at), v)
           /\ ReadAs(Strings(t), v, at) # NoValue
<1> DEFINE T == ReadAll(t, b)
           s == Strings(t)
           x == ReadAs(s, v, at)
           d == data_start(t)
           D == AllData(t)
<1>0. IsTable(t)
  BY DEF Sized
<1>1. /\ T.strings = StringsOf(t) /\ T.header.data_pool_offset = d /\ T.alloc = b
  BY DEF ReadAll, Table, ReadHeader
<1>2. /\ type \in Types /\ IsValue(type, v) /\ at \in Nat
      /\ (type = "String" => In(v.v, s)) /\ s \in Seq(Seq(Char))
  BY DEF Storable
<1>3. v.type = type /\ v = Value(type, v.v) /\ (type = "Data" => v.v \in Seq(Byte))
  BY <1>2, ValueFacts
<1>4. d \in Nat /\ Piece(b, d, D) /\ D \in Seq(Byte)
  BY <1>0, Offsets, PartsLie, PartsType
<1>5. Len(b) \in Nat
  BY LenProperties
<1>6. NoValue.type = "None"
  BY DEF NoValue
<1> HIDE DEF T, s, x, d, D
<1>7. CASE type = "String"
  <2> DEFINE o == intern_string(s, v.v)
             w == v.v
  <2>1. x = Value("String", o)
    BY <1>3, <1>7 DEF ReadAs, x
  <2>2. get_string(StringsOf(t), o) = w
    BY <1>0, <1>2, <1>7, InternedFound DEF s
  <2>3. o = 0 <=> w = <<>>
    BY <1>2, <1>7, Interned
  <2> HIDE DEF o, w
  <2>4. x.type = "String" /\ x.v = o
    BY <2>1 DEF Value
  <2>5. string_at(T, x) = IF o # 0 THEN get_string(T.strings, o) ELSE NoString
    BY <2>4 DEF string_at
  <2>6. string_at(T, x) = IF w = <<>> THEN NoString ELSE w
    BY <1>1, <2>2, <2>3, <2>5
  <2>7. SameValue(T, x, v)
    BY <1>3, <1>7, <2>6 DEF SameValue, w
  <2>8. x # NoValue
    BY <1>6, <2>4
  <2>9. QED
    BY <2>7, <2>8 DEF T, x, s
<1>8. CASE type = "Data"
  <2> DEFINE w == v.v
             l == Len(w)
             start == d + at
  <2>1. x = [type |-> "Data", offset |-> at, length |-> l]
    BY <1>3, <1>8 DEF ReadAs, x
  <2>2. w \in Seq(Byte) /\ l \in Nat
    BY <1>3, <1>8, LenProperties
  <2>3. w = <<>> \/ Piece(D, at, w)
    BY <1>8 DEF D
  <2> HIDE DEF w
  <2>4. x.type = "Data" /\ x.offset = at /\ x.length = l
    BY <2>1
  <2>5. data(T, x) = IF l # 0 /\ start + l <= Len(b) THEN Sub(b, start, start + l) ELSE NoString
    BY <1>1, <2>4 DEF data
  <2>6. data(T, x) = IF w = <<>> THEN NoString ELSE w
    <3>1. CASE w = <<>>
      <4>1. l = 0
        BY <3>1
      <4>2. QED
        BY <2>5, <3>1, <4>1
    <3>2. CASE w # <<>>
      <4>1. l # 0
        BY <2>2, <3>2
      <4>2. Piece(D, at, w)
        BY <2>3, <3>2
      <4>3. Piece(b, start, w)
        BY <1>2, <1>4, <2>2, <4>2, PieceOfPiece
      <4>4. start \in Nat
        BY <1>2, <1>4
      <4> HIDE DEF start
      <4>5. Sub(b, start, start + l) = w
        BY <2>2, <4>3, <4>4, PieceSub
      <4>6. start + l <= Len(b)
        BY <4>3 DEF Piece
      <4> HIDE DEF l
      <4>7. QED
        BY <2>5, <3>2, <4>1, <4>5, <4>6
    <3>3. QED
      BY <3>1, <3>2
  <2>7. SameValue(T, x, v)
    BY <1>3, <1>8, <2>6 DEF SameValue, w
  <2>8. x # NoValue
    BY <1>6, <2>4
  <2>9. QED
    BY <2>7, <2>8 DEF T, x, s
<1>9. CASE type \notin {"String", "Data"}
  <2>1. x = v
    BY <1>3, <1>9 DEF ReadAs, x
  <2>2. type # "None"
    BY <1>2 DEF Types
  <2>3. SameValue(T, x, v)
    BY <1>3, <1>9, <2>1, <2>2 DEF SameValue
  <2>4. x # NoValue
    BY <1>3, <1>6, <2>1, <2>2
  <2>5. QED
    BY <2>3, <2>4 DEF T, x, s
<1>10. QED
  BY <1>7, <1>8, <1>9

(* The columns of a name.                                                   *)
OfName(t, name) == {d \in 1 .. Len(t.columns) : Has(t.columns[d].flag, NAME) /\ t.columns[d].name = name}

(* The columns a reader finds by a name are those of that name.             *)
LEMMA NamedRead ==
    ASSUME NEW t, Sized(t), NEW b, NEW name \in Seq(Char)
    PROVE  Named(ReadAll(t, b), name) = OfName(t, name)
<1> DEFINE T == ReadAll(t, b)
           n == Len(t.columns)
           L == ReadColumns(t)
           G == StringsOf(t)
<1>0. IsTable(t)
  BY DEF Sized
<1>1. T.columns = L /\ T.strings = G
  BY DEF ReadAll, Table
<1>2. DOMAIN L = 1 .. n /\ Columns(t) = 1 .. n /\ \A d \in 1 .. n : L[d] = ReadColumn(t, d)
  BY ReadColumnsFacts
<1> HIDE DEF L, T
<1>3. ASSUME NEW d \in 1 .. n
      PROVE  get_string(G, L[d].name) = name
                <=> Has(t.columns[d].flag, NAME) /\ t.columns[d].name = name
  <2>1. L[d].name = IF Has(t.columns[d].flag, NAME)
                    THEN intern_string(Strings(t), t.columns[d].name) ELSE NoName
    <3>1. ReadColumn(t, d).name = IF Has(t.columns[d].flag, NAME)
                    THEN intern_string(Strings(t), t.columns[d].name) ELSE NoName
      BY DEF ReadColumn
    <3>2. L[d] = ReadColumn(t, d)
      BY <1>2
    <3>3. QED
      BY <3>1, <3>2
  <2>2. CASE Has(t.columns[d].flag, NAME)
    <3>1. In(t.columns[d].name, Strings(t))
      BY <1>0, <1>2, StringsFacts DEF NameOf
    <3>2. get_string(G, intern_string(Strings(t), t.columns[d].name)) = t.columns[d].name
      BY <1>0, <3>1, InternedFound
    <3>3. QED
      BY <2>1, <2>2, <3>2
  <2>3. CASE ~Has(t.columns[d].flag, NAME)
    <3>1. NoName \notin DOMAIN G
      BY DEF StringsOf, Starts, NoName
    <3>2. get_string(G, NoName) = NoString
      BY <3>1 DEF get_string
    <3>3. NoString # name
      <4>1. Len(NoString) = 1 /\ NoString[1] = -1
        BY DEF NoString
      <4>2. ASSUME NoString = name PROVE FALSE
        <5>1. Len(name) = 1 /\ name[1] = -1
          BY <4>1, <4>2
        <5>2. 1 \in 1 .. Len(name)
          BY <5>1
        <5>3. name[1] \in Char
          BY <5>2, ElementOfSeq
        <5>4. QED
          BY <5>1, <5>3, CharFacts
      <4>3. QED
        BY <4>2
    <3>4. QED
      BY <2>1, <2>3, <3>2, <3>3
  <2>4. QED
    BY <2>2, <2>3
<1>4. Named(T, name) = {d \in 1 .. n : get_string(G, L[d].name) = name}
  BY <1>1, <1>2 DEF Named
<1>5. QED
  BY <1>3, <1>4 DEF OfName, T

(* The first of a name is found, and the only one by either reader.         *)
FirstOfName(t, c) ==
    Has(t.columns[c].flag, NAME) /\ \A d \in 1 .. c - 1 : t.columns[d].name # t.columns[c].name
OnlyOfName(t, c) ==
    FirstOfName(t, c) /\ \A d \in Columns(t) : d # c => t.columns[d].name # t.columns[c].name

(* Either reader finds the column of a name by it.                          *)
LEMMA ColumnFound ==
    ASSUME NEW t, Sized(t), NEW b, NEW c \in Columns(t)
    PROVE  /\ FirstOfName(t, c) => column_index(ReadAll(t, b), t.columns[c].name) = c
           /\ OnlyOfName(t, c) => acb_index(ReadAll(t, b), t.columns[c].name) = c
           /\ c \in 1 .. Len(t.columns) /\ c # 0
<1> DEFINE T == ReadAll(t, b)
           name == t.columns[c].name
           N == Named(T, name)
           n == Len(t.columns)
<1>0. IsTable(t)
  BY DEF Sized
<1>1. name \in Seq(Char)
  BY <1>0 DEF IsTable, IsColumn
<1>2. n \in Nat /\ Columns(t) = 1 .. n
  BY <1>0, StoredFacts
<1>3. N = OfName(t, name)
  BY <1>1, NamedRead
<1>4. \A d \in N : d \in 1 .. n /\ t.columns[d].name = name
  BY <1>3 DEF OfName
<1>5. FirstOfName(t, c) => c \in N
  BY <1>2, <1>3 DEF OfName, FirstOfName
<1> HIDE DEF N, T
<1>6. ASSUME FirstOfName(t, c) PROVE column_index(T, name) = c
  <2>1. \A d \in N : c <= d
    <3>1. ASSUME NEW d \in N, ~(c <= d) PROVE FALSE
      <4>1. d \in 1 .. c - 1
        BY <1>2, <1>4, <3>1
      <4>2. QED
        BY <1>4, <1>6, <4>1 DEF FirstOfName
    <3>2. QED
      BY <3>1
  <2>2. \A e \in N : (\A d \in N : e <= d) => e = c
    BY <1>2, <1>4, <1>5, <1>6, <2>1
  <2>3. (CHOOSE e \in N : \A d \in N : e <= d) = c
    BY <1>5, <1>6, <2>1, <2>2
  <2>4. QED
    BY <1>5, <1>6, <2>3 DEF column_index, N
<1>7. ASSUME OnlyOfName(t, c) PROVE acb_index(T, name) = c
  <2>1. c \in N
    BY <1>5, <1>7 DEF OnlyOfName
  <2>2. \A d \in N : d = c
    BY <1>2, <1>4, <1>7 DEF OnlyOfName
  <2>3. \A d \in N : d <= c
    <3>1. c <= c
      BY <1>2
    <3>2. QED
      BY <2>2, <3>1
  <2>4. (CHOOSE e \in N : \A d \in N : d <= e) = c
    BY <2>1, <2>2, <2>3
  <2>5. QED
    BY <2>1, <2>4 DEF acb_index, N
<1>8. QED
  BY <1>2, <1>6, <1>7 DEF T

(* The row of a table that was read, and the default of a column.           *)
LEMMA RowValue ==
    ASSUME NEW t, Sized(t), NEW b, NEW r \in 1 .. Len(t.rows), NEW c \in 1 .. Len(t.columns)
    PROVE  /\ ReadAll(t, b).rows[r][c]
                = IF Has(t.columns[c].flag, ROW_STORAGE) THEN ReadField(t, r, PlaceOf(t, c)) ELSE NoValue
           /\ ReadAll(t, b).columns[c].default
                = IF Has(t.columns[c].flag, DEFAULT_VALUE)
                  THEN ReadAs(Strings(t), t.columns[c].default, 0) ELSE NoValue
           /\ value(ReadAll(t, b), r, c)
                = IF ReadAll(t, b).rows[r][c] = NoValue THEN ReadAll(t, b).columns[c].default
                  ELSE ReadAll(t, b).rows[r][c]
<1> DEFINE T == ReadAll(t, b)
<1>1. T.rows = ReadRows(t) /\ T.columns = ReadColumns(t)
  BY DEF ReadAll, Table
<1>2. DOMAIN T.columns = 1 .. Len(t.columns) /\ T.columns[c] = ReadColumn(t, c)
  BY <1>1, ReadColumnsFacts
<1>3. DOMAIN T.rows = 1 .. Len(t.rows) /\ T.rows[r] = ReadRow(t, r)
  BY <1>1 DEF ReadRows
<1>4. ReadRow(t, r)[c]
        = IF Has(t.columns[c].flag, ROW_STORAGE) THEN ReadField(t, r, PlaceOf(t, c)) ELSE NoValue
  BY DEF ReadRow
<1>5. ReadColumn(t, c).default
        = IF Has(t.columns[c].flag, DEFAULT_VALUE)
          THEN ReadAs(Strings(t), t.columns[c].default, 0) ELSE NoValue
  BY DEF ReadColumn
<1> HIDE DEF T
<1>6. r \in DOMAIN T.rows /\ c \in DOMAIN T.columns
  BY <1>2, <1>3
<1>7. value(T, r, c) = IF T.rows[r][c] = NoValue THEN T.columns[c].default ELSE T.rows[r][c]
  BY <1>6 DEF value
<1>8. QED
  BY <1>2, <1>3, <1>4, <1>5, <1>7 DEF T

(* A stored field is read by either reader, whatever follows the table.     *)
LEMMA StoredBack ==
    ASSUME NEW t, Sized(t), NEW b \in Seq(Byte), Piece(b, 0, Image(t)),
           NEW r \in 1 .. Len(t.rows), NEW c \in Columns(t), Has(t.columns[c].flag, ROW_STORAGE)
    PROVE  LET x == ReadField(t, r, PlaceOf(t, c)) IN
           /\ SameValue(ReadAll(t, b), x, t.rows[r][c]) /\ x # NoValue
<1> DEFINE k == PlaceOf(t, c)
           x == ReadField(t, r, k)
           v == FieldValue(t, r, k)
           at == FieldData(t, r, k)
           type == TypeOf(t, Stored(t)[k])
<1>0. IsTable(t)
  BY DEF Sized
<1>1. k \in 1 .. Len(Stored(t)) /\ Stored(t)[k] = c
  BY <1>0, Placed
<1> HIDE DEF k
<1>2. /\ Storable(Strings(t), type, v, at)
      /\ v.type = "Data" => Piece(AllData(t), at, v.v)
  BY <1>1, FieldStorable
<1>3. v.type = type
  BY <1>2, ValueFacts DEF Storable
<1>4. x = ReadAs(Strings(t), v, at)
  BY DEF ReadField
<1>5. v = t.rows[r][c]
  BY <1>1 DEF FieldValue
<1> HIDE DEF v, at, type, x
<1>6. SameValue(ReadAll(t, b), ReadAs(Strings(t), v, at), v) /\ ReadAs(Strings(t), v, at) # NoValue
  BY <1>2, <1>3, ValueBack
<1>7. QED
  BY <1>4, <1>5, <1>6 DEF x, k

(* Every field is read back by the name of its column.                      *)
LEMMA FieldBack ==
    ASSUME NEW t, Sized(t), NEW b \in Seq(Byte), Piece(b, 0, Image(t)),
           NEW r \in 1 .. Len(t.rows), NEW c \in Columns(t), FirstOfName(t, c)
    PROVE  SameValue(ReadAll(t, b), value_by_name(ReadAll(t, b), r, t.columns[c].name), Given(t, r, c))
<1> DEFINE T == ReadAll(t, b)
           col == t.columns[c]
           y == value_by_name(T, r, col.name)
<1>0. IsTable(t)
  BY DEF Sized
<1>1. column_index(T, col.name) = c /\ c \in 1 .. Len(t.columns)
  BY ColumnFound
<1>2. y = value(T, r, c)
  BY <1>1 DEF value_by_name
<1>3. /\ T.rows[r][c] = IF Has(col.flag, ROW_STORAGE) THEN ReadField(t, r, PlaceOf(t, c)) ELSE NoValue
      /\ T.columns[c].default = IF Has(col.flag, DEFAULT_VALUE)
                                THEN ReadAs(Strings(t), col.default, 0) ELSE NoValue
      /\ value(T, r, c) = IF T.rows[r][c] = NoValue THEN T.columns[c].default ELSE T.rows[r][c]
  BY <1>1, RowValue
<1>4. Given(t, r, c) = IF Has(col.flag, ROW_STORAGE) THEN t.rows[r][c]
                       ELSE IF Has(col.flag, DEFAULT_VALUE) THEN col.default ELSE NoValue
  BY DEF Given
<1>5. CASE Has(col.flag, ROW_STORAGE)
  <2>1. /\ SameValue(T, ReadField(t, r, PlaceOf(t, c)), t.rows[r][c])
        /\ ReadField(t, r, PlaceOf(t, c)) # NoValue
    BY <1>5, StoredBack
  <2> HIDE DEF T, y
  <2>2. y = ReadField(t, r, PlaceOf(t, c)) /\ Given(t, r, c) = t.rows[r][c]
    BY <1>2, <1>3, <1>4, <1>5, <2>1
  <2>3. QED
    BY <2>1, <2>2 DEF T, y
<1>6. CASE ~Has(col.flag, ROW_STORAGE) /\ Has(col.flag, DEFAULT_VALUE)
  <2>1. Storable(Strings(t), TypeOf(t, c), col.default, 0)
    BY <1>6, ColumnParts
  <2>2. TypeOf(t, c) = "Data" => col.default.v = <<>>
    BY <1>0, <1>6 DEF IsTable, IsColumn, TypeOf
  <2>3. SameValue(T, ReadAs(Strings(t), col.default, 0), col.default)
    BY <2>1, <2>2, ValueBack
  <2> HIDE DEF T, y
  <2>4. y = ReadAs(Strings(t), col.default, 0) /\ Given(t, r, c) = col.default
    BY <1>2, <1>3, <1>4, <1>6
  <2>5. QED
    BY <2>3, <2>4 DEF T, y
<1>7. CASE ~Has(col.flag, ROW_STORAGE) /\ ~Has(col.flag, DEFAULT_VALUE)
  <2> HIDE DEF T, y
  <2>1. y = NoValue /\ Given(t, r, c) = NoValue
    BY <1>2, <1>3, <1>4, <1>7
  <2>2. NoValue.type = "None"
    BY DEF NoValue
  <2>3. SameValue(T, NoValue, NoValue)
    BY <2>2 DEF SameValue
  <2>4. QED
    BY <2>1, <2>3 DEF T, y
<1>8. QED
  BY <1>5, <1>6, <1>7

(* Both readers give the same for a name that is its column's own.          *)
LEMMA ReadersSame ==
    ASSUME NEW t, Sized(t), NEW a \in Seq(Byte), Piece(a, 0, Image(t)),
           NEW b \in Seq(Byte), Piece(b, 0, Image(t)), NEW r \in 1 .. Len(t.rows),
           NEW c \in Columns(t), OnlyOfName(t, c), Has(t.columns[c].flag, ROW_STORAGE)
    PROVE  get_value(ReadAll(t, b), r, t.columns[c].name)
                = value_by_name(ReadAll(t, a), r, t.columns[c].name)
<1> DEFINE A == ReadAll(t, a)
           B == ReadAll(t, b)
           name == t.columns[c].name
           x == ReadField(t, r, PlaceOf(t, c))
<1>1. FirstOfName(t, c)
  BY DEF OnlyOfName
<1>2. column_index(A, name) = c /\ acb_index(B, name) = c /\ c \in 1 .. Len(t.columns) /\ c # 0
  BY <1>1, ColumnFound
<1>3. x # NoValue
  BY StoredBack
<1>4. /\ A.rows[r][c] = x /\ B.rows[r][c] = x
      /\ value(A, r, c) = IF A.rows[r][c] = NoValue THEN A.columns[c].default ELSE A.rows[r][c]
  BY <1>2, RowValue
<1> HIDE DEF A, B, x
<1>5. value_by_name(A, r, name) = x
  BY <1>2, <1>3, <1>4 DEF value_by_name
<1>6. get_value(B, r, name) = x
  BY <1>2, <1>4 DEF get_value
<1>7. QED
  BY <1>5, <1>6 DEF A, B

-----------------------------------------------------------------------------
(* The cipher.                                                             *)

(* A byte is made of eight bits, which it gives back.                       *)
Bit(x, bit) == (x \div bit) % 2

MadeOf(x, e0, e1, e2, e3, e4, e5, e6, e7) ==
    /\ e0 \in {0, 1} /\ e1 \in {0, 1} /\ e2 \in {0, 1} /\ e3 \in {0, 1}
    /\ e4 \in {0, 1} /\ e5 \in {0, 1} /\ e6 \in {0, 1} /\ e7 \in {0, 1}
    /\ x = e0 + 2 * e1 + 4 * e2 + 8 * e3 + 16 * e4 + 32 * e5 + 64 * e6 + 128 * e7

(* The bits of a byte that is made of eight are these eight.                *)
LEMMA BitsOf ==
    ASSUME NEW e0, NEW e1, NEW e2, NEW e3, NEW e4, NEW e5, NEW e6, NEW e7, NEW x,
           MadeOf(x, e0, e1, e2, e3, e4, e5, e6, e7)
    PROVE  /\ Bit(x, 1) = e0 /\ Bit(x, 2) = e1 /\ Bit(x, 4) = e2 /\ Bit(x, 8) = e3
           /\ Bit(x, 16) = e4 /\ Bit(x, 32) = e5 /\ Bit(x, 64) = e6 /\ Bit(x, 128) = e7
           /\ x \in 0 .. 255
<1> USE DEF MadeOf
<1>0. x \in 0 .. 255 /\ x \in Int
  OBVIOUS
<1>1. Bit(x, 1) = e0
  BY <1>0 DEF Bit
<1>2. Bit(x, 2) = e1
  <2>1. x \div 2 = e1 + 2 * (e2 + 2 * e3 + 4 * e4 + 8 * e5 + 16 * e6 + 32 * e7)
    OBVIOUS
  <2>2. QED
    BY <2>1 DEF Bit
<1>3. Bit(x, 4) = e2
  <2>1. x \div 4 = e2 + 2 * (e3 + 2 * e4 + 4 * e5 + 8 * e6 + 16 * e7)
    OBVIOUS
  <2>2. QED
    BY <2>1 DEF Bit
<1>4. Bit(x, 8) = e3
  <2>1. x \div 8 = e3 + 2 * (e4 + 2 * e5 + 4 * e6 + 8 * e7)
    OBVIOUS
  <2>2. QED
    BY <2>1 DEF Bit
<1>5. Bit(x, 16) = e4
  <2>1. x \div 16 = e4 + 2 * (e5 + 2 * e6 + 4 * e7)
    OBVIOUS
  <2>2. QED
    BY <2>1 DEF Bit
<1>6. Bit(x, 32) = e5
  <2>1. x \div 32 = e5 + 2 * (e6 + 2 * e7)
    OBVIOUS
  <2>2. QED
    BY <2>1 DEF Bit
<1>7. Bit(x, 64) = e6
  <2>1. x \div 64 = e6 + 2 * e7
    OBVIOUS
  <2>2. QED
    BY <2>1 DEF Bit
<1>8. Bit(x, 128) = e7
  <2>1. x \div 128 = e7
    OBVIOUS
  <2>2. QED
    BY <2>1 DEF Bit
<1>9. QED
  BY <1>0, <1>1, <1>2, <1>3, <1>4, <1>5, <1>6, <1>7, <1>8

(* A bit is zero or one.                                                    *)
LEMMA BitType == \A x \in Int : \A bit \in Nat \ {0} : Bit(x, bit) \in {0, 1}
<1>1. ASSUME NEW x \in Int, NEW bit \in Nat \ {0} PROVE Bit(x, bit) \in {0, 1}
  <2> DEFINE q == x \div bit
  <2>1. q \in Int
    OBVIOUS
  <2> HIDE DEF q
  <2>2. q % 2 \in {0, 1}
    BY <2>1
  <2>3. QED
    BY <2>2 DEF Bit, q
<1>2. QED
  BY <1>1

(* It is the sum of its bits.                                               *)
LEMMA SumOfBits ==
    ASSUME NEW a \in Byte
    PROVE  a = Bit(a, 1) + 2 * Bit(a, 2) + 4 * Bit(a, 4) + 8 * Bit(a, 8) + 16 * Bit(a, 16)
                + 32 * Bit(a, 32) + 64 * Bit(a, 64) + 128 * Bit(a, 128)
<1> DEFINE Half(x) == x \div 2
           a1 == Half(a)
           a2 == Half(a1)
           a3 == Half(a2)
           a4 == Half(a3)
           a5 == Half(a4)
           a6 == Half(a5)
           a7 == Half(a6)
<1>1. ASSUME NEW x \in Nat
      PROVE  Half(x) \in Nat /\ x = 2 * Half(x) + (x % 2) /\ x % 2 \in {0, 1}
  <2> DEFINE h == x \div 2
             m == x % 2
  <2>1. h \in Nat /\ m = x - 2 * h /\ m \in {0, 1}
    OBVIOUS
  <2> HIDE DEF h, m
  <2>2. x = 2 * h + m
    BY <2>1
  <2>3. QED
    BY <2>1, <2>2 DEF h, m
<1> HIDE DEF Half
<1>2. a \in Nat /\ a <= 255
  BY DEF Byte
<1>3. /\ a1 \in Nat /\ a = 2 * a1 + (a % 2) /\ a % 2 \in {0, 1}
      /\ a2 \in Nat /\ a1 = 2 * a2 + (a1 % 2) /\ a1 % 2 \in {0, 1}
  BY <1>1, <1>2
<1>4. /\ a3 \in Nat /\ a2 = 2 * a3 + (a2 % 2) /\ a2 % 2 \in {0, 1}
      /\ a4 \in Nat /\ a3 = 2 * a4 + (a3 % 2) /\ a3 % 2 \in {0, 1}
  BY <1>1, <1>3
<1>5. /\ a5 \in Nat /\ a4 = 2 * a5 + (a4 % 2) /\ a4 % 2 \in {0, 1}
      /\ a6 \in Nat /\ a5 = 2 * a6 + (a5 % 2) /\ a5 % 2 \in {0, 1}
  BY <1>1, <1>4
<1>6. a7 \in Nat /\ a6 = 2 * a7 + (a6 % 2) /\ a6 % 2 \in {0, 1}
  BY <1>1, <1>5
<1> DEFINE e0 == a % 2
           e1 == a1 % 2
           e2 == a2 % 2
           e3 == a3 % 2
           e4 == a4 % 2
           e5 == a5 % 2
           e6 == a6 % 2
<1>7. /\ a1 \in Nat /\ a2 \in Nat /\ a3 \in Nat /\ a4 \in Nat /\ a5 \in Nat /\ a6 \in Nat
      /\ a7 \in Nat
      /\ a = 2 * a1 + e0 /\ a1 = 2 * a2 + e1 /\ a2 = 2 * a3 + e2 /\ a3 = 2 * a4 + e3
      /\ a4 = 2 * a5 + e4 /\ a5 = 2 * a6 + e5 /\ a6 = 2 * a7 + e6
      /\ e0 \in {0, 1} /\ e1 \in {0, 1} /\ e2 \in {0, 1} /\ e3 \in {0, 1} /\ e4 \in {0, 1}
      /\ e5 \in {0, 1} /\ e6 \in {0, 1}
  BY <1>3, <1>4, <1>5, <1>6
<1> HIDE DEF a1, a2, a3, a4, a5, a6, a7, e0, e1, e2, e3, e4, e5, e6
<1>8. a = e0 + 2 * e1 + 4 * e2 + 8 * e3 + 16 * e4 + 32 * e5 + 64 * e6 + 128 * a7
  BY <1>7
<1>9. a7 \in {0, 1}
  BY <1>2, <1>7, <1>8
<1>10. /\ Bit(a, 1) = e0 /\ Bit(a, 2) = e1 /\ Bit(a, 4) = e2 /\ Bit(a, 8) = e3
       /\ Bit(a, 16) = e4 /\ Bit(a, 32) = e5 /\ Bit(a, 64) = e6 /\ Bit(a, 128) = a7
  <2>1. MadeOf(a, e0, e1, e2, e3, e4, e5, e6, a7)
    BY <1>7, <1>8, <1>9 DEF MadeOf
  <2>2. QED
    BY <2>1, BitsOf
<1>11. QED
  BY <1>8, <1>10

(* Exclusive or twice with the same key gives the byte.                     *)
Differ(a, k, bit) == IF Bit(a, bit) # Bit(k, bit) THEN 1 ELSE 0

(* The key takes the byte apart and puts it together again.                 *)
LEMMA XorTwice ==
    ASSUME NEW a \in Byte, NEW k \in Int
    PROVE  Xor(Xor(a, k), k) = a
<1>1. \A x : Xor(x, k) = Differ(x, k, 1) + 2 * Differ(x, k, 2) + 4 * Differ(x, k, 4)
        + 8 * Differ(x, k, 8) + 16 * Differ(x, k, 16) + 32 * Differ(x, k, 32)
        + 64 * Differ(x, k, 64) + 128 * Differ(x, k, 128)
  <2>1. ASSUME NEW x
        PROVE  Xor(x, k) = Differ(x, k, 1) + 2 * Differ(x, k, 2) + 4 * Differ(x, k, 4)
                + 8 * Differ(x, k, 8) + 16 * Differ(x, k, 16) + 32 * Differ(x, k, 32)
                + 64 * Differ(x, k, 64) + 128 * Differ(x, k, 128)
    <3> DEFINE differ(bit) == IF (x \div bit) % 2 # (k \div bit) % 2 THEN bit ELSE 0
    <3>1. \A bit \in Nat : differ(bit) = bit * Differ(x, k, bit)
      BY DEF Differ, Bit
    <3>2. Xor(x, k) = differ(1) + differ(2) + differ(4) + differ(8) + differ(16) + differ(32)
                        + differ(64) + differ(128)
      BY DEF Xor
    <3> HIDE DEF differ
    <3>3. \A bit : Differ(x, k, bit) \in {0, 1}
      BY DEF Differ
    <3>4. QED
      BY <3>1, <3>2, <3>3
  <2>2. QED
    BY <2>1
<1> DEFINE y == Xor(a, k)
<1>2. \A bit : Differ(a, k, bit) \in {0, 1}
  BY DEF Differ
<1>3. /\ Bit(y, 1) = Differ(a, k, 1) /\ Bit(y, 2) = Differ(a, k, 2) /\ Bit(y, 4) = Differ(a, k, 4)
      /\ Bit(y, 8) = Differ(a, k, 8) /\ Bit(y, 16) = Differ(a, k, 16)
      /\ Bit(y, 32) = Differ(a, k, 32) /\ Bit(y, 64) = Differ(a, k, 64)
      /\ Bit(y, 128) = Differ(a, k, 128)
  <2>1. MadeOf(y, Differ(a, k, 1), Differ(a, k, 2), Differ(a, k, 4), Differ(a, k, 8),
               Differ(a, k, 16), Differ(a, k, 32), Differ(a, k, 64), Differ(a, k, 128))
    BY <1>1, <1>2 DEF MadeOf
  <2> HIDE DEF y
  <2>2. QED
    BY <2>1, BitsOf
<1> HIDE DEF y
<1>4. ASSUME NEW bit \in Nat \ {0}, Bit(y, bit) = Differ(a, k, bit)
      PROVE  Differ(y, k, bit) = Bit(a, bit)
  <2>1. Bit(a, bit) \in {0, 1} /\ Bit(k, bit) \in {0, 1}
    <3>1. a \in Int
      BY DEF Byte
    <3>2. QED
      BY <3>1, BitType
  <2>2. QED
    BY <1>4, <2>1 DEF Differ
<1>5. /\ Differ(y, k, 1) = Bit(a, 1) /\ Differ(y, k, 2) = Bit(a, 2) /\ Differ(y, k, 4) = Bit(a, 4)
      /\ Differ(y, k, 8) = Bit(a, 8) /\ Differ(y, k, 16) = Bit(a, 16)
      /\ Differ(y, k, 32) = Bit(a, 32) /\ Differ(y, k, 64) = Bit(a, 64)
      /\ Differ(y, k, 128) = Bit(a, 128)
  BY <1>3, <1>4
<1>6. Xor(y, k) = a
  BY <1>1, <1>5, SumOfBits
<1>7. QED
  BY <1>6 DEF y

(* The recursive definition of the key has the value it says: there is one  *)
(* up to every bound, any two agree, and together they are one for all.     *)
PowerBody(g, k) ==
    IF k = 0 THEN 1
    ELSE (g[k \div 2] * g[k \div 2] * (IF k % 2 = 1 THEN 21 ELSE 1)) % 256
PowersTo(g, n) == g = [k \in 0 .. n |-> PowerBody(g, k)]

(* A half is smaller.                                                       *)
LEMMA Halves == \A k \in Nat : k # 0 => k \div 2 \in 0 .. k - 1
OBVIOUS

(* Any two of them agree.                                                   *)
LEMMA PowersAgree ==
    \A k \in Nat : \A n, m \in Nat : \A g, h :
        PowersTo(g, n) /\ PowersTo(h, m) /\ k <= n /\ k <= m => g[k] = h[k]
<1> DEFINE Agree(k) == \A n, m \in Nat : \A g, h :
                PowersTo(g, n) /\ PowersTo(h, m) /\ k <= n /\ k <= m => g[k] = h[k]
           S == {k \in Nat : \A j \in 0 .. k : Agree(j)}
<1>1. ASSUME NEW k \in Nat, \A j \in 0 .. k - 1 : Agree(j) PROVE Agree(k)
  <2> SUFFICES ASSUME NEW n \in Nat, NEW m \in Nat, NEW g, NEW h,
                      PowersTo(g, n), PowersTo(h, m), k <= n, k <= m
               PROVE  g[k] = h[k]
    OBVIOUS
  <2> HIDE DEF Agree
  <2>1. k \in 0 .. n /\ k \in 0 .. m
    OBVIOUS
  <2>2. g[k] = PowerBody(g, k) /\ h[k] = PowerBody(h, k)
    BY <2>1 DEF PowersTo
  <2>3. CASE k = 0
    BY <2>2, <2>3 DEF PowerBody
  <2>4. CASE k # 0
    <3>1. k \div 2 \in 0 .. k - 1 /\ k \div 2 <= n /\ k \div 2 <= m
      BY <2>4, Halves
    <3>2. Agree(k \div 2)
      BY <1>1, <3>1
    <3>3. g[k \div 2] = h[k \div 2]
      BY <3>1, <3>2 DEF Agree
    <3>4. QED
      BY <2>2, <3>3 DEF PowerBody
  <2>5. QED
    BY <2>3, <2>4
<1> HIDE DEF Agree
<1>2. 0 \in S
  <2>1. Agree(0)
    BY <1>1
  <2>2. QED
    BY <2>1
<1>3. ASSUME NEW k \in Nat, k \in S PROVE k + 1 \in S
  <2>1. Agree(k + 1)
    <3>1. (k + 1) - 1 = k /\ k + 1 \in Nat
      OBVIOUS
    <3>2. \A j \in 0 .. (k + 1) - 1 : Agree(j)
      BY <1>3, <3>1
    <3>3. QED
      BY <1>1, <3>1, <3>2
  <2>2. \A j \in 0 .. k + 1 : j \in 0 .. k \/ j = k + 1
    OBVIOUS
  <2>3. QED
    BY <1>3, <2>1, <2>2
<1>4. Nat \subseteq S
  <2> HIDE DEF S
  <2>1. QED
    BY <1>2, <1>3, SetInduction
<1>5. \A k \in Nat : Agree(k)
  BY <1>4
<1>6. QED
  BY <1>5 DEF Agree

(* There is one up to every bound.                                          *)
LEMMA PowersExist == \A n \in Nat : \E g : PowersTo(g, n)
<1> DEFINE S == {n \in Nat : \E g : PowersTo(g, n)}
<1>1. 0 \in S
  <2> DEFINE g == [k \in 0 .. 0 |-> 1]
  <2>1. g = [k \in 0 .. 0 |-> PowerBody(g, k)]
    <3>1. \A k \in 0 .. 0 : PowerBody(g, k) = 1
      BY DEF PowerBody
    <3>2. QED
      BY <3>1
  <2>2. QED
    BY <2>1 DEF PowersTo
<1>2. ASSUME NEW n \in Nat, n \in S PROVE n + 1 \in S
  <2>1. PICK g : PowersTo(g, n)
    BY <1>2
  <2> DEFINE x == PowerBody(g, n + 1)
             h == [k \in 0 .. n + 1 |-> IF k = n + 1 THEN x ELSE g[k]]
  <2>2. ASSUME NEW k \in 0 .. n + 1 PROVE PowerBody(h, k) = h[k]
    <3>1. k # 0 => k \div 2 \in 0 .. n
      <4>1. k # 0 => k \div 2 \in 0 .. k - 1
        BY Halves
      <4>2. QED
        BY <4>1
    <3>2. k # 0 => h[k \div 2] = g[k \div 2]
      <4>1. \A j \in 0 .. n : j \in 0 .. n + 1 /\ j # n + 1
        OBVIOUS
      <4>2. QED
        BY <3>1, <4>1
    <3> HIDE DEF h
    <3>3. PowerBody(h, k) = PowerBody(g, k)
      BY <3>2 DEF PowerBody
    <3>4. CASE k = n + 1
      BY <3>3, <3>4 DEF h
    <3>5. CASE k # n + 1
      <4>1. k \in 0 .. n
        BY <3>5
      <4>2. g[k] = PowerBody(g, k)
        BY <2>1, <4>1 DEF PowersTo
      <4>3. h[k] = g[k]
        BY <3>5 DEF h
      <4>4. QED
        BY <3>3, <4>2, <4>3
    <3>6. QED
      BY <3>4, <3>5
  <2>3. h = [k \in 0 .. n + 1 |-> h[k]]
    OBVIOUS
  <2> HIDE DEF h
  <2>4. PowersTo(h, n + 1)
    BY <2>2, <2>3 DEF PowersTo
  <2>5. QED
    BY <2>4
<1>3. Nat \subseteq S
  <2> HIDE DEF S
  <2>1. QED
    BY <1>1, <1>2, SetInduction
<1>4. QED
  BY <1>3

(* The powers of 21.                                                        *)
LEMMA PowerIs ==
    /\ Power21[0] = 1
    /\ \A k \in Nat \ {0} :
        Power21[k] = (Power21[k \div 2] * Power21[k \div 2] * (IF k % 2 = 1 THEN 21 ELSE 1)) % 256
<1> DEFINE Upto(n) == CHOOSE g : PowersTo(g, n)
           F == [k \in Nat |-> Upto(k)[k]]
           Solves(f) == f = [k \in Nat |-> PowerBody(f, k)]
<1>1. \A n \in Nat : PowersTo(Upto(n), n)
  BY PowersExist
<1> HIDE DEF Upto
<1>2. ASSUME NEW k \in Nat PROVE F[k] = PowerBody(F, k)
  <2>1. k \in 0 .. k
    OBVIOUS
  <2>2. Upto(k)[k] = PowerBody(Upto(k), k)
    BY <1>1, <2>1 DEF PowersTo
  <2>3. ASSUME k # 0 PROVE Upto(k)[k \div 2] = F[k \div 2]
    <3> DEFINE j == k \div 2
    <3>1. j \in Nat /\ j <= k /\ j <= j
      BY <2>3
    <3> HIDE DEF j
    <3>2. PowersTo(Upto(k), k) /\ PowersTo(Upto(j), j)
      BY <1>1, <3>1
    <3>3. Upto(k)[j] = Upto(j)[j]
      BY <3>1, <3>2, PowersAgree
    <3>4. QED
      BY <3>1, <3>3 DEF j
  <2>4. F[k] = Upto(k)[k]
    OBVIOUS
  <2> HIDE DEF F
  <2>5. PowerBody(Upto(k), k) = PowerBody(F, k)
    BY <2>3 DEF PowerBody
  <2>6. QED
    BY <2>2, <2>4, <2>5
<1>3. F = [k \in Nat |-> F[k]]
  OBVIOUS
<1> HIDE DEF F
<1>4. Solves(F)
  BY <1>2, <1>3
<1>5. Power21 = CHOOSE f : Solves(f)
  BY DEF Power21, PowerBody
<1>6. Solves(Power21)
  <2> HIDE DEF Solves
  <2>1. QED
    BY <1>4, <1>5
<1>7. \A k \in Nat : Power21[k] = PowerBody(Power21, k)
  BY <1>6
<1>8. QED
  BY <1>7 DEF PowerBody

(* They are numbers, the first four of them these.                          *)
LEMMA PowerFacts ==
    /\ \A k \in Nat : Power21[k] \in Nat
    /\ Power21[0] = 1 /\ Power21[1] = 21 /\ Power21[2] = 185 /\ Power21[3] = 45
<1> DEFINE S == {k \in Nat : \A j \in 0 .. k : Power21[j] \in Nat}
<1>1. 0 \in S
  <2>1. \A j \in 0 .. 0 : j = 0
    OBVIOUS
  <2>2. Power21[0] \in Nat
    BY PowerIs
  <2>3. QED
    BY <2>1, <2>2
<1>2. ASSUME NEW k \in Nat, k \in S PROVE k + 1 \in S
  <2> DEFINE n == k + 1
             x == Power21[n \div 2]
             y == IF n % 2 = 1 THEN 21 ELSE 1
  <2>1. n \in Nat \ {0} /\ n \div 2 \in 0 .. k
    BY Halves
  <2>2. x \in Nat
    BY <1>2, <2>1
  <2>3. Power21[n] = (x * x * y) % 256
    BY <2>1, PowerIs
  <2>4. y \in Nat
    OBVIOUS
  <2> HIDE DEF x, y
  <2>5. x * x * y \in Nat
    BY <2>2, <2>4
  <2> DEFINE z == x * x * y
  <2> HIDE DEF z
  <2>6. z \in Nat /\ Power21[n] = z % 256
    BY <2>3, <2>5 DEF z
  <2>7. Power21[n] \in Nat
    BY <2>6
  <2>8. \A j \in 0 .. k + 1 : j \in 0 .. k \/ j = n
    OBVIOUS
  <2>9. QED
    BY <1>2, <2>7, <2>8
<1>3. Nat \subseteq S
  <2> HIDE DEF S
  <2>1. QED
    BY <1>1, <1>2, SetInduction
<1>4. \A k \in Nat : Power21[k] \in Nat
  BY <1>3
<1>5. Power21[1] = 21
  <2>1. 1 \in Nat \ {0} /\ 1 \div 2 = 0 /\ 1 % 2 = 1 /\ (1 * 1 * 21) % 256 = 21
    OBVIOUS
  <2>2. Power21[1] = (Power21[1 \div 2] * Power21[1 \div 2] * (IF 1 % 2 = 1 THEN 21 ELSE 1)) % 256
    BY <2>1, PowerIs
  <2>3. QED
    BY <2>1, <2>2, PowerIs
<1>6. Power21[2] = 185
  <2>1. 2 \in Nat \ {0} /\ 2 \div 2 = 1 /\ 2 % 2 = 0 /\ (21 * 21 * 1) % 256 = 185
    OBVIOUS
  <2>2. Power21[2] = (Power21[2 \div 2] * Power21[2 \div 2] * (IF 2 % 2 = 1 THEN 21 ELSE 1)) % 256
    BY <2>1, PowerIs
  <2>3. QED
    BY <1>5, <2>1, <2>2
<1>7. Power21[3] = 45
  <2>1. 3 \in Nat \ {0} /\ 3 \div 2 = 1 /\ 3 % 2 = 1 /\ (21 * 21 * 21) % 256 = 45
    OBVIOUS
  <2>2. Power21[3] = (Power21[3 \div 2] * Power21[3 \div 2] * (IF 3 % 2 = 1 THEN 21 ELSE 1)) % 256
    BY <2>1, PowerIs
  <2>3. QED
    BY <1>5, <2>1, <2>2
<1>8. QED
  BY <1>4, <1>5, <1>6, <1>7, PowerIs

(* Deciphering twice gives the bytes.                                       *)
Key(k) == (95 * Power21[k - 1]) % 256

(* The bytes of the key are numbers.                                        *)
LEMMA KeyType == \A k \in Nat \ {0} : Key(k) \in Int
<1>1. ASSUME NEW k \in Nat \ {0} PROVE Key(k) \in Int
  <2> DEFINE p == Power21[k - 1]
  <2>1. k - 1 \in Nat
    OBVIOUS
  <2>2. p \in Nat
    BY <2>1, PowerFacts
  <2> HIDE DEF p
  <2>3. (95 * p) % 256 \in Int
    BY <2>2
  <2>4. QED
    BY <2>3 DEF Key, p
<1>2. QED
  BY <1>1

(* The bytes of what was deciphered.                                        *)
LEMMA DecryptBytes ==
    ASSUME NEW s \in Seq(Byte)
    PROVE  /\ decrypt_utf_scalar(s) \in Seq(Byte) /\ Len(decrypt_utf_scalar(s)) = Len(s)
           /\ \A k \in 1 .. Len(s) : decrypt_utf_scalar(s)[k] = Xor(s[k], Key(k))
<1>1. Len(s) \in Nat /\ DOMAIN s = 1 .. Len(s)
  BY LenProperties
<1>2. decrypt_utf_scalar(s) \in Seq(Byte) /\ Len(decrypt_utf_scalar(s)) = Len(s)
  BY <1>1, DecryptType
<1>3. decrypt_utf_scalar(s) = [k \in 1 .. Len(s) |-> Xor(s[k], Key(k))]
  BY <1>1 DEF decrypt_utf_scalar, Key
<1>4. QED
  BY <1>2, <1>3

(* What was enciphered is deciphered.                                       *)
LEMMA Deciphered ==
    ASSUME NEW s \in Seq(Byte)
    PROVE  decrypt_utf_scalar(decrypt_utf_scalar(s)) = s
<1> DEFINE e == decrypt_utf_scalar(s)
           d == decrypt_utf_scalar(e)
           n == Len(s)
<1>1. n \in Nat
  BY LenProperties
<1>2. e \in Seq(Byte) /\ Len(e) = n /\ \A k \in 1 .. n : e[k] = Xor(s[k], Key(k))
  BY DecryptBytes
<1> HIDE DEF e
<1>3. d \in Seq(Byte) /\ Len(d) = n /\ \A k \in 1 .. n : d[k] = Xor(e[k], Key(k))
  BY <1>2, DecryptBytes
<1> HIDE DEF d
<1>4. \A k \in 1 .. n : d[k] = s[k]
  <2>1. ASSUME NEW k \in 1 .. n PROVE d[k] = s[k]
    <3>1. s[k] \in Byte
      BY ElementOfSeq
    <3>2. Key(k) \in Int
      BY <1>1, KeyType
    <3>3. d[k] = Xor(Xor(s[k], Key(k)), Key(k))
      BY <1>2, <1>3
    <3>4. QED
      BY <3>1, <3>2, <3>3, XorTwice
  <2>2. QED
    BY <2>1
<1>5. d = s
  BY <1>3, <1>4, SeqEqual
<1>6. QED
  BY <1>5 DEF d, e

(* The first bytes of some.                                                 *)
LEMMA FirstOf ==
    ASSUME NEW S, NEW s \in Seq(S), NEW n \in Nat, n <= Len(s)
    PROVE  /\ SubSeq(s, 1, n) \in Seq(S) /\ Len(SubSeq(s, 1, n)) = n
           /\ \A k \in 1 .. n : SubSeq(s, 1, n)[k] = s[k]
<1> DEFINE z == 0
<1>1. z \in Nat /\ z <= n /\ n - z = n /\ z + 1 = 1 /\ \A k \in 1 .. n : z + k = k
  OBVIOUS
<1>2. Sub(s, z, n) = SubSeq(s, 1, n)
  BY <1>1 DEF Sub
<1> HIDE DEF z
<1>3. Sub(s, z, n) \in Seq(S)
  BY <1>1, SubType
<1>4. Len(Sub(s, z, n)) = IF z <= n THEN n - z ELSE 0
  BY <1>1, SubType
<1>5. ASSUME NEW k \in 1 .. n - z
      PROVE  Sub(s, z, n)[k] = s[z + k]
  <2>1. z \in Nat /\ n \in Nat /\ n <= Len(s)
    BY <1>1
  <2>2. \A j \in 1 .. n - z : Sub(s, z, n)[j] = s[z + j]
    BY <2>1, SubType, Zenon
  <2>3. QED
    BY <2>2
<1>6. QED
  BY <1>1, <1>2, <1>3, <1>4, <1>5

(* The first four bytes.                                                    *)
Four(s, a, b, c, d) == Len(s) >= 4 /\ s[1] = a /\ s[2] = b /\ s[3] = c /\ s[4] = d

(* The first four bytes of a sequence, byte by byte or as a slice.          *)
LEMMA FirstFour ==
    ASSUME NEW s \in Seq(Byte), NEW a \in Byte, NEW b \in Byte, NEW c \in Byte, NEW d \in Byte
    PROVE  /\ Four(s, a, b, c, d) => SubSeq(s, 1, 4) = <<a, b, c, d>>
           /\ Len(s) >= 4 /\ SubSeq(s, 1, 4) = <<a, b, c, d>> => Four(s, a, b, c, d)
<1> DEFINE q == <<a, b, c, d>>
           u == SubSeq(s, 1, 4)
<1>1. q \in Seq(Byte) /\ Len(q) = 4 /\ q[1] = a /\ q[2] = b /\ q[3] = c /\ q[4] = d
  OBVIOUS
<1> HIDE DEF q
<1>2. ASSUME Len(s) >= 4
      PROVE  u \in Seq(Byte) /\ Len(u) = 4 /\ \A k \in 1 .. 4 : u[k] = s[k]
  <2>1. 4 \in Nat
    OBVIOUS
  <2>2. QED
    BY <1>2, <2>1, FirstOf
<1> HIDE DEF u
<1>3. ASSUME Four(s, a, b, c, d) PROVE u = q
  <2>1. Len(s) >= 4 /\ s[1] = a /\ s[2] = b /\ s[3] = c /\ s[4] = d
    BY <1>3 DEF Four
  <2>2. u \in Seq(Byte) /\ Len(u) = 4 /\ u[1] = a /\ u[2] = b /\ u[3] = c /\ u[4] = d
    BY <1>2, <2>1
  <2>3. \A k \in 1 .. Len(u) : u[k] = q[k]
    BY <1>1, <2>2
  <2>4. Len(u) = Len(q)
    BY <1>1, <2>2
  <2>5. QED
    BY <1>1, <2>2, <2>3, <2>4, SeqEqual
<1>4. ASSUME Len(s) >= 4, u = q PROVE Four(s, a, b, c, d)
  <2>1. u[1] = s[1] /\ u[2] = s[2] /\ u[3] = s[3] /\ u[4] = s[4]
    BY <1>2, <1>4
  <2>2. QED
    BY <1>1, <1>4, <2>1 DEF Four
<1>5. QED
  BY <1>3, <1>4 DEF u, q

(* The prefix by which an enciphered table is told is that of an enciphered *)
(* table.                                                                   *)
LEMMA PrefixIs ==
    ASSUME NEW s \in Seq(Byte), Four(s, 64, 85, 84, 70)
    PROVE  Four(decrypt_utf_scalar(s), 31, 158, 243, 245)
<1> DEFINE e == decrypt_utf_scalar(s)
<1>1. Len(e) = Len(s) /\ \A k \in 1 .. Len(s) : e[k] = Xor(s[k], Key(k))
  BY DecryptBytes
<1>2. Len(s) \in Nat /\ Len(s) >= 4 /\ s[1] = 64 /\ s[2] = 85 /\ s[3] = 84 /\ s[4] = 70
  BY LenProperties DEF Four
<1> HIDE DEF e
<1>3. e[1] = Xor(64, Key(1)) /\ e[2] = Xor(85, Key(2)) /\ e[3] = Xor(84, Key(3))
      /\ e[4] = Xor(70, Key(4))
  BY <1>1, <1>2
<1>4. Key(1) = 95 /\ Key(2) = 203 /\ Key(3) = 167 /\ Key(4) = 179
  <2>1. 1 - 1 = 0 /\ 2 - 1 = 1 /\ 3 - 1 = 2 /\ 4 - 1 = 3
    OBVIOUS
  <2>2. (95 * 1) % 256 = 95 /\ (95 * 21) % 256 = 203 /\ (95 * 185) % 256 = 167
        /\ (95 * 45) % 256 = 179
    OBVIOUS
  <2>3. Key(1) = 95
    BY <2>1, <2>2, PowerFacts DEF Key
  <2>4. Key(2) = 203
    BY <2>1, <2>2, PowerFacts DEF Key
  <2>5. Key(3) = 167
    BY <2>1, <2>2, PowerFacts DEF Key
  <2>6. Key(4) = 179
    BY <2>1, <2>2, PowerFacts DEF Key
  <2>7. QED
    BY <2>3, <2>4, <2>5, <2>6
<1>5. Xor(64, 95) = 31
  BY DEF Xor
<1>6. Xor(85, 203) = 158
  BY DEF Xor
<1>7. Xor(84, 167) = 243
  BY DEF Xor
<1>8. Xor(70, 179) = 245
  BY DEF Xor
<1>9. QED
  BY <1>1, <1>2, <1>3, <1>4, <1>5, <1>6, <1>7, <1>8 DEF Four, e

(* A number written little-endian is read back.                             *)
LEMMA SizeRead ==
    ASSUME NEW v \in Nat, v < Huge
    PROVE  Number(Reverse(LittleEndian(v, 8))) = v
<1> DEFINE n == 8
           e == BigEndian(v, n)
           r == Reverse(e)
           s == Reverse(r)
           l == Len(e)
<1>1. v \in Int /\ n \in Nat /\ FitsIn(v, n)
  BY DEF FitsIn
<1> HIDE DEF n
<1>2. e \in Seq(Byte) /\ l \in Nat
  BY <1>1, BigEndianType, LenProperties
<1>3. Number(e) = v
  BY <1>1, NumberBack
<1> HIDE DEF e
<1>4. r \in Seq(Byte) /\ Len(r) = l /\ \A k \in 1 .. l : r[k] = e[l - k + 1]
  BY <1>2, ReverseType
<1> HIDE DEF r
<1>5. s \in Seq(Byte) /\ Len(s) = l /\ \A k \in 1 .. l : s[k] = r[l - k + 1]
  BY <1>4, ReverseType
<1> HIDE DEF s, l
<1>6. \A k \in 1 .. l : l - k + 1 \in 1 .. l /\ l - (l - k + 1) + 1 = k
  BY <1>2
<1>7. \A k \in 1 .. l : s[k] = e[k]
  BY <1>4, <1>5, <1>6
<1>8. s = e
  BY <1>2, <1>5, <1>7, SeqEqual DEF l
<1>9. Number(s) = v
  BY <1>3, <1>8
<1>10. QED
  BY <1>9 DEF s, r, e, n, LittleEndian

(* The kind of a chunk is read back.                                        *)
LEMMA KindRead == \A kind \in DOMAIN Magic : from_magic(Magic[kind]) = kind
<1>1. DOMAIN Magic = {"Cpk", "Toc"} /\ Magic["Cpk"] = <<67, 80, 75, 32>>
      /\ Magic["Toc"] = <<84, 79, 67, 32>>
  BY DEF Magic
<1>2. <<67, 80, 75, 32>> # <<84, 79, 67, 32>>
  OBVIOUS
<1>3. \A kind, other \in DOMAIN Magic : Magic[other] = Magic[kind] => other = kind
  BY <1>1, <1>2
<1>4. QED
  BY <1>3 DEF from_magic

(* A chunk of an archive and what follows it.                               *)
Stream(kind, marker, table, n) == Chunk(kind, marker, table) \o Zeros(n)

StreamOf(s, kind, marker, table, n) ==
    /\ s \in Seq(Byte) /\ Len(s) = 16 + Len(table) + n /\ s[5] = marker
    /\ SubSeq(s, 1, 4) = Magic[kind]
    /\ Sub(s, 8, 16) = LittleEndian(Len(table), 8)
    /\ Piece(s, 16, table)

(* The parts of the stream are where a reader looks for them.               *)
LEMMA StreamFacts ==
    ASSUME NEW kind \in DOMAIN Magic, NEW marker \in Byte, NEW table \in Seq(Byte), NEW n \in Nat
    PROVE  StreamOf(Stream(kind, marker, table, n), kind, marker, table, n)
<1> DEFINE s == Stream(kind, marker, table, n)
           c == Chunk(kind, marker, table)
           z == Zeros(n)
           L == Len(table)
           A == Magic[kind]
           B == LittleEndian(L, 8)
<1>1. /\ c \in Seq(Byte) /\ Len(c) = 16 + L /\ A \in Seq(Byte) /\ Len(A) = 4 /\ Piece(c, 0, A)
      /\ c[5] = marker /\ B \in Seq(Byte) /\ Len(B) = 8 /\ Piece(c, 8, B) /\ Piece(c, 16, table)
  BY ChunkFacts
<1>2. z \in Seq(Byte) /\ Len(z) = n
  BY ZerosType DEF Zeros
<1>3. L \in Nat /\ 0 \in Nat /\ 8 \in Nat /\ 16 \in Nat
  BY LenProperties
<1>4. s = c \o z
  BY DEF Stream
<1> HIDE DEF s, c, z, L, A, B
<1>5. Appended(c, z, s, 16 + L, n)
  BY <1>1, <1>2, <1>4, Grow
<1>6. s \in Seq(Byte) /\ Len(s) = 16 + L + n
  BY <1>5 DEF Appended
<1>7. Piece(s, 0, A) /\ Piece(s, 8, B) /\ Piece(s, 16, table) /\ Piece(s, 0, c)
  BY <1>1, <1>3, <1>5 DEF Appended
<1>8. s[5] = marker
  <2>1. 5 \in 1 .. Len(c) /\ 0 + 5 = 5
    BY <1>1, <1>3
  <2>2. s[0 + 5] = c[5]
    BY <1>7, <2>1 DEF Piece
  <2>3. QED
    BY <1>1, <2>1, <2>2
<1>9. SubSeq(s, 1, 4) = A
  <2>1. Sub(s, 0, 0 + Len(A)) = A
    BY <1>1, <1>3, <1>6, <1>7, PieceSub
  <2>2. 0 + Len(A) = 4 /\ 0 + 1 = 1
    BY <1>1
  <2>3. QED
    BY <2>1, <2>2 DEF Sub
<1>10. Sub(s, 8, 16) = B
  <2>1. Sub(s, 8, 8 + Len(B)) = B
    BY <1>1, <1>3, <1>6, <1>7, PieceSub
  <2>2. 8 + Len(B) = 16
    BY <1>1
  <2>3. QED
    BY <2>1, <2>2
<1>11. QED
  BY <1>6, <1>7, <1>8, <1>9, <1>10 DEF s, L, A, B, StreamOf

(* What the container of a stream holds, given its parts.                   *)
Holds(s, kind, size, table, plain) ==
    /\ size \in Nat /\ Len(s) \in Nat /\ 16 + size <= Len(s) /\ 32 <= size
    /\ from_magic(SubSeq(s, 1, 4)) = kind /\ Number(Reverse(Sub(s, 8, 16))) = size
    /\ Sub(s, 16, 16 + size) = table
    /\ plain = IF s[5] = 0 THEN decrypt_utf_scalar(table) ELSE table
    /\ SubSeq(plain, 1, 4) = <<64, 85, 84, 70>>

(* TableContainer::new, once the parts it reads are known.                  *)
LEMMA ContainerIs ==
    ASSUME NEW s, NEW kind, NEW size, NEW table, NEW plain, Holds(s, kind, size, table, plain)
    PROVE  TableContainer(s) = IF kind = "Cpk" /\ size + CPK_CHUNK_HEADER_SIZE > HeaderArea
                               THEN NoContainer ELSE [kind |-> kind, table |-> plain]
<1> DEFINE len == Len(s)
<1>1. CPK_CHUNK_HEADER_SIZE = 16 /\ HEADER_SIZE = 32
  BY DEF CPK_CHUNK_HEADER_SIZE, HEADER_SIZE
<1>2. ~(len < 16) /\ ~(size < 32) /\ ~(size > len - 16)
  BY DEF Holds
<1>3. /\ from_magic(SubSeq(s, 1, 4)) = kind /\ Number(Reverse(Sub(s, 8, 16))) = size
      /\ Sub(s, 16, 16 + size) = table
      /\ plain = IF s[5] = 0 THEN decrypt_utf_scalar(table) ELSE table
      /\ SubSeq(plain, 1, 4) = <<64, 85, 84, 70>>
  BY DEF Holds
<1> HIDE DEF len
<1>4. ~(Len(s) < 16) /\ ~(size > Len(s) - 16)
  BY <1>2 DEF len
<1>5. QED
  BY <1>1, <1>2, <1>3, <1>4 DEF TableContainer

(* The container of a chunk that was written holds the table that was       *)
(* written, unless it is the header of an archive and too long.             *)
LEMMA ContainerRead ==
    ASSUME NEW kind \in DOMAIN Magic, NEW marker \in Byte, NEW table \in Seq(Byte), NEW n \in Nat,
           NEW s, s = Stream(kind, marker, table, n),
           NEW plain \in Seq(Byte), plain = (IF marker = 0 THEN decrypt_utf_scalar(table) ELSE table),
           32 <= Len(table), Len(table) < Huge, Len(plain) = Len(table), Four(plain, 64, 85, 84, 70)
    PROVE  TableContainer(s) = IF kind = "Cpk" /\ Len(table) + CPK_CHUNK_HEADER_SIZE > HeaderArea
                               THEN NoContainer ELSE [kind |-> kind, table |-> plain]
<1> DEFINE L == Len(table)
           N == Len(s)
<1>1. L \in Nat /\ 16 \in Nat
  BY LenProperties
<1>2. /\ s \in Seq(Byte) /\ N = 16 + L + n /\ s[5] = marker /\ SubSeq(s, 1, 4) = Magic[kind]
      /\ Sub(s, 8, 16) = LittleEndian(L, 8) /\ Piece(s, 16, table)
  <2>1. StreamOf(s, kind, marker, table, n)
    BY StreamFacts
  <2>2. QED
    BY <2>1 DEF StreamOf
<1>3. from_magic(SubSeq(s, 1, 4)) = kind
  BY <1>2, KindRead
<1>4. Number(Reverse(Sub(s, 8, 16))) = L
  BY <1>1, <1>2, SizeRead
<1>5. Sub(s, 16, 16 + L) = table
  BY <1>1, <1>2, PieceSub
<1>6. SubSeq(plain, 1, 4) = <<64, 85, 84, 70>>
  <2>1. 64 \in Byte /\ 85 \in Byte /\ 84 \in Byte /\ 70 \in Byte
    BY DEF Byte
  <2>2. QED
    BY <2>1, FirstFour
<1>7. plain = IF s[5] = 0 THEN decrypt_utf_scalar(table) ELSE table
  BY <1>2
<1>8. N \in Nat /\ 16 + L <= N /\ 32 <= L
  BY <1>1, <1>2
<1> HIDE DEF L
<1>9. Holds(s, kind, L, table, plain)
  BY <1>1, <1>3, <1>4, <1>5, <1>6, <1>7, <1>8 DEF Holds
<1>10. TableContainer(s) = IF kind = "Cpk" /\ L + CPK_CHUNK_HEADER_SIZE > HeaderArea
                          THEN NoContainer ELSE [kind |-> kind, table |-> plain]
  BY <1>9, ContainerIs
<1>11. QED
  BY <1>10 DEF L

(* What follows the header of the chunk starts with the table.              *)
LEMMA BareTable ==
    ASSUME NEW kind \in DOMAIN Magic, NEW marker \in Byte, NEW table \in Seq(Byte), NEW n \in Nat,
           NEW s, s = Stream(kind, marker, table, n)
    PROVE  LET b == SubSeq(s, CPK_CHUNK_HEADER_SIZE + 1, Len(s)) IN
           b \in Seq(Byte) /\ Piece(b, 0, table) /\ Len(table) <= Len(b)
<1> DEFINE L == Len(table)
           N == Len(s)
           h == 16
           b == Sub(s, h, N)
<1>1. L \in Nat
  BY LenProperties
<1>2. s \in Seq(Byte) /\ N = 16 + L + n /\ Piece(s, 16, table)
  BY StreamFacts DEF StreamOf
<1>3. N \in Nat /\ h \in Nat /\ h <= N /\ N - h = L + n /\ L <= N - h
  BY <1>1, <1>2
<1>4. \A k \in 1 .. L : s[h + k] = table[k]
  BY <1>2 DEF Piece
<1>5. SubSeq(s, CPK_CHUNK_HEADER_SIZE + 1, Len(s)) = b
  BY DEF CPK_CHUNK_HEADER_SIZE, Sub
<1>6. N <= Len(s)
  BY <1>3
<1> HIDE DEF h, N
<1>7. b \in Seq(Byte)
  BY <1>2, <1>3, <1>6, SubType
<1> HIDE DEF L
<1>8. Len(b) = N - h
  <2>1. s \in Seq(Byte) /\ h \in Nat /\ N \in Nat /\ h <= N /\ N <= Len(s)
    BY <1>2, <1>3, <1>6
  <2>2. QED
    BY <2>1, SubLen
<1>9. ASSUME NEW k \in 1 .. N - h PROVE b[k] = s[h + k]
  <2>1. s \in Seq(Byte) /\ h \in Nat /\ N \in Nat /\ N <= Len(s)
    BY <1>2, <1>3, <1>6
  <2>2. Sub(s, h, N)[k] = s[h + k]
    BY <2>1, SubAt
  <2>3. QED
    BY <2>2
<1> HIDE DEF b
<1>10. Len(b) = N - h /\ L <= Len(b)
  BY <1>3, <1>8
<1>11. \A k \in 1 .. L : b[k] = table[k]
  <2>1. \A k \in 1 .. L : k \in 1 .. N - h
    BY <1>1, <1>3
  <2>2. QED
    BY <1>4, <1>9, <2>1
<1>12. \A k \in 1 .. L : 0 + k = k
  BY <1>1
<1>13. Piece(b, 0, table)
  <2>1. 0 + L = L
    BY <1>1
  <2>2. QED
    BY <1>10, <1>11, <1>12, <2>1 DEF Piece, L
<1>14. QED
  BY <1>5, <1>7, <1>10, <1>13 DEF L, N

-----------------------------------------------------------------------------
(* What UtfTableBuilder::build writes.                                      *)

(* The flag of a column of the builder.                                     *)
LEMMA BuilderFlag ==
    ASSUME NEW type \in ToSet(TypeNames)
    PROVE  LET flag == NAME + ROW_STORAGE + Code(type) IN
           flag \in 80 .. 92 /\ Has(flag, NAME) /\ Has(flag, ROW_STORAGE) /\ ~Has(flag, DEFAULT_VALUE)
<1> DEFINE c == Code(type)
           flag == NAME + ROW_STORAGE + c
<1>1. DOMAIN TypeNames = 1 .. 13
  BY DEF TypeNames
<1>2. \E i \in DOMAIN TypeNames : TypeNames[i] = type
  BY DEF ToSet
<1>3. PICK i \in DOMAIN TypeNames : c = i - 1
  BY <1>2 DEF Code
<1> HIDE DEF c
<1>4. c \in 0 .. 12
  BY <1>1, <1>3
<1>5. flag = 80 + c
  BY <1>4 DEF NAME, ROW_STORAGE
<1> HIDE DEF flag
<1>6. flag \in 80 .. 92
  BY <1>4, <1>5
<1>7. flag \div 16 = 5 /\ flag \div 32 = 2 /\ flag \div 64 = 1
  BY <1>6
<1>8. Has(flag, NAME) /\ Has(flag, ROW_STORAGE) /\ ~Has(flag, DEFAULT_VALUE)
  BY <1>7 DEF Has, NAME, ROW_STORAGE, DEFAULT_VALUE
<1>9. QED
  BY <1>6, <1>8 DEF flag, c

(* The columns of the builder take five bytes each.                         *)
IsBuilt(t) ==
    \A c \in Columns(t) : Has(t.columns[c].flag, NAME) /\ ~Has(t.columns[c].flag, DEFAULT_VALUE)

(* A column of the builder is its flag and the offset of its name.          *)
LEMMA BuiltColumn ==
    ASSUME NEW t, IsTable(t), IsBuilt(t), NEW c \in Columns(t)
    PROVE  ColumnBytes(t, c) \in Seq(Byte) /\ Len(ColumnBytes(t, c)) = 5
<1> DEFINE col == t.columns[c]
           x == intern_string(Strings(t), col.name)
           w == 4
           A == <<col.flag>>
           B == BigEndian(x, w)
           C == <<>>
<1>1. IsColumn(col)
  BY DEF IsTable
<1>2. Strings(t) \in Seq(Seq(Char)) /\ In(col.name, Strings(t))
  BY StringsFacts DEF NameOf
<1>3. x \in Int
  <2>1. PICK j \in 1 .. Len(Strings(t)) : Strings(t)[j] = col.name
    BY <1>2 DEF In
  <2>2. x \in Nat
    BY <1>2, <2>1, InternType
  <2> HIDE DEF x
  <2>3. QED
    BY <2>2
<1>4. ColumnBytes(t, c) = A \o B \o C
  <2>1. Has(col.flag, NAME) /\ ~Has(col.flag, DEFAULT_VALUE)
    BY DEF IsBuilt
  <2>2. QED
    BY <2>1 DEF ColumnBytes
<1>5. col.flag \in Byte
  BY <1>1 DEF IsColumn, Byte
<1>6. w \in Nat /\ w = 4
  OBVIOUS
<1> HIDE DEF x, col, w
<1>7. A \in Seq(Byte) /\ Len(A) = 1 /\ C \in Seq(Byte) /\ Len(C) = 0
  BY <1>5
<1>8. B \in Seq(Byte) /\ Len(B) = 4
  BY <1>3, <1>6, BigEndianType
<1> HIDE DEF A, B, C
<1> DEFINE AB == A \o B
<1>9. AB \in Seq(Byte) /\ Len(AB) = 5
  <2>1. AB \in Seq(Byte) /\ Len(AB) = Len(A) + Len(B)
    BY <1>7, <1>8, ConcatProperties
  <2> HIDE DEF AB
  <2>2. QED
    BY <1>7, <1>8, <2>1
<1> HIDE DEF AB
<1>10. AB \o C \in Seq(Byte) /\ Len(AB \o C) = 5
  <2> DEFINE ABC == AB \o C
  <2>1. ABC \in Seq(Byte) /\ Len(ABC) = Len(AB) + Len(C)
    BY <1>7, <1>9, ConcatProperties
  <2> HIDE DEF ABC
  <2>2. ABC \in Seq(Byte) /\ Len(ABC) = 5
    BY <1>7, <1>9, <2>1
  <2>3. QED
    BY <2>2 DEF ABC
<1>11. QED
  BY <1>4, <1>10 DEF AB

(* The bytes of the columns of the builder.                                 *)
LEMMA BuiltLength ==
    ASSUME NEW t, IsTable(t), IsBuilt(t)
    PROVE  Len(t.columns) \in Nat /\ Len(AllColumns(t)) = Len(t.columns) * 5
<1> DEFINE n == Len(t.columns)
           z == 5
           q == [c \in Columns(t) |-> ColumnBytes(t, c)]
           h == Lengths(q, n)
<1>1. n \in Nat /\ Columns(t) = 1 .. n /\ z \in Nat
  BY StoredFacts
<1>2. q = [c \in 1 .. n |-> q[c]]
  BY <1>1
<1>3. \A c \in 1 .. n : q[c] \in Seq(Byte) /\ Len(q[c]) = z
  BY <1>1, BuiltColumn
<1>4. AllColumns(t) = FlattenSeq(q)
  BY DEF AllColumns
<1> HIDE DEF n, z, q
<1>5. Flattened(Byte, n, q)
  BY <1>1, <1>2, <1>3, FlattenOf
<1>6. Len(h) = n /\ \A c \in 1 .. n : h[c] = z
  BY <1>1, <1>3 DEF Lengths
<1>7. Len(AllColumns(t)) = Total(h)
  BY <1>4, <1>5 DEF Flattened
<1> HIDE DEF h
<1>8. Total(h) = n * z
  BY <1>1, <1>6, ConstantSums
<1>9. QED
  BY <1>1, <1>7, <1>8 DEF n, z

(* What the builder does not refuse fits its fields.                        *)
LEMMA BuiltSized ==
    ASSUME NEW i \in BuilderInputs, build(i.name, i.columns, i.rows) # <<>>
    PROVE  LET t == BuilderTable(i.name, i.columns, i.rows) IN
           build(i.name, i.columns, i.rows) = Image(t) /\ Sized(t)
<1> DEFINE t == BuilderTable(i.name, i.columns, i.rows)
           n == Len(i.columns)
<1>1. /\ WellTyped(i.columns, i.rows) /\ ~(HEADER_SIZE + 5 * n - 8 > 65535) /\ ~(row_size(t) > 65535)
      /\ build(i.name, i.columns, i.rows) = Image(t)
  BY DEF build
<1>2. IsTable(t) /\ IsSmall(t)
  BY <1>1, UtfAssumption
<1>3. i.columns \in Seq(ToSet(i.columns))
      /\ \A c \in DOMAIN i.columns : i.columns[c].type \in ToSet(TypeNames)
  BY UtfAssumption
<1>4. t.columns = [c \in DOMAIN i.columns |->
                    [flag |-> NAME + ROW_STORAGE + Code(i.columns[c].type), name |-> i.columns[c].name]]
  BY DEF BuilderTable
<1>5. DOMAIN i.columns = 1 .. n /\ n \in Nat
  BY <1>3, LenProperties
<1> HIDE DEF t, n
<1>6. IsBuilt(t)
  <2>1. ASSUME NEW c \in Columns(t)
        PROVE  Has(t.columns[c].flag, NAME) /\ ~Has(t.columns[c].flag, DEFAULT_VALUE)
    <3>1. c \in DOMAIN i.columns
      BY <1>4, <2>1 DEF Columns
    <3>2. t.columns[c].flag = NAME + ROW_STORAGE + Code(i.columns[c].type)
      BY <1>4, <3>1
    <3>3. QED
      BY <1>3, <3>1, <3>2, BuilderFlag
  <2>2. QED
    BY <2>1 DEF IsBuilt
<1>7. Len(t.columns) = n
  BY <1>4, <1>5
<1>8. Len(AllColumns(t)) = n * 5
  BY <1>2, <1>6, <1>7, BuiltLength
<1>9. Len(AllColumns(t)) <= 65535 - 24 /\ n <= 65535
  BY <1>1, <1>5, <1>8 DEF HEADER_SIZE
<1>10. row_size(t) <= 65535
  <2>1. row_size(t) \in Nat
    BY <1>2, PartsType
  <2>2. QED
    BY <1>1, <2>1
<1>11. rows_start(t) - HEADER_OFFSET <= 65535
  <2>1. Len(AllColumns(t)) \in Nat
    BY <1>5, <1>8
  <2>2. QED
    BY <1>9, <2>1 DEF rows_start, HEADER_SIZE, HEADER_OFFSET
<1>12. Fits(t)
  BY <1>7, <1>9, <1>10, <1>11 DEF Fits
<1>13. QED
  BY <1>1, <1>2, <1>12 DEF Sized, t

-----------------------------------------------------------------------------
(* The life of an undamaged table.                                          *)

(* What a tool wrote: the table, enciphered or not, in its chunk.           *)
Laid(t, cipher) == IF cipher THEN decrypt_utf_scalar(Image(t)) ELSE Image(t)
Marker(cipher) == IF cipher THEN 0 ELSE 255
WrittenAs(s, kind, cipher, t) ==
    /\ Sized(t) /\ kind \in DOMAIN Magic /\ cipher \in BOOLEAN
    /\ \E n \in Nat : s = Stream(kind, Marker(cipher), Laid(t, cipher), n)

(* The bytes of a table start with the magic of tables, enciphered with     *)
(* another prefix.                                                          *)
LEMMA ImageStarts ==
    ASSUME NEW t, IsTable(t)
    PROVE  /\ Image(t) \in Seq(Byte) /\ Len(Image(t)) \in Nat /\ 32 <= Len(Image(t))
           /\ Four(Image(t), 64, 85, 84, 70)
<1> DEFINE I == Image(t)
           H == Header(t)
           m == <<64, 85, 84, 70>>
<1>1. I \in Seq(Byte) /\ Piece(I, 0, H) /\ Len(H) = 32 /\ Piece(H, 0, m)
  BY ImageFacts, HeaderFacts
<1>2. Len(I) \in Nat
  BY <1>1, LenProperties
<1> HIDE DEF I, H
<1>3. Len(m) = 4 /\ m[1] = 64 /\ m[2] = 85 /\ m[3] = 84 /\ m[4] = 70
  OBVIOUS
<1> HIDE DEF m
<1>4. 32 <= Len(I) /\ \A k \in 1 .. 32 : I[0 + k] = H[k]
  BY <1>1, <1>2 DEF Piece
<1>5. \A k \in 1 .. 4 : H[0 + k] = m[k]
  BY <1>1, <1>3 DEF Piece
<1>6. \A k \in 1 .. 4 : k \in 1 .. 32 /\ 0 + k = k
  OBVIOUS
<1>7. \A k \in 1 .. 4 : I[k] = m[k]
  BY <1>4, <1>5, <1>6
<1>8. I[1] = 64 /\ I[2] = 85 /\ I[3] = 84 /\ I[4] = 70
  BY <1>3, <1>7
<1>9. Four(I, 64, 85, 84, 70)
  BY <1>2, <1>4, <1>8 DEF Four
<1>10. QED
  BY <1>1, <1>2, <1>4, <1>9 DEF I

(* What is laid down is as long, and starts as its form says.               *)
LEMMA LaidFacts ==
    ASSUME NEW t, IsTable(t), NEW cipher \in BOOLEAN
    PROVE  /\ Laid(t, cipher) \in Seq(Byte) /\ Len(Laid(t, cipher)) = Len(Image(t))
           /\ cipher => Four(Laid(t, cipher), 31, 158, 243, 245)
           /\ ~cipher => Four(Laid(t, cipher), 64, 85, 84, 70)
           /\ Image(t) = IF Marker(cipher) = 0 THEN decrypt_utf_scalar(Laid(t, cipher))
                         ELSE Laid(t, cipher)
           /\ Marker(cipher) \in Byte
<1> DEFINE I == Image(t)
           e == decrypt_utf_scalar(I)
<1>1. I \in Seq(Byte) /\ Len(I) \in Nat /\ Four(I, 64, 85, 84, 70)
  BY ImageStarts
<1>2. e \in Seq(Byte) /\ Len(e) = Len(I)
  BY <1>1, DecryptBytes
<1>3. decrypt_utf_scalar(e) = I
  BY <1>1, Deciphered
<1>4. Four(e, 31, 158, 243, 245)
  BY <1>1, PrefixIs
<1>5. Marker(cipher) \in Byte /\ (Marker(cipher) = 0 <=> cipher)
  BY DEF Marker, Byte
<1>6. Laid(t, cipher) = IF cipher THEN e ELSE I
  BY DEF Laid
<1> HIDE DEF e, I
<1>7. CASE cipher
  BY <1>2, <1>3, <1>4, <1>5, <1>6, <1>7 DEF I
<1>8. CASE ~cipher
  BY <1>1, <1>5, <1>6, <1>8 DEF I
<1>9. QED
  BY <1>7, <1>8

(* The first four bytes of a piece at the start.                            *)
LEMMA FourOfPiece ==
    ASSUME NEW s \in Seq(Byte), NEW u \in Seq(Byte), Piece(s, 0, u), NEW a, NEW b, NEW c, NEW d,
           Four(u, a, b, c, d)
    PROVE  Four(s, a, b, c, d)
<1>1. Len(u) \in Nat /\ Len(s) \in Nat
  BY LenProperties
<1>2. Len(u) >= 4 /\ u[1] = a /\ u[2] = b /\ u[3] = c /\ u[4] = d
  BY DEF Four
<1>3. Len(u) <= Len(s) /\ \A k \in 1 .. Len(u) : s[0 + k] = u[k]
  BY <1>1 DEF Piece
<1>4. \A k \in 1 .. 4 : k \in 1 .. Len(u) /\ 0 + k = k
  BY <1>1, <1>2
<1>5. \A k \in 1 .. 4 : s[k] = u[k]
  BY <1>3, <1>4
<1>6. s[1] = a /\ s[2] = b /\ s[3] = c /\ s[4] = d
  BY <1>2, <1>5
<1>7. Len(s) >= 4
  BY <1>1, <1>2, <1>3
<1>8. QED
  BY <1>6, <1>7 DEF Four

(* TableDecryptor::is_encrypted says of a table what its chunk says.        *)
LEMMA CipherTold ==
    ASSUME NEW b \in Seq(Byte), NEW cipher \in BOOLEAN,
           cipher => Four(b, 31, 158, 243, 245), ~cipher => Four(b, 64, 85, 84, 70)
    PROVE  is_encrypted(b) <=> cipher
<1>1. /\ 31 \in Byte /\ 158 \in Byte /\ 243 \in Byte /\ 245 \in Byte
      /\ 64 \in Byte /\ 85 \in Byte /\ 84 \in Byte /\ 70 \in Byte
  BY DEF Byte
<1>2. CASE cipher
  <2>1. SubSeq(b, 1, 4) = <<31, 158, 243, 245>>
    BY <1>1, <1>2, FirstFour
  <2>2. QED
    BY <1>2, <2>1 DEF is_encrypted, ENCRYPTED_PREFIX
<1>3. CASE ~cipher
  <2>1. SubSeq(b, 1, 4) = <<64, 85, 84, 70>>
    BY <1>1, <1>3, FirstFour
  <2>2. <<64, 85, 84, 70>> # <<31, 158, 243, 245>>
    OBVIOUS
  <2>3. QED
    BY <1>3, <2>1, <2>2 DEF is_encrypted, ENCRYPTED_PREFIX
<1>4. QED
  BY <1>2, <1>3

(* What is read of a chunk nobody damaged.                                  *)
IsTooLong(t, kind) == kind = "Cpk" /\ CPK_CHUNK_HEADER_SIZE + Len(Image(t)) > HeaderArea
Bare(s) == SubSeq(s, CPK_CHUNK_HEADER_SIZE + 1, Len(s))

(* The CPK code reads the table, and tells an enciphered one from a plain   *)
(* one.                                                                     *)
LEMMA ChunkRead ==
    ASSUME NEW s, NEW kind, NEW cipher, NEW t, WrittenAs(s, kind, cipher, t)
    PROVE  /\ ReadTable(s, kind) = IF IsTooLong(t, kind) THEN Rejected ELSE ReadAll(t, Image(t))
           /\ is_encrypted(Bare(s)) <=> cipher
           /\ Bare(s) \in Seq(Byte) /\ (~cipher => Piece(Bare(s), 0, Image(t)))
<1> DEFINE I == Image(t)
           e == Laid(t, cipher)
           m == Marker(cipher)
           L == Len(e)
           b == Bare(s)
<1>1. Sized(t) /\ kind \in DOMAIN Magic /\ cipher \in BOOLEAN
  BY DEF WrittenAs
<1>2. PICK n \in Nat : s = Stream(kind, m, e, n)
  BY DEF WrittenAs
<1>3. IsTable(t)
  BY <1>1 DEF Sized
<1>4. /\ I \in Seq(Byte) /\ Len(I) \in Nat /\ 32 <= Len(I) /\ Four(I, 64, 85, 84, 70)
  BY <1>3, ImageStarts
<1>5. Len(I) < Huge
  BY <1>1 DEF Sized, IsSmall
<1>6. /\ e \in Seq(Byte) /\ L = Len(I) /\ m \in Byte
      /\ I = IF m = 0 THEN decrypt_utf_scalar(e) ELSE e
      /\ cipher => Four(e, 31, 158, 243, 245)
      /\ ~cipher => Four(e, 64, 85, 84, 70) /\ e = I
  <2>1. ~cipher => e = I
    BY DEF Laid
  <2>2. QED
    BY <1>1, <1>3, <2>1, LaidFacts
<1>7. b \in Seq(Byte) /\ Piece(b, 0, e)
  BY <1>1, <1>2, <1>6, BareTable DEF Bare
<1> HIDE DEF I, e, m, b
<1>8. TableContainer(s) = IF kind = "Cpk" /\ L + CPK_CHUNK_HEADER_SIZE > HeaderArea
                          THEN NoContainer ELSE [kind |-> kind, table |-> I]
  BY <1>1, <1>2, <1>4, <1>5, <1>6, ContainerRead
<1>9. kind = "Cpk" /\ L + CPK_CHUNK_HEADER_SIZE > HeaderArea <=> IsTooLong(t, kind)
  BY <1>4, <1>6 DEF IsTooLong, CPK_CHUNK_HEADER_SIZE, I
<1>10. HighTable(I) = ReadAll(t, I)
  BY <1>1, TableRead DEF I
<1>11. I # <<>>
  BY <1>4
<1>12. ReadTable(s, kind) = IF IsTooLong(t, kind) THEN Rejected ELSE ReadAll(t, I)
  <2>1. CASE IsTooLong(t, kind)
    <3>1. TableContainer(s).table = <<>>
      BY <1>8, <1>9, <2>1 DEF NoContainer
    <3>2. QED
      BY <2>1, <3>1 DEF ReadTable
  <2>2. CASE ~IsTooLong(t, kind)
    <3>1. TableContainer(s).table = I /\ TableContainer(s).kind = kind
      BY <1>8, <1>9, <2>2
    <3>2. QED
      BY <1>10, <1>11, <2>2, <3>1 DEF ReadTable
  <2>3. QED
    BY <2>1, <2>2
<1>13. cipher => Four(b, 31, 158, 243, 245)
  BY <1>6, <1>7, FourOfPiece
<1>14. ~cipher => Four(b, 64, 85, 84, 70)
  BY <1>6, <1>7, FourOfPiece
<1>15. is_encrypted(b) <=> cipher
  BY <1>1, <1>7, <1>13, <1>14, CipherTold
<1>16. QED
  BY <1>6, <1>7, <1>12, <1>15 DEF b, I

(* As long as nothing damages it, what lies in the archive is what was      *)
(* written; the bare table is opened only then.                             *)
LifeInv ==
    /\ UtfInv
    /\ source = <<>> => image = <<>> /\ acb = Unopened
    /\ image # <<>> /\ ~damaged => WrittenAs(image, form.kind, form.cipher, source)
    /\ acb = Unopened \/ (image # <<>> /\ ~damaged /\ ~form.cipher /\ acb = AcbHighTable(Bare(image)))

(* A table is a record.                                                     *)
LEMMA NotEmpty == \A t : IsTable(t) => t # <<>>
<1>1. ASSUME NEW t, IsTable(t), t = <<>> PROVE FALSE
  <2>1. "name" \in DOMAIN t
    BY <1>1 DEF IsTable
  <2>2. DOMAIN t = {}
    BY <1>1
  <2>3. QED
    BY <2>1, <2>2
<1>2. QED
  BY <1>1

(* The builder writes its tables plain.                                     *)
LEMMA BuildWrites ==
    ASSUME NEW i \in BuilderInputs, NEW kind \in Kinds, NEW n \in Trailers, Build(i, kind, n),
           image' # <<>>
    PROVE  source' # <<>> /\ WrittenAs(image', form'.kind, form'.cipher, source')
<1> DEFINE t == BuilderTable(i.name, i.columns, i.rows)
           table == build(i.name, i.columns, i.rows)
<1>1. source' = t /\ form' = [kind |-> kind, cipher |-> FALSE]
      /\ image' = IF table = <<>> THEN <<>> ELSE Chunk(kind, 255, table) \o Zeros(n)
  BY DEF Build, build_chunk
<1>2. table # <<>>
  BY <1>1
<1>3. table = Image(t) /\ Sized(t)
  BY <1>2, BuiltSized
<1>4. kind \in DOMAIN Magic /\ n \in Nat
  BY UtfAssumption
<1> HIDE DEF t, table
<1>5. image' = Stream(kind, 255, Image(t), n)
  BY <1>1, <1>2, <1>3 DEF Stream
<1>6. Marker(FALSE) = 255 /\ Laid(t, FALSE) = Image(t)
  BY DEF Marker, Laid
<1>7. WrittenAs(image', kind, FALSE, t)
  BY <1>3, <1>4, <1>5, <1>6 DEF WrittenAs
<1>8. t # <<>>
  BY <1>3, NotEmpty DEF Sized
<1>9. form'.kind = kind /\ form'.cipher = FALSE
  BY <1>1
<1>10. QED
  BY <1>1, <1>7, <1>8, <1>9

(* Another tool may encipher them.                                          *)
LEMMA ToolWrites ==
    ASSUME NEW t \in OtherTables, NEW kind \in Kinds, NEW cipher \in BOOLEAN, NEW n \in Trailers,
           OtherTool(t, kind, cipher, n)
    PROVE  source' # <<>> /\ WrittenAs(image', form'.kind, form'.cipher, source')
<1>1. source' = t /\ form' = [kind |-> kind, cipher |-> cipher]
      /\ image' = (IF cipher THEN Chunk(kind, 0, decrypt_utf_scalar(Image(t)))
                   ELSE Chunk(kind, 255, Image(t))) \o Zeros(n)
  BY DEF OtherTool
<1>2. kind \in DOMAIN Magic /\ n \in Nat /\ Sized(t)
  BY UtfAssumption DEF Sized
<1>3. image' = Stream(kind, Marker(cipher), Laid(t, cipher), n)
  BY <1>1 DEF Stream, Marker, Laid
<1>4. WrittenAs(image', kind, cipher, t)
  BY <1>2, <1>3 DEF WrittenAs
<1>5. t # <<>>
  BY <1>2, NotEmpty DEF Sized
<1>6. form'.kind = kind /\ form'.cipher = cipher
  BY <1>1
<1>7. QED
  BY <1>1, <1>4, <1>5, <1>6

(* Every step keeps the invariant.                                          *)
LEMMA LifeStep == LifeInv /\ [Next]_vars => LifeInv'
<1> SUFFICES ASSUME LifeInv, [Next]_vars
             PROVE  LifeInv'
  OBVIOUS
<1>1. UtfInv'
  BY UtfStep DEF LifeInv
<1>2. ASSUME NEW i \in BuilderInputs, NEW kind \in Kinds, NEW n \in Trailers, Build(i, kind, n)
      PROVE  LifeInv'
  <2>1. acb = Unopened /\ acb' = acb
    BY <1>2 DEF Build, LifeInv
  <2>2. image' # <<>> => source' # <<>> /\ WrittenAs(image', form'.kind, form'.cipher, source')
    BY <1>2, BuildWrites
  <2>3. QED
    BY <1>1, <2>1, <2>2 DEF LifeInv, Unopened
<1>3. ASSUME NEW t \in OtherTables, NEW kind \in Kinds, NEW cipher \in BOOLEAN, NEW n \in Trailers,
             OtherTool(t, kind, cipher, n)
      PROVE  LifeInv'
  <2>1. acb = Unopened /\ acb' = acb
    BY <1>3 DEF OtherTool, LifeInv
  <2>2. source' # <<>> /\ WrittenAs(image', form'.kind, form'.cipher, source')
    BY <1>3, ToolWrites
  <2>3. QED
    BY <1>1, <2>1, <2>2 DEF LifeInv, Unopened
<1>4. ASSUME Intact, damaged', source' = source, acb' = acb
      PROVE  LifeInv'
  <2>1. source # <<>> /\ acb = Unopened
    BY <1>4 DEF Intact, LifeInv
  <2>2. QED
    BY <1>1, <1>4, <2>1 DEF LifeInv, Unopened
<1>5. CASE \E k \in DOMAIN image, b \in DamageBytes : ChangeByte(k, b)
  BY <1>4, <1>5 DEF ChangeByte
<1>6. CASE \E n \in 0 .. Len(image) - 1 : CutShort(n)
  BY <1>4, <1>6 DEF CutShort
<1>7. ASSUME UNCHANGED <<source, form, image, damaged, acb>>
      PROVE  LifeInv'
  <2>1. Bare(image') = Bare(image) /\ form'.kind = form.kind /\ form'.cipher = form.cipher
    BY <1>7
  <2>2. WrittenAs(image', form'.kind, form'.cipher, source')
            <=> WrittenAs(image, form.kind, form.cipher, source)
    BY <1>7
  <2>3. QED
    BY <1>1, <1>7, <2>1, <2>2 DEF LifeInv, Unopened
<1>8. CASE Open
  BY <1>7, <1>8 DEF Open
<1>9. CASE OpenAcb
  <2>1. image # <<>> /\ ~damaged /\ ~form.cipher /\ acb' = AcbHighTable(Bare(image))
        /\ source' = source /\ form' = form /\ image' = image /\ damaged' = damaged
    BY <1>9 DEF OpenAcb, Bare
  <2>2. source # <<>>
    BY <2>1 DEF LifeInv
  <2>3. Bare(image') = Bare(image) /\ form'.kind = form.kind /\ form'.cipher = form.cipher
    BY <2>1
  <2>4. WrittenAs(image', form'.kind, form'.cipher, source')
    BY <2>1 DEF LifeInv
  <2>5. QED
    BY <1>1, <2>1, <2>2, <2>3, <2>4 DEF LifeInv
<1>10. CASE UNCHANGED vars
  BY <1>7, <1>10 DEF vars
<1>11. QED
  BY <1>2, <1>3, <1>5, <1>6, <1>8, <1>9, <1>10 DEF Next

(* The invariant holds from the start.                                      *)
LEMMA LifeInvariant == UtfSpec => []LifeInv
<1>1. Init => LifeInv
  BY DEF Init, LifeInv, UtfInv
<1>2. QED
  BY <1>1, LifeStep, PTL DEF UtfSpec

(* Names of columns, as the properties have them.                           *)
LEMMA NamesSame ==
    \A c : (FirstNamed(c) <=> FirstOfName(source, c)) /\ (Unique(c) <=> OnlyOfName(source, c))
BY DEF FirstNamed, FirstOfName, Unique, OnlyOfName

(* ReadBack: a table of the builder or of another tool, plain or            *)
(* enciphered, is read back by HighTable::new of cpk/header.rs as it was    *)
(* given, field by field; the marker of the chunk and                       *)
(* TableDecryptor::is_encrypted agree; only the header of an archive may be *)
(* refused, when it is longer than its area.                                *)
THEOREM TablesComeBack == UtfSpec => []ReadBack
<1>1. LifeInv => ReadBack
  <2> SUFFICES ASSUME LifeInv, image # <<>>, ~damaged, opened # Unopened
               PROVE  ReadBack
    BY DEF ReadBack
  <2> DEFINE I == Image(source)
             R == ReadAll(source, I)
  <2>1. WrittenAs(image, form.kind, form.cipher, source) /\ opened = ReadTable(image, form.kind)
    BY DEF LifeInv, UtfInv
  <2>2. opened = (IF IsTooLong(source, form.kind) THEN Rejected ELSE R)
        /\ (is_encrypted(Bare(image)) <=> form.cipher)
    BY <2>1, ChunkRead
  <2>3. Sized(source) /\ IsTable(source) /\ form.cipher \in BOOLEAN
    BY <2>1 DEF WrittenAs, Sized
  <2>4. TooLong <=> IsTooLong(source, form.kind)
    BY DEF TooLong, IsTooLong
  <2>5. R # Rejected
    BY DEF ReadAll, Table, Rejected
  <2>6. form.cipher <=> is_encrypted(SubSeq(image, CPK_CHUNK_HEADER_SIZE + 1, Len(image)))
    BY <2>2 DEF Bare
  <2>7. TooLong <=> opened = Rejected
    BY <2>2, <2>4, <2>5
  <2>8. I \in Seq(Byte) /\ Piece(I, 0, I)
    <3>1. I \in Seq(Byte) /\ Len(I) \in Nat
      BY <2>3, ImageStarts
    <3> HIDE DEF I
    <3>2. QED
      BY <3>1 DEF Piece
  <2>9. DOMAIN source.rows = 1 .. Len(source.rows) /\ Len(source.rows) \in Nat
    BY <2>3, StoredFacts
  <2>10. Len(R.rows) = Len(source.rows)
    BY <2>9 DEF ReadAll, Table, ReadRows
  <2> HIDE DEF I, R
  <2>11. ASSUME ~TooLong, NEW r \in DOMAIN source.rows, NEW c \in Columns(source), FirstNamed(c)
         PROVE  SameValue(opened, value_by_name(opened, r, source.columns[c].name), Given(source, r, c))
    <3>1. opened = ReadAll(source, I)
      BY <2>2, <2>4, <2>11 DEF R
    <3>2. FirstOfName(source, c) /\ r \in 1 .. Len(source.rows)
      BY <2>9, <2>11, NamesSame
    <3>3. SameValue(ReadAll(source, I),
                    value_by_name(ReadAll(source, I), r, source.columns[c].name), Given(source, r, c))
      BY <2>3, <2>8, <2>11, <3>2, FieldBack DEF I
    <3>4. QED
      BY <3>1, <3>3
  <2>12. ~TooLong => Len(opened.rows) = Len(source.rows)
    BY <2>2, <2>4, <2>10
  <2>13. QED
    BY <2>6, <2>7, <2>11, <2>12 DEF ReadBack
<1>2. QED
  BY <1>1, LifeInvariant, PTL

(* ReadersAgree: HighTable of acb/header.rs, which neither checks the       *)
(* sections nor cuts the table off at its end, makes of a table that the    *)
(* CPK code accepts a table, and finds the same value for every field that  *)
(* is stored and whose name is its own.                                     *)
THEOREM BothReadersAgree == UtfSpec => []ReadersAgree
<1>1. LifeInv => ReadersAgree
  <2> SUFFICES ASSUME LifeInv, ~damaged, opened.outcome = "table", acb # Unopened
               PROVE  ReadersAgree
    BY DEF ReadersAgree
  <2> DEFINE I == Image(source)
             b == Bare(image)
             A == ReadAll(source, I)
             B == ReadAll(source, b)
  <2>1. image # <<>> /\ ~form.cipher /\ acb = AcbHighTable(b)
    BY DEF LifeInv
  <2>2. opened # Unopened
    <3>1. Unopened.outcome # "table"
      BY DEF Unopened
    <3>2. QED
      BY <3>1
  <2>3. WrittenAs(image, form.kind, form.cipher, source) /\ opened = ReadTable(image, form.kind)
    BY <2>1, <2>2 DEF LifeInv, UtfInv
  <2>4. opened = (IF IsTooLong(source, form.kind) THEN Rejected ELSE A)
        /\ b \in Seq(Byte) /\ Piece(b, 0, I)
    BY <2>1, <2>3, ChunkRead
  <2>5. opened = A
    <3>1. Rejected.outcome # "table"
      BY DEF Rejected
    <3>2. QED
      BY <2>4, <3>1
  <2>6. Sized(source) /\ IsTable(source)
    BY <2>3 DEF WrittenAs, Sized
  <2>7. acb = B
    BY <2>1, <2>4, <2>6, AcbTableRead
  <2>8. acb.outcome = "table"
    BY <2>7 DEF ReadAll, Table
  <2>9. I \in Seq(Byte) /\ Piece(I, 0, I)
    <3>1. I \in Seq(Byte) /\ Len(I) \in Nat
      BY <2>6, ImageStarts
    <3> HIDE DEF I
    <3>2. QED
      BY <3>1 DEF Piece
  <2>10. DOMAIN source.rows = 1 .. Len(source.rows)
    BY <2>6, StoredFacts
  <2> HIDE DEF I, b
  <2>11. ASSUME NEW r \in DOMAIN source.rows, NEW c \in Columns(source),
                Has(source.columns[c].flag, ROW_STORAGE), Unique(c)
         PROVE  get_value(acb, r, source.columns[c].name) = value_by_name(opened, r, source.columns[c].name)
    <3>1. OnlyOfName(source, c) /\ r \in 1 .. Len(source.rows)
      BY <2>10, <2>11, NamesSame
    <3>2. get_value(ReadAll(source, b), r, source.columns[c].name)
            = value_by_name(ReadAll(source, I), r, source.columns[c].name)
      BY <2>4, <2>6, <2>9, <2>11, <3>1, ReadersSame DEF I
    <3>3. QED
      BY <2>5, <2>7, <3>2
  <2>12. QED
    BY <2>8, <2>11 DEF ReadersAgree
<1>2. QED
  BY <1>1, LifeInvariant, PTL

-----------------------------------------------------------------------------
(* The ACB reader: fields by the names of their columns.                   *)

(* The bytes b begin with the table t.                                      *)
StartsWith(b, t) == Sized(t) /\ b \in Seq(Byte) /\ Piece(b, 0, Image(t))
(* c is a stored column of t whose name is its own.                         *)
IsField(t, r, c) ==
    /\ r \in 1 .. Len(t.rows) /\ c \in Columns(t)
    /\ OnlyOfName(t, c) /\ Has(t.columns[c].flag, ROW_STORAGE)
Got(t, b, r, c) == get_value(ReadAll(t, b), r, t.columns[c].name)

(* A stored field is found by the name of its column.                       *)
LEMMA FieldGot ==
    ASSUME NEW t, NEW b, StartsWith(b, t), NEW r, NEW c, IsField(t, r, c)
    PROVE  \E at \in Nat :
               /\ at = FieldData(t, r, PlaceOf(t, c))
               /\ Got(t, b, r, c) = ReadAs(Strings(t), t.rows[r][c], at)
               /\ Storable(Strings(t), TypeOf(t, c), t.rows[r][c], at)
               /\ TypeOf(t, c) = "Data" => Piece(AllData(t), at, t.rows[r][c].v)
<1> DEFINE k == PlaceOf(t, c)
           at == FieldData(t, r, k)
           T == ReadAll(t, b)
           x == ReadField(t, r, k)
<1>0. Sized(t) /\ IsTable(t) /\ r \in 1 .. Len(t.rows) /\ c \in Columns(t)
      /\ OnlyOfName(t, c) /\ Has(t.columns[c].flag, ROW_STORAGE)
  BY DEF StartsWith, IsField, Sized
<1>1. k \in 1 .. Len(Stored(t)) /\ Stored(t)[k] = c
  BY <1>0, Placed
<1>2. acb_index(T, t.columns[c].name) = c /\ c \in 1 .. Len(t.columns) /\ c # 0
  BY <1>0, ColumnFound
<1>3. T.rows[r][c] = x
  BY <1>0, <1>2, RowValue
<1>4. FieldValue(t, r, k) = t.rows[r][c]
  BY <1>1 DEF FieldValue
<1>5. x = ReadAs(Strings(t), t.rows[r][c], at)
  BY <1>4 DEF ReadField
<1> HIDE DEF k
<1>6. /\ Storable(Strings(t), TypeOf(t, c), t.rows[r][c], at)
      /\ t.rows[r][c].type = "Data" => Piece(AllData(t), at, t.rows[r][c].v)
  BY <1>0, <1>1, <1>4, FieldStorable
<1> HIDE DEF at, x, T
<1>7. at \in Nat /\ t.rows[r][c].type = TypeOf(t, c)
  BY <1>6, ValueFacts DEF Storable
<1>8. Got(t, b, r, c) = x
  BY <1>2, <1>3 DEF Got, get_value, T
<1>9. QED
  BY <1>5, <1>6, <1>7, <1>8 DEF at, k

(* A number is read as it is.                                               *)
LEMMA NumberGot ==
    ASSUME NEW t, NEW b, StartsWith(b, t), NEW r, NEW c, IsField(t, r, c), TypeOf(t, c) \in Numeric
    PROVE  Got(t, b, r, c) = t.rows[r][c]
<1>1. PICK at \in Nat : /\ Got(t, b, r, c) = ReadAs(Strings(t), t.rows[r][c], at)
                        /\ Storable(Strings(t), TypeOf(t, c), t.rows[r][c], at)
  BY FieldGot
<1>2. t.rows[r][c].type \in Numeric
  BY <1>1, ValueFacts DEF Storable
<1>3. QED
  BY <1>1, <1>2 DEF ReadAs, Numeric

(* No string of characters stands for "no string".                          *)
LEMMA NoStringIsNone == \A x \in Seq(Char) : x # NoString
<1>1. SUFFICES ASSUME NEW x \in Seq(Char), x = NoString PROVE FALSE
  OBVIOUS
<1>2. Len(x) = 1 /\ x[1] = -1
  BY <1>1 DEF NoString
<1>3. 1 \in 1 .. Len(x)
  BY <1>2
<1>4. x[1] \in Char
  BY <1>3, ElementOfSeq
<1>5. QED
  BY <1>2, <1>4, CharFacts

(* A string is the one at the offset that is read.                          *)
LEMMA StringGot ==
    ASSUME NEW t, NEW b, StartsWith(b, t), NEW r, NEW c, IsField(t, r, c), TypeOf(t, c) = "String"
    PROVE  /\ Got(t, b, r, c).type = "String"
           /\ get_string(StringsOf(t), Got(t, b, r, c).v) = t.rows[r][c].v
           /\ t.rows[r][c].v # NoString
<1> DEFINE v == t.rows[r][c]
<1>0. IsTable(t)
  BY DEF StartsWith, Sized
<1>1. PICK at \in Nat : /\ Got(t, b, r, c) = ReadAs(Strings(t), v, at)
                        /\ Storable(Strings(t), TypeOf(t, c), v, at)
  BY FieldGot
<1>2. v.type = "String" /\ v.v \in Seq(Char) /\ In(v.v, Strings(t))
  BY <1>1, ValueFacts DEF Storable
<1>3. Got(t, b, r, c) = Value("String", intern_string(Strings(t), v.v))
  BY <1>1, <1>2 DEF ReadAs
<1>4. get_string(StringsOf(t), intern_string(Strings(t), v.v)) = v.v
  BY <1>0, <1>2, InternedFound
<1>5. v.v # NoString
  BY <1>2, NoStringIsNone
<1> HIDE DEF v
<1>6. Got(t, b, r, c).type = "String" /\ Got(t, b, r, c).v = intern_string(Strings(t), v.v)
  BY <1>3 DEF Value
<1>7. QED
  BY <1>4, <1>5, <1>6 DEF v

(* Data lies in the data of the table.                                      *)
LEMMA DataGot ==
    ASSUME NEW t, NEW b, StartsWith(b, t), NEW r, NEW c, IsField(t, r, c), TypeOf(t, c) = "Data"
    PROVE  /\ Got(t, b, r, c).type = "Data" /\ Got(t, b, r, c).offset \in Nat
           /\ Got(t, b, r, c).offset = FieldData(t, r, PlaceOf(t, c))
           /\ data_start(t) \in Nat
           /\ t.rows[r][c].v \in Seq(Byte)
           /\ Piece(b, data_start(t) + Got(t, b, r, c).offset, t.rows[r][c].v)
<1> DEFINE v == t.rows[r][c]
<1>0. Sized(t) /\ IsTable(t) /\ b \in Seq(Byte) /\ Piece(b, 0, Image(t))
  BY DEF StartsWith, Sized
<1>1. PICK at \in Nat : /\ at = FieldData(t, r, PlaceOf(t, c))
                        /\ Got(t, b, r, c) = ReadAs(Strings(t), v, at)
                        /\ Storable(Strings(t), TypeOf(t, c), v, at)
                        /\ Piece(AllData(t), at, v.v)
  BY FieldGot
<1>2. v.type = "Data" /\ v.v \in Seq(Byte)
  BY <1>1, ValueFacts DEF Storable
<1>3. Got(t, b, r, c) = [type |-> "Data", offset |-> at, length |-> Len(v.v)]
  BY <1>1, <1>2 DEF ReadAs
<1> HIDE DEF v
<1>4. Got(t, b, r, c).type = "Data" /\ Got(t, b, r, c).offset = at
  BY <1>3
<1>5. AllData(t) \in Seq(Byte) /\ Piece(b, data_start(t), AllData(t)) /\ data_start(t) \in Nat
  BY <1>0, PartsType, PartsLie, Offsets
<1>6. Piece(b, data_start(t) + at, v.v)
  BY <1>0, <1>1, <1>2, <1>5, PieceOfPiece
<1>7. QED
  BY <1>1, <1>2, <1>4, <1>5, <1>6 DEF v

(* A name that no column has leads to no value.                             *)
LEMMA NoneGot ==
    ASSUME NEW t, NEW b, StartsWith(b, t), NEW r, NEW name \in Seq(Char), OfName(t, name) = {}
    PROVE  get_value(ReadAll(t, b), r, name) = NoValue
<1>1. Named(ReadAll(t, b), name) = {}
  BY NamedRead DEF StartsWith
<1>2. acb_index(ReadAll(t, b), name) = 0
  BY <1>1 DEF acb_index
<1>3. QED
  BY <1>2 DEF get_value

-----------------------------------------------------------------------------
(* The tables of an ACB file.                                              *)

(* The names of columns are strings, and different for different words.     *)
LEMMA WordFacts ==
    /\ \A m \in Words : Spell[m] \in Seq(Char)
    /\ \A m, n \in Words : Spell[m] = Spell[n] => m = n
BY AcbAssumption

(* A column of a type is named, stored, and of that type.                   *)
LEMMA ColumnOf ==
    ASSUME NEW type \in ToSet(TypeNames), NEW m
    PROVE  LET col == Stored50(type, m) IN
           /\ col.name = Spell[m] /\ Has(col.flag, NAME) /\ Has(col.flag, ROW_STORAGE)
           /\ get_type(col.flag) = type
<1> DEFINE flag == NAME + ROW_STORAGE + Code(type)
           col == Stored50(type, m)
           c == Code(type)
<1>1. col.flag = flag /\ col.name = Spell[m]
  BY DEF Stored50
<1>2. Has(flag, NAME) /\ Has(flag, ROW_STORAGE)
  BY BuilderFlag
<1>3. \E i \in DOMAIN TypeNames : TypeNames[i] = type
  BY DEF ToSet
<1>4. PICK i \in DOMAIN TypeNames : c = i - 1 /\ TypeNames[i] = type
  BY <1>3 DEF Code
<1>5. DOMAIN TypeNames = 1 .. 13 /\ Len(TypeNames) = 13
  BY DEF TypeNames
<1> HIDE DEF c
<1>6. flag = 80 + c /\ c \in 0 .. 12
  BY <1>4, <1>5 DEF NAME, ROW_STORAGE, c
<1> HIDE DEF flag
<1>7. flag % 16 = c /\ 1 + c = i
  BY <1>4, <1>5, <1>6
<1>8. flag % 16 < 13
  BY <1>6, <1>7
<1>9. get_type(flag) = TypeNames[1 + (flag % 16)]
  BY <1>5, <1>8 DEF get_type
<1>10. get_type(flag) = type
  BY <1>4, <1>7, <1>9
<1>11. QED
  BY <1>1, <1>2, <1>10 DEF flag

(* The types the tables use.                                                *)
LEMMA TypesUsed ==
    {"String", "Data", "UInt16", "UInt32"} \subseteq ToSet(TypeNames)
<1>1. DOMAIN TypeNames = 1 .. 13 /\ TypeNames[3] = "UInt16" /\ TypeNames[5] = "UInt32"
      /\ TypeNames[11] = "String" /\ TypeNames[12] = "Data"
  BY DEF TypeNames
<1>2. QED
  BY <1>1 DEF ToSet

(* Columns whose names are different words.                                 *)
Worded(t, n, word, type) ==
    /\ Columns(t) = 1 .. n /\ Len(t.columns) = n /\ n \in Nat
    /\ \A c \in 1 .. n : /\ word[c] \in Words /\ type[c] \in ToSet(TypeNames)
                         /\ t.columns[c] = Stored50(type[c], word[c])
    /\ \A c, d \in 1 .. n : word[c] = word[d] => c = d

(* Every one is a field, found by its word; another word finds none.        *)
LEMMA WordedFields ==
    ASSUME NEW t, NEW n, NEW word, NEW type, Worded(t, n, word, type)
    PROVE  /\ \A r \in 1 .. Len(t.rows), c \in 1 .. n :
                /\ IsField(t, r, c) /\ TypeOf(t, c) = type[c]
                /\ t.columns[c].name = Spell[word[c]]
           /\ \A m \in Words : (\A c \in 1 .. n : word[c] # m) => OfName(t, Spell[m]) = {}
<1>0. /\ Columns(t) = 1 .. n /\ Len(t.columns) = n /\ n \in Nat
      /\ \A c \in 1 .. n : /\ word[c] \in Words /\ type[c] \in ToSet(TypeNames)
                           /\ t.columns[c] = Stored50(type[c], word[c])
      /\ \A c, d \in 1 .. n : word[c] = word[d] => c = d
  BY DEF Worded
<1>1. ASSUME NEW c \in 1 .. n
      PROVE  /\ t.columns[c].name = Spell[word[c]] /\ Has(t.columns[c].flag, NAME)
             /\ Has(t.columns[c].flag, ROW_STORAGE) /\ get_type(t.columns[c].flag) = type[c]
  <2>1. type[c] \in ToSet(TypeNames) /\ t.columns[c] = Stored50(type[c], word[c])
    BY <1>0
  <2>2. QED
    BY <2>1, ColumnOf
<1>2. ASSUME NEW c \in 1 .. n, NEW d \in 1 .. n, d # c
      PROVE  t.columns[d].name # t.columns[c].name
  <2>1. word[c] \in Words /\ word[d] \in Words /\ word[c] # word[d]
    BY <1>0, <1>2
  <2>2. Spell[word[c]] # Spell[word[d]]
    BY <2>1, WordFacts
  <2>3. QED
    BY <1>1, <2>2
<1>3. ASSUME NEW r \in 1 .. Len(t.rows), NEW c \in 1 .. n PROVE IsField(t, r, c)
  <2>1. FirstOfName(t, c)
    <3>1. ASSUME NEW d \in 1 .. c - 1 PROVE t.columns[d].name # t.columns[c].name
      <4>1. d \in 1 .. n /\ d # c
        BY <1>0
      <4>2. QED
        BY <1>2, <4>1
    <3>2. QED
      BY <1>1, <3>1 DEF FirstOfName
  <2>2. OnlyOfName(t, c)
    BY <1>0, <1>2, <2>1 DEF OnlyOfName
  <2>3. QED
    BY <1>0, <1>1, <2>2 DEF IsField
<1>4. ASSUME NEW m \in Words, \A c \in 1 .. n : word[c] # m PROVE OfName(t, Spell[m]) = {}
  <2>1. ASSUME NEW c \in 1 .. n PROVE t.columns[c].name # Spell[m]
    <3>1. word[c] \in Words /\ word[c] # m
      BY <1>0, <1>4
    <3>2. QED
      BY <1>1, <3>1, WordFacts
  <2>2. QED
    BY <1>0, <2>1 DEF OfName
<1>5. \A r \in 1 .. Len(t.rows), c \in 1 .. n :
                /\ IsField(t, r, c) /\ TypeOf(t, c) = type[c]
                /\ t.columns[c].name = Spell[word[c]]
  BY <1>1, <1>3 DEF TypeOf
<1>6. QED
  BY <1>4, <1>5

(* The columns of CueTable and of CueNameTable.                             *)
CueWords == <<"CueId", "ReferenceIndex">>
CueTypes == <<"UInt32", "UInt16">>

(* A row of CueTable has the id of its cue.                                 *)
LEMMA CueTableFacts ==
    ASSUME NEW n \in Nat, NEW cues, DOMAIN cues = 1 .. n
    PROVE  LET t == CueTable(cues) IN
           /\ Worded(t, 2, CueWords, CueTypes)
           /\ DOMAIN t.rows = 1 .. n /\ Len(t.rows) = n
           /\ \A r \in 1 .. n : t.rows[r][1] = Value("UInt32", cues[r])
<1> DEFINE t == CueTable(cues)
           row(i) == <<Value("UInt32", cues[i]), Value("UInt16", 0)>>
           f == [i \in DOMAIN cues |-> row(i)]
<1>1. t.columns = <<Stored50("UInt32", "CueId"), Stored50("UInt16", "ReferenceIndex")>> /\ t.rows = f
  BY DEF CueTable, TableOf
<1>2. Worded(t, 2, CueWords, CueTypes)
  <2>1. Len(t.columns) = 2 /\ DOMAIN t.columns = 1 .. 2
    BY <1>1
  <2>2. t.columns[1] = Stored50("UInt32", "CueId") /\ t.columns[2] = Stored50("UInt16", "ReferenceIndex")
    BY <1>1
  <2>3. CueWords[1] = "CueId" /\ CueWords[2] = "ReferenceIndex" /\ CueTypes[1] = "UInt32"
        /\ CueTypes[2] = "UInt16"
    BY DEF CueWords, CueTypes
  <2>4. \A c \in 1 .. 2 : c = 1 \/ c = 2
    OBVIOUS
  <2>5. {"CueId", "ReferenceIndex"} \subseteq Words
    BY DEF Words
  <2> HIDE DEF t
  <2>6. QED
    BY <2>1, <2>2, <2>3, <2>4, <2>5, TypesUsed DEF Worded, Columns
<1>3. f = [i \in 1 .. n |-> f[i]] /\ \A r \in 1 .. n : f[r] = row(r) /\ f[r] \in {row(i) : i \in 1 .. n}
  OBVIOUS
<1>4. \A r \in 1 .. n : row(r)[1] = Value("UInt32", cues[r])
  OBVIOUS
<1> HIDE DEF f, row
<1>5. Len(f) = n /\ DOMAIN f = 1 .. n
  BY <1>3, MapSeq
<1>6. \A r \in 1 .. n : f[r][1] = Value("UInt32", cues[r])
  BY <1>3, <1>4
<1>7. QED
  BY <1>1, <1>2, <1>5, <1>6

NameWords == <<"CueName", "CueIndex">>
NameTypes == <<"String", "UInt16">>

(* A row of CueNameTable has a name and the index of its cue.               *)
LEMMA CueNameTableFacts ==
    ASSUME NEW n \in Nat, NEW names, DOMAIN names = 1 .. n
    PROVE  LET t == CueNameTable(names) IN
           /\ Worded(t, 2, NameWords, NameTypes)
           /\ DOMAIN t.rows = 1 .. n /\ Len(t.rows) = n
           /\ \A r \in 1 .. n : /\ t.rows[r][1] = Value("String", names[r].name)
                                /\ t.rows[r][2] = Value("UInt16", names[r].index)
<1> DEFINE t == CueNameTable(names)
           row(i) == <<Value("String", names[i].name), Value("UInt16", names[i].index)>>
           f == [i \in DOMAIN names |-> row(i)]
<1>1. t.columns = <<Stored50("String", "CueName"), Stored50("UInt16", "CueIndex")>> /\ t.rows = f
  BY DEF CueNameTable, TableOf
<1>2. Worded(t, 2, NameWords, NameTypes)
  <2>1. Len(t.columns) = 2 /\ DOMAIN t.columns = 1 .. 2
    BY <1>1
  <2>2. t.columns[1] = Stored50("String", "CueName") /\ t.columns[2] = Stored50("UInt16", "CueIndex")
    BY <1>1
  <2>3. NameWords[1] = "CueName" /\ NameWords[2] = "CueIndex" /\ NameTypes[1] = "String"
        /\ NameTypes[2] = "UInt16"
    BY DEF NameWords, NameTypes
  <2>4. \A c \in 1 .. 2 : c = 1 \/ c = 2
    OBVIOUS
  <2>5. {"CueName", "CueIndex"} \subseteq Words
    BY DEF Words
  <2> HIDE DEF t
  <2>6. QED
    BY <2>1, <2>2, <2>3, <2>4, <2>5, TypesUsed DEF Worded, Columns
<1>3. f = [i \in 1 .. n |-> f[i]] /\ \A r \in 1 .. n : f[r] = row(r) /\ f[r] \in {row(i) : i \in 1 .. n}
  OBVIOUS
<1>4. \A r \in 1 .. n : row(r)[1] = Value("String", names[r].name) /\ row(r)[2] = Value("UInt16", names[r].index)
  OBVIOUS
<1> HIDE DEF f, row
<1>5. Len(f) = n /\ DOMAIN f = 1 .. n
  BY <1>3, MapSeq
<1>6. \A r \in 1 .. n : f[r][1] = Value("String", names[r].name) /\ f[r][2] = Value("UInt16", names[r].index)
  BY <1>3, <1>4
<1>7. QED
  BY <1>1, <1>2, <1>5, <1>6

-----------------------------------------------------------------------------
(* The table of the file: a name, a digest and the tables that are present. *)

(* The tables of a file.                                                    *)
LEMMA PresentFacts ==
    ASSUME NEW f
    PROVE  LET P == Present(f) IN
           /\ Len(P) \in 0 .. 2 /\ DOMAIN P = 1 .. Len(P)
           /\ \A i \in 1 .. Len(P) :
                \/ P[i] = "CueTable" /\ f.cues # None
                \/ P[i] = "CueNameTable" /\ f.names # None
           /\ \A i, j \in 1 .. Len(P) : P[i] = P[j] => i = j
           /\ f.cues # None => \E i \in 1 .. Len(P) : P[i] = "CueTable"
           /\ f.names # None => \E i \in 1 .. Len(P) : P[i] = "CueNameTable"
           /\ \A i \in 1 .. Len(P) :
                /\ P[i] = "CueNameTable" => i = Len(P)
                /\ P[i] = "CueTable" => IF f.names = None THEN i = Len(P)
                                       ELSE i # Len(P) /\ P[i + 1] = "CueNameTable"
<1> DEFINE P == Present(f)
<1>1. CASE f.cues = None /\ f.names = None
  <2>1. P = <<>>
    BY <1>1 DEF Present
  <2> HIDE DEF P
  <2>2. QED
    BY <1>1, <2>1 DEF P
<1>2. CASE f.cues = None /\ f.names # None
  <2>1. P = <<"CueNameTable">>
    BY <1>2 DEF Present
  <2>2. Len(P) = 1 /\ DOMAIN P = 1 .. 1 /\ P[1] = "CueNameTable"
    BY <2>1
  <2> HIDE DEF P
  <2>3. QED
    BY <1>2, <2>2 DEF P
<1>3. CASE f.cues # None /\ f.names = None
  <2>1. P = <<"CueTable">>
    BY <1>3 DEF Present
  <2>2. Len(P) = 1 /\ DOMAIN P = 1 .. 1 /\ P[1] = "CueTable"
    BY <2>1
  <2> HIDE DEF P
  <2>3. QED
    BY <1>3, <2>2 DEF P
<1>4. CASE f.cues # None /\ f.names # None
  <2> DEFINE a == <<"CueTable">>
             b == <<"CueNameTable">>
             S == {"CueTable", "CueNameTable"}
  <2>a. a \in Seq(S) /\ Len(a) = 1 /\ a[1] = "CueTable"
        /\ b \in Seq(S) /\ Len(b) = 1 /\ b[1] = "CueNameTable"
    OBVIOUS
  <2>1. P = a \o b
    BY <1>4 DEF Present
  <2> HIDE DEF a, b, P, S
  <2>b. /\ a \o b \in Seq(S) /\ Len(a \o b) = 2
        /\ \A i \in 1 .. 2 : (a \o b)[i] = IF i <= 1 THEN a[i] ELSE b[i - 1]
    BY <2>a, ConcatProperties
  <2>c. P \in Seq(S) /\ Len(P) = 2 /\ \A i \in 1 .. 2 : P[i] = IF i <= 1 THEN a[i] ELSE b[i - 1]
    BY <2>1, <2>b
  <2>2. Len(P) = 2 /\ DOMAIN P = 1 .. 2 /\ P[1] = "CueTable" /\ P[2] = "CueNameTable"
    BY <2>a, <2>c, LenProperties
  <2> HIDE DEF P
  <2>3. \A i \in 1 .. 2 : i = 1 \/ i = 2
    OBVIOUS
  <2>4. QED
    BY <1>4, <2>2, <2>3 DEF P
<1>5. QED
  BY <1>1, <1>2, <1>3, <1>4

(* The words and types of its columns.                                      *)
HeaderWords(f) ==
    [c \in 1 .. 2 + Len(Present(f)) |->
        IF c = 1 THEN "Name" ELSE IF c = 2 THEN "AcfMd5Hash" ELSE Present(f)[c - 2]]
HeaderTypes(f) == [c \in 1 .. 2 + Len(Present(f)) |-> IF c = 1 THEN "String" ELSE "Data"]

(* Two elements, then those of a list.                                      *)
LEMMA TwoAndMore ==
    ASSUME NEW x, NEW y, NEW n \in Nat, NEW g, g = [i \in 1 .. n |-> g[i]]
    PROVE  LET s == <<x, y>> \o g IN
           /\ Len(s) = 2 + n /\ DOMAIN s = 1 .. 2 + n
           /\ \A c \in 1 .. 2 + n : s[c] = IF c = 1 THEN x ELSE IF c = 2 THEN y ELSE g[c - 2]
<1> DEFINE S == {x, y} \cup {g[i] : i \in 1 .. n}
           a == <<x, y>>
           s == a \o g
<1>1. a \in Seq(S) /\ Len(a) = 2 /\ a[1] = x /\ a[2] = y
  OBVIOUS
<1>2. \A i \in 1 .. n : g[i] \in S
  OBVIOUS
<1> HIDE DEF S, a
<1>3. g \in Seq(S) /\ Len(g) = n
  BY <1>2, MapSeq
<1>4. /\ s \in Seq(S) /\ Len(s) = Len(a) + Len(g)
      /\ \A i \in 1 .. Len(a) + Len(g) : s[i] = IF i <= Len(a) THEN a[i] ELSE g[i - Len(a)]
  BY <1>1, <1>3, ConcatProperties
<1> HIDE DEF s
<1>5. Len(s) = 2 + n /\ DOMAIN s = 1 .. 2 + n
  BY <1>1, <1>3, <1>4, LenProperties
<1>6. ASSUME NEW c \in 1 .. 2 + n
      PROVE  s[c] = IF c = 1 THEN x ELSE IF c = 2 THEN y ELSE g[c - 2]
  <2>1. s[c] = IF c <= 2 THEN a[c] ELSE g[c - 2]
    BY <1>1, <1>3, <1>4
  <2>2. CASE c = 1
    BY <1>1, <2>1, <2>2
  <2>3. CASE c = 2
    BY <1>1, <2>1, <2>3
  <2>4. CASE c # 1 /\ c # 2
    <3>1. ~(c <= 2)
      BY <2>4
    <3>2. QED
      BY <2>1, <2>4, <3>1
  <2>5. QED
    BY <2>2, <2>3, <2>4
<1>7. QED
  BY <1>5, <1>6 DEF s, a

(* Its columns and its row.                                                 *)
LEMMA AcbTableFacts ==
    ASSUME NEW f
    PROVE  LET t == AcbTable(f)
               n == Len(Present(f))
           IN  /\ Worded(t, 2 + n, HeaderWords(f), HeaderTypes(f))
               /\ n \in 0 .. 2 /\ Len(t.rows) = 1 /\ DOMAIN t.rows = 1 .. 1
               /\ t.rows[1][1] = Value("String", f.name)
               /\ \A i \in 1 .. n : t.rows[1][2 + i] = Value("Data", Embedded(f, Present(f)[i]))
<1> DEFINE t == AcbTable(f)
           P == Present(f)
           n == Len(P)
           g == [i \in DOMAIN P |-> Stored50("Data", P[i])]
           h == [i \in DOMAIN P |-> Value("Data", Embedded(f, P[i]))]
           x == Stored50("String", "Name")
           y == Stored50("Data", "AcfMd5Hash")
           u == Value("String", f.name)
           v == Value("Data", [k \in 1 .. 16 |-> k])
           row == <<u, v>> \o h
           word == HeaderWords(f)
           type == HeaderTypes(f)
<1>1. t.columns = <<x, y>> \o g /\ t.rows = <<row>>
  BY DEF AcbTable, TableOf
<1>2. /\ n \in 0 .. 2 /\ DOMAIN P = 1 .. n
      /\ \A i \in 1 .. n : P[i] \in {"CueTable", "CueNameTable"}
      /\ \A i, j \in 1 .. n : P[i] = P[j] => i = j
  BY PresentFacts
<1>3. g = [i \in 1 .. n |-> g[i]] /\ h = [i \in 1 .. n |-> h[i]]
      /\ \A i \in 1 .. n : g[i] = Stored50("Data", P[i]) /\ h[i] = Value("Data", Embedded(f, P[i]))
  BY <1>2
<1>4. \A c \in 1 .. 2 + n :
        /\ word[c] = IF c = 1 THEN "Name" ELSE IF c = 2 THEN "AcfMd5Hash" ELSE P[c - 2]
        /\ type[c] = IF c = 1 THEN "String" ELSE "Data"
  BY DEF HeaderWords, HeaderTypes
<1>5. Len(t.rows) = 1 /\ DOMAIN t.rows = 1 .. 1 /\ t.rows[1] = row
  BY <1>1, SMTT(30)
<1> HIDE DEF t, P, n, g, h, x, y, u, v, word, type
<1>6. /\ Len(t.columns) = 2 + n /\ DOMAIN t.columns = 1 .. 2 + n
      /\ \A c \in 1 .. 2 + n : t.columns[c] = IF c = 1 THEN x ELSE IF c = 2 THEN y ELSE g[c - 2]
  <2> DEFINE s == <<x, y>> \o g
  <2>1. /\ Len(s) = 2 + n /\ DOMAIN s = 1 .. 2 + n
        /\ \A c \in 1 .. 2 + n : s[c] = IF c = 1 THEN x ELSE IF c = 2 THEN y ELSE g[c - 2]
    BY <1>2, <1>3, TwoAndMore
  <2>2. t.columns = s
    BY <1>1
  <2> HIDE DEF s
  <2>3. QED
    BY <2>1, <2>2
<1>7. \A c \in 1 .. 2 + n : row[c] = IF c = 1 THEN u ELSE IF c = 2 THEN v ELSE h[c - 2]
  BY <1>2, <1>3, TwoAndMore
<1> HIDE DEF row
<1>8. t.rows[1][1] = u
  <2>1. 1 \in 1 .. 2 + n
    BY <1>2
  <2>2. QED
    BY <1>5, <1>7, <2>1
<1>9. \A i \in 1 .. n : t.rows[1][2 + i] = h[i]
  <2>1. ASSUME NEW i \in 1 .. n PROVE t.rows[1][2 + i] = h[i]
    <3> DEFINE c == 2 + i
    <3>1. c \in 1 .. 2 + n /\ c # 1 /\ c # 2 /\ c - 2 = i
      BY <1>2
    <3> HIDE DEF c
    <3>2. row[c] = h[i]
      BY <1>7, <3>1
    <3>3. QED
      BY <1>5, <3>2 DEF c
  <2>2. QED
    BY <2>1
<1>10. ASSUME NEW c \in 1 .. 2 + n
       PROVE  /\ word[c] \in Words /\ type[c] \in ToSet(TypeNames)
              /\ t.columns[c] = Stored50(type[c], word[c])
  <2>0. {"Name", "AcfMd5Hash", "CueTable", "CueNameTable"} \subseteq Words
    BY DEF Words
  <2>1. CASE c = 1
    <3>1. t.columns[c] = x /\ word[c] = "Name" /\ type[c] = "String"
      BY <1>4, <1>6, <2>1
    <3>2. QED
      BY <2>0, <3>1, TypesUsed DEF x
  <2>2. CASE c = 2
    <3>1. t.columns[c] = y /\ word[c] = "AcfMd5Hash" /\ type[c] = "Data"
      BY <1>4, <1>6, <2>2
    <3>2. QED
      BY <2>0, <3>1, TypesUsed DEF y
  <2>3. CASE c # 1 /\ c # 2
    <3>1. t.columns[c] = g[c - 2] /\ word[c] = P[c - 2] /\ type[c] = "Data"
      BY <1>4, <1>6, <2>3
    <3>2. c - 2 \in 1 .. n
      BY <1>2, <2>3
    <3>3. g[c - 2] = Stored50("Data", P[c - 2]) /\ P[c - 2] \in {"CueTable", "CueNameTable"}
      BY <1>2, <1>3, <3>2
    <3>4. QED
      BY <2>0, <3>1, <3>3, TypesUsed
  <2>4. QED
    BY <2>1, <2>2, <2>3
<1>11. ASSUME NEW c \in 1 .. 2 + n, NEW d \in 1 .. 2 + n, word[c] = word[d] PROVE c = d
  <2> DEFINE Here(e) == (e = 1 /\ word[e] = "Name") \/ (e = 2 /\ word[e] = "AcfMd5Hash")
                        \/ (e - 2 \in 1 .. n /\ word[e] = P[e - 2])
  <2>1. ASSUME NEW e \in 1 .. 2 + n PROVE Here(e)
    <3>1. e = 1 \/ e = 2 \/ (e # 1 /\ e # 2 /\ e - 2 \in 1 .. n)
      BY <1>2
    <3>2. QED
      BY <1>4, <3>1
  <2>2. Here(c) /\ Here(d)
    BY <2>1
  <2>3. \A i \in 1 .. n : P[i] # "Name" /\ P[i] # "AcfMd5Hash"
    BY <1>2
  <2>4. CASE c - 2 \in 1 .. n /\ d - 2 \in 1 .. n /\ word[c] = P[c - 2] /\ word[d] = P[d - 2]
    <3>1. c - 2 = d - 2
      BY <1>2, <1>11, <2>4
    <3>2. QED
      BY <1>2, <3>1
  <2>5. QED
    BY <1>11, <2>2, <2>3, <2>4
<1>12. Worded(t, 2 + n, word, type)
  <2>1. 2 + n \in Nat
    BY <1>2
  <2>2. QED
    BY <1>6, <1>10, <1>11, <2>1 DEF Worded, Columns
<1>13. QED
  BY <1>2, <1>3, <1>5, <1>8, <1>9, <1>12 DEF t, P, n, u, word, type

-----------------------------------------------------------------------------
(* get_table.                                                              *)

(* T is what the reader makes of bytes that begin with the table t.         *)
IsRead(T, t) == \E b : StartsWith(b, t) /\ T = ReadAll(t, b)
NoTable == [outcome |-> "none"]
HeaderOf(f) == ReadAll(AcbTable(f), AcbImage(f))

(* A table is there, and is not a column without data.                      *)
HasTable(x) == x # None /\ x # NoData

(* What is known of a file.                                                 *)
LEMMA FileFacts ==
    ASSUME NEW f \in Files
    PROVE  /\ StartsWith(AcbImage(f), AcbTable(f))
           /\ HasTable(f.cues) =>
                /\ Sized(CueTable(f.cues)) /\ DOMAIN f.cues = 1 .. Len(f.cues) /\ Len(f.cues) \in Nat
           /\ HasTable(f.names) =>
                /\ Sized(CueNameTable(f.names)) /\ DOMAIN f.names = 1 .. Len(f.names)
                /\ Len(f.names) \in Nat
<1>1. /\ IsUsual(AcbTable(f))
      /\ HasTable(f.cues) => f.cues \in Seq(Nat) /\ IsUsual(CueTable(f.cues))
      /\ HasTable(f.names) => f.names \in Seq(ToSet(f.names)) /\ IsUsual(CueNameTable(f.names))
  BY AcbAssumption DEF HasTable
<1>2. \A t : IsUsual(t) => Sized(t)
  BY DEF IsUsual, Sized
<1>3. Sized(AcbTable(f)) /\ IsTable(AcbTable(f))
  BY <1>1, <1>2 DEF Sized
<1> DEFINE I == Image(AcbTable(f))
<1>4. I \in Seq(Byte) /\ Len(I) \in Nat
  BY <1>3, ImageStarts
<1>5. Piece(I, 0, I)
  <2> HIDE DEF I
  <2>1. QED
    BY <1>4 DEF Piece
<1>6. StartsWith(AcbImage(f), AcbTable(f))
  BY <1>3, <1>4, <1>5 DEF StartsWith, AcbImage
<1>7. ASSUME HasTable(f.cues)
      PROVE  Sized(CueTable(f.cues)) /\ DOMAIN f.cues = 1 .. Len(f.cues) /\ Len(f.cues) \in Nat
  BY <1>1, <1>2, <1>7, LenProperties
<1>8. ASSUME HasTable(f.names)
      PROVE  Sized(CueNameTable(f.names)) /\ DOMAIN f.names = 1 .. Len(f.names) /\ Len(f.names) \in Nat
  BY <1>1, <1>2, <1>8, LenProperties
<1>9. QED
  BY <1>6, <1>7, <1>8

-----------------------------------------------------------------------------
(* Columns of tables that are there and have no data.                       *)

(* The ACB reader does not survive a table of no bytes: its header is taken *)
(* from a buffer of zeros, and puts the pools beyond the end.               *)
LEMMA EmptyPanics == AcbHighTable(<<>>) = Panicked
<1> DEFINE z == FirstBytes(<<>>)
           h == TableHeader(z)
           columns == new_columns(<<>>, 0)
           rows == new_rows(<<>>, h, columns.list)
           strings == parse_strings(Sub(<<>>, h.string_pool_offset, h.data_pool_offset), h.encoding)
           first == [ok |-> TRUE, at |-> HEADER_SIZE, list |-> <<>>]
           Solves(g) == g = [k \in 0 .. 0 |-> IF k = 0 THEN first ELSE
                                LET p == g[k - 1] IN IF p.ok THEN NextColumn(<<>>, p) ELSE p]
           upto == CHOOSE g : Solves(g)
<1>0. Len(<<>>) = 0 /\ <<>> \in Seq(Byte)
  OBVIOUS
<1>1. z = [k \in 1 .. 32 |-> 0] /\ z \in Seq(Byte) /\ Len(z) = 32
  <2>1. z = [k \in 1 .. 32 |-> 0]
    BY <1>0 DEF FirstBytes, HEADER_SIZE
  <2>2. 0 \in Byte
    BY DEF Byte
  <2> HIDE DEF z
  <2>3. QED
    BY <2>1, <2>2
<1> HIDE DEF z
<1>2. ASSUME NEW o \in 0 .. 28, NEW w \in {2, 4} PROVE NumberAt(z, o, w) = 0
  <2> DEFINE s == BigEndian(0, w)
  <2>1. s \in Seq(Byte) /\ Len(s) = w
    BY BigEndianType
  <2>2. \A k \in 1 .. w : s[k] = 0
    <3>1. \A p \in 0 .. 3 : ByteOf(0, p) = 0
      <4>1. 0 % 256 = 0 /\ 0 \div 256 = 0 /\ 0 \div 65536 = 0 /\ 0 \div 16777216 = 0
        OBVIOUS
      <4>2. QED
        BY <4>1 DEF ByteOf
    <3>2. \A k \in 1 .. w : w - k \in 0 .. 3
      OBVIOUS
    <3>3. QED
      BY <3>1, <3>2 DEF BigEndian
  <2> HIDE DEF s
  <2>3. Piece(z, o, s)
    <3>1. o + w <= 32 /\ \A k \in 1 .. w : o + k \in 1 .. 32
      OBVIOUS
    <3>2. \A k \in 1 .. w : z[o + k] = s[k]
      BY <1>1, <2>2, <3>1
    <3>3. QED
      BY <1>1, <2>1, <3>1, <3>2 DEF Piece
  <2>4. 0 < Huge /\ FitsIn(0, w)
    BY HugeFacts DEF FitsIn
  <2>5. HasNumber(z, o, 0, w)
    BY <2>3, <2>4 DEF HasNumber, s
  <2>6. QED
    BY <1>1, <2>5, NumberFound
<1>3. h.column_count = 0 /\ h.string_pool_offset = 8 /\ h.data_pool_offset = 8
  <2>1. NumberAt(z, 24, 2) = 0 /\ NumberAt(z, 12, 4) = 0 /\ NumberAt(z, 16, 4) = 0
    BY <1>2
  <2>2. QED
    BY <2>1 DEF TableHeader, HEADER_OFFSET
<1>4. columns.ok
  <2>1. columns = upto[0]
    BY <1>0 DEF new_columns
  <2>2. Solves(upto)
    <3> DEFINE g == [k \in 0 .. 0 |-> first]
    <3>1. g = [k \in 0 .. 0 |-> IF k = 0 THEN first ELSE
                  LET p == g[k - 1] IN IF p.ok THEN NextColumn(<<>>, p) ELSE p]
      OBVIOUS
    <3> HIDE DEF g
    <3>2. Solves(g)
      BY <3>1
    <3> HIDE DEF Solves
    <3>3. QED
      BY <3>2
  <2> HIDE DEF upto
  <2>3. upto[0] = first
    BY <2>2
  <2>4. QED
    BY <2>1, <2>3
<1>5. AcbHighTable(<<>>) = UncheckedTable(<<>>, h, columns, rows, strings)
  <2>1. columns = new_columns(<<>>, h.column_count)
    BY <1>3
  <2> HIDE DEF h, columns, rows, strings
  <2>2. QED
    BY <2>1, AcbHighTableIs DEF h, rows, strings, z
<1> HIDE DEF h, columns, rows, strings
<1>6. QED
  BY <1>0, <1>3, <1>4, <1>5 DEF UncheckedTable

(* In a table whose columns are all stored, the k-th stored one is the k-th.*)
LEMMA WordedStored ==
    ASSUME NEW t, NEW n, NEW word, NEW type, Worded(t, n, word, type), IsTable(t)
    PROVE  Len(Stored(t)) = n /\ \A c \in 1 .. n : Stored(t)[c] = c
<1>1. /\ Columns(t) = 1 .. n /\ n \in Nat
      /\ \A c \in 1 .. n : type[c] \in ToSet(TypeNames) /\ t.columns[c] = Stored50(type[c], word[c])
  BY DEF Worded
<1>2. StoredSet(t) = 1 .. n
  BY <1>1, ColumnOf DEF StoredSet
<1> DEFINE g == [c \in 1 .. n |-> c]
           S == 1 .. n
<1>3. S \in SUBSET Int /\ Lists(g, n, S)
  BY <1>1 DEF Lists
<1>4. Cardinality(S) = n /\ \A c \in 1 .. n : Nth(S, c) = g[c]
  <2> HIDE DEF g, S
  <2>1. QED
    BY <1>1, <1>3, NthIs
<1>5. \A c \in 1 .. n : Nth(S, c) = c
  BY <1>4
<1> HIDE DEF g, S
<1>6. Len(Stored(t)) = Cardinality(S)
      /\ \A k \in 1 .. Len(Stored(t)) : Stored(t)[k] = Nth(S, k)
  BY <1>2, StoredOnce DEF S
<1>7. QED
  BY <1>4, <1>5, <1>6

(* Data of the row of the file begins where the data before it ends.        *)
LEMMA HeaderData ==
    ASSUME NEW f \in Files
    PROVE  LET t == AcbTable(f)
               m == 2 + Len(Present(f))
           IN  /\ Len(Fields(t)) = m /\ m \in Nat
               /\ \A c \in 1 .. m : Fields(t)[c] = t.rows[1][c]
               /\ \A c \in 2 .. m : Got(t, AcbImage(f), 1, c).offset = Len(DataBefore(t, c))
<1> DEFINE t == AcbTable(f)
           b == AcbImage(f)
           n == Len(Present(f))
           m == 2 + n
<1>1. Worded(t, m, HeaderWords(f), HeaderTypes(f)) /\ n \in 0 .. 2 /\ Len(t.rows) = 1
  BY AcbTableFacts
<1>2. StartsWith(b, t) /\ IsTable(t)
  BY FileFacts DEF StartsWith, Sized
<1>t. \A c \in 2 .. m : HeaderTypes(f)[c] = "Data"
  <2>1. HeaderTypes(f) = [c \in 1 .. m |-> IF c = 1 THEN "String" ELSE "Data"]
    BY DEF HeaderTypes
  <2> HIDE DEF m
  <2>2. QED
    BY <2>1
<1> HIDE DEF t, b
<1>3. Len(Stored(t)) = m /\ m \in Nat /\ \A c \in 1 .. m : Stored(t)[c] = c
  <2>1. m \in Nat
    BY <1>1
  <2> HIDE DEF m, n
  <2>2. QED
    BY <1>1, <1>2, <2>1, WordedStored
<1> HIDE DEF m, n
<1>4. ASSUME NEW c \in 1 .. m
      PROVE  c \in 1 .. Len(Fields(t)) /\ Fields(t)[c] = t.rows[1][c]
  <2>1. 1 \in 1 .. Len(t.rows) /\ (1 - 1) * Len(Stored(t)) + c = c
    BY <1>1, <1>3
  <2>2. Fields(t)[(1 - 1) * Len(Stored(t)) + c] = t.rows[1][Stored(t)[c]]
        /\ (1 - 1) * Len(Stored(t)) + c \in 1 .. Len(Fields(t))
    BY <1>2, <1>3, <2>1, FieldsFacts
  <2>3. QED
    BY <1>3, <2>1, <2>2
<1>5. Len(Fields(t)) = m
  <2>1. Len(Fields(t)) = Len(t.rows) * Len(Stored(t))
    BY <1>2, FieldsFacts
  <2>2. QED
    BY <1>1, <1>3, <2>1
<1>6. ASSUME NEW c \in 2 .. m PROVE Got(t, b, 1, c).offset = Len(DataBefore(t, c))
  <2>1. c \in 1 .. m /\ 1 \in 1 .. Len(t.rows)
    BY <1>1, <1>3
  <2>2. IsField(t, 1, c) /\ TypeOf(t, c) = "Data"
    BY <1>1, <1>t, <2>1, WordedFields
  <2>3. PlaceOf(t, c) \in 1 .. m /\ Stored(t)[PlaceOf(t, c)] = c
    BY <1>2, <1>3, <2>2, Placed DEF IsField
  <2>4. PlaceOf(t, c) = c
    BY <1>3, <2>3
  <2>5. Got(t, b, 1, c).offset = FieldData(t, 1, PlaceOf(t, c))
    BY <1>2, <2>2, DataGot
  <2>6. FieldNo(t, 1, c) = c
    BY <1>3, <2>1 DEF FieldNo
  <2>7. QED
    BY <2>4, <2>5, <2>6 DEF FieldData
<1>7. QED
  BY <1>3, <1>4, <1>5, <1>6 DEF t, b, m, n

(* The data of a column that has none is where that of the next one is, and *)
(* that of the last one at the end of the file.                             *)
LEMMA NoDataPlaced ==
    ASSUME NEW f \in Files, NEW i \in 1 .. Len(Present(f)), Embedded(f, Present(f)[i]) = <<>>
    PROVE  LET t == AcbTable(f)
               b == AcbImage(f)
               n == Len(Present(f))
           IN  IF i = n THEN data_start(t) + Got(t, b, 1, 2 + i).offset = Len(b)
               ELSE /\ i + 1 \in 1 .. n
                    /\ Got(t, b, 1, 2 + i).offset = Got(t, b, 1, 2 + (i + 1)).offset
<1> DEFINE t == AcbTable(f)
           b == AcbImage(f)
           P == Present(f)
           n == Len(P)
           m == 2 + n
           c == 2 + i
<1>1. n \in 0 .. 2 /\ t.rows[1][c] = Value("Data", Embedded(f, P[i]))
  BY AcbTableFacts
<1>2. /\ Len(Fields(t)) = m /\ m \in Nat
      /\ \A d \in 1 .. m : Fields(t)[d] = t.rows[1][d]
      /\ \A d \in 2 .. m : Got(t, b, 1, d).offset = Len(DataBefore(t, d))
  BY HeaderData
<1>3. Sized(t) /\ IsTable(t)
  BY FileFacts DEF StartsWith, Sized
<1>4. b = Image(t)
  BY DEF AcbImage
<1> HIDE DEF t, b
<1>5. c \in 1 .. m /\ c \in 2 .. m /\ (i = n => c = m) /\ (i # n => i + 1 \in 1 .. n /\ 2 + (i + 1) = c + 1)
      /\ (i # n => c + 1 \in 2 .. m)
  BY <1>1
<1>6. DataOf(Fields(t)[c]) = <<>>
  <2>1. Value("Data", <<>>).type = "Data" /\ Value("Data", <<>>).v = <<>>
    BY DEF Value
  <2> HIDE DEF c, m, P
  <2>2. QED
    BY <1>1, <1>2, <1>5, <2>1 DEF DataOf, P
<1> HIDE DEF c, m, P, n
<1>7. Len(DataBefore(t, c + 1)) = Len(DataBefore(t, c))
  <2>1. Len(<<>>) = 0
    OBVIOUS
  <2>2. QED
    BY <1>2, <1>3, <1>5, <1>6, <2>1, DataStep
<1>8. CASE i = n
  <2>1. AllData(t) = DataBefore(t, c + 1)
    BY <1>2, <1>5, <1>8 DEF AllData
  <2>2. Len(Image(t)) = data_start(t) + Len(AllData(t))
    BY <1>3, Offsets
  <2>3. data_start(t) + Got(t, b, 1, c).offset = Len(b)
    BY <1>2, <1>4, <1>5, <1>7, <2>1, <2>2
  <2>4. QED
    BY <1>8, <2>3 DEF t, b, c, n, P
<1>9. CASE i # n
  <2>1. Got(t, b, 1, c).offset = Got(t, b, 1, c + 1).offset
    BY <1>2, <1>5, <1>7, <1>9
  <2>2. QED
    BY <1>5, <1>9, <2>1 DEF t, b, c, n, P
<1>10. QED
  BY <1>8, <1>9

-----------------------------------------------------------------------------
(* Tables found in the data.                                                *)

(* What follows a place where a table lies begins with it.                  *)
LEMMA Remainder ==
    ASSUME NEW t, Sized(t), NEW b \in Seq(Byte), NEW o \in Nat, Piece(b, o, Image(t))
    PROVE  StartsWith(Sub(b, o, Len(b)), t) /\ ~(o > Len(b))
<1> DEFINE I == Image(t)
           B == Len(b)
           l == Len(I)
           s == Sub(b, o, B)
<1>1. I \in Seq(Byte) /\ l \in Nat
  BY ImageStarts DEF Sized
<1>2. B \in Nat /\ o + l <= B /\ \A k \in 1 .. l : b[o + k] = I[k]
  BY LenProperties DEF Piece
<1> HIDE DEF I, B, l
<1>3. o <= B
  BY <1>1, <1>2
<1>4. s \in Seq(Byte) /\ Len(s) = B - o /\ \A k \in 1 .. B - o : s[k] = b[o + k]
  <2>1. B <= Len(b) /\ B \in Nat
    BY <1>2 DEF B
  <2>2. s \in Seq(Byte)
    BY <1>2, <2>1, SubType
  <2>3. Len(s) = B - o
    BY <1>3, <2>1, SubLen
  <2>4. \A k \in 1 .. B - o : s[k] = b[o + k]
    BY <2>1, SubAt
  <2>5. QED
    BY <2>2, <2>3, <2>4
<1> HIDE DEF s
<1>5. 0 + l <= Len(s) /\ \A k \in 1 .. l : s[0 + k] = I[k]
  <2>1. l <= B - o
    BY <1>1, <1>2
  <2>2. ASSUME NEW k \in 1 .. l PROVE s[0 + k] = I[k]
    <3>1. k \in 1 .. B - o /\ 0 + k = k
      BY <1>1, <1>2, <2>1
    <3>2. QED
      BY <1>2, <1>4, <3>1
  <2>3. QED
    BY <1>1, <1>4, <2>1, <2>2
<1>6. Piece(s, 0, I)
  BY <1>5 DEF Piece, l
<1>7. QED
  BY <1>2, <1>3, <1>4, <1>6 DEF StartsWith, s, I, B

(* Whatever data a column has, a table is read from where that data begins. *)
LEMMA GetTableAt ==
    ASSUME NEW f \in Files, header = HeaderOf(f), NEW i \in 1 .. Len(Present(f))
    PROVE  LET t == AcbTable(f)
               b == AcbImage(f)
               at == data_start(t) + Got(t, b, 1, 2 + i).offset
           IN  /\ at \in Nat
               /\ Piece(b, at, Embedded(f, Present(f)[i]))
               /\ get_table(Spell[Present(f)[i]])
                    = IF at > Len(b) THEN Panicked ELSE AcbHighTable(Sub(b, at, Len(b)))
<1> DEFINE t == AcbTable(f)
           b == AcbImage(f)
           P == Present(f)
           n == Len(P)
           c == 2 + i
           x == Got(t, b, 1, c)
           o == data_start(t) + x.offset
<1>1. /\ Worded(t, 2 + n, HeaderWords(f), HeaderTypes(f))
      /\ n \in 0 .. 2 /\ Len(t.rows) = 1
      /\ t.rows[1][c] = Value("Data", Embedded(f, P[i]))
  BY AcbTableFacts
<1>2. StartsWith(b, t)
  BY FileFacts
<1>3. c \in 1 .. 2 + n /\ HeaderWords(f)[c] = P[i] /\ HeaderTypes(f)[c] = "Data"
  <2>1. c \in 1 .. 2 + n /\ c # 1 /\ c # 2 /\ c - 2 = i
    BY <1>1
  <2> HIDE DEF c, n
  <2>2. QED
    BY <2>1 DEF HeaderWords, HeaderTypes, n
<1> HIDE DEF c
<1>4. IsField(t, 1, c) /\ TypeOf(t, c) = "Data" /\ t.columns[c].name = Spell[P[i]]
  <2>1. 1 \in 1 .. Len(t.rows)
    BY <1>1
  <2> HIDE DEF t, n
  <2>2. /\ IsField(t, 1, c) /\ TypeOf(t, c) = HeaderTypes(f)[c]
        /\ t.columns[c].name = Spell[HeaderWords(f)[c]]
    BY <1>1, <1>3, <2>1, WordedFields
  <2>3. QED
    BY <1>3, <2>2
<1>5. t.rows[1][c].v = Embedded(f, P[i])
  BY <1>1 DEF Value
<1>6. /\ x.type = "Data" /\ x.offset \in Nat /\ data_start(t) \in Nat
      /\ Piece(b, o, Embedded(f, P[i]))
  BY <1>2, <1>4, <1>5, DataGot
<1>7. get_value_header(header, Spell[P[i]]) = x
  BY <1>4 DEF get_value_header, HeaderOf, Got
<1>8. header.header.data_pool_offset = data_start(t) /\ header.alloc = b
  BY DEF HeaderOf, ReadAll, Table, ReadHeader
<1> HIDE DEF b, t, x, P, n
<1>9. get_table(Spell[P[i]]) = IF o > Len(b) THEN Panicked ELSE AcbHighTable(Sub(b, o, Len(b)))
  BY <1>6, <1>7, <1>8 DEF get_table
<1>10. QED
  BY <1>6, <1>9 DEF P, b, t, x, c

(* A table that is present is found and read.                               *)
LEMMA TableFound ==
    ASSUME NEW f \in Files, header = HeaderOf(f), NEW i \in 1 .. Len(Present(f)),
           NEW E, Sized(E), Embedded(f, Present(f)[i]) = Image(E)
    PROVE  IsRead(get_table(Spell[Present(f)[i]]), E)
<1> DEFINE b == AcbImage(f)
           o == data_start(AcbTable(f)) + Got(AcbTable(f), b, 1, 2 + i).offset
           s == Sub(b, o, Len(b))
<1>1. /\ o \in Nat /\ Piece(b, o, Image(E))
      /\ get_table(Spell[Present(f)[i]]) = IF o > Len(b) THEN Panicked ELSE AcbHighTable(s)
  BY GetTableAt
<1>2. b \in Seq(Byte)
  BY FileFacts DEF StartsWith
<1> HIDE DEF b, o
<1>3. StartsWith(s, E) /\ ~(o > Len(b))
  BY <1>1, <1>2, Remainder
<1>4. AcbHighTable(s) = ReadAll(E, s)
  <2> HIDE DEF s
  <2>1. QED
    BY <1>3, AcbTableRead DEF StartsWith
<1>5. QED
  BY <1>1, <1>3, <1>4 DEF IsRead

(* What a column without data leads to: a panic when it is the last, and    *)
(* what the next one leads to otherwise.                                    *)
LEMMA NoDataFound ==
    ASSUME NEW f \in Files, header = HeaderOf(f), NEW i \in 1 .. Len(Present(f)),
           Embedded(f, Present(f)[i]) = <<>>
    PROVE  LET n == Len(Present(f))
               T == get_table(Spell[Present(f)[i]])
           IN  IF i = n THEN T = Panicked
               ELSE i + 1 \in 1 .. n /\ T = get_table(Spell[Present(f)[i + 1]])
<1> DEFINE t == AcbTable(f)
           b == AcbImage(f)
           P == Present(f)
           n == Len(P)
           at(k) == data_start(t) + Got(t, b, 1, 2 + k).offset
           found(k) == get_table(Spell[P[k]])
<1>1. \A k \in 1 .. n : found(k) = IF at(k) > Len(b) THEN Panicked ELSE AcbHighTable(Sub(b, at(k), Len(b)))
  BY GetTableAt
<1>2. IF i = n THEN at(i) = Len(b) ELSE i + 1 \in 1 .. n /\ at(i) = at(i + 1)
  BY NoDataPlaced
<1>3. b \in Seq(Byte) /\ Len(b) \in Nat /\ i \in 1 .. n
  BY FileFacts, LenProperties DEF StartsWith
<1> HIDE DEF at, b, n, found
<1>4. CASE i = n
  <2>1. Sub(b, Len(b), Len(b)) = <<>>
    <3>1. Len(b) <= Len(b)
      BY <1>3
    <3>2. Sub(b, Len(b), Len(b)) \in Seq(Byte) /\ Len(Sub(b, Len(b), Len(b))) = Len(b) - Len(b)
      BY <1>3, <3>1, SubType, SubLen
    <3>3. QED
      BY <1>3, <3>2, EmptySeq
  <2>2. ~(Len(b) > Len(b))
    BY <1>3
  <2>3. found(i) = Panicked
    BY <1>1, <1>2, <1>4, <2>1, <2>2, EmptyPanics
  <2>4. QED
    BY <1>4, <2>3 DEF found, n, P
<1>5. CASE i # n
  <2>1. at(i) = at(i + 1) /\ i + 1 \in 1 .. n
    BY <1>2, <1>5
  <2>3. found(i) = IF at(i) > Len(b) THEN Panicked ELSE AcbHighTable(Sub(b, at(i), Len(b)))
    BY <1>1, <1>3
  <2>4. found(i + 1) = IF at(i) > Len(b) THEN Panicked ELSE AcbHighTable(Sub(b, at(i), Len(b)))
    BY <1>1, <2>1
  <2>5. found(i) = found(i + 1)
    BY <2>3, <2>4
  <2>6. QED
    BY <1>5, <2>1, <2>5 DEF found, n, P
<1>6. QED
  BY <1>4, <1>5

(* One that is not present is not found.                                    *)
LEMMA TableMissing ==
    ASSUME NEW f \in Files, header = HeaderOf(f), NEW m \in Words \ {"Name", "AcfMd5Hash"},
           \A i \in 1 .. Len(Present(f)) : Present(f)[i] # m
    PROVE  get_table(Spell[m]) = NoTable
<1> DEFINE t == AcbTable(f)
           b == AcbImage(f)
           P == Present(f)
           n == Len(P)
           word == HeaderWords(f)
<1>1. Worded(t, 2 + n, word, HeaderTypes(f)) /\ n \in 0 .. 2
  BY AcbTableFacts
<1>2. StartsWith(b, t)
  BY FileFacts
<1>3. ASSUME NEW c \in 1 .. 2 + n PROVE word[c] # m
  <2>1. word[c] = IF c = 1 THEN "Name" ELSE IF c = 2 THEN "AcfMd5Hash" ELSE P[c - 2]
    BY DEF HeaderWords
  <2>2. c = 1 \/ c = 2 \/ (c # 1 /\ c # 2 /\ c - 2 \in 1 .. n)
    BY <1>1
  <2> HIDE DEF word, P, n
  <2>3. QED
    BY <2>1, <2>2 DEF P, n
<1>4. Spell[m] \in Seq(Char)
  BY WordFacts
<1> HIDE DEF t, b, word, n
<1>5. OfName(t, Spell[m]) = {}
  BY <1>1, <1>3, WordedFields
<1>6. get_value(ReadAll(t, b), 1, Spell[m]) = NoValue
  BY <1>2, <1>4, <1>5, NoneGot
<1>7. get_value_header(header, Spell[m]) = NoValue
  BY <1>6 DEF get_value_header, HeaderOf, t, b
<1>8. NoValue.type # "Data"
  BY DEF NoValue
<1>9. QED
  BY <1>7, <1>8 DEF get_table, NoTable

-----------------------------------------------------------------------------
(* AcbReader::new.                                                         *)

(* The cue table and the name table of a file, as they are read.            *)
IsCues(f, T) == IF f.cues = None THEN T = NoTable ELSE IsRead(T, CueTable(f.cues))
IsNames(f, T) == IF f.names = None THEN T = NoTable ELSE IsRead(T, CueNameTable(f.names))

(* The four tables of the reader.  A column without data is followed by the *)
(* names, or ends the file.                                                 *)
LEMMA TablesFound ==
    ASSUME NEW f \in Files, header = HeaderOf(f)
    PROVE  /\ f.cues # NoData => IsCues(f, get_table(Spell["CueTable"]))
           /\ f.cues = NoData =>
                IF EndsEmpty(f) THEN get_table(Spell["CueTable"]) = Panicked
                ELSE IsRead(get_table(Spell["CueTable"]), CueNameTable(f.names))
           /\ f.names # NoData => IsNames(f, get_table(Spell["CueNameTable"]))
           /\ f.names = NoData => get_table(Spell["CueNameTable"]) = Panicked
           /\ get_table(Spell["WaveformTable"]) = NoTable
           /\ get_table(Spell["SequenceTable"]) = NoTable
<1> DEFINE P == Present(f)
           n == Len(P)
<1>1. /\ \A i \in 1 .. n :
            \/ P[i] = "CueTable" /\ f.cues # None
            \/ P[i] = "CueNameTable" /\ f.names # None
      /\ f.cues # None => \E i \in 1 .. n : P[i] = "CueTable"
      /\ f.names # None => \E i \in 1 .. n : P[i] = "CueNameTable"
  BY PresentFacts
<1>2. {"CueTable", "CueNameTable", "WaveformTable", "SequenceTable"} \subseteq Words \ {"Name", "AcfMd5Hash"}
  BY DEF Words
<1>3. \A i \in 1 .. n :
        /\ P[i] = "CueNameTable" => i = n
        /\ P[i] = "CueTable" => IF f.names = None THEN i = n ELSE i # n /\ P[i + 1] = "CueNameTable"
  BY PresentFacts
<1> HIDE DEF P, n
<1>4. f.names # NoData => IsNames(f, get_table(Spell["CueNameTable"]))
  <2>1. CASE f.names = None
    <3>1. \A i \in 1 .. n : P[i] # "CueNameTable"
      BY <1>1, <2>1
    <3>2. get_table(Spell["CueNameTable"]) = NoTable
      BY <1>2, <3>1, TableMissing DEF P, n
    <3>3. QED
      BY <2>1, <3>2 DEF IsNames
  <2>2. CASE HasTable(f.names)
    <3>1. PICK i \in 1 .. n : P[i] = "CueNameTable"
      BY <1>1, <2>2 DEF HasTable
    <3>2. Sized(CueNameTable(f.names))
      BY <2>2, FileFacts
    <3>3. Embedded(f, Present(f)[i]) = Image(CueNameTable(f.names))
      BY <2>2, <3>1 DEF Embedded, P, HasTable
    <3>4. IsRead(get_table(Spell[P[i]]), CueNameTable(f.names))
      BY <3>2, <3>3, TableFound DEF P, n
    <3>5. QED
      BY <2>2, <3>1, <3>4 DEF IsNames, HasTable
  <2>3. QED
    BY <2>1, <2>2 DEF HasTable
<1>7. ASSUME f.names = NoData PROVE get_table(Spell["CueNameTable"]) = Panicked
  <2>1. PICK i \in 1 .. n : P[i] = "CueNameTable"
    BY <1>1, <1>7, AcbAssumption
  <2>2. Embedded(f, Present(f)[i]) = <<>>
    BY <1>7, <2>1 DEF Embedded, P
  <2>3. i = n
    BY <1>3, <2>1
  <2>4. QED
    BY <2>1, <2>2, <2>3, NoDataFound DEF P, n
<1>8. f.cues # NoData => IsCues(f, get_table(Spell["CueTable"]))
  <2>1. CASE f.cues = None
    <3>1. \A i \in 1 .. n : P[i] # "CueTable"
      BY <1>1, <2>1
    <3>2. get_table(Spell["CueTable"]) = NoTable
      BY <1>2, <3>1, TableMissing DEF P, n
    <3>3. QED
      BY <2>1, <3>2 DEF IsCues
  <2>2. CASE HasTable(f.cues)
    <3>1. PICK i \in 1 .. n : P[i] = "CueTable"
      BY <1>1, <2>2 DEF HasTable
    <3>2. Sized(CueTable(f.cues))
      BY <2>2, FileFacts
    <3>3. Embedded(f, Present(f)[i]) = Image(CueTable(f.cues))
      BY <2>2, <3>1 DEF Embedded, P, HasTable
    <3>4. IsRead(get_table(Spell[P[i]]), CueTable(f.cues))
      BY <3>2, <3>3, TableFound DEF P, n
    <3>5. QED
      BY <2>2, <3>1, <3>4 DEF IsCues, HasTable
  <2>3. QED
    BY <2>1, <2>2 DEF HasTable
<1>9. ASSUME f.cues = NoData
      PROVE  IF EndsEmpty(f) THEN get_table(Spell["CueTable"]) = Panicked
             ELSE IsRead(get_table(Spell["CueTable"]), CueNameTable(f.names))
  <2>1. PICK i \in 1 .. n : P[i] = "CueTable"
    BY <1>1, <1>9, AcbAssumption
  <2>2. Embedded(f, Present(f)[i]) = <<>>
    BY <1>9, <2>1 DEF Embedded, P
  <2>3. IF i = n THEN get_table(Spell["CueTable"]) = Panicked
        ELSE i + 1 \in 1 .. n /\ get_table(Spell["CueTable"]) = get_table(Spell[P[i + 1]])
    BY <2>1, <2>2, NoDataFound DEF P, n
  <2>4. CASE f.names = None
    BY <1>3, <1>9, <2>1, <2>3, <2>4 DEF EndsEmpty
  <2>5. CASE f.names # None
    <3>1. get_table(Spell["CueTable"]) = get_table(Spell["CueNameTable"])
      BY <1>3, <2>1, <2>3, <2>5
    <3>2. f.names = NoData => EndsEmpty(f) /\ get_table(Spell["CueNameTable"]) = Panicked
      BY <1>7 DEF EndsEmpty
    <3>3. f.names # NoData => ~EndsEmpty(f) /\ IsRead(get_table(Spell["CueNameTable"]), CueNameTable(f.names))
      BY <1>4, <2>5 DEF EndsEmpty, IsNames
    <3>4. QED
      BY <3>1, <3>2, <3>3
  <2>6. QED
    BY <2>4, <2>5
<1>5. ASSUME NEW m \in {"WaveformTable", "SequenceTable"} PROVE get_table(Spell[m]) = NoTable
  <2>1. \A i \in 1 .. n : P[i] # m
    BY <1>1
  <2>2. m \in Words \ {"Name", "AcfMd5Hash"}
    BY <1>2
  <2>3. QED
    BY <2>1, <2>2, TableMissing DEF P, n
<1>6. QED
  BY <1>4, <1>5, <1>7, <1>8, <1>9

(* A cue of the cue table is its id.                                        *)
LEMMA CueRead ==
    ASSUME NEW f \in Files, HasTable(f.cues), NEW T, IsRead(T, CueTable(f.cues))
    PROVE  /\ T.outcome = "table" /\ DOMAIN T.rows = 1 .. Len(f.cues)
           /\ \A r \in 1 .. Len(f.cues) : get_value(T, r, Spell["CueId"]) = Value("UInt32", f.cues[r])
<1> DEFINE t == CueTable(f.cues)
           n == Len(f.cues)
<1>1. DOMAIN f.cues = 1 .. n /\ n \in Nat
  BY FileFacts
<1>2. /\ Worded(t, 2, CueWords, CueTypes) /\ Len(t.rows) = n
      /\ \A r \in 1 .. n : t.rows[r][1] = Value("UInt32", f.cues[r])
  <2> HIDE DEF n
  <2>1. QED
    BY <1>1, CueTableFacts
<1>3. PICK b : StartsWith(b, t) /\ T = ReadAll(t, b)
  BY DEF IsRead
<1>4. T.outcome = "table" /\ DOMAIN T.rows = 1 .. n
  BY <1>2, <1>3 DEF ReadAll, Table, ReadRows
<1>5. CueWords[1] = "CueId" /\ CueTypes[1] = "UInt32" /\ 1 \in 1 .. 2 /\ "UInt32" \in Numeric
  BY DEF CueWords, CueTypes, Numeric, Types
<1> HIDE DEF t, n
<1>6. ASSUME NEW r \in 1 .. n PROVE get_value(T, r, Spell["CueId"]) = Value("UInt32", f.cues[r])
  <2>1. IsField(t, r, 1) /\ TypeOf(t, 1) = CueTypes[1] /\ t.columns[1].name = Spell[CueWords[1]]
    BY <1>2, <1>5, WordedFields
  <2>2. Got(t, b, r, 1) = t.rows[r][1]
    BY <1>3, <1>5, <2>1, NumberGot
  <2>3. QED
    BY <1>2, <1>3, <1>5, <2>1, <2>2 DEF Got
<1>7. QED
  BY <1>4, <1>6 DEF n

(* A name of the name table is found in its row, with its index.            *)
LEMMA NameRead ==
    ASSUME NEW f \in Files, HasTable(f.names), NEW T, IsRead(T, CueNameTable(f.names))
    PROVE  /\ T.outcome = "table" /\ DOMAIN T.rows = 1 .. Len(f.names)
           /\ \A r \in 1 .. Len(f.names) :
                /\ NameAt(T, r) = f.names[r].name /\ f.names[r].name # NoString
                /\ get_value(T, r, Spell["CueIndex"]) = Value("UInt16", f.names[r].index)
                /\ f.names[r].index \in Nat
<1> DEFINE t == CueNameTable(f.names)
           n == Len(f.names)
<1>1. DOMAIN f.names = 1 .. n /\ n \in Nat
  BY FileFacts
<1>2. /\ Worded(t, 2, NameWords, NameTypes) /\ Len(t.rows) = n
      /\ \A r \in 1 .. n : /\ t.rows[r][1] = Value("String", f.names[r].name)
                           /\ t.rows[r][2] = Value("UInt16", f.names[r].index)
  <2> HIDE DEF n
  <2>1. QED
    BY <1>1, CueNameTableFacts
<1>3. PICK b : StartsWith(b, t) /\ T = ReadAll(t, b)
  BY DEF IsRead
<1>4. T.outcome = "table" /\ DOMAIN T.rows = 1 .. n /\ T.strings = StringsOf(t)
  BY <1>2, <1>3 DEF ReadAll, Table, ReadRows
<1>5. /\ NameWords[1] = "CueName" /\ NameTypes[1] = "String" /\ 1 \in 1 .. 2
      /\ NameWords[2] = "CueIndex" /\ NameTypes[2] = "UInt16" /\ 2 \in 1 .. 2 /\ "UInt16" \in Numeric
  BY DEF NameWords, NameTypes, Numeric, Types
<1> HIDE DEF t, n
<1>6. ASSUME NEW r \in 1 .. n
      PROVE  /\ NameAt(T, r) = f.names[r].name /\ f.names[r].name # NoString
             /\ get_value(T, r, Spell["CueIndex"]) = Value("UInt16", f.names[r].index)
             /\ f.names[r].index \in Nat
  <2>1. /\ IsField(t, r, 1) /\ TypeOf(t, 1) = NameTypes[1] /\ t.columns[1].name = Spell[NameWords[1]]
        /\ IsField(t, r, 2) /\ TypeOf(t, 2) = NameTypes[2] /\ t.columns[2].name = Spell[NameWords[2]]
    BY <1>2, <1>5, WordedFields
  <2>2. /\ Got(t, b, r, 1).type = "String"
        /\ get_string(StringsOf(t), Got(t, b, r, 1).v) = t.rows[r][1].v
        /\ t.rows[r][1].v # NoString
    BY <1>3, <1>5, <2>1, StringGot
  <2>3. Got(t, b, r, 2) = t.rows[r][2]
    BY <1>3, <1>5, <2>1, NumberGot
  <2>4. t.rows[r][1].v = f.names[r].name
    <3>1. \A type, x : Value(type, x).v = x
      BY DEF Value
    <3>2. QED
      BY <1>2, <3>1
  <2>5. get_value(T, r, Spell["CueName"]) = Got(t, b, r, 1)
    BY <1>3, <1>5, <2>1 DEF Got
  <2>6. NameAt(T, r) = f.names[r].name
    BY <1>4, <2>2, <2>4, <2>5 DEF NameAt
  <2>7. get_value(T, r, Spell["CueIndex"]) = Value("UInt16", f.names[r].index)
    BY <1>2, <1>3, <1>5, <2>1, <2>3 DEF Got
  <2>8. t.rows[r][2].v \in Nat
    <3>1. TypeOf(t, 2) = "UInt16"
      BY <1>5, <2>1
    <3>2. PICK at \in Nat : Storable(Strings(t), TypeOf(t, 2), t.rows[r][2], at)
      BY <1>3, <2>1, FieldGot
    <3>3. QED
      BY <1>5, <3>1, <3>2, ValueFacts DEF Storable
  <2>9. t.rows[r][2].v = f.names[r].index
    <3>1. \A type, x : Value(type, x).v = x
      BY DEF Value
    <3>2. QED
      BY <1>2, <3>1
  <2>10. QED
    BY <2>2, <2>4, <2>6, <2>7, <2>8, <2>9
<1>7. QED
  BY <1>4, <1>6 DEF n

-----------------------------------------------------------------------------
(* The maps of the reader.                                                 *)

NameMap(f) ==
    LET s == Entries(f.names)
    IN  Keyed(DOMAIN s, [r \in DOMAIN s |-> s[r].name], [r \in DOMAIN s |-> s[r].index])
IdMap(f) ==
    LET s == Entries(f.cues)
    IN  Keyed(DOMAIN s, [r \in DOMAIN s |-> s[r]], [r \in DOMAIN s |-> r - 1])

(* The names of a file, each with its index.                                *)
LEMMA NamesMapped ==
    ASSUME NEW f \in Files, f.names # NoData, NEW T, IsNames(f, T)
    PROVE  cue_name_to_index(T) = NameMap(f)
<1> DEFINE s == Entries(f.names)
           index(r) == get_value(T, r, Spell["CueIndex"])
           rows == {r \in RowsOf(T) : NameAt(T, r) # NoString /\ index(r).type = "UInt16"}
<1>1. /\ rows = DOMAIN s
      /\ \A r \in DOMAIN s : NameAt(T, r) = s[r].name /\ index(r).v = s[r].index
  <2>1. CASE f.names = None
    <3>1. T.outcome # "table"
      BY <2>1 DEF IsNames, NoTable
    <3>2. s = <<>>
      BY <2>1 DEF Entries
    <3>3. DOMAIN s = {} /\ RowsOf(T) = {}
      BY <3>1, <3>2 DEF RowsOf
    <3> HIDE DEF s, index
    <3>4. QED
      BY <3>3
  <2>2. CASE HasTable(f.names)
    <3>1. /\ T.outcome = "table" /\ DOMAIN T.rows = 1 .. Len(f.names)
          /\ \A r \in 1 .. Len(f.names) :
                /\ NameAt(T, r) = f.names[r].name /\ f.names[r].name # NoString
                /\ index(r) = Value("UInt16", f.names[r].index)
      BY <2>2, NameRead DEF IsNames, HasTable
    <3>2. s = f.names /\ DOMAIN s = 1 .. Len(f.names)
      BY <2>2, FileFacts DEF Entries, HasTable
    <3>3. RowsOf(T) = DOMAIN s
      BY <3>1, <3>2 DEF RowsOf
    <3>4. \A type, x : Value(type, x).type = type /\ Value(type, x).v = x
      BY DEF Value
    <3> HIDE DEF s, index
    <3>5. QED
      BY <3>1, <3>2, <3>3, <3>4
  <2>3. QED
    BY <2>1, <2>2 DEF HasTable
<1>2. cue_name_to_index(T)
        = Keyed(rows, [r \in rows |-> NameAt(T, r)], [r \in rows |-> index(r).v])
  BY DEF cue_name_to_index
<1> HIDE DEF s, index, rows
<1>3. /\ [r \in rows |-> NameAt(T, r)] = [r \in DOMAIN s |-> s[r].name]
      /\ [r \in rows |-> index(r).v] = [r \in DOMAIN s |-> s[r].index]
  BY <1>1
<1>4. QED
  BY <1>1, <1>2, <1>3 DEF NameMap, s

(* The ids of a file, each with its row.                                    *)
LEMMA IdsMapped ==
    ASSUME NEW f \in Files, f.cues # NoData, NEW T, IsCues(f, T)
    PROVE  cue_id_to_index(T) = IdMap(f)
<1> DEFINE s == Entries(f.cues)
           id(r) == get_value(T, r, Spell["CueId"])
           rows == {r \in RowsOf(T) : id(r).type = "UInt32"}
<1>1. rows = DOMAIN s /\ \A r \in DOMAIN s : id(r).v = s[r]
  <2>1. CASE f.cues = None
    <3>1. T.outcome # "table"
      BY <2>1 DEF IsCues, NoTable
    <3>2. s = <<>>
      BY <2>1 DEF Entries
    <3>3. DOMAIN s = {} /\ RowsOf(T) = {}
      BY <3>1, <3>2 DEF RowsOf
    <3> HIDE DEF s, id
    <3>4. QED
      BY <3>3
  <2>2. CASE HasTable(f.cues)
    <3>1. /\ T.outcome = "table" /\ DOMAIN T.rows = 1 .. Len(f.cues)
          /\ \A r \in 1 .. Len(f.cues) : id(r) = Value("UInt32", f.cues[r])
      BY <2>2, CueRead DEF IsCues, HasTable
    <3>2. s = f.cues /\ DOMAIN s = 1 .. Len(f.cues)
      BY <2>2, FileFacts DEF Entries, HasTable
    <3>3. RowsOf(T) = DOMAIN s
      BY <3>1, <3>2 DEF RowsOf
    <3>4. \A type, x : Value(type, x).type = type /\ Value(type, x).v = x
      BY DEF Value
    <3> HIDE DEF s, id
    <3>5. QED
      BY <3>1, <3>2, <3>3, <3>4
  <2>3. QED
    BY <2>1, <2>2 DEF HasTable
<1>2. cue_id_to_index(T) = Keyed(rows, [r \in rows |-> id(r).v], [r \in rows |-> r - 1])
  BY DEF cue_id_to_index
<1> HIDE DEF s, id, rows
<1>3. /\ [r \in rows |-> id(r).v] = [r \in DOMAIN s |-> s[r]]
      /\ [r \in rows |-> r - 1] = [r \in DOMAIN s |-> r - 1]
  BY <1>1
<1>4. QED
  BY <1>1, <1>2, <1>3 DEF IdMap, s

(* The reader of a file whose columns all have data.                        *)
KnownReader(f, R) ==
    /\ R.header = HeaderOf(f)
    /\ IsCues(f, R.cue_tbl) /\ IsNames(f, R.cue_name_tbl)
    /\ R.cue_name_to_index = NameMap(f) /\ R.cue_id_to_index = IdMap(f)

(* Every file is opened, but for those that end with a column without data. *)
LEMMA NewReader ==
    ASSUME NEW f \in Files, header = HeaderOf(f)
    PROVE  /\ new.outcome = IF EndsEmpty(f) THEN "panic" ELSE "reader"
           /\ ~EndsEmpty(f) => new.header = HeaderOf(f)
           /\ HasData(f) => KnownReader(f, new)
<1> DEFINE A == get_table(Spell["CueTable"])
           B == get_table(Spell["CueNameTable"])
           tables == [i \in DOMAIN Tables |-> get_table(Spell[Tables[i]])]
           failed == {i \in DOMAIN tables : tables[i].outcome \notin {"none", "table"}}
           R == [outcome |-> "reader", header |-> header, cue_tbl |-> tables[1],
                 cue_name_tbl |-> tables[2],
                 cue_name_to_index |-> cue_name_to_index(tables[2]),
                 cue_id_to_index |-> cue_id_to_index(tables[1])]
<1>1. /\ f.cues # NoData => IsCues(f, A)
      /\ f.cues = NoData => IF EndsEmpty(f) THEN A = Panicked ELSE IsRead(A, CueNameTable(f.names))
      /\ f.names # NoData => IsNames(f, B)
      /\ f.names = NoData => B = Panicked
      /\ get_table(Spell["WaveformTable"]) = NoTable /\ get_table(Spell["SequenceTable"]) = NoTable
  BY TablesFound
<1>2. \A T, t : IsRead(T, t) => T.outcome = "table"
  BY DEF IsRead, ReadAll, Table
<1>3. NoTable.outcome = "none" /\ Panicked.outcome = "panic"
  BY DEF NoTable, Panicked
<1>4. /\ A.outcome \in {"table", "none", "panic"} /\ B.outcome \in {"table", "none", "panic"}
      /\ EndsEmpty(f) => A.outcome = "panic" \/ B.outcome = "panic"
      /\ ~EndsEmpty(f) => A.outcome \in {"table", "none"} /\ B.outcome \in {"table", "none"}
  <2> HIDE DEF A, B
  <2>1. f.cues # NoData => A.outcome \in {"table", "none"}
    BY <1>1, <1>2, <1>3 DEF IsCues
  <2>2. f.names # NoData => B.outcome \in {"table", "none"}
    BY <1>1, <1>2, <1>3 DEF IsNames
  <2>3. f.cues = NoData => A.outcome = IF EndsEmpty(f) THEN "panic" ELSE "table"
    BY <1>1, <1>2, <1>3
  <2>4. f.names = NoData => B.outcome = "panic"
    BY <1>1, <1>3
  <2>5. EndsEmpty(f) <=> f.names = NoData \/ (f.cues = NoData /\ f.names = None)
    BY DEF EndsEmpty
  <2>6. QED
    BY <2>1, <2>2, <2>3, <2>4, <2>5
<1>5. DOMAIN Tables = 1 .. 4 /\ Tables[1] = "CueTable" /\ Tables[2] = "CueNameTable"
      /\ Tables[3] = "WaveformTable" /\ Tables[4] = "SequenceTable"
  BY DEF Tables
<1>6. /\ DOMAIN tables = 1 .. 4 /\ tables[1] = A /\ tables[2] = B
      /\ tables[3] = NoTable /\ tables[4] = NoTable
  BY <1>1, <1>5
<1>7. header.outcome = "table" /\ header.rows # <<>>
  <2>1. header.outcome = "table" /\ DOMAIN header.rows = 1 .. Len(AcbTable(f).rows)
    BY DEF HeaderOf, ReadAll, Table, ReadRows
  <2>2. DOMAIN header.rows = 1 .. 1
    BY <2>1, AcbTableFacts
  <2>3. 1 \in DOMAIN header.rows
    BY <2>2
  <2>4. DOMAIN <<>> = {}
    OBVIOUS
  <2>5. QED
    BY <2>1, <2>3, <2>4
<1>8. new = IF failed # {} THEN tables[CHOOSE i \in failed : \A j \in failed : i <= j] ELSE R
  BY <1>7 DEF new
<1>9. \A i \in 1 .. 4 : i = 1 \/ i = 2 \/ i = 3 \/ i = 4
  OBVIOUS
<1>12. /\ R.outcome = "reader" /\ R.header = header /\ R.cue_tbl = A /\ R.cue_name_tbl = B
       /\ R.cue_name_to_index = cue_name_to_index(B) /\ R.cue_id_to_index = cue_id_to_index(A)
  BY <1>6 DEF R
<1> HIDE DEF A, B, tables, R
<1>10. CASE EndsEmpty(f)
  <2> DEFINE first == CHOOSE i \in failed : \A j \in failed : i <= j
  <2>1. failed \subseteq 1 .. 4 /\ failed # {}
    BY <1>4, <1>6, <1>10
  <2>2. first \in failed
    <3> DEFINE T == failed
    <3>1. T \in SUBSET Nat /\ T # {}
      BY <2>1
    <3> HIDE DEF T
    <3>2. \E i \in T : \A j \in T : i <= j
      BY <3>1, LeastNatural
    <3>3. (CHOOSE i \in T : \A j \in T : i <= j) \in T
      BY <3>2
    <3>4. QED
      BY <3>3 DEF T
  <2>3. new = tables[first]
    BY <1>8, <2>1
  <2> HIDE DEF first
  <2>4. tables[first].outcome \notin {"none", "table"} /\ first \in 1 .. 4
    BY <2>1, <2>2
  <2>5. tables[first].outcome \in {"table", "none", "panic"}
    BY <1>3, <1>4, <1>6, <1>9, <2>4
  <2>6. new.outcome = "panic"
    BY <2>3, <2>4, <2>5
  <2>7. HasData(f) => FALSE
    BY <1>10 DEF HasData, EndsEmpty
  <2>8. QED
    BY <1>10, <2>6, <2>7
<1>11. CASE ~EndsEmpty(f)
  <2>1. \A i \in 1 .. 4 : tables[i].outcome \in {"table", "none"}
    BY <1>3, <1>4, <1>6, <1>9, <1>11
  <2>2. failed = {}
    BY <1>6, <2>1
  <2>3. new = R
    BY <1>8, <2>2
  <2>4. HasData(f) => KnownReader(f, R)
    <3>1. SUFFICES ASSUME HasData(f) PROVE KnownReader(f, R)
      OBVIOUS
    <3>2. f.cues # NoData /\ f.names # NoData
      BY <3>1 DEF HasData
    <3>3. cue_name_to_index(B) = NameMap(f) /\ cue_id_to_index(A) = IdMap(f)
      BY <1>1, <3>2, NamesMapped, IdsMapped
    <3>4. QED
      BY <1>1, <1>12, <3>2, <3>3 DEF KnownReader
  <2>5. QED
    BY <1>11, <1>12, <2>3, <2>4
<1>13. QED
  BY <1>10, <1>11

(* The last of the rows with a key.                                         *)
LastWith(n, key, k, r) == r \in 1 .. n /\ key[r] = k /\ \A q \in 1 .. n : key[q] = k => q <= r

(* Of the rows with a key there is a last one.                              *)
LEMMA LastRow ==
    ASSUME NEW n \in Nat, NEW key, NEW k, NEW r \in 1 .. n, key[r] = k
    PROVE  \E last \in 1 .. n : LastWith(n, key, k, last)
<1> DEFINE S == {q \in 1 .. n : key[q] = k}
           T == {n - q : q \in S}
<1>1. T \in SUBSET Nat /\ n - r \in T
  OBVIOUS
<1> HIDE DEF T
<1>2. PICK m \in T : \A x \in T : m <= x
  BY <1>1, LeastNatural
<1>3. PICK last \in S : m = n - last
  BY <1>2 DEF T
<1>4. ASSUME NEW q \in S PROVE q <= last
  <2>1. n - q \in T
    BY DEF T
  <2>2. n - last <= n - q
    BY <1>2, <1>3, <2>1
  <2>3. q \in 1 .. n /\ last \in 1 .. n
    OBVIOUS
  <2>4. QED
    BY <2>2, <2>3
<1>5. QED
  BY <1>3, <1>4 DEF LastWith

(* What is kept for a key is the item of the last row that has it.          *)
LEMMA KeyedFacts ==
    ASSUME NEW n, NEW key, NEW item, NEW k, NEW last, LastWith(n, key, k, last), n \in Nat
    PROVE  k \in DOMAIN Keyed(1 .. n, key, item) /\ Keyed(1 .. n, key, item)[k] = item[last]
<1> DEFINE K == Keyed(1 .. n, key, item)
           D == {key[r] : r \in 1 .. n}
           row(x) == CHOOSE r \in 1 .. n : key[r] = x /\ \A q \in 1 .. n : key[q] = x => q <= r
<1>1. K = [x \in D |-> item[row(x)]]
  BY DEF Keyed
<1> HIDE DEF K
<1>2. last \in 1 .. n
  BY DEF LastWith
<1>3. k \in D
  BY <1>2 DEF LastWith
<1>4. row(k) \in 1 .. n /\ LastWith(n, key, k, row(k))
  BY <1>2 DEF LastWith
<1> HIDE DEF row, D
<1>5. row(k) = last
  BY <1>2, <1>4 DEF LastWith
<1>6. QED
  BY <1>1, <1>3, <1>5 DEF K

-----------------------------------------------------------------------------
(* The lookups of the reader.                                              *)

(* The name of the file.                                                    *)
LEMMA NameOfFile ==
    ASSUME NEW f \in Files, NEW R, R.header = HeaderOf(f)
    PROVE  get_name(R) = Found(f.name)
<1> DEFINE t == AcbTable(f)
           b == AcbImage(f)
           n == Len(Present(f))
           x == Got(t, b, 1, 1)
<1>1. /\ Worded(t, 2 + n, HeaderWords(f), HeaderTypes(f))
      /\ n \in 0 .. 2 /\ Len(t.rows) = 1
      /\ t.rows[1][1] = Value("String", f.name)
  BY AcbTableFacts
<1>2. StartsWith(b, t)
  BY FileFacts
<1>3. 1 \in 1 .. 2 + n /\ 1 \in 1 .. Len(t.rows)
  BY <1>1
<1>4. HeaderWords(f)[1] = "Name" /\ HeaderTypes(f)[1] = "String"
  BY <1>3 DEF HeaderWords, HeaderTypes
<1>5. R.header = ReadAll(t, b) /\ R.header.strings = StringsOf(t)
  BY DEF HeaderOf, ReadAll, Table
<1> HIDE DEF t, b, n
<1>6. IsField(t, 1, 1) /\ TypeOf(t, 1) = "String" /\ t.columns[1].name = Spell["Name"]
  <2> DEFINE m == 2 + n
  <2>0. Worded(t, m, HeaderWords(f), HeaderTypes(f)) /\ 1 \in 1 .. m
    BY <1>1, <1>3
  <2> HIDE DEF m
  <2>1. /\ IsField(t, 1, 1) /\ TypeOf(t, 1) = HeaderTypes(f)[1]
        /\ t.columns[1].name = Spell[HeaderWords(f)[1]]
    BY <1>3, <2>0, WordedFields
  <2>2. QED
    BY <1>4, <2>1
<1>7. /\ x.type = "String" /\ get_string(StringsOf(t), x.v) = t.rows[1][1].v
      /\ t.rows[1][1].v # NoString
  BY <1>2, <1>6, StringGot
<1>8. get_value_header(R.header, Spell["Name"]) = x
  BY <1>5, <1>6 DEF get_value_header, Got
<1>9. t.rows[1][1].v = f.name
  <2>1. \A type, y : Value(type, y).v = y
    BY DEF Value
  <2>2. QED
    BY <1>1, <2>1
<1> HIDE DEF x
<1>10. QED
  BY <1>5, <1>7, <1>8, <1>9 DEF get_name

(* Names and ids of a file, by row.                                         *)
NameKey(f) == [r \in DOMAIN f.names |-> f.names[r].name]
NameLast(f, n, r) == LastWith(Len(f.names), NameKey(f), n, r)

(* The map of names of a file that has names.                               *)
LEMMA NameMapFacts ==
    ASSUME NEW f \in Files
    PROVE  /\ DOMAIN NameMap(f) = {Entries(f.names)[r].name : r \in DOMAIN Entries(f.names)}
           /\ \A r, n : HasTable(f.names) /\ NameLast(f, n, r) =>
                n \in DOMAIN NameMap(f) /\ NameMap(f)[n] = f.names[r].index
<1> DEFINE s == Entries(f.names)
           D == DOMAIN s
           key == [r \in D |-> s[r].name]
           item == [r \in D |-> s[r].index]
<1>1. NameMap(f) = Keyed(D, key, item)
  BY DEF NameMap
<1>2. DOMAIN NameMap(f) = {s[r].name : r \in D}
  BY <1>1 DEF Keyed
<1>3. ASSUME NEW r, NEW n, HasTable(f.names), NameLast(f, n, r)
      PROVE  n \in DOMAIN NameMap(f) /\ NameMap(f)[n] = f.names[r].index
  <2> DEFINE l == Len(f.names)
  <2>1. s = f.names /\ D = 1 .. l /\ l \in Nat
    BY <1>3, FileFacts DEF Entries, HasTable
  <2>2. NameKey(f) = key
    BY <2>1 DEF NameKey
  <2>3. LastWith(l, key, n, r)
    BY <1>3, <2>2 DEF NameLast
  <2>4. r \in 1 .. l
    BY <2>3 DEF LastWith
  <2>5. item[r] = f.names[r].index
    BY <2>1, <2>4
  <2> HIDE DEF l, D, key, item, s
  <2>6. NameMap(f) = Keyed(1 .. l, key, item)
    BY <1>1, <2>1
  <2>7. LET K == Keyed(1 .. l, key, item) IN n \in DOMAIN K /\ K[n] = item[r]
    BY <2>1, <2>3, <2>4, KeyedFacts
  <2>8. QED
    BY <2>5, <2>6, <2>7
<1>4. QED
  BY <1>2, <1>3

IdLast(f, id, r) == LastWith(Len(f.cues), f.cues, id, r)

(* The map of ids of a file that has cues.                                  *)
LEMMA IdMapFacts ==
    ASSUME NEW f \in Files
    PROVE  /\ DOMAIN IdMap(f) = {Entries(f.cues)[r] : r \in DOMAIN Entries(f.cues)}
           /\ \A r, id : HasTable(f.cues) /\ IdLast(f, id, r) =>
                id \in DOMAIN IdMap(f) /\ IdMap(f)[id] = r - 1
<1> DEFINE s == Entries(f.cues)
           D == DOMAIN s
           key == [r \in D |-> s[r]]
           item == [r \in D |-> r - 1]
<1>1. IdMap(f) = Keyed(D, key, item)
  BY DEF IdMap
<1>2. DOMAIN IdMap(f) = {s[r] : r \in D}
  BY <1>1 DEF Keyed
<1>3. ASSUME NEW r, NEW id, HasTable(f.cues), IdLast(f, id, r)
      PROVE  id \in DOMAIN IdMap(f) /\ IdMap(f)[id] = r - 1
  <2> DEFINE l == Len(f.cues)
  <2>1. s = f.cues /\ D = 1 .. l /\ l \in Nat
    BY <1>3, FileFacts DEF Entries, HasTable
  <2>2. \A q \in 1 .. l : key[q] = f.cues[q]
    BY <2>1
  <2>3. LastWith(l, f.cues, id, r)
    BY <1>3 DEF IdLast
  <2>4. LastWith(l, key, id, r) /\ r \in 1 .. l
    BY <2>2, <2>3 DEF LastWith
  <2>5. item[r] = r - 1
    BY <2>1, <2>4
  <2> HIDE DEF l, D, key, item, s
  <2>6. IdMap(f) = Keyed(1 .. l, key, item)
    BY <1>1, <2>1
  <2>7. LET K == Keyed(1 .. l, key, item) IN id \in DOMAIN K /\ K[id] = item[r]
    <3>1. l \in Nat /\ LastWith(l, key, id, r)
      BY <2>1, <2>4
    <3>2. QED
      BY <3>1, KeyedFacts
  <2>8. QED
    BY <2>5, <2>6, <2>7
<1>4. QED
  BY <1>2, <1>3

(* A name of the file leads to the cue its last row points to.              *)
LEMMA ByNameFound ==
    ASSUME NEW f \in Files, NEW R, KnownReader(f, R), HasTable(f.names), HasTable(f.cues),
           NEW n, NEW r, NameLast(f, n, r), f.names[r].index < Len(f.cues)
    PROVE  get_cue_by_name(R, n) = Found(Cue(n, f.cues[f.names[r].index + 1]))
<1> DEFINE x == f.names[r].index
           y == x + 1
           l == Len(f.cues)
           id == get_value(R.cue_tbl, y, Spell["CueId"])
<1>1. IsRead(R.cue_tbl, CueTable(f.cues)) /\ IsRead(R.cue_name_tbl, CueNameTable(f.names))
      /\ R.cue_name_to_index = NameMap(f)
  BY DEF KnownReader, IsCues, IsNames, HasTable
<1>2. n \in DOMAIN NameMap(f) /\ NameMap(f)[n] = x
  BY NameMapFacts, ZenonT(30)
<1>3. /\ R.cue_tbl.outcome = "table" /\ DOMAIN R.cue_tbl.rows = 1 .. l
      /\ \A q \in 1 .. l : get_value(R.cue_tbl, q, Spell["CueId"]) = Value("UInt32", f.cues[q])
  BY <1>1, CueRead
<1>4. r \in 1 .. Len(f.names)
  BY DEF NameLast, LastWith
<1>5. x \in Nat
  BY <1>1, <1>4, NameRead
<1>6. l \in Nat
  BY FileFacts
<1> HIDE DEF x, l
<1>7. x < l
  BY DEF x, l
<1>8. y \in 1 .. l
  BY <1>5, <1>6, <1>7
<1> HIDE DEF y
<1>9. id = Value("UInt32", f.cues[y])
  BY <1>3, <1>8
<1>10. id.type = "UInt32" /\ id.v = f.cues[y]
  <2>1. \A type, z : Value(type, z).type = type /\ Value(type, z).v = z
    BY DEF Value
  <2>2. QED
    BY <1>9, <2>1
<1>11. R.cue_name_to_index[n] + 1 = y /\ n \in DOMAIN R.cue_name_to_index
  BY <1>1, <1>2 DEF y
<1>12. get_cue_by_name(R, n) = Found(Cue(n, f.cues[y]))
  BY <1>3, <1>8, <1>10, <1>11 DEF get_cue_by_name
<1>13. QED
  BY <1>12 DEF y, x

(* Other names lead nowhere.                                                *)
LEMMA ByNameNone ==
    ASSUME NEW f \in Files, NEW R, KnownReader(f, R), NEW n,
           \A r \in DOMAIN Entries(f.names) : Entries(f.names)[r].name # n
    PROVE  get_cue_by_name(R, n) = Nothing
<1>1. n \notin DOMAIN NameMap(f)
  <2>1. ASSUME n \in DOMAIN NameMap(f) PROVE FALSE
    <3>1. n \in {Entries(f.names)[r].name : r \in DOMAIN Entries(f.names)}
      BY <2>1, NameMapFacts
    <3>2. QED
      BY <3>1
  <2>2. QED
    BY <2>1
<1>2. QED
  BY <1>1 DEF get_cue_by_name, KnownReader

(* An id leads to the name in the row of its last cue.                      *)
LEMMA ByIdFound ==
    ASSUME NEW f \in Files, NEW R, KnownReader(f, R), HasTable(f.names), HasTable(f.cues),
           NEW id, NEW r, IdLast(f, id, r), r \in 1 .. Len(f.names)
    PROVE  get_cue_by_id(R, id) = Found(Cue(f.names[r].name, id))
<1>1. IsRead(R.cue_name_tbl, CueNameTable(f.names)) /\ R.cue_id_to_index = IdMap(f)
  BY DEF KnownReader, IsNames, HasTable
<1>2. id \in DOMAIN IdMap(f) /\ IdMap(f)[id] = r - 1
  BY IdMapFacts
<1>3. /\ R.cue_name_tbl.outcome = "table" /\ DOMAIN R.cue_name_tbl.rows = 1 .. Len(f.names)
      /\ NameAt(R.cue_name_tbl, r) = f.names[r].name /\ f.names[r].name # NoString
  BY <1>1, NameRead
<1>4. r \in Int
  OBVIOUS
<1>5. R.cue_id_to_index[id] + 1 = r /\ id \in DOMAIN R.cue_id_to_index
  BY <1>1, <1>2, <1>4
<1>6. QED
  BY <1>3, <1>5 DEF get_cue_by_id

(* Other ids lead nowhere.                                                  *)
LEMMA ByIdNone ==
    ASSUME NEW f \in Files, NEW R, KnownReader(f, R), NEW id,
           \A r \in DOMAIN Entries(f.cues) : Entries(f.cues)[r] # id
    PROVE  get_cue_by_id(R, id) = Nothing
<1>1. id \notin DOMAIN IdMap(f)
  <2>1. ASSUME id \in DOMAIN IdMap(f) PROVE FALSE
    <3>1. id \in {Entries(f.cues)[r] : r \in DOMAIN Entries(f.cues)}
      BY <2>1, IdMapFacts
    <3>2. QED
      BY <3>1
  <2>2. QED
    BY <2>1
<1>2. QED
  BY <1>1 DEF get_cue_by_id, KnownReader

-----------------------------------------------------------------------------
(* The life of an ACB file.                                                *)

(* An answer is what the call gives for its argument.                       *)
IsAnswer(a, R) ==
    \/ a = [call |-> "name", arg |-> None, result |-> get_name(R)]
    \/ a = [call |-> "by_name", arg |-> a.arg, result |-> get_cue_by_name(R, a.arg)]
    \/ a = [call |-> "by_id", arg |-> a.arg, result |-> get_cue_by_id(R, a.arg)]
    \/ a = [call |-> "names", arg |-> None, result |-> DOMAIN R.cue_name_to_index]
    \/ a = [call |-> "ids", arg |-> None, result |-> DOMAIN R.cue_id_to_index]

(* What AcbReader::new has made of a file.                                  *)
IsReader(f, R) ==
    /\ R.outcome = IF EndsEmpty(f) THEN "panic" ELSE "reader"
    /\ ~EndsEmpty(f) => R.header = HeaderOf(f)
    /\ HasData(f) => KnownReader(f, R)

(* The inductive invariant: the table that was loaded is that of the file,  *)
(* the reader is that of the table, and the answer that of a reader.        *)
AcbInv ==
    /\ file # None => file \in Files /\ bytes = AcbImage(file)
    /\ header # None => file # None /\ header = HeaderOf(file)
    /\ reader # None => header # None /\ IsReader(file, reader)
    /\ answer # None => reader # None /\ ~EndsEmpty(file) /\ IsAnswer(answer, reader)

(* Every step preserves it.                                                 *)
LEMMA AcbStep == AcbInv /\ [AcbNext]_acbVars => AcbInv'
<1> SUFFICES ASSUME AcbInv, [AcbNext]_acbVars PROVE AcbInv'
  OBVIOUS
<1>0. /\ file # None => file \in Files /\ bytes = AcbImage(file)
      /\ header # None => file # None /\ header = HeaderOf(file)
      /\ reader # None => header # None /\ IsReader(file, reader)
      /\ answer # None => reader # None /\ ~EndsEmpty(file) /\ IsAnswer(answer, reader)
  BY DEF AcbInv
<1>1. ASSUME NEW f \in Files, Save(f) PROVE AcbInv'
  <2>1. /\ file' = f /\ bytes' = AcbImage(f)
        /\ header = None /\ reader = None /\ answer = None
        /\ header' = None /\ reader' = None /\ answer' = None
    BY <1>0, <1>1 DEF Save
  <2>2. QED
    BY <2>1 DEF AcbInv
<1>2. CASE LoadHeader
  <2>1. /\ file # None /\ header = None /\ header' = AcbHighTable(bytes)
        /\ file' = file /\ bytes' = bytes /\ reader' = reader /\ answer' = answer
    BY <1>2 DEF LoadHeader
  <2>2. file \in Files /\ bytes = AcbImage(file) /\ reader = None /\ answer = None
    BY <1>0, <2>1
  <2>3. header' = HeaderOf(file)
    <3>1. StartsWith(AcbImage(file), AcbTable(file))
      BY <2>2, FileFacts
    <3>2. AcbHighTable(AcbImage(file)) = ReadAll(AcbTable(file), AcbImage(file))
      BY <3>1, AcbTableRead DEF StartsWith
    <3>3. QED
      BY <2>1, <2>2, <3>2 DEF HeaderOf
  <2>4. HeaderOf(file)' = HeaderOf(file) /\ AcbImage(file)' = AcbImage(file)
    BY <2>1 DEF HeaderOf, AcbImage, AcbTable
  <2>5. QED
    BY <2>1, <2>2, <2>3, <2>4 DEF AcbInv
<1>3. CASE Load
  <2>1. /\ header # None /\ reader = None /\ reader' = new
        /\ file' = file /\ bytes' = bytes /\ header' = header /\ answer' = answer
    BY <1>3 DEF Load
  <2>2. file \in Files /\ file # None /\ bytes = AcbImage(file) /\ header = HeaderOf(file)
        /\ answer = None
    BY <1>0, <2>1
  <2>3. IsReader(file, reader')
    BY <2>1, <2>2, NewReader DEF IsReader
  <2>4. QED
    BY <2>1, <2>2, <2>3 DEF AcbInv
<1>4. ASSUME NEW call, NEW arg, NEW result, Ask(call, arg, result),
             IsAnswer([call |-> call, arg |-> arg, result |-> result], reader)
      PROVE  AcbInv'
  <2>1. /\ reader # None /\ reader.outcome = "reader"
        /\ answer' = [call |-> call, arg |-> arg, result |-> result]
        /\ file' = file /\ bytes' = bytes /\ header' = header /\ reader' = reader
    BY <1>4 DEF Ask
  <2>2. IsAnswer(answer', reader')
    BY <1>4, <2>1
  <2>3. ~EndsEmpty(file)
    BY <1>0, <2>1 DEF IsReader
  <2>4. QED
    BY <1>0, <2>1, <2>2, <2>3 DEF AcbInv
<1>5. CASE GetName
  <2>1. IsAnswer([call |-> "name", arg |-> None, result |-> get_name(reader)], reader)
    BY DEF IsAnswer
  <2>2. QED
    BY <1>4, <1>5, <2>1 DEF GetName
<1>6. ASSUME NEW n \in Names, ByName(n) PROVE AcbInv'
  <2>1. IsAnswer([call |-> "by_name", arg |-> n, result |-> get_cue_by_name(reader, n)], reader)
    BY DEF IsAnswer
  <2>2. QED
    BY <1>4, <1>6, <2>1 DEF ByName
<1>7. ASSUME NEW id \in Ids, ById(id) PROVE AcbInv'
  <2>1. IsAnswer([call |-> "by_id", arg |-> id, result |-> get_cue_by_id(reader, id)], reader)
    BY DEF IsAnswer
  <2>2. QED
    BY <1>4, <1>7, <2>1 DEF ById
<1>8. CASE AllNames
  <2>1. IsAnswer([call |-> "names", arg |-> None, result |-> DOMAIN reader.cue_name_to_index], reader)
    BY DEF IsAnswer
  <2>2. QED
    BY <1>4, <1>8, <2>1 DEF AllNames
<1>9. CASE AllIds
  <2>1. IsAnswer([call |-> "ids", arg |-> None, result |-> DOMAIN reader.cue_id_to_index], reader)
    BY DEF IsAnswer
  <2>2. QED
    BY <1>4, <1>9, <2>1 DEF AllIds
<1>10. CASE UNCHANGED acbVars
  <2>1. file' = file /\ bytes' = bytes /\ header' = header /\ reader' = reader /\ answer' = answer
    BY <1>10 DEF acbVars
  <2>2. QED
    BY <1>0, <2>1 DEF AcbInv
<1>11. QED
  BY <1>1, <1>2, <1>3, <1>5, <1>6, <1>7, <1>8, <1>9, <1>10 DEF AcbNext

(* The invariant holds from the start.                                      *)
LEMMA AcbInvariant == AcbSpec => []AcbInv
<1>1. AcbInit => AcbInv
  BY DEF AcbInit, AcbInv
<1>2. QED
  BY <1>1, AcbStep, PTL DEF AcbSpec

(* ByNameIsTheCue: AcbReader::new opens every file, whatever columns of     *)
(* tables it lacks, unless it ends with one that has no data, on which it   *)
(* panics; get_cue_by_name returns the cue the last row of the name points  *)
(* to, in whatever order names and cues are; and the names listed are those *)
(* of the file.                                                             *)
THEOREM NamesLeadToTheirCues == AcbSpec => []ByNameIsTheCue
<1>1. AcbInv => ByNameIsTheCue
  <2> SUFFICES ASSUME AcbInv PROVE ByNameIsTheCue
    OBVIOUS
  <2>1. reader # None => file \in Files /\ IsReader(file, reader)
    BY DEF AcbInv
  <2>2. reader # None => reader.outcome = IF EndsEmpty(file) THEN "panic" ELSE "reader"
    BY <2>1 DEF IsReader
  <2>3. answer # None => /\ file \in Files /\ reader.header = HeaderOf(file)
                         /\ HasData(file) => KnownReader(file, reader)
                         /\ IsAnswer(answer, reader)
    BY <2>1 DEF AcbInv, IsReader
  <2>4. ASSUME answer # None, answer.call = "name" PROVE answer.result = Found(file.name)
    <3>1. answer.result = get_name(reader)
      BY <2>3, <2>4 DEF IsAnswer
    <3>2. QED
      BY <2>3, <2>4, <3>1, NameOfFile
  <2>5. ASSUME answer # None, answer.call = "names", HasData(file)
        PROVE  answer.result = {file.names[i].name : i \in DOMAIN Entries(file.names)}
    <3>1. answer.result = DOMAIN NameMap(file)
      BY <2>3, <2>5 DEF IsAnswer, KnownReader
    <3>2. answer.result = {Entries(file.names)[i].name : i \in DOMAIN Entries(file.names)}
      BY <2>3, <2>5, <3>1, NameMapFacts
    <3>3. CASE file.names = None
      <4>1. DOMAIN Entries(file.names) = {}
        BY <3>3 DEF Entries
      <4>2. QED
        BY <3>2, <4>1
    <3>4. CASE file.names # None
      <4>1. Entries(file.names) = file.names
        BY <3>4 DEF Entries
      <4>2. QED
        BY <3>2, <4>1
    <3>5. QED
      BY <3>3, <3>4
  <2>6. ASSUME answer # None, answer.call = "by_name", Complete
        PROVE  LET rows == {r \in DOMAIN Entries(file.names) : file.names[r].name = answer.arg}
                   last == CHOOSE r \in rows : \A q \in rows : q <= r
               IN  answer.result = IF rows = {} THEN Nothing
                                   ELSE Found(Cue(answer.arg, file.cues[file.names[last].index + 1]))
    <3> DEFINE s == Entries(file.names)
               n == answer.arg
               rows == {r \in DOMAIN s : file.names[r].name = n}
               last == CHOOSE r \in rows : \A q \in rows : q <= r
    <3>0. KnownReader(file, reader) /\ file.cues # NoData /\ file.names # NoData
      BY <2>3, <2>6 DEF Complete, HasData
    <3>1. answer.result = get_cue_by_name(reader, n)
      BY <2>3, <2>6 DEF IsAnswer
    <3>2. CASE rows = {}
      <4>1. \A r \in DOMAIN s : s[r].name # n
        <5>1. CASE file.names = None
          BY <5>1 DEF Entries
        <5>2. CASE file.names # None
          BY <3>2, <5>2 DEF Entries
        <5>3. QED
          BY <5>1, <5>2
      <4>2. get_cue_by_name(reader, n) = Nothing
        BY <2>3, <2>6, <3>0, <4>1, ByNameNone
      <4>3. QED
        BY <3>1, <3>2, <4>2
    <3>3. CASE rows # {}
      <4>1. file.names # None
        <5>1. file.names = None => DOMAIN s = {}
          BY DEF Entries
        <5>2. QED
          BY <3>3, <5>1
      <4>2. s = file.names /\ DOMAIN s = 1 .. Len(file.names) /\ Len(file.names) \in Nat
        BY <2>3, <2>6, <3>0, <4>1, FileFacts DEF Entries, HasTable
      <4>3. file.cues # None /\ \A i \in DOMAIN s : file.names[i].index < Len(file.cues)
        BY <2>6, <4>1 DEF Complete
      <4>4. PICK r \in 1 .. Len(file.names) : NameKey(file)[r] = n
        BY <3>3, <4>2 DEF NameKey
      <4>5. PICK l \in 1 .. Len(file.names) : NameLast(file, n, l)
        BY <4>2, <4>4, LastRow DEF NameLast
      <4>6. \A q \in rows : q <= l
        BY <4>2, <4>5 DEF NameLast, LastWith, NameKey
      <4>7. l \in rows
        BY <4>2, <4>5 DEF NameLast, LastWith, NameKey
      <4>8. \A q \in rows : q \in Nat
        BY <4>2
      <4> HIDE DEF rows, s
      <4>9. last = l
        <5>1. last \in rows /\ \A q \in rows : q <= last
          BY <4>6, <4>7
        <5> HIDE DEF last
        <5>2. last <= l /\ l <= last /\ l \in Nat /\ last \in Nat
          BY <4>6, <4>7, <4>8, <5>1
        <5>3. QED
          BY <5>2
      <4> HIDE DEF last
      <4>10. file.names[l].index < Len(file.cues)
        BY <4>2, <4>3, <4>5
      <4>11. get_cue_by_name(reader, n) = Found(Cue(n, file.cues[file.names[l].index + 1]))
        BY <2>3, <2>6, <3>0, <4>1, <4>3, <4>5, <4>10, ByNameFound DEF HasTable
      <4>12. QED
        BY <3>1, <3>3, <4>9, <4>11, ZenonT(30) DEF rows, s, last
    <3>4. QED
      BY <3>2, <3>3, ZenonT(30)
  <2>7. QED
    BY <2>2, <2>4, <2>5, <2>6, ZenonT(30) DEF ByNameIsTheCue
<1>2. QED
  BY <1>1, AcbInvariant, PTL

(* ByIdIsInverse: when the names are in the order of the cues, every id     *)
(* that is listed is found, and get_cue_by_id and get_cue_by_name are each  *)
(* other's inverse, when no name occurs twice.                              *)
THEOREM IdsLeadToTheirNames == AcbSpec => []ByIdIsInverse
<1>1. AcbInv => ByIdIsInverse
  <2> SUFFICES ASSUME AcbInv, answer # None, InCueOrder PROVE ByIdIsInverse
    BY DEF ByIdIsInverse
  <2>1. /\ file \in Files /\ KnownReader(file, reader) /\ IsAnswer(answer, reader)
        /\ file.cues # NoData /\ file.names # NoData
    BY DEF AcbInv, IsReader, InCueOrder, Complete, HasData
  <2> DEFINE s == Entries(file.names)
             c == Entries(file.cues)
             n == Len(c)
  <2>2. /\ (file.cues = None) = (file.names = None) /\ Len(s) = n
        /\ \A i \in DOMAIN s : file.names[i].index < Len(file.cues) /\ file.names[i].index = i - 1
    BY DEF InCueOrder, Complete
  <2>3. DOMAIN c = 1 .. n /\ DOMAIN s = 1 .. n /\ n \in Nat
    <3>1. CASE file.cues = None
      <4>1. c = <<>> /\ s = <<>>
        BY <2>2, <3>1 DEF Entries
      <4>2. QED
        BY <4>1
    <3>2. CASE file.cues # None
      <4>1. c = file.cues /\ s = file.names
        BY <2>2, <3>2 DEF Entries
      <4>2. QED
        BY <2>1, <2>2, <3>2, <4>1, FileFacts DEF HasTable
    <3>3. QED
      BY <3>1, <3>2
  <2>4. \A i \in 1 .. n : file.cues # None /\ file.names # None
    <3>1. file.cues = None => c = <<>>
      BY DEF Entries
    <3>2. file.cues = None => n = 0
      BY <3>1
    <3> HIDE DEF c
    <3>3. QED
      BY <2>2, <3>2
  <2>5. file.cues # None => c = file.cues /\ s = file.names
    BY <2>2 DEF Entries
  <2>6. ASSUME NEW id, NEW i \in 1 .. n, c[i] = id
        PROVE  \E r \in 1 .. n : /\ IdLast(file, id, r) /\ c[r] = id
                                 /\ get_cue_by_id(reader, id) = Found(Cue(file.names[r].name, id))
    <3>1. file.cues # None /\ file.names # None /\ c = file.cues /\ s = file.names
      BY <2>4, <2>5
    <3>2. n = Len(file.cues) /\ n = Len(file.names)
      BY <2>2, <3>1
    <3> HIDE DEF c, s, n
    <3>3. PICK r \in 1 .. n : LastWith(n, file.cues, id, r)
      BY <2>3, <2>6, <3>1, LastRow
    <3>4. IdLast(file, id, r) /\ c[r] = id
      BY <3>1, <3>2, <3>3 DEF IdLast, LastWith
    <3>5. get_cue_by_id(reader, id) = Found(Cue(file.names[r].name, id))
      BY <2>1, <3>1, <3>2, <3>4, ByIdFound DEF HasTable
    <3>6. QED
      BY <3>4, <3>5
  <2>7. \A x : Found(x).found = "yes" /\ Found(x).v = x
    BY DEF Found
  <2>8. ASSUME answer.call = "ids"
        PROVE  /\ answer.result = {file.cues[i] : i \in DOMAIN c}
               /\ \A id \in answer.result : get_cue_by_id(reader, id).found = "yes"
    <3>1. answer.result = DOMAIN IdMap(file)
      BY <2>1, <2>8 DEF IsAnswer, KnownReader
    <3>2. answer.result = {c[i] : i \in DOMAIN c}
      BY <2>1, <3>1, IdMapFacts
    <3> HIDE DEF c, s, n
    <3>3. \A i \in DOMAIN c : c[i] = file.cues[i]
      BY <2>3, <2>4, <2>5
    <3>4. ASSUME NEW id \in answer.result PROVE get_cue_by_id(reader, id).found = "yes"
      <4>1. PICK i \in 1 .. n : c[i] = id
        BY <2>3, <3>2
      <4>2. PICK r \in 1 .. n : get_cue_by_id(reader, id) = Found(Cue(file.names[r].name, id))
        BY <2>6, <4>1
      <4>3. QED
        BY <2>7, <4>2
    <3>5. QED
      BY <3>2, <3>3, <3>4
  <2>9. ASSUME answer.call = "by_id", Distinct([i \in DOMAIN s |-> file.names[i].name])
        PROVE  IF \A i \in DOMAIN c : file.cues[i] # answer.arg
               THEN answer.result = Nothing
               ELSE /\ answer.result.found = "yes"
                    /\ get_cue_by_name(reader, answer.result.v.name) = answer.result
    <3> DEFINE id == answer.arg
    <3>1. answer.result = get_cue_by_id(reader, id)
      BY <2>1, <2>9 DEF IsAnswer
    <3>2. \A i \in DOMAIN c : c[i] = file.cues[i]
      BY <2>3, <2>4, <2>5
    <3>3. CASE \A i \in DOMAIN c : file.cues[i] # id
      <4>1. \A i \in DOMAIN c : c[i] # id
        BY <3>2, <3>3
      <4>2. get_cue_by_id(reader, id) = Nothing
        BY <2>1, <4>1, ByIdNone
      <4>3. QED
        BY <3>1, <3>3, <4>2
    <3>4. CASE ~ \A i \in DOMAIN c : file.cues[i] # id
      <4>1. PICK i \in 1 .. n : c[i] = id
        BY <2>3, <3>2, <3>4
      <4>2. PICK r \in 1 .. n : /\ IdLast(file, id, r) /\ c[r] = id
                                /\ get_cue_by_id(reader, id) = Found(Cue(file.names[r].name, id))
        BY <2>6, <4>1
      <4>3. file.cues # None /\ file.names # None /\ c = file.cues /\ s = file.names
        BY <2>4, <2>5, <4>1
      <4>4. n = Len(file.cues) /\ n = Len(file.names)
        BY <2>2, <4>3
      <4> DEFINE m == file.names[r].name
                 y == Cue(m, id)
      <4>5. NameLast(file, m, r)
        <5>1. NameKey(file) = [j \in 1 .. n |-> file.names[j].name]
          BY <2>3, <4>3 DEF NameKey
        <5> HIDE DEF c, s, n
        <5>2. ASSUME NEW q \in 1 .. n, file.names[q].name = m PROVE q = r
          BY <2>3, <2>9, <5>2 DEF Distinct
        <5>3. r <= r
          BY <2>3
        <5> HIDE DEF m
        <5>4. LastWith(n, NameKey(file), m, r)
          BY <5>1, <5>2, <5>3 DEF LastWith, m
        <5>5. QED
          BY <4>4, <5>4 DEF NameLast
      <4>6. file.names[r].index < Len(file.cues) /\ file.names[r].index + 1 = r
        <5>1. file.names[r].index < Len(file.cues) /\ file.names[r].index = r - 1
          BY <2>2, <2>3
        <5> HIDE DEF n
        <5>2. r \in Int
          BY <2>3
        <5>3. QED
          BY <5>1, <5>2
      <4>7. get_cue_by_name(reader, m) = Found(Cue(m, file.cues[file.names[r].index + 1]))
        BY <2>1, <4>3, <4>5, <4>6, ByNameFound DEF HasTable
      <4>8. file.cues[r] = id
        BY <4>2, <4>3
      <4>9. get_cue_by_name(reader, m) = Found(y)
        BY <4>6, <4>7, <4>8
      <4>10. y.name = m
        BY DEF Cue
      <4> HIDE DEF m, y
      <4>11. answer.result = Found(y)
        BY <3>1, <4>2 DEF y, m
      <4>12. answer.result.found = "yes" /\ answer.result.v.name = m
        BY <2>7, <4>10, <4>11
      <4>13. QED
        BY <3>4, <4>9, <4>11, <4>12
    <3>5. QED
      BY <3>3, <3>4
  <2>10. QED
    BY <2>8, <2>9 DEF ByIdIsInverse
<1>2. QED
  BY <1>1, AcbInvariant, PTL
=============================================================================
