------------------------------ MODULE UtfCodec ------------------------------
(***************************************************************************)
(* @UTF tables byte by byte: what UtfTableBuilder::build (cpk/writer.rs)   *)
(* writes and what schema/, the HighTable of cpk/header.rs and the one of  *)
(* acb/header.rs read.  A table is a sequence of bytes, the byte at offset *)
(* o is the element o + 1.  A string is the sequence of its bytes.         *)
(***************************************************************************)
EXTENDS Selection, SequencesExt

CONSTANT MaxRows    \* as many rows as there is memory for

ASSUME MemoryAssumption == MaxRows \in Nat

Huge == 2 ^ 30      \* bound: a u32 of more is as large as any other
NoName == -1        \* u32::MAX, the offset of no string
HEADER_SIZE == 32
HEADER_OFFSET == 8

Sub(b, from, to) == SubSeq(b, from + 1, to)     \* b[from..to]

Byte == 0 .. 255
ByteOf(v, p) ==
    CASE p = 0 -> v % 256
      [] p = 1 -> (v \div 256) % 256
      [] p = 2 -> (v \div 65536) % 256
      [] p = 3 -> (v \div 16777216) % 256
      [] OTHER -> 0

(* Big-endian numbers of w bytes.                                           *)
BigEndian(v, w) == [k \in 1 .. w |-> ByteOf(v, w - k)]
Number(s) ==
    LET w == Len(s)
        byte(k) == IF k < w THEN s[w - k] ELSE 0
    IN  IF byte(3) > 63 \/ \E k \in 4 .. w - 1 : byte(k) # 0 THEN Huge
        ELSE byte(0) + 256 * byte(1) + 65536 * byte(2) + 16777216 * byte(3)
NumberAt(b, o, w) == Number(Sub(b, o, o + w))

-----------------------------------------------------------------------------
(* ColumnType by its code, and the bytes a value takes.                     *)
TypeNames == <<"Byte", "SByte", "UInt16", "Int16", "UInt32", "Int32", "UInt64", "Int64",
               "Single", "Double", "String", "Data", "Guid">>
Code(type) == (CHOOSE i \in DOMAIN TypeNames : TypeNames[i] = type) - 1
get_type(flag) ==
    IF flag % 16 < Len(TypeNames) THEN TypeNames[1 + (flag % 16)] ELSE "Invalid"
get_size(type) ==
    CASE type \in {"Byte", "SByte"} -> 1
      [] type \in {"UInt16", "Int16"} -> 2
      [] type \in {"UInt32", "Int32", "Single", "String"} -> 4
      [] type \in {"UInt64", "Int64", "Double", "Data"} -> 8
      [] type = "Guid" -> 16
      [] OTHER -> 0

(* ColumnFlag, the high bits of the flag byte.                              *)
NAME == 16
DEFAULT_VALUE == 32
ROW_STORAGE == 64
Has(flag, bit) == (flag \div bit) % 2 = 1

(* Values.  A number or the bits of a float is its number, a string its     *)
(* offset in the pool, data an offset and a length, a Guid its bytes.       *)
NoValue == [type |-> "None"]
Value(type, v) == [type |-> type, v |-> v]
Signed(n, limit) == IF n >= limit THEN n - 2 * limit ELSE n
row_value(type, s) ==
    LET n == Number(SubSeq(s, 1, get_size(type)))
    IN  CASE type = "SByte" -> Value(type, Signed(n, 128))
          [] type = "Int16" -> Value(type, Signed(n, 32768))
          [] type \in {"Int32", "Int64"} -> Value(type, IF s[1] > 127 THEN -Huge ELSE n)
          [] type = "Data" -> [type |-> type, offset |-> Number(SubSeq(s, 1, 4)),
                               length |-> Number(SubSeq(s, 5, 8))]
          [] type = "Guid" -> Value(type, SubSeq(s, 1, 16))
          [] type = "Invalid" -> NoValue
          [] OTHER -> Value(type, n)

-----------------------------------------------------------------------------
(* Writing.  `strings` is what is interned, in order: each string once, at  *)
(* its first appearance, after a NUL byte that stands for the empty one.    *)

(* Mutant: every string is interned, also one that is there already.        *)
IsFirst_Always(strings, i) == strings[i] # <<>>

IsFirst(strings, i) == strings[i] # <<>> /\ \A j \in 1 .. i - 1 : strings[j] # strings[i]
PoolPart(strings, n) ==
    <<0>> \o FlattenSeq([i \in 1 .. n |->
        IF IsFirst(strings, i) THEN Append(strings[i], 0) ELSE <<>>])
StringPool(strings) == PoolPart(strings, Len(strings))

intern_string(strings, s) ==
    IF s = <<>> THEN 0
    ELSE LET i == CHOOSE i \in DOMAIN strings : strings[i] = s /\ IsFirst(strings, i)
         IN  Len(PoolPart(strings, i - 1))

(* The bytes of a field; data is at its place in the pool of all data.      *)
FieldBytes(strings, value, at) ==
    CASE value.type = "String" -> BigEndian(intern_string(strings, value.v), 4)
      [] value.type = "Data" -> BigEndian(at, 4) \o BigEndian(Len(value.v), 4)
      [] value.type = "Guid" -> value.v
      [] OTHER -> BigEndian(value.v, get_size(value.type))

(* A table of any tool: a column has a flag byte, a name and a default; a   *)
(* row has a value for every column, and those of columns with row storage  *)
(* are stored, followed by `padding` bytes.                                 *)
Columns(t) == DOMAIN t.columns
Stored(t) == Kept([c \in Columns(t) |-> c], {c \in Columns(t) : Has(t.columns[c].flag, ROW_STORAGE)})
TypeOf(t, c) == get_type(t.columns[c].flag)
Fields(t) == FlattenSeq([r \in DOMAIN t.rows |-> [k \in DOMAIN Stored(t) |-> t.rows[r][Stored(t)[k]]]])
Strings(t) ==
    <<t.name>> \o [c \in Columns(t) |-> t.columns[c].name]
        \o [i \in DOMAIN Fields(t) |-> IF Fields(t)[i].type = "String" THEN Fields(t)[i].v ELSE <<>>]
        \o [c \in Columns(t) |-> IF Has(t.columns[c].flag, DEFAULT_VALUE) /\ TypeOf(t, c) = "String"
                                 THEN t.columns[c].default.v ELSE <<>>]

DataOf(value) == IF value.type = "Data" THEN value.v ELSE <<>>
DataBefore(t, i) == FlattenSeq([j \in 1 .. i - 1 |-> DataOf(Fields(t)[j])])

ColumnBytes(t, c) ==
    LET col == t.columns[c] IN
    <<col.flag>>
        \o (IF Has(col.flag, NAME) THEN BigEndian(intern_string(Strings(t), col.name), 4) ELSE <<>>)
        \o (IF Has(col.flag, DEFAULT_VALUE) THEN FieldBytes(Strings(t), col.default, 0) ELSE <<>>)

row_size(t) == t.padding + Total([k \in DOMAIN Stored(t) |-> get_size(TypeOf(t, Stored(t)[k]))])

RowBytes(t, r) ==
    LET field(k) == FieldBytes(Strings(t), t.rows[r][Stored(t)[k]],
                               Len(DataBefore(t, (r - 1) * Len(Stored(t)) + k)))
    IN  FlattenSeq([k \in DOMAIN Stored(t) |-> field(k)]) \o [k \in 1 .. t.padding |-> 0]

AllColumns(t) == FlattenSeq([c \in Columns(t) |-> ColumnBytes(t, c)])
AllRows(t) == FlattenSeq([r \in DOMAIN t.rows |-> RowBytes(t, r)])
AllData(t) == DataBefore(t, Len(Fields(t)) + 1)

rows_start(t) == HEADER_SIZE + Len(AllColumns(t))
pool_start(t) == rows_start(t) + Len(AllRows(t))
data_start(t) == pool_start(t) + Len(StringPool(Strings(t)))
Header(t) ==
    <<64, 85, 84, 70>> \o BigEndian(data_start(t) + Len(AllData(t)) - 8, 4)
        \o (<<0, 1>> \o BigEndian(rows_start(t) - HEADER_OFFSET, 2))
        \o BigEndian(pool_start(t) - HEADER_OFFSET, 4) \o BigEndian(data_start(t) - HEADER_OFFSET, 4)
        \o BigEndian(intern_string(Strings(t), t.name), 4)
        \o (BigEndian(Len(t.columns), 2) \o BigEndian(row_size(t), 2)) \o BigEndian(Len(t.rows), 4)

Image(t) == Header(t) \o AllColumns(t) \o AllRows(t) \o StringPool(Strings(t)) \o AllData(t)

(* Tables as tools make them: characters below 128 and none of them NUL,    *)
(* values of the types of their columns, numbers that are not negative, no  *)
(* data as a default.                                                       *)
Char == 1 .. 127
Limit(type) ==
    CASE type = "Byte" -> 255 [] type = "SByte" -> 127
      [] type = "UInt16" -> 65535 [] type = "Int16" -> 32767
      [] OTHER -> Huge - 1
IsValue(type, v) ==
    /\ v = Value(type, v.v)
    /\ type = "String" => v.v \in Seq(Char)
    /\ type \in {"Data", "Guid"} => v.v \in Seq(Byte)
    /\ type = "Guid" => Len(v.v) = 16
    /\ type \notin {"String", "Data", "Guid"} => v.v \in 0 .. Limit(type)
IsColumn(col) ==
    /\ col.flag \in 0 .. 127 /\ get_type(col.flag) # "Invalid"
    /\ col.name \in Seq(Char)
    /\ Has(col.flag, DEFAULT_VALUE) =>
        /\ IsValue(get_type(col.flag), col.default)
        /\ get_type(col.flag) = "Data" => col.default.v = <<>>
IsTable(t) ==
    /\ DOMAIN t = {"name", "columns", "rows", "padding"}
    /\ t.name \in Seq(Char) /\ t.padding \in Nat
    /\ t.columns \in Seq(ToSet(t.columns)) /\ \A c \in Columns(t) : IsColumn(t.columns[c])
    /\ t.rows \in Seq(ToSet(t.rows))
    /\ \A r \in DOMAIN t.rows, c \in Columns(t) :
        Has(t.columns[c].flag, ROW_STORAGE) => IsValue(TypeOf(t, c), t.rows[r][c])

(* The numbers of a table are below Huge, its rows fit the memory, and the  *)
(* numbers fit their fields; the builder checks the latter itself.          *)
IsSmall(t) == Len(t.rows) < Huge /\ Len(t.rows) <= MaxRows /\ Len(Image(t)) < Huge
Fits(t) ==
    rows_start(t) - HEADER_OFFSET <= 65535 /\ Len(t.columns) <= 65535 /\ row_size(t) <= 65535

(* UtfTableBuilder::build: every column is named and stored, every value    *)
(* has the type of its column; counts, sizes and offsets must fit.          *)
WellTyped(columns, rows) ==
    \A r \in DOMAIN rows :
        /\ Len(rows[r]) = Len(columns)
        /\ \A c \in DOMAIN columns : rows[r][c].type = columns[c].type
BuilderTable(name, columns, rows) ==
    [name |-> name, rows |-> rows, padding |-> 0,
     columns |-> [c \in DOMAIN columns |->
        [flag |-> NAME + ROW_STORAGE + Code(columns[c].type), name |-> columns[c].name]]]
build(name, columns, rows) ==
    LET t == BuilderTable(name, columns, rows)
    IN  IF ~WellTyped(columns, rows) \/ HEADER_SIZE + 5 * Len(columns) - 8 > 65535
            \/ row_size(t) > 65535
        THEN <<>> ELSE Image(t)

-----------------------------------------------------------------------------
(* Reading.                                                                *)

TableHeader(b) ==
    [size |-> NumberAt(b, 4, 4),
     encoding |-> IF NumberAt(b, 9, 1) = 0 THEN "ShiftJIS" ELSE "UTF8",
     rows_offset |-> NumberAt(b, 10, 2) + HEADER_OFFSET,
     string_pool_offset |-> NumberAt(b, 12, 4) + HEADER_OFFSET,
     data_pool_offset |-> NumberAt(b, 16, 4) + HEADER_OFFSET,
     column_count |-> NumberAt(b, 24, 2), row_size |-> NumberAt(b, 26, 2),
     row_count |-> NumberAt(b, 28, 4)]

(* Column::new_list.  The columns follow one another: a flag byte, a name   *)
(* and a default as the flag says.  Every column has a byte at least.       *)
NextColumn(b, p) ==
    LET flag == NumberAt(b, p.at, 1)
        type == get_type(flag)
        name == p.at + 1
        default == IF Has(flag, NAME) THEN name + 4 ELSE name
        end == IF Has(flag, DEFAULT_VALUE) THEN default + get_size(type) ELSE default
    IN  IF \/ p.at >= Len(b)
           \/ Has(flag, DEFAULT_VALUE) /\ type = "Invalid"
           \/ end > Len(b)
        THEN [p EXCEPT !.ok = FALSE]
        ELSE [ok |-> TRUE, at |-> end, list |-> Append(p.list,
                [flag |-> flag,
                 name |-> IF Has(flag, NAME) THEN NumberAt(b, name, 4) ELSE NoName,
                 default |-> IF Has(flag, DEFAULT_VALUE) THEN row_value(type, Sub(b, default, end))
                             ELSE NoValue])]
new_columns(b, count) ==
    LET upto[k \in 0 .. count] ==
            IF k = 0 THEN [ok |-> TRUE, at |-> HEADER_SIZE, list |-> <<>>]
            ELSE LET p == upto[k - 1] IN IF p.ok THEN NextColumn(b, p) ELSE p
    IN  IF count > Len(b) THEN [ok |-> FALSE, at |-> 0, list |-> <<>>] ELSE upto[count]

(* Row::new_list.  Rows are RowSize apart; a row holds the stored columns   *)
(* one after the other.                                                     *)
Width(columns, n) ==
    Total([c \in 1 .. n |-> IF Has(columns[c].flag, ROW_STORAGE)
                            THEN get_size(get_type(columns[c].flag)) ELSE 0])

(* Mutant: rows are as far apart as their fields are long.                  *)
RowAt_Packed(header, columns, r) == header.rows_offset + (r - 1) * Width(columns, Len(columns))

RowAt(header, columns, r) == header.rows_offset + (r - 1) * header.row_size
new_rows(b, header, columns) ==
    LET at(r, c) == RowAt(header, columns, r) + Width(columns, c - 1)
        row(r) == [c \in DOMAIN columns |->
            IF Has(columns[c].flag, ROW_STORAGE)
            THEN row_value(get_type(columns[c].flag),
                           Sub(b, at(r, c), at(r, c) + get_size(get_type(columns[c].flag))))
            ELSE NoValue]
        readable ==
            /\ \A c \in DOMAIN columns : get_type(columns[c].flag) # "Invalid"
            /\ \/ Width(columns, Len(columns)) = 0
               \/ /\ header.row_count <= Len(b)
                  /\ RowAt(header, columns, header.row_count) + Width(columns, Len(columns))
                        <= Len(b)
    IN  IF header.row_count > 0 /\ ~readable THEN [ok |-> FALSE, list |-> <<>>]
        ELSE [ok |-> TRUE, list |-> [r \in 1 .. header.row_count |-> row(r)]]

(* parse_strings: the pool from its start, each string up to its NUL byte,  *)
(* by its offset.  Bytes above 127 are no part of any string here.          *)
Starts(pool) == {o \in 0 .. Len(pool) - 1 : o = 0 \/ pool[o] = 0}
StringAt(pool, o) ==
    LET end == CHOOSE e \in o .. Len(pool) - 1 : pool[e + 1] = 0 /\ \A k \in o .. e - 1 : pool[k + 1] # 0
    IN  Sub(pool, o, end)
parse_strings(pool, encoding) ==
    IF \/ pool # <<>> /\ pool[Len(pool)] # 0
       \/ encoding = "UTF8" /\ \E k \in DOMAIN pool : pool[k] > 127
    THEN [ok |-> FALSE]
    ELSE [ok |-> TRUE, at |-> [o \in Starts(pool) |-> StringAt(pool, o)]]
NoString == <<-1>>
get_string(strings, offset) ==
    IF offset \in DOMAIN strings THEN strings[offset] ELSE NoString

Rejected == [outcome |-> "error"]
Panicked == [outcome |-> "panic"]
Exhausted(h) == [outcome |-> "abort", header |-> h]     \* no memory for RowCount rows
Table(b, header, columns, rows, strings) ==
    [outcome |-> "table", alloc |-> b, header |-> header, columns |-> columns,
     rows |-> rows, strings |-> strings]

(* Mutant: the data pool may start beyond the end.                          *)
SectionsInOrder_OpenEnd(h) ==
    HEADER_SIZE <= h.rows_offset /\ h.rows_offset <= h.string_pool_offset
        /\ h.string_pool_offset <= h.data_pool_offset

SectionsInOrder(h) ==
    /\ HEADER_SIZE <= h.rows_offset /\ h.rows_offset <= h.string_pool_offset
    /\ h.string_pool_offset <= h.data_pool_offset /\ h.data_pool_offset <= h.size + 8

(* RowSize * RowCount, which the code computes in 64 bits, fits the space.  *)
RowsFit(h) ==
    h.row_size = 0 \/ h.row_count <= (h.string_pool_offset - h.rows_offset) \div h.row_size

(* HighTable::new of cpk/header.rs.  Row::new_list reserves RowCount rows   *)
(* before it reads one.                                                     *)
HighTable(b) ==
    LET h == TableHeader(b)
        alloc == SubSeq(b, 1, h.size + 8)
        columns == new_columns(alloc, h.column_count)
        rows == new_rows(alloc, h, columns.list)
        pool == Sub(alloc, h.string_pool_offset, h.data_pool_offset)
        strings == parse_strings(pool, h.encoding)
    IN  IF Len(b) < HEADER_SIZE \/ SubSeq(b, 1, 4) # <<64, 85, 84, 70>> THEN Rejected
        ELSE IF h.size + 8 > Len(b) \/ ~SectionsInOrder(h) \/ ~RowsFit(h) THEN Rejected
        ELSE IF ~columns.ok \/ columns.at > h.rows_offset
                \/ Width(columns.list, Len(columns.list)) > h.row_size THEN Rejected
        ELSE IF h.row_count > MaxRows THEN Exhausted(h)
        ELSE IF ~rows.ok THEN Rejected
        ELSE IF h.data_pool_offset > Len(alloc) THEN Panicked
        ELSE IF ~strings.ok THEN Rejected
        ELSE Table(alloc, h, columns.list, rows.list, strings.at)

(* HighTable::new of acb/header.rs: nothing is compared with the length.    *)
AcbHighTable(b) ==
    LET file == [k \in 1 .. HEADER_SIZE |-> IF k <= Len(b) THEN b[k] ELSE 0]
        h == TableHeader(file)
        columns == new_columns(b, h.column_count)
        rows == new_rows(b, h, columns.list)
        strings == parse_strings(Sub(b, h.string_pool_offset, h.data_pool_offset), h.encoding)
    IN  IF ~columns.ok THEN Rejected
        ELSE IF h.string_pool_offset > h.data_pool_offset \/ h.data_pool_offset > Len(b)
        THEN Panicked
        ELSE IF h.row_count > MaxRows THEN Exhausted(h)
        ELSE IF ~rows.ok \/ ~strings.ok THEN Rejected
        ELSE Table(b, h, columns.list, rows.list, strings.at)

(* Columns by name: the first one of that name, in ACB the last.            *)
Named(t, name) == {c \in DOMAIN t.columns : get_string(t.strings, t.columns[c].name) = name}
column_index(t, name) ==
    IF Named(t, name) = {} THEN 0
    ELSE CHOOSE c \in Named(t, name) : \A d \in Named(t, name) : c <= d

(* Mutant: the columns without a name are not counted.                      *)
acb_index_OfNamed(t, name) ==
    IF Named(t, name) = {} THEN 0
    ELSE LET c == CHOOSE c \in Named(t, name) : \A d \in Named(t, name) : d <= c
         IN  Len(SelectSeq(SubSeq(t.columns, 1, c), LAMBDA d : d.name # NoName))

acb_index(t, name) ==
    IF Named(t, name) = {} THEN 0
    ELSE CHOOSE c \in Named(t, name) : \A d \in Named(t, name) : d <= c

(* value: the one of the row, or the default of the column.                 *)
value(t, r, c) ==
    IF r \notin DOMAIN t.rows \/ c \notin DOMAIN t.columns THEN NoValue
    ELSE IF t.rows[r][c] = NoValue THEN t.columns[c].default ELSE t.rows[r][c]
value_by_name(t, r, name) == value(t, r, column_index(t, name))
get_value(t, r, name) ==
    IF acb_index(t, name) = 0 THEN NoValue ELSE t.rows[r][acb_index(t, name)]

(* row_value_to_u64, string_at, data_by_name: NoNumber and NoString when    *)
(* there is none; data of length zero is none.                              *)
NoNumber == -1
row_value_to_u64(v) ==
    IF v.type \in {"Byte", "UInt16", "UInt32", "UInt64", "SByte", "Int16", "Int32", "Int64"}
        /\ v.v >= 0
    THEN v.v ELSE NoNumber
string_at(t, v) ==
    IF v.type = "String" /\ v.v # 0 THEN get_string(t.strings, v.v) ELSE NoString
data(t, v) ==
    LET start == t.header.data_pool_offset + v.offset
    IN  IF v.type = "Data" /\ v.length # 0 /\ start + v.length <= Len(t.alloc)
        THEN Sub(t.alloc, start, start + v.length) ELSE NoString
=============================================================================
