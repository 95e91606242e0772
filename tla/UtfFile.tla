------------------------------- MODULE UtfFile -------------------------------
(***************************************************************************)
(* The life of a @UTF table: this library or another tool writes it, in a  *)
(* chunk of an archive, it may be damaged on the way, and both readers of  *)
(* this library open it.                                                   *)
(***************************************************************************)
EXTENDS UtfChunk, UtfTable

CONSTANTS
    BuilderInputs,  \* [name, columns, rows] given to the builder
    OtherTables,    \* tables other tools write
    Kinds,          \* kinds of chunks
    Trailers,       \* how many bytes follow the chunk in the archive
    DamageBytes     \* what a damaged byte becomes

VARIABLES
    source,     \* what was written: the tables as values
    form,       \* the kind of the chunk, and whether it is enciphered
    image,      \* the bytes from the chunk on
    damaged,    \* whether a byte changed or the end is missing
    opened,     \* what the CPK code made of it
    acb         \* what HighTable::new of the ACB code made of the bare table

vars == <<source, form, image, damaged, opened, acb>>

ASSUME UtfAssumption ==
    /\ DamageBytes \subseteq Byte /\ Trailers \subseteq Nat /\ HeaderArea \in Nat
    /\ Kinds \subseteq DOMAIN Magic
    /\ \A t \in OtherTables : IsTable(t) /\ IsSmall(t) /\ Fits(t)
    /\ \A i \in BuilderInputs :
        /\ i.columns \in Seq(ToSet(i.columns))
        /\ \A c \in DOMAIN i.columns : i.columns[c].type \in ToSet(TypeNames)
        /\ WellTyped(i.columns, i.rows) =>
            LET t == BuilderTable(i.name, i.columns, i.rows) IN IsTable(t) /\ IsSmall(t)

Unopened == [outcome |-> "none"]

Init ==
    /\ source = <<>> /\ form = <<>> /\ image = <<>> /\ damaged = FALSE
    /\ opened = Unopened /\ acb = Unopened

Zeros(n) == [k \in 1 .. n |-> 0]

(* The builder refuses the table or its chunk is written.                   *)
Build(i, kind, trailer) ==
    /\ source = <<>>
    /\ source' = BuilderTable(i.name, i.columns, i.rows)
    /\ form' = [kind |-> kind, cipher |-> FALSE]
    /\ LET table == build(i.name, i.columns, i.rows)
       IN  image' = IF table = <<>> THEN <<>> ELSE build_chunk(kind, table) \o Zeros(trailer)
    /\ UNCHANGED <<damaged, opened, acb>>

OtherTool(t, kind, cipher, trailer) ==
    /\ source = <<>>
    /\ source' = t
    /\ form' = [kind |-> kind, cipher |-> cipher]
    /\ LET chunk == IF cipher THEN Chunk(kind, 0, decrypt_utf_scalar(Image(t)))
                    ELSE Chunk(kind, 255, Image(t))
       IN  image' = chunk \o Zeros(trailer)
    /\ UNCHANGED <<damaged, opened, acb>>

Intact == image # <<>> /\ ~damaged /\ opened = Unopened /\ acb = Unopened

ChangeByte(k, b) ==
    /\ Intact /\ image[k] # b
    /\ image' = [image EXCEPT ![k] = b]
    /\ damaged' = TRUE
    /\ UNCHANGED <<source, form, opened, acb>>

CutShort(n) ==
    /\ Intact
    /\ image' = SubSeq(image, 1, n)
    /\ damaged' = TRUE
    /\ UNCHANGED <<source, form, opened, acb>>

Open ==
    /\ source # <<>> /\ opened = Unopened
    /\ opened' = ReadTable(image, form.kind)
    /\ UNCHANGED <<source, form, image, damaged, acb>>

(* An ACB file is a table without a chunk, never enciphered.                *)
OpenAcb ==
    /\ image # <<>> /\ ~damaged /\ ~form.cipher /\ acb = Unopened
    /\ acb' = AcbHighTable(SubSeq(image, CPK_CHUNK_HEADER_SIZE + 1, Len(image)))
    /\ UNCHANGED <<source, form, image, damaged, opened>>

Next ==
    \/ \E i \in BuilderInputs, kind \in Kinds, n \in Trailers : Build(i, kind, n)
    \/ \E t \in OtherTables, kind \in Kinds, cipher \in BOOLEAN, n \in Trailers :
        OtherTool(t, kind, cipher, n)
    \/ \E k \in DOMAIN image, b \in DamageBytes : ChangeByte(k, b)
    \/ \E n \in 0 .. Len(image) - 1 : CutShort(n)
    \/ Open \/ OpenAcb

UtfSpec == Init /\ [][Next]_vars

-----------------------------------------------------------------------------
(* What a field of the table was given, and what a reader makes of it.      *)
Given(t, r, c) ==
    IF Has(t.columns[c].flag, ROW_STORAGE) THEN t.rows[r][c]
    ELSE IF Has(t.columns[c].flag, DEFAULT_VALUE) THEN t.columns[c].default
    ELSE NoValue
SameValue(t, v, given) ==
    CASE given.type = "None" -> v = NoValue
      [] given.type = "String" -> string_at(t, v) = (IF given.v = <<>> THEN NoString ELSE given.v)
      [] given.type = "Data" -> data(t, v) = (IF given.v = <<>> THEN NoString ELSE given.v)
      [] OTHER -> v = given
FirstNamed(c) ==
    Has(source.columns[c].flag, NAME)
        /\ \A d \in 1 .. c - 1 : source.columns[d].name # source.columns[c].name
Unique(c) ==
    FirstNamed(c) /\ \A d \in Columns(source) : d # c => source.columns[d].name # source.columns[c].name

(* The table of an archive's header may be too long for its area.           *)
TooLong == form.kind = "Cpk" /\ CPK_CHUNK_HEADER_SIZE + Len(Image(source)) > HeaderArea

(* A table, of this library's builder or of another tool, plain or          *)
(* enciphered, is read back as it was given: every row, by the names of the *)
(* columns, the stored values, the defaults where nothing is stored,        *)
(* whatever the padding, the order of the strings, how often one occurs and *)
(* what follows the chunk; only the header of an archive has a longest      *)
(* table, beyond which it is refused.  TableDecryptor::is_encrypted, which  *)
(* looks at the table, says what the marker of the chunk says.              *)
ReadBack ==
    image # <<>> /\ ~damaged /\ opened # Unopened =>
        /\ form.cipher <=> is_encrypted(SubSeq(image, CPK_CHUNK_HEADER_SIZE + 1, Len(image)))
        /\ TooLong <=> opened = Rejected
        /\ ~TooLong =>
            /\ Len(opened.rows) = Len(source.rows)
            /\ \A r \in DOMAIN source.rows, c \in Columns(source) :
                FirstNamed(c) =>
                    SameValue(opened, value_by_name(opened, r, source.columns[c].name),
                              Given(source, r, c))

(* The two readers of the library agree on every field that is stored and   *)
(* whose name is its own.                                                   *)
ReadersAgree ==
    ~damaged /\ opened.outcome = "table" /\ acb # Unopened =>
        /\ acb.outcome = "table"
        /\ \A r \in DOMAIN source.rows, c \in Columns(source) :
            Has(source.columns[c].flag, ROW_STORAGE) /\ Unique(c) =>
                get_value(acb, r, source.columns[c].name)
                    = value_by_name(opened, r, source.columns[c].name)

(* The writer plans its layout with table lengths it gets before it builds  *)
(* the tables: header, five bytes per column, the rows, every string once,  *)
(* the data.  The length in the chunk is that of the table.                 *)
LengthAsPlanned ==
    image # <<>> /\ ~damaged /\ (\A c \in Columns(source) :
            source.columns[c].flag \div 16 = 5) =>
        Number(Reverse(Sub(image, 8, 16))) =
            32 + 5 * Len(source.columns) + row_size(source) * Len(source.rows)
                + InternedBytes({Strings(source)[i] : i \in DOMAIN Strings(source)})
                + Len(DataBefore(source, Len(Fields(source)) + 1))

(* Whatever happened to it, opening a table in the CPK code ends with an    *)
(* error or with a table whose sections follow one another within its own   *)
(* bytes, never in a panic.  It runs out of memory only if there is less    *)
(* than the rows in that many bytes take, or for rows without a byte, which *)
(* no length of the table limits and which are reserved all the same.       *)
DamageIsContained ==
    damaged /\ opened # Unopened =>
        \/ opened.outcome = "error"
        \/ /\ opened.outcome = "table"
           /\ Len(opened.alloc) <= Len(image) - CPK_CHUNK_HEADER_SIZE
           /\ LET h == opened.header IN
              /\ h.rows_offset + h.row_size * Len(opened.rows) <= h.string_pool_offset
              /\ h.data_pool_offset <= Len(opened.alloc)
        \/ /\ opened.outcome = "abort"
           /\ opened.header.row_size = 0 \/ MaxRows < Len(image)
=============================================================================
