------------------------------ MODULE CpkReader ------------------------------
(***************************************************************************)
(* CpkReader (cpk/reader.rs) over a stream that does not change: get_files *)
(* parses the header and one index, read_packed_file returns the bytes of  *)
(* an entry.  The stream is a length and a set of extents (see CpkWriter); *)
(* a table is its rows, with -1 for what is no number or has no column.    *)
(***************************************************************************)
EXTENDS Selection

CONSTANTS
    MaxU32,     \* u32::MAX
    MaxU64      \* u64::MAX

(* Mutant: the offsets of a TOC count from the start of the archive.        *)
TocFileBase_Start == 0

TocFileBase == 2048     \* ENGINE_TOC_FILE_BASE

VARIABLES
    stream,     \* [ext, len]: what the archive holds
    metadata,   \* Option<CpkMetadata>: <<>> or <<row>>
    listed,     \* the files get_files returned last, or <<>>
    result      \* how the last call ended

readerVars == <<metadata, listed, result>>

-----------------------------------------------------------------------------
(* TableContainer::new at a position: a chunk of the wanted kind must start *)
(* there, and all of it must be in the stream.                              *)
ChunksAt(at, kind) ==
    {e \in stream.ext : e.at = at /\ e.kind = kind /\ e.at + e.len <= stream.len}
ChunkBody(at, kind) == (CHOOSE e \in ChunksAt(at, kind) : TRUE).body

(* Mutant: no padding.                                                      *)
align_up_None(v, a) == v

align_up(v, a) ==
    IF a <= 1 \/ v % a = 0 THEN v ELSE v + (a - (v % a))

OrElse(v, default) == IF v = -1 THEN default ELSE v

(* CpkFile::new: an ExtractSize of zero means the packed size.              *)
CpkFile(dir, name, user, offset, size, extract, id) ==
    [dir |-> dir, name |-> name, user |-> user, offset |-> offset, size |-> size,
     extract |-> IF extract = 0 THEN size ELSE extract, id |-> id]

Failed == [ok |-> FALSE, files |-> <<>>]
Listing(fs) == [ok |-> TRUE, files |-> fs]

(* read_toc: a row needs a name (the null string is none), a size and an    *)
(* offset, which counts from 0x800 whatever the ContentOffset.  An id of    *)
(* more than 32 bits is none.                                               *)
ValidTocRow(r) ==
    /\ r.name # "" /\ r.size # -1 /\ r.offset # -1
    /\ r.size <= MaxU32 /\ OrElse(r.extract, r.size) <= MaxU32
    /\ TocFileBase + r.offset <= MaxU64
ShortId(id) == IF id > MaxU32 THEN -1 ELSE id
toc_entries(rows) ==
    IF \A j \in DOMAIN rows : ValidTocRow(rows[j])
    THEN Listing([j \in DOMAIN rows |->
            CpkFile(rows[j].dir, rows[j].name, rows[j].user,
                    TocFileBase + rows[j].offset, rows[j].size,
                    OrElse(rows[j].extract, rows[j].size), ShortId(rows[j].id))])
    ELSE Failed
read_toc(md) ==
    IF ChunksAt(md.TocOffset, "toc") = {} THEN Failed
    ELSE toc_entries(ChunkBody(md.TocOffset, "toc"))

(* Mutant: the rows of DataH are left out.                                  *)
ItocTables_LowOnly(md, body) ==
    IF md.EID # 0
    THEN IF "rows" \in DOMAIN body THEN {body.rows} ELSE {}
    ELSE IF {"DataL", "DataH"} \subseteq DOMAIN body THEN {body.DataL} ELSE {}

(* collect_itoc_rows over the outer table, or over DataL then DataH; both   *)
(* must be there when EID is zero.                                          *)
ItocTables(md, body) ==
    IF md.EID # 0
    THEN IF "rows" \in DOMAIN body THEN {body.rows} ELSE {}
    ELSE IF {"DataL", "DataH"} \subseteq DOMAIN body THEN {body.DataL \o body.DataH} ELSE {}

(* What collect_itoc_rows takes of a row: the columns of these names, or    *)
(* those at their usual places, -1 where there is no number.                *)
itoc_row(columns, values) ==
    LET named(name) == {c \in DOMAIN columns : columns[c] = name}
        column(name, place) == IF named(name) = {} THEN place ELSE Nth(named(name), 1)
        value(c) == IF c \in DOMAIN values THEN values[c] ELSE -1
    IN  [id |-> value(column("ID", 1)), size |-> value(column("FileSize", 2)),
         extract |-> value(column("ExtractSize", 3))]
ValidItocRow(r) ==
    /\ r.id \in 0 .. MaxU32 /\ r.size \in 0 .. MaxU32
    /\ OrElse(r.extract, r.size) <= MaxU32

(* materialize_itoc_rows: each payload follows the padded one before it.    *)
padded_sizes(rows, a) == [j \in DOMAIN rows |-> align_up(rows[j].size, a)]
relative_offset(rows, a, j) == Sums(padded_sizes(rows, a))[j - 1]
OffsetsFit(rows, content, a) ==
    \A j \in DOMAIN rows :
        content + relative_offset(rows, a, j) <= MaxU64 /\ relative_offset(rows, a, j + 1) <= MaxU64
ItocName == "NNNNN.bin"     \* format!("{:05}.bin", id): named by the id alone
materialize_itoc_rows(rows, content, a) ==
    [j \in DOMAIN rows |->
        CpkFile("", ItocName, "", content + relative_offset(rows, a, j), rows[j].size,
                OrElse(rows[j].extract, rows[j].size), rows[j].id)]

(* Mutant: the low rows, then the high ones.                                *)
SortById_LowThenHigh(rows) == rows

(* sort_by_key on the id: stable, so equal ids stay neighbours.             *)
IdOrder(rows) ==
    {p \in (DOMAIN rows) \X (DOMAIN rows) :
        \/ rows[p[1]].id < rows[p[2]].id
        \/ rows[p[1]].id = rows[p[2]].id /\ p[1] < p[2]}
SortById(rows) == [n \in DOMAIN rows |-> rows[NthIn(DOMAIN rows, IdOrder(rows), n)]]

(* The rows by id, refused when two have the same.                          *)
itoc_entries(md, body) ==
    LET tables == ItocTables(md, body)
        rows == SortById(CHOOSE t \in tables : TRUE)
        alignment == IF md.Align = 0 THEN 1 ELSE md.Align
    IN  IF /\ tables # {}
           /\ \A j \in DOMAIN rows : ValidItocRow(rows[j])
           /\ \A j \in 2 .. Len(rows) : rows[j - 1].id # rows[j].id
           /\ OffsetsFit(rows, md.ContentOffset, alignment)
        THEN Listing(materialize_itoc_rows(rows, md.ContentOffset, alignment))
        ELSE Failed
read_itoc(md) ==
    IF md.ContentOffset = 0 \/ md.ContentOffset > MaxU32 THEN Failed
    ELSE IF ChunksAt(md.ItocOffset, "itoc") = {} THEN Failed
    ELSE itoc_entries(md, ChunkBody(md.ItocOffset, "itoc"))

(* The TOC is preferred whenever the header names one.                      *)
ReadIndex(md) ==
    IF md.TocOffset # 0 THEN read_toc(md)
    ELSE IF md.ItocOffset # 0 THEN read_itoc(md)
    ELSE Failed

-----------------------------------------------------------------------------
Init ==
    /\ metadata = <<>>
    /\ listed = <<>>
    /\ result = "none"

(* get_files.  The metadata is kept even when the index turns out bad.      *)
GetFilesBadHeader ==
    /\ ChunksAt(0, "cpk") = {}
    /\ result' = "get_files failed"
    /\ UNCHANGED <<stream, metadata, listed>>

GetFiles ==
    /\ ChunksAt(0, "cpk") # {}
    /\ LET md == ChunkBody(0, "cpk")
           index == ReadIndex(md)
       IN  /\ metadata' = <<md>>
           /\ listed' = IF index.ok THEN index.files ELSE listed
           /\ result' = IF index.ok THEN "listed" ELSE "get_files failed"
    /\ UNCHANGED stream

(* The extents the bytes offset .. offset + size - 1 come from.             *)
Sources(offset, size) ==
    {e \in stream.ext : e.len > 0 /\ e.at < offset + size /\ offset < e.at + e.len}

(* read_packed_file of a listed entry: read_exact fails past the end.       *)
Readable(f) == metadata # <<>> /\ (f.size = 0 \/ f.offset + f.size <= stream.len)

ReadPackedFile(j) ==
    /\ result' = IF Readable(listed[j]) THEN "read" ELSE "read failed"
    /\ UNCHANGED <<stream, metadata, listed>>

Next ==
    \/ GetFilesBadHeader
    \/ GetFiles
    \/ \E j \in DOMAIN listed : ReadPackedFile(j)
-----------------------------------------------------------------------------
(* The engine (ENGINE_ANALYSIS.md): FUN_8106706C looks an id up in DataL    *)
(* and in DataH by binary search, takes the insertion index in the table    *)
(* that does not have it, and FUN_81066ED2 sums the aligned sizes of both   *)
(* prefixes.  Align is never zero there.                                    *)
InsertionIndex(rows, id) == Cardinality({j \in DOMAIN rows : rows[j].id < id})
AlignedSizes(rows, a) == [j \in DOMAIN rows |-> a * ((rows[j].size + a - 1) \div a)]
PrefixBytes(rows, id, a) == Sums(AlignedSizes(rows, a))[InsertionIndex(rows, id)]
engine_offset(md, body, id) ==
    IF md.EID # 0 THEN md.ContentOffset + PrefixBytes(body.rows, id, md.Align)
    ELSE md.ContentOffset + PrefixBytes(body.DataL, id, md.Align)
                          + PrefixBytes(body.DataH, id, md.Align)

(* The tables the engine can search: each in ascending order of ids.        *)
Ascending(rows) == \A i, j \in DOMAIN rows : i < j => rows[i].id < rows[j].id
Searchable(body) == \A t \in DOMAIN body : Ascending(body[t])

(* A listing made from an ITOC has every id once, and gives each entry the  *)
(* offset at which the engine finds it, whatever the alignment, the sizes   *)
(* and the way the ids are spread over the two tables.                      *)
ListingIsEngineLookup ==
    result = "listed" /\ metadata[1].TocOffset = 0 =>
        LET md == metadata[1]
            body == ChunkBody(md.ItocOffset, "itoc")
        IN  /\ \A i, j \in DOMAIN listed : i < j => listed[i].id < listed[j].id
            /\ Searchable(body) /\ md.Align # 0 =>
                \A j \in DOMAIN listed : listed[j].offset = engine_offset(md, body, listed[j].id)

(* A listing is only made from a header that names an index, and every row  *)
(* of the index is in it: an entry that cannot be located makes get_files   *)
(* fail as a whole instead of disappearing.                                 *)
NothingDropped ==
    result = "listed" =>
        LET md == metadata[1]
            toc == ChunkBody(md.TocOffset, "toc")
            itoc == ChunkBody(md.ItocOffset, "itoc")
        IN  /\ md.TocOffset # 0 \/ md.ItocOffset # 0
            /\ Len(listed) =
                IF md.TocOffset # 0 THEN Len(toc)
                ELSE IF md.EID # 0 THEN Len(itoc.rows)
                ELSE Len(itoc.DataL) + Len(itoc.DataH)
=============================================================================
