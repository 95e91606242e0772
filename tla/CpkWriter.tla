------------------------------ MODULE CpkWriter ------------------------------
(***************************************************************************)
(* CpkWriter (cpk/writer.rs): one call of pack_directory or of             *)
(* pack_files_with_profile, from the entry to the returned result.         *)
(*                                                                         *)
(* The output is a set of extents, one for each write the code makes: where*)
(* it starts, how long it is, what it holds.  A table is its rows, a       *)
(* payload the index of its file.  The sources are other files of the file *)
(* system: the planning trusts the sizes taken earlier, and a source may   *)
(* change, shrink, grow or disappear until the moment it is copied.  The   *)
(* process may be killed, and a write may fail, between any two steps.     *)
(***************************************************************************)
EXTENDS Selection

CONSTANTS
    Jobs,           \* the calls: [entry, alignment, mode, direct, files]
    Strings,        \* the strings of the tables
    PoolBytes(_),   \* bytes the string pool of a set of strings takes
    U16Max,         \* u16::MAX
    U32Max,         \* u32::MAX
    U64Max,         \* u64::MAX
    CountMax,       \* u32::MAX, of a number of files
    P5rFeature,     \* the crate is built with cpk_encryption_p5r
    Lengths,        \* lengths a source file may change to; -1: it is gone
    MaxChanges      \* bound: changes of source files during a call

IndexBase == 2048           \* ENGINE_INDEX_BASE
MarkerOffset == 2042        \* COPYRIGHT_MARKER_OFFSET
ChunkHeaderBytes == 16      \* CPK_CHUNK_HEADER_SIZE

VARIABLES
    job,        \* the call
    pc,         \* where it is
    err,        \* the error it returned
    order,      \* physical_order: the k-th payload is that of file order[k]
    lay,        \* the offsets planned: toc, itoc, content, size of the archive
    off,        \* absolute_offsets, by file
    k,          \* position in the loop over physical_order
    cursor,     \* absolute_cursor
    out,        \* the extents written since File::create
    pos,        \* the stream position
    lost,       \* bytes written last that an interruption kept from the disk
    old,        \* the output file still holds what it held before the call
    avail,      \* the bytes each source holds now
    changes     \* changes of source files so far

outVars == <<out, pos, lost, old>>
planVars == <<order, lay, off, k, cursor>>
vars == <<job, pc, err, planVars, outVars, avail, changes>>

-----------------------------------------------------------------------------
files == job.files
Files == 1 .. Len(files)
alignment == job.alignment

has_toc(mode) == mode \in {"Toc", "TocAndItoc"}
has_itoc(mode) == mode \in {"Itoc", "TocAndItoc"}

(* validate_alignment: a nonzero power of two; an alignment is a u16.       *)
PowersOfTwo ==
    {1, 2, 4, 8, 16, 32, 64, 128, 256, 512, 1024, 2048, 4096, 8192, 16384, 32768}
ValidAlignment(a) == a \in PowersOfTwo

(* value & !mask: value without the bits of a mask of 16 bits.              *)
Bit(v, p) == (v \div p) % 2
AndNot(mask) ==
    [v \in Nat |->
        LET b(p) == p * Bit(v, p) * Bit(mask, p)
        IN  v - (b(1) + b(2) + b(4) + b(8) + b(16) + b(32) + b(64) + b(128) + b(256) + b(512)
                 + b(1024) + b(2048) + b(4096) + b(8192) + b(16384) + b(32768))]

(* Mutant: rounds down, as value & !mask does.                              *)
align_up_Down(v, a) == AndNot(a - 1)[v]

(* (value + mask) & !mask.  Its result is a multiple of the alignment only  *)
(* if that is a power of two.                                               *)
align_up(v, a) == AndNot(a - 1)[v + a - 1]
AlignOverflows(v, a) == v + a - 1 > U64Max

-----------------------------------------------------------------------------
(* Tables: their rows, and the bytes UtfTableBuilder::build gives them.     *)

TableBytes(columns, rowBytes, rows, strings, data) ==
    32 + 5 * columns + rowBytes * rows + PoolBytes(strings) + data

(* table_size_field, the largest of the u32 fields of a table.              *)
TableFits(bytes) == bytes - 8 <= U32Max

TocStrings(fs) ==
    {"CpkTocInfo", "DirName", "FileName", "FileSize", "ExtractSize", "FileOffset",
     "ID", "UserString"}
    \cup UNION {{fs[i].dir, fs[i].name, fs[i].user} : i \in 1 .. Len(fs)}
toc_table_len(fs) == TableBytes(7, 32, Len(fs), TocStrings(fs), 0)

ItocStrings(table) == {table, "ID", "FileSize", "ExtractSize"}

(* Mutant: only the packed size decides.                                     *)
IsLow_PackedOnly(f) == f.size <= U16Max

(* The rows that go to DataL: both sizes fit 16 bits.                        *)
IsLow(f) == f.size <= U16Max /\ f.extract <= U16Max
LowCount(fs) == Cardinality({i \in 1 .. Len(fs) : IsLow(fs[i])})

itoc_table_len(fs, direct) ==
    IF direct THEN TableBytes(3, 10, Len(fs), ItocStrings("CpkExtendId"), 0)
    ELSE TableBytes(2, 16, 1, {"CpkItocInfo", "DataL", "DataH"},
            TableBytes(3, 6, LowCount(fs), ItocStrings("CpkItocL"), 0)
          + TableBytes(3, 10, Len(fs) - LowCount(fs), ItocStrings("CpkItocH"), 0))

HeaderStrings ==
    {"CpkHeader", "UpdateDateTime", "FileSize", "ContentOffset", "ContentSize",
     "TocOffset", "TocSize", "EtocOffset", "EtocSize", "ItocOffset", "ItocSize",
     "GtocOffset", "GtocSize", "Files", "Version", "Revision", "Align", "Sorted",
     "EID", "EnableFileName", "CpkMode", "Tvers", "Comment", "Codec", "DpkItoc",
     "EnableTocCrc", "EnableFileCrc"}
header_table_len(j) ==
    TableBytes(26, 136, 1, HeaderStrings \cup {j.tvers, j.comment}, 0)

chunk_size(table) == ChunkHeaderBytes + table

(* CpkInputFile: raw and rawsize are its raw_payload, `has` the bytes its     *)
(* source holds when the call is made (-1: there is none).                    *)
InputFiles ==
    [dir : Strings, name : Strings, user : Strings, size : Nat, extract : Nat, id : Nat,
     raw : BOOLEAN, rawsize : Nat, has : Nat \cup {-1}]

(* The numbers of a CpkInputFile are u32; pack_directory, which finds the     *)
(* length of a file as a u64, checks it before it makes one.                  *)
FieldsAre32Bits(entry, f) ==
    /\ f.id <= U32Max /\ f.rawsize <= U32Max
    /\ IF entry = "directory" THEN f.extract = f.size
       ELSE f.size <= U32Max /\ f.extract <= U32Max

ASSUME WriterAssumption ==
    /\ U16Max \in Nat /\ U32Max \in Nat /\ U64Max \in Nat /\ CountMax \in Nat
    /\ MaxChanges \in Nat /\ P5rFeature \in BOOLEAN
    /\ Lengths \subseteq Nat \cup {-1}
    /\ \A j \in Jobs :
        /\ j.files \in Seq(InputFiles)
        /\ j.entry \in {"directory", "files"}
        /\ j.alignment \in Nat
        /\ j.mode \in {"Toc", "Itoc", "TocAndItoc"} /\ j.direct \in BOOLEAN
        /\ toc_table_len(j.files) \in Nat
        /\ itoc_table_len(j.files, j.direct) \in Nat
        /\ header_table_len(j) \in Nat
        /\ \A i \in DOMAIN j.files : FieldsAre32Bits(j.entry, j.files[i])

(* Mutant: the rows in physical order.                                      *)
toc_rows_Physical ==
    [i \in Files |->
        LET f == files[order[i]]
        IN  [dir |-> f.dir, name |-> f.name, user |-> f.user, size |-> f.size,
             extract |-> f.extract, id |-> f.id, offset |-> off[order[i]] - IndexBase]]
toc_rows ==
    [i \in Files |-> [dir |-> files[i].dir, name |-> files[i].name, user |-> files[i].user,
                      size |-> files[i].size, extract |-> files[i].extract,
                      id |-> files[i].id, offset |-> off[i] - IndexBase]]
itoc_rows(indices) ==
    [j \in DOMAIN indices |->
        LET f == files[indices[j]] IN [id |-> f.id, size |-> f.size, extract |-> f.extract]]
LowPositions == {p \in Files : IsLow(files[order[p]])}
itoc_body ==
    IF job.direct THEN [rows |-> itoc_rows(order)]
    ELSE [DataL |-> itoc_rows(Kept(order, LowPositions)),
          DataH |-> itoc_rows(Kept(order, Files \ LowPositions))]
header_row ==
    [FileSize |-> lay.size, ContentOffset |-> lay.content,
     ContentSize |-> lay.size - lay.content, TocOffset |-> lay.toc, ItocOffset |-> lay.itoc,
     Align |-> alignment, Files |-> Len(files),
     EID |-> IF has_itoc(job.mode) /\ job.direct THEN 1 ELSE 0]

-----------------------------------------------------------------------------
(* Writing.                                                                *)

Extent(at, len, kind, body) == [at |-> at, len |-> len, kind |-> kind, body |-> body]
Zeros(from, to) == IF from < to THEN {Extent(from, to - from, "zero", 0)} ELSE {}

(* write_at: zeros up to the offset, or a seek back to it, then the bytes.  *)
write_at(offset, kind, len, body) ==
    /\ out' = out \cup Zeros(pos, offset) \cup {Extent(offset, len, kind, body)}
    /\ pos' = offset + len

Goto(label) == pc' = label /\ UNCHANGED <<err, lost>>

(* The call returns an error; dropping the BufWriter flushes what was       *)
(* written.                                                                 *)
Fail(e) == pc' = "failed" /\ err' = e /\ UNCHANGED lost

(* The length of the output file.                                           *)
FileLength == pos - lost

Stopped == pc \in {"ok", "failed", "killed"}

Init ==
    /\ job \in Jobs
    /\ pc = job.entry
    /\ err = "none"
    /\ order = <<>> /\ off = <<>>
    /\ lay = [toc |-> 0, itoc |-> 0, content |-> 0, size |-> 0]
    /\ k = 0 /\ cursor = 0
    /\ out = {} /\ pos = 0 /\ lost = 0 /\ old = TRUE
    /\ avail = [i \in Files |-> files[i].has]
    /\ changes = 0

(* Mutant: the arguments are left to write_with_profile to check.           *)
PackDirectory_Unchecked ==
    /\ pc = "directory"
    /\ Goto("files")
    /\ UNCHANGED <<job, planVars, out, pos, old, avail, changes>>

(* pack_directory up to its call of pack_files: the alignment and the files *)
(* found, the last of which must have a number, are checked before the      *)
(* output is touched.                                                       *)
PackDirectory ==
    /\ pc = "directory"
    /\ \/ ~ValidAlignment(alignment) /\ Fail("InvalidAlignment")
       \/ /\ ValidAlignment(alignment)
          /\ \E i \in Files : files[i].size > U32Max
          /\ Fail("FileTooLarge")
       \/ /\ ValidAlignment(alignment) /\ Len(files) - 1 > CountMax
          /\ \A i \in Files : files[i].size <= U32Max
          /\ Fail("TooManyFiles")
       \/ /\ ValidAlignment(alignment) /\ files = <<>>
          /\ Fail("EmptyInput")
       \/ /\ ValidAlignment(alignment) /\ files # <<>>
          /\ Len(files) - 1 <= CountMax
          /\ \A i \in Files : files[i].size <= U32Max
          /\ Goto("files")
    /\ UNCHANGED <<job, planVars, out, pos, old, avail, changes>>

(* pack_files_with_profile: File::create empties the output.                *)
Create ==
    /\ pc = "files"
    /\ old' = FALSE
    /\ Goto("validate")
    /\ UNCHANGED <<job, planVars, out, pos, avail, changes>>

(* write_with_profile: the checks and build_physical_order.                 *)
IdTooLarge == \E i \in Files : files[i].id > U16Max
DuplicateId == \E i, j \in Files : i # j /\ files[i].id = files[j].id

Rearrangements(S) == {o \in [S -> S] : \A i \in S : \E j \in S : o[j] = i}
PhysicalOrders ==
    IF has_itoc(job.mode)
    THEN {o \in Rearrangements(Files) :
            \A i, j \in Files : i < j => files[o[i]].id < files[o[j]].id}
    ELSE {[i \in Files |-> i]}

Validate ==
    /\ pc = "validate"
    /\ \/ ~ValidAlignment(alignment) /\ Fail("InvalidAlignment") /\ UNCHANGED order
       \/ /\ ValidAlignment(alignment) /\ files = <<>>
          /\ Fail("EmptyInput") /\ UNCHANGED order
       \/ /\ ValidAlignment(alignment) /\ Len(files) > CountMax
          /\ Fail("TooManyFiles") /\ UNCHANGED order
       \/ /\ ValidAlignment(alignment) /\ Len(files) <= CountMax
          /\ has_itoc(job.mode) /\ (IdTooLarge \/ DuplicateId)
          /\ Fail("BadItocId") /\ UNCHANGED order
       \/ /\ ValidAlignment(alignment) /\ files # <<>> /\ Len(files) <= CountMax
          /\ ~(has_itoc(job.mode) /\ (IdTooLarge \/ DuplicateId))
          /\ order' \in PhysicalOrders
          /\ Goto("layout")
    /\ UNCHANGED <<job, lay, off, k, cursor, out, pos, old, avail, changes>>

(* The metadata chunks are placed one after the other from 0x800, each end  *)
(* aligned, and the content after them.                                     *)
toc_chunk_len == chunk_size(toc_table_len(files))
itoc_chunk_len == chunk_size(itoc_table_len(files, job.direct))

(* Mutant: the chunk header is forgotten.                                   *)
TocEnd_TableOnly ==
    IF has_toc(job.mode) THEN align_up(IndexBase + toc_table_len(files), alignment)
    ELSE IndexBase

TocEnd ==
    IF has_toc(job.mode) THEN align_up(IndexBase + toc_chunk_len, alignment) ELSE IndexBase
ItocEnd ==
    IF has_itoc(job.mode) THEN align_up(TocEnd + itoc_chunk_len, alignment) ELSE TocEnd
ContentOffset == align_up(ItocEnd, alignment)

Layout ==
    /\ pc = "layout"
    /\ \/ /\ \/ has_toc(job.mode) /\ ~TableFits(toc_table_len(files))
             \/ has_itoc(job.mode) /\ ~TableFits(itoc_table_len(files, job.direct))
             \/ AlignOverflows(ItocEnd, alignment)
          /\ Fail("ArithmeticOverflow") /\ UNCHANGED <<lay, off, k, cursor>>
       \/ /\ has_itoc(job.mode) /\ ContentOffset > U32Max
          /\ has_toc(job.mode) => TableFits(toc_table_len(files))
          /\ TableFits(itoc_table_len(files, job.direct))
          /\ ~AlignOverflows(ItocEnd, alignment)
          /\ Fail("ItocContentOffsetTooLarge") /\ UNCHANGED <<lay, off, k, cursor>>
       \/ /\ has_toc(job.mode) => TableFits(toc_table_len(files))
          /\ has_itoc(job.mode) => /\ TableFits(itoc_table_len(files, job.direct))
                                   /\ ContentOffset <= U32Max
          /\ ~AlignOverflows(ItocEnd, alignment)
          /\ lay' = [toc |-> IF has_toc(job.mode) THEN IndexBase ELSE 0,
                     itoc |-> IF has_itoc(job.mode) THEN TocEnd ELSE 0,
                     content |-> ContentOffset, size |-> 0]
          /\ off' = [i \in Files |-> 0]
          /\ k' = 1 /\ cursor' = ContentOffset
          /\ Goto("plan")
    /\ UNCHANGED <<job, order, out, pos, old, avail, changes>>

(* Mutant: an empty file does not advance the loop.                         *)
PlanFile_EmptyStays ==
    /\ pc = "plan" /\ k <= Len(files)
    /\ LET i == order[k]
       IN  /\ off' = [off EXCEPT ![i] = cursor]
           /\ cursor' = align_up(cursor + files[i].size, alignment)
           /\ k' = IF files[i].size = 0 THEN k ELSE k + 1
    /\ Goto("plan")
    /\ UNCHANGED <<job, order, lay, out, pos, old, avail, changes>>

(* One turn of the planning loop: the payload of the next file goes at the  *)
(* cursor, which moves past it to the next multiple of the alignment.       *)
PlanFile ==
    /\ pc = "plan" /\ k <= Len(files)
    /\ LET i == order[k]
           end == cursor + files[i].size
       IN  /\ off' = [off EXCEPT ![i] = cursor]
           /\ \/ AlignOverflows(end, alignment) /\ Fail("ArithmeticOverflow")
                 /\ UNCHANGED <<k, cursor>>
              \/ /\ ~AlignOverflows(end, alignment)
                 /\ cursor' = align_up(end, alignment)
                 /\ k' = k + 1
                 /\ Goto("plan")
    /\ UNCHANGED <<job, order, lay, out, pos, old, avail, changes>>

(* The plan is complete: the tables are built and the header must end       *)
(* before the copyright marker.  That the tables are as long as those the   *)
(* layout was made with, which the code compares, is LengthAsPlanned of     *)
(* UtfFile: no number in a table changes its length.                        *)
header_chunk_len == chunk_size(header_table_len(job))

BuildHeader ==
    /\ pc = "plan" /\ k > Len(files)
    /\ lay' = [lay EXCEPT !.size = cursor]
    /\ \/ header_chunk_len > MarkerOffset /\ Fail("HeaderTooLarge")
       \/ header_chunk_len <= MarkerOffset /\ Goto("header")
    /\ UNCHANGED <<job, order, off, k, cursor, out, pos, old, avail, changes>>

WriteHeader ==
    /\ pc = "header"
    /\ out' = {Extent(0, header_chunk_len, "cpk", header_row)}
              \cup Zeros(header_chunk_len, MarkerOffset)
              \cup {Extent(MarkerOffset, 6, "mark", 0)}
    /\ pos' = MarkerOffset + 6
    /\ Goto("toc")
    /\ UNCHANGED <<job, planVars, old, avail, changes>>

WriteToc ==
    /\ pc = "toc"
    /\ IF has_toc(job.mode) THEN write_at(lay.toc, "toc", toc_chunk_len, toc_rows)
       ELSE UNCHANGED <<out, pos>>
    /\ Goto("itoc")
    /\ UNCHANGED <<job, planVars, old, avail, changes>>

(* The ITOC chunk, then zeros up to the content.                            *)
WriteItoc ==
    /\ pc = "itoc"
    /\ IF has_itoc(job.mode) THEN write_at(lay.itoc, "itoc", itoc_chunk_len, itoc_body)
       ELSE UNCHANGED <<out, pos>>
    /\ Goto("content")
    /\ UNCHANGED <<job, planVars, old, avail, changes>>

(* Mutant: a seek to the content instead of zeros up to it.                 *)
PadToContent_Seeks ==
    /\ pc = "content"
    /\ pos' = lay.content
    /\ k' = 1
    /\ Goto("payload")
    /\ UNCHANGED <<job, order, lay, off, cursor, out, old, avail, changes>>

PadToContent ==
    /\ pc = "content"
    /\ out' = out \cup Zeros(pos, lay.content)
    /\ pos' = IF pos < lay.content THEN lay.content ELSE pos
    /\ k' = 1
    /\ Goto("payload")
    /\ UNCHANGED <<job, order, lay, off, cursor, old, avail, changes>>

(* write_file_payload.  A raw payload is cut at its size; a file is copied  *)
(* to its end, however long it is by now.                                   *)
Encrypts(f) == job.p5r /\ f.user = "CRI_CFATTR:ENCRYPT" /\ ~f.raw

(* Mutant: a source that is gone is not noticed.                            *)
BadSource_GoneIsFine(i) ==
    \/ files[i].raw /\ files[i].rawsize # files[i].size
    \/ Encrypts(files[i]) /\ ~P5rFeature

BadSource(i) ==
    \/ avail[i] = -1
    \/ files[i].raw /\ files[i].rawsize # files[i].size
    \/ Encrypts(files[i]) /\ ~P5rFeature
Copied(i) ==
    IF files[i].raw /\ avail[i] > files[i].rawsize THEN files[i].rawsize ELSE avail[i]
Form(f) == IF f.raw THEN "raw" ELSE IF Encrypts(f) THEN "p5r" ELSE "plain"

CopyPayload ==
    /\ pc = "payload" /\ k <= Len(files)
    /\ LET i == order[k]
           at == off[i]
       IN  \/ /\ pos > at
              /\ Fail("ArithmeticOverflow") /\ UNCHANGED <<out, pos>>
           \/ /\ pos <= at /\ BadSource(i)
              /\ out' = out \cup Zeros(pos, at) /\ pos' = at
              /\ Fail("SourceUnusable")
           \/ /\ pos <= at /\ ~BadSource(i)
              /\ write_at(at, "data", Copied(i), [file |-> i, form |-> Form(files[i])])
              /\ Goto("copied")
    /\ UNCHANGED <<job, planVars, old, avail, changes>>

(* Mutant: the number of bytes copied is not compared with the plan.        *)
CheckCopied_Unchecked ==
    /\ pc = "copied"
    /\ Goto("payload") /\ k' = k + 1
    /\ UNCHANGED <<job, order, lay, off, cursor, out, pos, old, avail, changes>>

(* The bytes copied must be the bytes planned.                              *)
CheckCopied ==
    /\ pc = "copied"
    /\ LET i == order[k]
           copied == pos - off[i]
       IN  \/ copied # files[i].size /\ Fail("SizeChanged") /\ UNCHANGED k
           \/ copied = files[i].size /\ Goto("payload") /\ k' = k + 1
    /\ UNCHANGED <<job, order, lay, off, cursor, out, pos, old, avail, changes>>

(* The zeros after the last payload, and the flush of pack_files.           *)
Finish ==
    /\ pc = "payload" /\ k > Len(files)
    /\ out' = out \cup Zeros(pos, lay.size)
    /\ pos' = IF pos < lay.size THEN lay.size ELSE pos
    /\ Goto("ok")
    /\ UNCHANGED <<job, planVars, old, avail, changes>>

-----------------------------------------------------------------------------
(* The environment.                                                        *)

(* Another program writes to a source file.                                 *)
SourceChanges ==
    /\ ~Stopped /\ changes < MaxChanges
    /\ \E i \in Files, n \in Lengths :
        n # avail[i] /\ avail' = [avail EXCEPT ![i] = n]
    /\ changes' = changes + 1
    /\ UNCHANGED <<job, pc, err, planVars, outVars>>

(* What is on disk when the process dies or a write fails: a prefix of what *)
(* was written, cut at the start of a write, inside one, or at its end.     *)
CutPoints == {pos} \cup {e.at : e \in out} \cup {e.at + (e.len \div 2) : e \in out}

Interrupted ==
    /\ ~Stopped /\ ~old
    /\ \E c \in CutPoints : lost' = pos - c
    /\ \/ pc' = "killed" /\ UNCHANGED err
       \/ /\ pc \in {"header", "toc", "itoc", "content", "payload"}
          /\ pc' = "failed" /\ err' = "Io"
    /\ UNCHANGED <<job, planVars, out, pos, old, avail, changes>>

Step ==
    \/ PackDirectory \/ Create \/ Validate \/ Layout \/ PlanFile \/ BuildHeader
    \/ WriteHeader \/ WriteToc \/ WriteItoc \/ PadToContent \/ CopyPayload
    \/ CheckCopied \/ Finish

Next == Step \/ SourceChanges \/ Interrupted

Spec == Init /\ [][Next]_vars

-----------------------------------------------------------------------------
(* Properties.                                                             *)

Labels ==
    {"directory", "files", "validate", "layout", "plan", "header", "toc", "itoc",
     "content", "payload", "copied", "ok", "failed", "killed"}

(* Type correctness of the state of a call.                                 *)
TypeOK ==
    /\ job \in Jobs /\ pc \in Labels
    /\ order = <<>> \/ order \in [Files -> Files]
    /\ off = <<>> \/ off \in [Files -> Nat]
    /\ lay \in [toc : Nat, itoc : Nat, content : Nat, size : Nat]
    /\ k \in Nat /\ cursor \in Nat /\ pos \in Nat /\ lost \in 0 .. pos
    /\ old \in BOOLEAN
    /\ avail \in [Files -> Nat \cup {-1}]
    /\ changes \in 0 .. MaxChanges
    /\ \A e \in out : e.at \in Nat /\ e.len \in Nat

(* The files whose place is planned: all but the rest of the loop.          *)
Planned == IF pc = "plan" THEN k - 1 ELSE Len(files)
Planning == pc \in {"plan", "header", "toc", "itoc", "content", "payload", "copied", "ok"}

(* The plan gives every payload a range of its own: aligned, after the      *)
(* content offset, before the next payload in physical order and before the *)
(* cursor (in the end, the archive size), which is aligned as well.         *)
PlanIsDisjoint ==
    Planning =>
        /\ cursor % alignment = 0
        /\ \A a \in 1 .. Planned :
            LET i == order[a] IN
            /\ off[i] % alignment = 0
            /\ lay.content <= off[i] /\ off[i] + files[i].size <= cursor
            /\ \A b \in a + 1 .. Planned : off[i] + files[i].size <= off[order[b]]

(* The planned content starts after the index chunks, which do not overlap. *)
ChunksFitBeforeContent ==
    Planning =>
        /\ has_toc(job.mode) => lay.toc + toc_chunk_len <= lay.content
        /\ has_itoc(job.mode) => lay.itoc + itoc_chunk_len <= lay.content
        /\ job.mode = "TocAndItoc" => lay.toc + toc_chunk_len <= lay.itoc
        /\ lay.content % alignment = 0

(* No byte of the output is written twice and none is skipped: the extents  *)
(* written so far are disjoint and fill 0 .. pos - 1.                       *)
OutputIsGapless ==
    /\ \A e, f \in out :
        e # f => \/ e.at + e.len <= f.at \/ f.at + f.len <= e.at
    /\ \A e \in out :
        \/ e.at + e.len = pos
        \/ \E f \in out \ {e} : f.at = e.at + e.len
    /\ out # {} => \E e \in out : e.at = 0

(* A call that returns Ok wrote every payload whole, where the tables say,  *)
(* and nothing beyond the archive size, whatever the sources did meanwhile. *)
OkIsComplete ==
    pc = "ok" =>
        /\ pos = lay.size
        /\ \A i \in Files : \E e \in out :
            e.kind = "data" /\ e.body.file = i /\ e.at = off[i] /\ e.len = files[i].size

(* Every number written fits its field: the rows of an ITOC have 16-bit ids, *)
(* those of DataL 16-bit sizes, other rows 32-bit ones, rows of a TOC 32-bit *)
(* ids, tables a 32-bit size, an ITOC archive a 32-bit content offset, the   *)
(* archive a 64-bit one and a 32-bit count of files, and the header chunk    *)
(* leaves the copyright marker alone.                                        *)
RowFits(r, ids, sizes) == r.id <= ids /\ r.size <= sizes /\ r.extract <= sizes
FieldsFit ==
    \A e \in out :
        /\ e.kind \in {"toc", "itoc"} => TableFits(e.len - ChunkHeaderBytes)
        /\ e.kind = "cpk" =>
            /\ e.len <= MarkerOffset /\ e.body.FileSize <= U64Max /\ e.body.Files <= CountMax
            /\ e.body.ItocOffset # 0 => e.body.ContentOffset <= U32Max
        /\ e.kind = "toc" => \A j \in DOMAIN e.body : RowFits(e.body[j], U32Max, U32Max)
        /\ e.kind = "itoc" =>
            \A t \in DOMAIN e.body : \A j \in DOMAIN e.body[t] :
                RowFits(e.body[t][j], U16Max, IF t = "DataL" THEN U16Max ELSE U32Max)

(* pack_directory rejects its arguments before File::create: the archive    *)
(* that was there survives.  One file more than an archive can count is the *)
(* exception: every file has a number, but write_with_profile refuses their *)
(* count once the output is empty.                                          *)
DirectoryRejectsFirst ==
    /\ job.entry = "directory" /\ err \in {"InvalidAlignment", "EmptyInput", "FileTooLarge"} => old
    /\ job.entry = "directory" /\ err = "TooManyFiles" => old \/ Len(files) = CountMax + 1

(* The call ends.                                                           *)
CallEnds == <>Stopped
=============================================================================
