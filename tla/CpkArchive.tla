----------------------------- MODULE CpkArchive -----------------------------
(***************************************************************************)
(* A call of CpkWriter followed by a CpkReader on the file under the name  *)
(* of the output: the complete archive after Ok, a partial one after an    *)
(* error, a failed write or a kill, and the archive that was there before, *)
(* perhaps of another tool, when the call was refused first.               *)
(***************************************************************************)
EXTENDS CpkWriter

CONSTANT Earlier(_)     \* what the output may hold before a call

(* A number of a parsed table, -1 for one it has not; the header's missing   *)
(* numbers are zero.                                                         *)
Numbers == Nat \cup {-1}
TocRow == [dir : Strings, name : Strings, user : Strings, size : Numbers,
           extract : Numbers, id : Numbers, offset : Numbers]
ItocRow == [id : Numbers, size : Numbers, extract : Numbers]

(* The chunks of an archive hold parsed tables, which are rows of numbers    *)
(* and strings.                                                              *)
ASSUME EarlierAssumption ==
    \A j \in Jobs : \A b \in Earlier(j) : \A e \in b.ext :
        /\ e.kind = "cpk" =>
            \A c \in {"TocOffset", "ItocOffset", "ContentOffset", "Align", "EID"} : e.body[c] \in Nat
        /\ e.kind = "toc" => e.body \in Seq(TocRow)
        /\ e.kind = "itoc" => \A t \in DOMAIN e.body : e.body[t] \in Seq(ItocRow)

VARIABLES
    before,                     \* what the output held: [ext, len]
    metadata, listed, result    \* the CpkReader

stream == IF old THEN before ELSE [ext |-> out, len |-> FileLength]

R == INSTANCE CpkReader WITH MaxU32 <- U32Max, MaxU64 <- U64Max

readerVars == <<metadata, listed, result>>
allVars == <<vars, before, readerVars>>

ArchiveInit == Init /\ R!Init /\ before \in Earlier(job)
ReadBack == Stopped /\ UNCHANGED <<vars, before>> /\ R!Next
ArchiveNext ==
    \/ Next /\ UNCHANGED <<before, readerVars>>
    \/ ReadBack
ArchiveSpec == ArchiveInit /\ [][ArchiveNext]_allVars /\ WF_vars(Step)

-----------------------------------------------------------------------------
(* A source grew after it was planned, and all of it was copied.            *)
Overrun == \E e \in out : e.kind = "data" /\ e.len > files[e.body.file].size

(* The file an entry of the listing is: by position in a TOC, by id in an   *)
(* ITOC.                                                                    *)
FileOf(j) == IF has_toc(job.mode) THEN j ELSE order[j]

(* The reader refuses a TOC with a file that has no name; the writer does   *)
(* not look.                                                                *)
Nameless == has_toc(job.mode) /\ \E i \in Files : files[i].name = ""

(* After Ok, get_files lists every file packed, once, with its names, id    *)
(* and sizes (an ITOC keeps no names and no attribute), and every entry can *)
(* be read, unless a file of a TOC has no name: then it fails as a whole.   *)
ListingIsInput ==
    pc = "ok" /\ metadata # <<>> =>
        /\ result = "get_files failed" <=> Nameless
        /\ ~Nameless => Len(listed) = Len(files)
        /\ \A j \in DOMAIN listed :
            LET f == files[FileOf(j)] IN
            /\ listed[j].id = f.id /\ listed[j].size = f.size
            /\ listed[j].extract = IF f.extract = 0 THEN f.size ELSE f.extract
            /\ has_toc(job.mode) =>
                listed[j].dir = f.dir /\ listed[j].name = f.name /\ listed[j].user = f.user
            /\ R!Readable(listed[j])

(* What an entry reads is its own payload from the first byte, and nothing  *)
(* else: after Ok and just as well in the partial archive an error or a     *)
(* kill leaves, where an entry is whole or unreadable.  Only a source that  *)
(* grew while it was copied may have run over the entries after it.         *)
EntryIsItsPayload ==
    ~old /\ ~Overrun =>
        \A j \in DOMAIN listed :
            R!Readable(listed[j]) /\ listed[j].size > 0 =>
                \E e \in out :
                    /\ R!Sources(listed[j].offset, listed[j].size) = {e}
                    /\ e.kind = "data" /\ e.body.file = FileOf(j) /\ e.at = listed[j].offset

(* The offsets the writer accumulates from the aligned cursor, those the    *)
(* TOC gives, those the reader accumulates from the rows of the ITOC and    *)
(* those of the engine's lookup are the same, however low and high rows     *)
(* interleave.                                                              *)
IndexesAgree ==
    pc = "ok" =>
        /\ has_toc(job.mode) =>
            \A j \in DOMAIN listed : listed[j].offset = off[j]
        /\ has_itoc(job.mode) =>
            LET itoc == R!read_itoc(header_row) IN
            /\ itoc.ok
            /\ \A j \in DOMAIN itoc.files :
                /\ itoc.files[j].offset = off[order[j]]
                /\ itoc.files[j].offset = R!engine_offset(header_row, itoc_body, itoc.files[j].id)

(* A listing made from an ITOC has every id once, and gives each entry the  *)
(* offset at which the engine finds it, whatever the alignment, the sizes   *)
(* and the way the ids are spread over the two tables: in the archives of   *)
(* other tools and in those the writer makes.                               *)
ListingIsEngineLookup == R!ListingIsEngineLookup

(* A listing is only made from a header that names an index, and every row  *)
(* of the index is in it: an entry that cannot be located makes get_files   *)
(* fail as a whole instead of disappearing.                                 *)
NothingDropped == R!NothingDropped
=============================================================================
