------------------------------- MODULE CpkCli -------------------------------
(***************************************************************************)
(* cri-cpk-cli: the commands unpack and pack over a directory and the      *)
(* manifest that ties them together (main.rs, manifest.rs).  Between the   *)
(* commands, and during a pack, the user edits the extracted files and     *)
(* replaces archives; a command may be killed between any two writes.      *)
(*                                                                         *)
(* The bytes of a file are a sequence of marks: <<"x">> is some data,      *)
(* <<"layla", "x">> its CriLAYLA form, <<"p5r", ...>> bytes under the P5R  *)
(* transform, <<>> no file at all.  Equal hashes mean equal bytes.  An     *)
(* archive is its index mode and its rows; CpkWriter and CpkReader say how *)
(* rows become bytes and back.                                             *)
(***************************************************************************)
EXTENDS Selection

CONSTANTS
    Archives,       \* file names of archives, none of them in the directory
    Originals,      \* the archives there may be at first, by name
    PathOrder,      \* every path of the directory, in the order of Path::cmp
    Key(_),         \* engine_path_key: the rank of the upper-case path
    IdPath(_),      \* the path of an ITOC entry, made from its id
    Unsafe,         \* paths with `..` or a root
    ManifestNamed,  \* paths, in any directory, named like a manifest
    Short,          \* bytes too few for the P5R transform
    UserPaths,      \* paths the user edits
    UserBytes,      \* bytes the user stores there (<<>>: deletes the file)
    U16Max,         \* u16::MAX
    U32Max,         \* u32::MAX
    MaxEdits,       \* bound: edits of the user
    MaxCommands     \* bound: commands started

ManifestPath == ".cri-cpk-manifest-v2"
LegacyPath == ".cri-cpk-manifest-v1"
TmpPath == ".cri-cpk-manifest-v2.tmp"
Paths == {PathOrder[i] : i \in 1 .. Len(PathOrder)} \cup {ManifestPath, TmpPath}

Encrypted == "CRI_CFATTR:ENCRYPT"
Absent == [mode |-> "absent", rows |-> <<>>]
Truncated == [mode |-> "empty", rows |-> <<>>]

has_toc(mode) == mode \in {"Toc", "TocAndItoc"}
has_itoc(mode) == mode \in {"Itoc", "TocAndItoc"}

(* What a file may hold: the marks in front of its data, the work of a      *)
(* compressor or of the transform, are not the last, and the transform is   *)
(* neither made twice nor of too few bytes, as it would not show then.      *)
Marks(b, n) == \A i \in 1 .. n : b[i] \in {"layla", "p5r"}
WellFormed(b) ==
    /\ b # <<>>
    /\ \A i \in 1 .. Len(b) : Marks(b, i) =>
        /\ i < Len(b)
        /\ b[i] = "p5r" => b[i + 1] # "p5r" /\ SubSeq(b, i + 1, Len(b)) \notin Short

(* An archive of another tool: an entry has a path of the directory, those  *)
(* of an ITOC have ids, each its own (the reader refuses it otherwise).     *)
Modes == {"Toc", "Itoc", "TocAndItoc"}
ArchiveRow == [path : STRING, id : -1 .. U32Max, user : STRING, packed : Seq(STRING)]
ValidArchive(a) ==
    /\ a \in [mode : Modes, rows : Seq(ArchiveRow)]
    /\ Len(a.rows) <= U32Max
    /\ \A i \in DOMAIN a.rows :
        /\ a.rows[i].packed = <<>> \/ WellFormed(a.rows[i].packed)
        /\ IF a.mode = "Itoc"
           THEN /\ a.rows[i].id # -1 /\ IdPath(a.rows[i].id) \in Paths
                /\ \A j \in DOMAIN a.rows : i # j => a.rows[i].id # a.rows[j].id
           ELSE a.rows[i].path \in Paths

(* The user leaves the manifest alone.                                      *)
ASSUME CliAssumption ==
    /\ U16Max \in Nat /\ U32Max \in Nat /\ U16Max <= U32Max
    /\ MaxEdits \in Nat /\ MaxCommands \in Nat
    /\ PathOrder \in Seq(STRING)
    /\ \A i \in DOMAIN PathOrder : PathOrder[i] \notin {ManifestPath, TmpPath}
    /\ \A id \in 0 .. U16Max : IdPath(id) \in Paths
    /\ \A b \in Short : b # <<>> /\ b[1] # "p5r"
    /\ UserPaths \subseteq Paths \ {ManifestPath}
    /\ {ManifestPath, LegacyPath} \subseteq ManifestNamed /\ TmpPath \notin ManifestNamed
    /\ \A b \in UserBytes : b = <<>> \/ (b \in Seq(STRING) /\ WellFormed(b))
    /\ \A o \in Originals :
        /\ DOMAIN o = Archives
        /\ \A a \in Archives : o[a] \in {Absent, Truncated} \/ ValidArchive(o[a])

VARIABLES
    arch,       \* the archives on disk
    disk,       \* the files of the directory, the manifest among them
    cmd,        \* the command in progress or ended last
    edits,      \* edits so far
    unpacked,   \* edits made when the last unpack returned Ok; -1: none since
    commands    \* commands started so far

vars == <<arch, disk, cmd, edits, unpacked, commands>>

-----------------------------------------------------------------------------
(* Payloads.                                                               *)

(* P5RDecryptor::decrypt_in_place: an exclusive or, its own inverse.        *)
decrypt_in_place(b) ==
    IF b \in Short THEN b
    ELSE IF b[1] = "p5r" THEN Tail(b) ELSE <<"p5r">> \o b

(* The magic is in the first bytes, which P5R leaves alone.                 *)
is_compressed(b) == b[1] = "layla" \/ (b[1] = "p5r" /\ b[2] = "layla")
decompress(b) == IF b[1] = "layla" THEN Tail(b) ELSE <<"junk">>

(* extract_file_with_packed, and the payload of a rebuilt entry.            *)
Extract(packed, user, p5r) ==
    LET b == IF p5r /\ user = Encrypted THEN decrypt_in_place(packed) ELSE packed
    IN  IF is_compressed(b) THEN decompress(b) ELSE b
Rebuild(bytes, user, p5r) ==
    IF p5r /\ user = Encrypted THEN decrypt_in_place(bytes) ELSE bytes

(* get_files: the rows of the TOC as they stand, or those of the ITOC by    *)
(* id, named by it and without attribute.                                   *)
IdOrder(rows) == {p \in (DOMAIN rows) \X (DOMAIN rows) : rows[p[1]].id < rows[p[2]].id}
ById(rows, n) == NthIn(DOMAIN rows, IdOrder(rows), n)
Listing(a) ==
    IF has_toc(a.mode)
    THEN [i \in DOMAIN a.rows |->
            [path |-> a.rows[i].path, id |-> IF a.rows[i].id = -1 THEN i - 1 ELSE a.rows[i].id,
             user |-> a.rows[i].user, at |-> i]]
    ELSE [n \in DOMAIN a.rows |->
            LET i == ById(a.rows, n)
            IN  [path |-> IdPath(a.rows[i].id), id |-> a.rows[i].id, user |-> "", at |-> i]]

-----------------------------------------------------------------------------
(* Commands.                                                               *)

Done == cmd.at \in {"idle", "ok", "failed", "killed"}
Goto(label) == cmd' = [cmd EXCEPT !.at = label]

(* The process ends without a pack to speak of, and nothing of it remains.  *)
Exit(label) == cmd' = [op |-> "none", at |-> label]
Put(p, bytes) == disk' = [disk EXCEPT ![p] = bytes]

Init ==
    /\ arch \in Originals
    /\ disk = [p \in Paths |-> <<>>]
    /\ cmd = [op |-> "none", at |-> "idle"]
    /\ edits = 0 /\ unpacked = -1 /\ commands = 0

(* unpack_with: the archive is hashed, its index read.                      *)
Unpack(a, p5r) ==
    /\ Done /\ commands < MaxCommands
    /\ commands' = commands + 1
    /\ unpacked' = -1
    /\ \/ arch[a] \in {Absent, Truncated} /\ Exit("failed")
       \/ /\ arch[a] \notin {Absent, Truncated}
          /\ cmd' = [op |-> "unpack", source |-> a, sum |-> arch[a], p5r |-> p5r, k |-> 1,
                     at |-> "extract"]
    /\ UNCHANGED <<arch, disk, edits>>

(* The next entry is extracted and written, unless its payload is missing,  *)
(* its path is unsafe or it has the name of the manifest.                   *)
ExtractNext ==
    /\ cmd.at = "extract" /\ cmd.k <= Len(Listing(cmd.sum))
    /\ LET e == Listing(cmd.sum)[cmd.k]
           packed == cmd.sum.rows[e.at].packed
       IN  \/ /\ packed = <<>> \/ e.path \in Unsafe \cup {ManifestPath}
              /\ Exit("failed") /\ UNCHANGED disk
           \/ /\ packed # <<>> /\ e.path \notin Unsafe \cup {ManifestPath}
              /\ Put(e.path, Extract(packed, e.user, cmd.p5r))
              /\ cmd' = [cmd EXCEPT !.k = @ + 1]
    /\ UNCHANGED <<arch, edits, unpacked, commands>>

(* Mutant: the entries are numbered instead of keeping their ids.           *)
ManifestOf_Numbered(c) ==
    [source |-> c.source, sum |-> c.sum, mode |-> c.sum.mode, p5r |-> c.p5r,
     entries |-> [i \in DOMAIN Listing(c.sum) |->
        LET e == Listing(c.sum)[i]
        IN  [path |-> e.path, id |-> i - 1, user |-> e.user, at |-> e.at,
             extracted |-> Extract(c.sum.rows[e.at].packed, e.user, c.p5r)]]]

(* The manifest of an unpack: the source, its hash, its profile, and every  *)
(* entry with the hash of its extracted bytes and the place of its packed   *)
(* ones.                                                                    *)
ManifestOf(c) ==
    [source |-> c.source, sum |-> c.sum, mode |-> c.sum.mode, p5r |-> c.p5r,
     entries |-> [i \in DOMAIN Listing(c.sum) |->
        LET e == Listing(c.sum)[i]
        IN  [path |-> e.path, id |-> e.id, user |-> e.user, at |-> e.at,
             extracted |-> Extract(c.sum.rows[e.at].packed, e.user, c.p5r)]]]

(* Mutant: the old manifest is removed first.                               *)
CreateTmp_RemovesFirst ==
    /\ cmd.at = "extract" /\ cmd.k > Len(Listing(cmd.sum))
    /\ disk' = [disk EXCEPT ![TmpPath] = <<"partial">>, ![ManifestPath] = <<>>]
    /\ Goto("fill")
    /\ UNCHANGED <<arch, edits, unpacked, commands>>

(* Manifest::write: a temporary file, complete before the old manifest is   *)
(* removed, then renamed.                                                   *)
CreateTmp ==
    /\ cmd.at = "extract" /\ cmd.k > Len(Listing(cmd.sum))
    /\ Put(TmpPath, <<"partial">>)
    /\ Goto("fill")
    /\ UNCHANGED <<arch, edits, unpacked, commands>>
FillTmp ==
    /\ cmd.at = "fill"
    /\ Put(TmpPath, <<"manifest", ManifestOf(cmd)>>)
    /\ Goto("remove")
    /\ UNCHANGED <<arch, edits, unpacked, commands>>
RemoveManifest ==
    /\ cmd.at = "remove"
    /\ Put(ManifestPath, <<>>)
    /\ Goto("rename")
    /\ UNCHANGED <<arch, edits, unpacked, commands>>
RenameTmp ==
    /\ cmd.at = "rename"
    /\ disk' = [disk EXCEPT ![ManifestPath] = disk[TmpPath], ![TmpPath] = <<>>]
    /\ Exit("ok")
    /\ unpacked' = edits
    /\ UNCHANGED <<arch, edits, commands>>

-----------------------------------------------------------------------------
(* What a pack puts in the archive: path, id, attribute, the bytes seen     *)
(* when it was planned, and the row of the source whose packed bytes are    *)
(* reused (0: none).                                                        *)

(* collect_files: the files in the order of their keys, those with the same *)
(* key in the order of read_dir; the ids count them.  A file named like a   *)
(* manifest is none, wherever it is.                                        *)
Collected == {p \in Paths \ ManifestNamed : disk[p] # <<>>}
KeyOrders ==
    LET n == Cardinality(Collected)
    IN  {o \in [1 .. n -> Collected] :
            \A i, j \in 1 .. n : i < j => o[i] # o[j] /\ Key(o[i]) <= Key(o[j])}
collect_files(o) ==
    [i \in DOMAIN o |->
        [path |-> o[i], id |-> i - 1, user |-> "", bytes |-> disk[o[i]], at |-> 0]]

(* Mutant: raw bytes are reused without comparing the hashes.               *)
KnownInputs_NoHash(m, reuse) ==
    LET kept == Kept(m.entries, {i \in DOMAIN m.entries : disk[m.entries[i].path] # <<>>})
    IN  [i \in DOMAIN kept |->
            [path |-> kept[i].path, id |-> kept[i].id, user |-> kept[i].user,
             bytes |-> disk[kept[i].path], at |-> IF reuse THEN kept[i].at ELSE 0]]

(* build_inputs: the entries of the manifest that still have a file, then   *)
(* the new files, in order of their paths.                                  *)
KnownInputs(m, reuse) ==
    LET kept == Kept(m.entries, {i \in DOMAIN m.entries : disk[m.entries[i].path] # <<>>})
    IN  [i \in DOMAIN kept |->
            [path |-> kept[i].path, id |-> kept[i].id, user |-> kept[i].user,
             bytes |-> disk[kept[i].path],
             at |-> IF reuse /\ disk[kept[i].path] = kept[i].extracted THEN kept[i].at ELSE 0]]

(* collect_relative_files: only the manifests at the top are no new files.  *)
NewPaths(m) ==
    LET known == {m.entries[i].path : i \in DOMAIN m.entries} \cup {LegacyPath}
        paths == <<TmpPath>> \o PathOrder
    IN  Kept(paths, {i \in DOMAIN paths : disk[paths[i]] # <<>> /\ paths[i] \notin known})

UsedIds(known) == {known[i].id : i \in DOMAIN known}
FreeIds(known) == (0 .. U16Max) \ UsedIds(known)

(* Mutant: the largest id itself, not the one after it.                     *)
NextTocId_Largest(known) ==
    IF known = <<>> THEN 0
    ELSE CHOOSE n \in UsedIds(known) : \A i \in UsedIds(known) : i <= n

NextTocId(known) ==
    IF known = <<>> THEN 0
    ELSE 1 + CHOOSE n \in UsedIds(known) : \A i \in UsedIds(known) : i <= n

(* The id of the n-th new file: the smallest ids left in an ITOC, those     *)
(* after the largest in a TOC.                                              *)
NewId(m, known, n) ==
    IF has_itoc(m.mode)
    THEN Nth(FreeIds(known), n)
    ELSE NextTocId(known) + n - 1
NoFreeIds(m, known) ==
    IF has_itoc(m.mode) THEN Len(NewPaths(m)) > Cardinality(FreeIds(known))
    ELSE \/ NextTocId(known) > U32Max
         \/ NextTocId(known) + Len(NewPaths(m)) - 1 > U32Max
build_inputs(m, reuse) ==
    LET known == KnownInputs(m, reuse)
        new == NewPaths(m)
    IN  known \o [n \in DOMAIN new |->
            [path |-> new[n], id |-> NewId(m, known, n), user |-> "", bytes |-> disk[new[n]],
             at |-> 0]]

Packing(out, inputs, mode, p5r, source) ==
    cmd' = [op |-> "pack", out |-> out, inputs |-> inputs, mode |-> mode, p5r |-> p5r,
            source |-> source, since |-> edits, at |-> "create"]

(* run_pack without a manifest; every index must fit the 32 bits of an id.  *)
PackDirectory(out, reuse, p5r) ==
    /\ Done /\ commands < MaxCommands
    /\ disk[ManifestPath] = <<>>
    /\ \/ (reuse \/ Cardinality(Collected) \notin 1 .. U32Max + 1) /\ Exit("failed")
       \/ /\ ~reuse /\ Cardinality(Collected) \in 1 .. U32Max + 1
          /\ \E o \in KeyOrders : Packing(out, collect_files(o), "Toc", p5r, out)
    /\ commands' = commands + 1
    /\ UNCHANGED <<arch, disk, edits, unpacked>>

(* Mutant: the output may be the source.                                    *)
MayReuse_AnyOutput(m, out) == arch[m.source] = m.sum

(* run_pack with one: raw bytes are reused only from the archive unpacked,  *)
(* unchanged, and never while it is overwritten.                            *)
MayReuse(m, out) == m.source # out /\ arch[m.source] = m.sum
PackManifest(out, reuse, p5r) ==
    /\ Done /\ commands < MaxCommands
    /\ disk[ManifestPath] # <<>>
    /\ LET m == disk[ManifestPath][2]
           known == KnownInputs(m, reuse)
           rejected == \/ reuse /\ ~MayReuse(m, out)
                       \/ NoFreeIds(m, known)
                       \/ known = <<>> /\ NewPaths(m) = <<>>
       IN  \/ rejected /\ Exit("failed")
           \/ ~rejected /\ Packing(out, build_inputs(m, reuse), m.mode, m.p5r \/ p5r, m.source)
    /\ commands' = commands + 1
    /\ UNCHANGED <<arch, disk, edits, unpacked>>

(* pack_files_with_profile: File::create, the checks of the ids, the index, *)
(* the payloads in physical order.                                          *)
CreateOutput ==
    /\ cmd.at = "create"
    /\ arch' = [arch EXCEPT ![cmd.out] = Truncated]
    /\ Goto("index")
    /\ UNCHANGED <<disk, edits, unpacked, commands>>

BadIds(inputs) ==
    \/ \E i \in DOMAIN inputs : inputs[i].id > U16Max
    \/ \E i, j \in DOMAIN inputs : i # j /\ inputs[i].id = inputs[j].id
WriteIndex ==
    /\ cmd.at = "index"
    /\ \/ has_itoc(cmd.mode) /\ BadIds(cmd.inputs) /\ Exit("failed") /\ UNCHANGED arch
       \/ /\ ~(has_itoc(cmd.mode) /\ BadIds(cmd.inputs))
          /\ arch' = [arch EXCEPT ![cmd.out] =
                [mode |-> cmd.mode,
                 rows |-> [i \in DOMAIN cmd.inputs |->
                    [path |-> cmd.inputs[i].path, id |-> cmd.inputs[i].id,
                     user |-> cmd.inputs[i].user, packed |-> <<>>]]]]
          /\ Goto("copy")
    /\ UNCHANGED <<disk, edits, unpacked, commands>>

Missing == {i \in DOMAIN cmd.inputs : arch[cmd.out].rows[i].packed = <<>>}
NextInput ==
    CHOOSE i \in Missing : \A j \in Missing :
        IF has_itoc(cmd.mode) THEN cmd.inputs[i].id <= cmd.inputs[j].id ELSE i <= j

(* write_file_payload: the row of the source as it is now, or the file as   *)
(* it is now; a file of another length than planned is an error.            *)
Payload(f) ==
    IF f.at # 0
    THEN IF f.at \in DOMAIN arch[cmd.source].rows THEN arch[cmd.source].rows[f.at].packed ELSE <<>>
    ELSE IF disk[f.path] = <<>> THEN <<>> ELSE Rebuild(disk[f.path], f.user, cmd.p5r)
CopyNext ==
    /\ cmd.at = "copy" /\ Missing # {}
    /\ LET f == cmd.inputs[NextInput]
       IN  \/ /\ Payload(f) = <<>> \/ (f.at = 0 /\ disk[f.path] # f.bytes)
              /\ Exit("failed") /\ UNCHANGED arch
           \/ /\ Payload(f) # <<>>
              /\ arch' = [arch EXCEPT ![cmd.out].rows[NextInput].packed = Payload(f)]
              /\ UNCHANGED cmd
    /\ UNCHANGED <<disk, edits, unpacked, commands>>
FinishPack ==
    /\ cmd.at = "copy" /\ Missing = {}
    /\ Goto("ok")
    /\ UNCHANGED <<arch, disk, edits, unpacked, commands>>

-----------------------------------------------------------------------------
(* The environment: the command is killed; the user edits a file, or puts   *)
(* another archive in the place of one.                                     *)
Kill ==
    /\ ~Done
    /\ Exit("killed")
    /\ UNCHANGED <<arch, disk, edits, unpacked, commands>>

EditFile(p, bytes) ==
    /\ cmd.op # "unpack" \/ Done
    /\ edits < MaxEdits /\ disk[p] # bytes
    /\ edits' = edits + 1
    /\ Put(p, bytes)
    /\ UNCHANGED <<arch, cmd, unpacked, commands>>
SwapArchive(a, o) ==
    /\ Done
    /\ edits < MaxEdits /\ arch[a] # o[a]
    /\ edits' = edits + 1
    /\ arch' = [arch EXCEPT ![a] = o[a]]
    /\ UNCHANGED <<disk, cmd, unpacked, commands>>

Next ==
    \/ \E a \in Archives, p5r \in BOOLEAN : Unpack(a, p5r)
    \/ ExtractNext \/ CreateTmp \/ FillTmp \/ RemoveManifest \/ RenameTmp
    \/ \E out \in Archives, reuse, p5r \in BOOLEAN :
        PackDirectory(out, reuse, p5r) \/ PackManifest(out, reuse, p5r)
    \/ CreateOutput \/ WriteIndex \/ CopyNext \/ FinishPack
    \/ Kill
    \/ \E p \in UserPaths, bytes \in UserBytes : EditFile(p, bytes)
    \/ \E a \in Archives, o \in Originals : SwapArchive(a, o)

Spec == Init /\ [][Next]_vars

-----------------------------------------------------------------------------
(* Properties.                                                             *)

(* A pack has just returned Ok, and nobody touched its sources meanwhile.   *)
PackOk == cmd.op = "pack" /\ cmd.at = "ok" /\ cmd.since = edits
Manifest == disk[ManifestPath][2]

(* The files of a directory a pack puts in the archive: without a manifest  *)
(* all that are not named like one, with it all but the manifests at the    *)
(* top, unless the older one is an entry.                                   *)
Packable(d) ==
    IF d[ManifestPath] = <<>> THEN {p \in Paths \ ManifestNamed : d[p] # <<>>}
    ELSE LET m == d[ManifestPath][2]
             entries == {m.entries[i].path : i \in DOMAIN m.entries}
         IN  {p \in Paths \ {ManifestPath} : d[p] # <<>> /\ (p = LegacyPath => p \in entries)}

(* What a pack that returns Ok leaves, read back, is the directory: every   *)
(* file of it has a row, every row extracts to the bytes of its file.       *)
(* Neither a stale manifest, nor one whose unpack was followed by an        *)
(* interrupted one, nor raw bytes of an archive that was replaced since     *)
(* make a difference.                                                       *)
PackedIsDirectory ==
    PackOk =>
        LET rows == arch[cmd.out].rows
            plain == \A i \in DOMAIN cmd.inputs : cmd.inputs[i].at = 0
        IN  /\ {rows[i].path : i \in DOMAIN rows} = Packable(disk)
            /\ plain \/ cmd.p5r = Manifest.p5r =>
                \A i \in DOMAIN rows :
                    ~is_compressed(disk[rows[i].path]) =>
                        Extract(rows[i].packed, rows[i].user, cmd.p5r) = disk[rows[i].path]

(* Every entry of an archive, unpacked and packed again without an edit in  *)
(* between, is in the new archive under its id and extracts to the same     *)
(* bytes.                                                                   *)
SameEntries(old, new, p5r) ==
    \A i \in DOMAIN Listing(old) : \E j \in DOMAIN Listing(new) :
        LET e == Listing(old)[i]
            f == Listing(new)[j]
        IN  /\ e.id = f.id /\ e.path = f.path
            /\ Extract(old.rows[e.at].packed, e.user, p5r)
                = Extract(new.rows[f.at].packed, f.user, p5r)
Unedited == PackOk /\ unpacked = edits /\ cmd.p5r = Manifest.p5r
ExtractedDataMatches ==
    Unedited => SameEntries(Manifest.sum, arch[cmd.out], cmd.p5r)

(* ... for archives whose entries have paths of their own, none that of the *)
(* temporary manifest, and whose extracted bytes do not start with the      *)
(* magic of CriLAYLA again.                                                 *)
Ordinary(m) ==
    \A i \in DOMAIN m.entries :
        /\ m.entries[i].path # TmpPath /\ ~is_compressed(m.entries[i].extracted)
        /\ \A j \in DOMAIN m.entries : i # j => m.entries[i].path # m.entries[j].path
RoundTrip ==
    Unedited /\ Ordinary(Manifest) => SameEntries(Manifest.sum, arch[cmd.out], cmd.p5r)

(* The ids of a rebuilt archive are distinct when those of the manifest are: *)
(* a new file never takes the id of an entry that is kept.                   *)
IdsStayUnique ==
    cmd.op = "pack" /\ ~Done =>
        LET Twice(fs) == {fs[i].id : i \in {i \in DOMAIN fs : \E j \in DOMAIN fs :
                                                i # j /\ fs[i].id = fs[j].id}}
        IN  /\ Twice(cmd.inputs) \subseteq
                 IF disk[ManifestPath] = <<>> THEN {} ELSE Twice(Manifest.entries)
            /\ \A i \in DOMAIN cmd.inputs : cmd.inputs[i].id <= U32Max

(* A pack that reuses raw bytes leaves the archive it takes them from alone. *)
SourceSurvives ==
    [][cmd.op = "pack" /\ (\E i \in DOMAIN cmd.inputs : cmd.inputs[i].at # 0) /\ ~Done
        => arch'[cmd.source] = arch[cmd.source]]_vars

(* The manifest is replaced as a whole: whatever is killed when, the file   *)
(* under its name is complete, and the old one goes only when the complete  *)
(* new one is on disk.                                                      *)
ManifestReplacedWhole ==
    [][disk'[ManifestPath] # disk[ManifestPath] =>
        IF disk'[ManifestPath] = <<>> THEN disk'[TmpPath][1] = "manifest"
        ELSE disk'[ManifestPath][1] = "manifest"]_vars

(* Without a manifest, the ids follow from the paths alone: two archives of *)
(* the same files give each the same id.                                    *)
IdsAreDeterministic ==
    \A a, b \in Archives :
        LET A == arch[a].rows
            B == arch[b].rows
        IN  {A[i].path : i \in DOMAIN A} = {B[i].path : i \in DOMAIN B} =>
                \A i \in DOMAIN A, j \in DOMAIN B : A[i].path = B[j].path => A[i].id = B[j].id
=============================================================================
