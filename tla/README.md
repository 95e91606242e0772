# Verification of cri-archive-lib

TLA+ models of `cri-archive-lib` (the Rust library that reads and writes CRI
CPK archives) and of `cri-cpk-cli` (the program that unpacks and rebuilds them),
TLC runs over small instances, and TLAPS proofs. `PROJECT.json` maps every
definition to the lines it models.

## The system

| Component | State | Operations | Works with |
|---|---|---|---|
| `FreeList` (`cpk/free_list.rs`) | a 64 MB slab, a bitmap of 256 KB blocks, a spin lock, the nodes handed out | `allocate`, `deallocate`, drop or conversion of a node | the decompressor takes its output buffers from it |
| `CpkWriter` (`cpk/writer.rs`) | the plan of one call (physical order, offsets, cursor), the output stream | `pack_directory`, `pack_files_with_profile`, `write_with_profile` | source files, which others may change; the output file |
| `CpkReader` (`cpk/reader.rs`, `cpk/file.rs`) | the stream, the metadata of the header | `get_files`, `read_packed_file`, `extract_file` | archives of this writer and of other tools |
| chunk and table parser (`cpk/header.rs`, `schema/`) | none kept | decode a chunk, a `@UTF` table | reader, ACB reader |
| CriLAYLA (`cpk/compress/layla.rs`) | a bit cursor and a write pointer within a call | `is_compressed`, `decompress` | `FreeList`, reader |
| P5R and table decryption (`cpk/encrypt/`) | none | transforms over bytes | reader, writer, parser |
| `cri-cpk-cli` (`main.rs`, `manifest.rs`) | nothing in memory between commands; on disk the extracted files, the archives and the manifest | `unpack`, `pack`, `Manifest::read`, `write`, `build_inputs` | reader, writer, the user's edits |
| ACB reader (`acb/`) | the decoded tables, two maps from name and id to rows | `new`, cue lookups | the schema code, with a table reader of its own |
| `utils/`, `progress.rs` | none | byte order, terminal output | everything |

What is hard here:

* **The file system is shared.** Sizes are planned before the bytes are copied;
  sources, archives and the manifest can change between two reads, and a kill
  can come between any two writes.
* **Offsets are computed more than once**: by the writer's cursor, in the TOC
  rows, by the reader's running sum over the ITOC rows and by the game engine's
  lookup in two separate tables. They must agree.
* **Formats are read by more than one piece of code**: `@UTF` tables by the CPK
  and by the ACB reader, paths by `unpack` and by `pack`, the encryption of a
  table by its marker and by its first bytes.
* **Limits**: 16-bit fields of `DataL`, 32-bit table sizes and offsets, 64-bit
  cursors, the 64-bit window of the allocator, its 255th block.
* **Bits and pointers**: the allocator walks a bitmap from and to positions inside
  a byte; the decompressor reads bits downwards with a reader unrolled for each
  position and fills memory downwards through raw pointers; P5R rewrites the
  bytes it also reads, a register at a time.
* **A long life**: unpack, edit, pack, unpack again, with a manifest that may be
  older than the files it describes and that users can edit.

The code is single-threaded: no two calls of one object interleave. The spin lock
of `FreeList` matters only in that every path must release it. `PROJECT.json`
lists each hazard at its line with the properties that would catch it.

## Modules

| Module | Models |
|---|---|
| `FreeList` | the allocator |
| `Allocator` | what the allocator promises: the abstract specification `FreeList` implements |
| `UtfTable` | the size of a string pool (`intern_string`) |
| `Selection` | the elements a loop keeps, sorts or adds up, shared by writer, reader and commands |
| `CpkWriter` | one pack call |
| `CpkReader` | `get_files` and `read_packed_file` on any archive, and the engine's lookup |
| `CpkArchive` | `CpkWriter` followed by an instance of `CpkReader` on what is there then |
| `UtfCodec` | the bytes of a `@UTF` table: the writer's builder, the CPK reader's and the ACB reader's decoding |
| `UtfChunk` | the chunk around it: magic, encryption, `TableContainer::new` |
| `UtfFile` | the life of one table: built, perhaps damaged, opened by both readers |
| `Acb` | `AcbReader`: opening a file and its lookups |
| `LaylaCursor` | the unrolled bit readers, and the stream of bits they stand for |
| `LaylaBlocks` | the CriLAYLA format as a relation: when a stream of bits stands for a list of blocks, and the blocks for a file |
| `LaylaFormat` | a CriLAYLA compressor, which makes such streams for TLC (external) |
| `Layla` | calls of `decompress` over one buffer of the slab |
| `P5R` | `decrypt_in_place`, lane by lane, for each loop and target |
| `CpkCli` | the commands, the life of the manifest, the user's edits, kills |
| `ManifestFile` | the text of a manifest: `write`, `read`, edits by hand |
| `CliPaths` | names of entries to paths of files and back |
| `FreeListProofs`, `CpkArchiveProofs`, `P5RProofs`, `RoundTripProofs`, `LaylaProofs`, `CliFilesProofs`, `TablesProofs` | theorems: the allocator; writer and archive; the transform; the commands; the decompressor; paths and the text of the manifest; tables byte by byte and the ACB lookups |
| `SelectionProofs` | lemmas on `Selection`, for the proofs of the other modules |
| `MC*` | instances for TLC |

`X_Something`, defined just before `X`, is a variant of `X` with a plausible bug;
no specification uses it. Substituting it for `X` breaks the property
`PROJECT.json` names for it, which shows that the property depends on that line
of code.

### FreeList and Allocator

`used` is the set of blocks whose bit is set, `lock` the flag, `node` what each
slot of the client holds, `call` the call in progress. `Allocate`, `Acquire`,
`ProbeNext` (one probe of `get_free_block_index`), `AllocateManaged`,
`AllocateUnmanaged`, `DropManaged`, `DropUnmanaged` and `Deallocate` are the steps
of `allocate`, of a drop and of `deallocate`. The walks of `bit_on`, `bit_off` and
`check_occupation` keep the head, body and tail of the code; the accumulator of
`check_occupation` keeps its 64 bits. Block count, window and block size are
those of the code in every run.

`Allocator` has one variable, what each slot holds, and two actions, `Give` and
`TakeBack`: any blank run of blocks, or memory outside the slab, may be given.

* `LiveNodesDisjoint`: two nodes never share a block.
* `UsedIsHeld`: the bitmap is what the live nodes hold, no more and no less.
* `FallsBackOnlyWhenFull`: memory outside the slab is given out only when no
  window at a probed position is free.
* `IsAllocator`: `FreeList` implements `Allocator`, with `held <- node`; bitmap,
  lock and search are hidden.
* `CallsReturn`: every call ends with the lock free.
* `SearchFindsBlank`: an accepted window is blank.

### CpkWriter

One call from the entry to the result. The output is a set of extents, one per
write, each with its place, length and content: table chunks hold rows, payloads
the index of their file. `PackDirectory`, `Create`, `Validate`, `Layout`,
`PlanFile`, `BuildHeader`, `WriteHeader`, `WriteToc`, `WriteItoc`, `PadToContent`,
`CopyPayload`, `CheckCopied` and `Finish` follow `write_with_profile`, with its
errors in its order. `SourceChanges` is another program writing to a source,
`Interrupted` a kill or a failed write: what was still in the `BufWriter` is lost,
so a prefix of the output remains. `align_up` is the mask arithmetic of the code, bit
by bit, which rounds up to a multiple for powers of two only. `write_with_profile`
compares the lengths of the final tables with those it planned with
(`writer.rs:327`); in the model both are `toc_table_len` and `itoc_table_len`, so this
error cannot occur. That it cannot in the code is `LengthAsPlanned` of `UtfFile`.

* `PlanIsDisjoint`, `ChunksFitBeforeContent`: the plan. An alignment that is no power
  of two and passed `validate_alignment` would break the first.
* `OutputIsGapless`: every byte up to the stream position is written exactly once.
* `OkIsComplete`: `Ok` means every payload is whole at its planned offset, whatever
  the sources did.
* `FieldsFit`: every number fits its field, the ids of ITOC rows, the columns of TOC
  rows and the count of files among them, or the call failed before.
* `DirectoryRejectsFirst`: `pack_directory` rejects bad arguments before it empties
  the output. (`pack_files_with_profile` does not promise it and does not do it.) One
  directory is an exception: with 2^32 files, the last index that `collect_files`
  hands out still fits an id, and `write_with_profile` refuses the count once the
  output is empty.
* `CallEnds`: the call ends.

### CpkReader and CpkArchive

The reader's `stream` is an archive as extents and a length. `GetFiles` and
`GetFilesBadHeader` are `get_files`; `ReadPackedFile` is `read_packed_file`.
`engine_offset` is the lookup of the game engine, external code, modelled from
the comments of `reader.rs` and `writer.rs`: the insertion index in each table
and the sum of both prefixes. `itoc_row` takes the columns of an ITOC by name or else
by place; a listing also fails on an id above `u32::MAX` (in an ITOC; in a TOC it is
no id) and on an offset above `u64::MAX` (`ValidTocRow`, `OffsetsFit`). `CpkArchive` opens a reader on the output once the
call has stopped. Where the call was refused before it touched the output, that
is what was there `before`: archives of other tools, with tables of every shape.

* `ListingIsEngineLookup`: on tables of any shape, the reader's running sum gives
  each entry the offset the engine finds.
* `NothingDropped`: a listing has all rows, or `get_files` fails as a whole.
* `ListingIsInput`: after `Ok`, what was packed is listed and can be read. The one
  exception is a file without a name in a TOC (`Nameless`): the writer does not
  look, and the reader then refuses the whole archive.
* `EntryIsItsPayload`: an entry reads its own payload and nothing else, in partial
  archives too. A source that grew while it was copied is the exception: the call
  fails, but the bytes are in the file by then.
* `IndexesAgree`: the four computations of an offset give the same.

### UtfCodec, UtfChunk and UtfFile

Here a table is its bytes. `build` with its parts is `UtfTableBuilder::build`;
`new_columns`, `new_rows`, `parse_strings` and `HighTable` are the schema code and
`HighTable::new` with each of its checks; `AcbHighTable` is the ACB reader's
version without them. `TableContainer` checks the chunk and deciphers it
(`decrypt_utf_scalar`). `Rejected` stands for an error, `Panicked` for a slice out
of bounds, `Exhausted` for the abort of a process that has no memory for the rows
`Row::new_list` reserves before it reads one (`rows.rs:71`), more than `MaxRows`. `UtfFile` lets the builder (`Build`) or another tool (`OtherTool`:
defaults, columns without storage or name, two columns of one name, signed
numbers, padded rows, encryption) write a table, damages it in one place
(`ChangeByte`, `CutShort`) and opens it with either reader.

* `ReadBack`: a table is read as it was written, and the two ways to tell that it
  is encrypted agree.
* `ReadersAgree`: both readers return the same for every stored field whose name
  is its own.
* `LengthAsPlanned`: the length of a table depends on its strings, data and shape,
  not on its numbers. This is what `CpkWriter` assumes when it plans with tables
  that hold zeros.
* `DamageIsContained`: opening a damaged table ends with an error, or with a table
  whose sections are in order inside its own bytes, and never in a panic. The one
  other end is the abort for want of memory: rows of size zero, of which a damaged
  header may announce 2^32 - 1, pass every check.

### Acb

`Save` is the tool that writes a file, `LoadHeader` and `Load` are `AcbReader::new` on
its bytes, decoded by `UtfCodec`; `ByName`, `ById`, `GetName`, `AllNames` and `AllIds`
are the calls. A panic is an outcome. `AcbTable` is the table of a file, with a column
for `CueTable` and `CueNameTable` unless it is `None`, and with data of length zero in
it for `NoData`; `AcbSpec` is the specification of this component alone.

`get_table` does not look at the length of the data (`acb/reader.rs:59-62`; nothing
there asks `DataValue::is_none`), so a column of length zero is not a table that is
lacking: what lies at its offset is read. That is the next table of the file, which
is then taken for this one, or, at the end of the file, nothing, where the slice of
the header panics. (Where other data lies there, such as a waveform, the reader
returns an error or panics; the files here hold no other data.)

* `ByNameIsTheCue`: a file opens whatever columns of tables it lacks, and panics when
  the last table it has a column for is empty; without empty columns the names
  listed are those of the file, and a name finds the cue it points to.
* `ByIdIsInverse`: the lookup by id is the inverse of the one by name, if the names
  are in the order of the cues. The code relies on that order
  (`acb/reader.rs:152` uses a row of one table in the other); with another order
  it returns another cue's name, or panics when there are fewer names.

### LaylaCursor, LaylaBlocks, LaylaFormat and Layla

`read_1` to `read_13` keep each branch and mask of the unrolled readers.
`Bits(in, start, p, n)` is the stream as the format describes it. `Layla` keeps
the pointers as indexes of `buf`, which holds stale bytes at the start of a call.
`Literal`, `CopyBlock`, `Level3`, `Level5`, `Level8`, `CopyShort`, `CopyLong` and
`Return` are the parts of the loop. Its inputs are streams that stand for a list of
blocks and a file (`Describes`, of `LaylaBlocks`); TLC takes them from `LaylaFormat`,
and the assumption of `Layla` has it check that these are such streams.

* `ReadsAreTheStream`: at each place a decompression reaches, every reader would
  return the next bits and consume exactly those.
* `ResultIsPlain`: at the head of the loop everything above the write pointer is
  decoded and the raw bytes in front are intact; at the end the result is the file.
* `WritesOwnBytes`: nothing is written outside the bytes asked for.
* `CallReturns`: every call returns.

### P5R

`Step` is one pass of the loop of `target`: a lane of bytes combined with the
bytes `Count` after it. Bytes are sets of bits, and exclusive or is the symmetric
difference.

* `CallIsDocumented`: a call has the effect the head of `p5r.rs` states, whichever
  loop runs.
* `TwiceIsNone` (proved): what one build encrypts, another decrypts.
* `LanesInBounds`: no lane is loaded from beyond the data.

### CpkCli

`arch` are the archives on disk, `disk` the files of the directory (the manifest
and its temporary file among them), `cmd` the command in progress. `ManifestNamed` are
the paths, in any directory, whose last name is that of a manifest of this version or
the one before: a pack without a manifest leaves them out (`Collected`,
`writer.rs:431`), one with a manifest only those at the top (`NewPaths`); `Packable`
says which files either should pack. An archive is
its index mode and rows, the bytes of a file a short sequence of marks
(`<<"layla", "x">>` is the compressed form of `x`). `Unpack`, `ExtractNext`,
`CreateTmp`, `FillTmp`, `RemoveManifest`, `RenameTmp` are `unpack_with` and
`Manifest::write`; `PackDirectory`, `PackManifest`, `CreateOutput`, `WriteIndex`,
`CopyNext`, `FinishPack` are `run_pack`. `Kill`, `EditFile` and `SwapArchive` are
the environment.

* `PackedIsDirectory`: an archive packed with `Ok` extracts to the directory (its
  `Packable` files), whatever manifest, kills and replaced archives came before.
* `RoundTrip`: without edits in between, unpack and pack keep every entry's id,
  path and extracted bytes, for archives whose paths are distinct and whose
  extracted bytes do not look compressed.
* `IdsStayUnique`: a new file never takes the id of an entry that is kept.
* `SourceSurvives`: a pack that reuses raw bytes never writes to their archive.
* `ManifestReplacedWhole`: under its name there is only ever a complete manifest,
  and the old one is removed only when the new one is complete on disk.
* `ExtractedDataMatches`, `IdsAreDeterministic`: what the documents say; see
  Findings.

Assumptions of this model: equal hashes and sizes mean equal bytes; the user does
not edit during an unpack, nor swaps an archive during a command; the output is
not inside the directory; there are no symbolic links; a manifest of the older
format is a file like others, as the code never reads it; a manifest is read back as it was written, and an entry's path is
found again. The last two are what `ManifestFile` and `CliPaths` check.

### ManifestFile and CliPaths

A text is a sequence of symbols: tabs, ends of lines, keywords, numbers, and
encoded bytes. `write` and `read` follow `Manifest::write` and `Manifest::read`
with each of its rejections; `IsManifest` is what `unpack_with` writes, whose index
is that of an archive it could list. The path of that archive is written by
`to_string_lossy`: bytes that are not UTF-8 come out as a replacement character
(`Stored`). `TakeOut`, `Cut`, `Renumber` and `DoubleLine` are a
user's edit of one place. `CliPaths` spells a directory and a file name character
by character, unpacks it, and packs the result with and without the manifest.

* `WrittenIsRead`: what `unpack` writes, `pack` reads, whatever the names hold; only
  an archive whose path is not UTF-8 comes back with another path, at which `pack`
  will not find it.
* `ReadIsUsable`: a manifest that is read after an edit has an index mode the
  writer has and numbers that fit, and no entry has another name or place.
* `StaysInside`: no name of an entry leads out of the output, or to the manifest.
* `UnpackedComesBack`: both ways of packing find each file where unpack wrote it,
  with one exception: without a manifest, a file named `.cri-cpk-manifest-v2` below a
  directory, or `.cri-cpk-manifest-v1` anywhere, is left out. `unpack` refuses only
  the first of these names, and only at the top (`main.rs:204`), so such an entry is
  unpacked and silently not packed again.

## Runs

| Run | Instance | Shows |
|---|---|---|
| `freelist` | 4 nodes, requests of 0, 3 and 64 blocks | safety, refinement, completeness of the search, calls return |
| `freelist_large` | 3 nodes, requests of 30, 80 and 100 blocks | violation of `SearchFindsBlank` |
| `archive` | calls of every index mode, four alignments and invalid ones, too many files, empty and unusable inputs, strings that reach the limits, one change of a source; archives of other tools | writer, reader, and both together |
| `cli` | three originals in two places, 3 commands, 2 edits | the life cycle |
| `cli_nested`, `cli_same_path`, `cli_case` | one archive each, or none | violations |
| `layla` | 2 calls, files of 0 to 10 literals and copies at the edges of every level | bit readers, decompression, termination |
| `tables` | two shapes of the builder, two of other tools, each byte damaged three ways, each cut; ACB files of 0 to 3 cues with names in any order, without tables and with empty ones | `@UTF` decoding, ACB lookups |
| `p5r` | data of 8, 9 and 10 bytes of one bit, lanes of 4, 2 and 1, four targets, 2 calls | the transform |
| `p5r_other_target` | targets without a loop | violation of `CallIsDocumented` |
| `cli_files` | three heads, up to two entries, one edit; names of up to 3 characters | manifest text, paths |

Why the bounds are enough. Four requests of 64 blocks exceed the slab, and runs of
3 blocks start and end inside a byte. Three files make low and high rows
interleave by id (sizes at the 16-bit limit, below and above it) and leave a
payload of length zero between others; one change of a source is enough to break
a plan, and every copy is compared with the plan on its own, so a second change
adds no new case. In `archive`, `u32::MAX` is scaled to 1000000 and `u64::MAX` to
1060000, above all ordinary calls, the count of files (`CountMax`) to 3, so that calls
have as many, one more and two more, and strings of a length near the limits
(`LongPool`) make tables, offsets and the cursor pass each of them; the ids of
`cli` and the numbers of `cli_files` are scaled likewise. The optional feature
`cpk_encryption_p5r` is on. Three commands are an unpack, a second one that is
killed, and a pack, or unpack, pack and unpack of the result. In `layla`, three to
ten literals put the copy at every bit of a byte, the lengths are at both sides of
each level's edge, and two calls show what a reused buffer does. The header area
of a table is scaled so that one fits and one does not; `MaxRows`, 300, is above the rows
of every table and below the count a changed byte makes. For P5R the length limit
is between 8 and 9 bytes; the theorems cover the real numbers. Three characters
are enough for `..`, a separator and the reserved name with something around them.
`MaxChanges`, `MaxEdits`, `MaxCommands`, `MaxCalls` and `MaxLen` are the only
bounds in guards that the code does not have. Deadlock is not checked where a call or a bounded session ends.

`tables` and `cli_files` each hold two models that share definitions or files but
no state; a behaviour is one of the first or one of the second.

**Fairness.** `freelist`, `archive` and `layla` assume weak fairness of the
program's own steps: one thread runs the call, nothing else holds the lock, and it
goes on until it returns. A kill counts as an end. No fairness is assumed of the
environment, nor that a client makes another call. All other runs check safety
only.

## Proofs

| Theorem | For every | Says |
|---|---|---|
| `FreeListProofs!FreeListSafe` | set of slots, set of sizes up to 64 blocks | `TypeOK`, `LiveNodesDisjoint`, `UsedIsHeld` |
| `FreeListProofs!SearchIsSound` | the same | `SearchFindsBlank` |
| `FreeListProofs!SearchIsComplete` | the same | `FallsBackOnlyWhenFull` |
| `FreeListProofs!FreeListIsAllocator` | the same | `IsAllocator`, the refinement |
| `CpkArchiveProofs!PlanIsSound` | set of calls | `PlanIsDisjoint`, `ChunksFitBeforeContent` |
| `CpkArchiveProofs!OutputIsSound` | set of calls, changes of sources, kills and failed writes | `TypeOK`, `OutputIsGapless`, `OkIsComplete` |
| `CpkArchiveProofs!RejectedCallKeepsArchive` | the same | `DirectoryRejectsFirst` |
| `CpkArchiveProofs!NumbersFitTheirFields` | the same | `FieldsFit` |
| `CpkArchiveProofs!EveryRowIsListed` | the same, and archives of any tool | `NothingDropped` |
| `CpkArchiveProofs!MergeIsEngineLookup` | the same | `ListingIsEngineLookup` |
| `CpkArchiveProofs!ListingIsWhatWasPacked` | set of calls, changes of sources | `ListingIsInput` |
| `CpkArchiveProofs!ThreeWaysToPlaceAPayload` | the same | `IndexesAgree` |
| `CpkArchiveProofs!EntriesAreWholeOrUnreadable` | the same, kills and failed writes | `EntryIsItsPayload` |
| `P5RProofs!P5RSafe`, `P5RInBounds` | data, byte width, offset, count and lane widths | `CallIsDocumented`, `TwiceIsNone`; `LanesInBounds` |
| `RoundTripProofs!ManifestIsWhole` | archives, paths, contents, edits of other files, kills | `ManifestReplacedWhole`, and that what is under the manifest's name is nothing or complete |
| `RoundTripProofs!PlansKeepIdsUnique` | the same | `IdsStayUnique` |
| `RoundTripProofs!RawSourceSurvives` | the same | `SourceSurvives` |
| `RoundTripProofs!PackIsTheDirectory` | the same | `PackedIsDirectory` |
| `RoundTripProofs!UnpackedComesBack` | the same | `RoundTrip` |
| `LaylaProofs!LaylaInvariant` | stream, list of blocks, stale memory | where a decompression is between any two steps |
| `LaylaProofs!ReadersFollowTheStream` | the same | `ReadsAreTheStream` |
| `LaylaProofs!DecompressesWhatWasCompressed` | the same | `ResultIsPlain` |
| `LaylaProofs!CallsWriteTheirBytes` | the same | `WritesOwnBytes` |
| `CliFilesProofs!UnpackStaysInside` | set of characters, length of names | `StaysInside` |
| `CliFilesProofs!PackFindsWhatUnpackWrote` | the same | `UnpackedComesBack` |
| `CliFilesProofs!ManifestComesBack` | set of manifests, any strings and numbers | `WrittenIsRead` |
| `TablesProofs!DamageNeverPanics` | set of tables, kinds, damaged bytes, header area | `DamageIsContained` |
| `TablesProofs!TablesComeBack` | the same, trailers, both forms | `ReadBack` |
| `TablesProofs!BothReadersAgree` | the same | `ReadersAgree` |
| `TablesProofs!NamesLeadToTheirCues` | set of ACB files, names and ids asked for, bytes of column names | `ByNameIsTheCue` |
| `TablesProofs!IdsLeadToTheirNames` | the same | `ByIdIsInverse` |

*FreeList.* Assumption: `RequestsFitWindow`, no request has more than 64 blocks;
`freelist_large` shows that it is needed. The invariant `IInv` adds to the three
properties that managed nodes lie below block 255, that a drop in progress is of
a managed node and that an allocation fills an empty slot. The core is a set of
lemmas on the walks: head, body and tail together are exactly the run
(`WalkBits`), and a zero accumulator means the window is blank, because within 64
bits no two positions of the window share a bit of the accumulator. Completeness
needs `Searched`: every window before the probed one has a block in use, which
the lock keeps true during the search. For the refinement each step is mapped to
`Give`, to `TakeBack` or to a stutter, with `IInv` and the soundness of the
search.

*CpkWriter.* Assumption: `WriterAssumption`, the types of the arguments. The
numbers of a file are those of a `CpkInputFile`, so they fit 32 bits
(`FieldsAre32Bits`); `pack_directory` checks its 64-bit lengths itself. Table
lengths are only assumed to be numbers, so the proofs hold for any string pool. That
the mask rounds up to a multiple is `AlignUpIsMultiple`, for each power of two of 16
bits: a number is its sixteen lowest bits and a multiple of 2^16 (`BitsOf`), and of
these `AndNot` leaves the part above the mask (`AndNotRoundsDown`).
`PlanInv` adds to `PlanIsDisjoint` that `order` is a permutation, how the cursor
and the layout relate at each label, and what the archive size is. `OutInv` states
that the extents tile `0 .. pos - 1` (`Tiles`), where `pos` is at each label
(`PosInv`), and that the payloads before position `k` are written (`Written`).
`PlanInv` is proved inductive on its own; `OutInv` with its help: padding never
goes backwards because the plan is increasing. `CheckedInv` adds to
`DirectoryRejectsFirst` that past its checks `pack_directory` has a valid alignment
some file and at most one too many, so that no later step can raise the same errors
but `TooManyFiles` in that one case.

`FieldsFit` is about what was written, which the plan only implies together with
the checks it passed. `WriterInv` therefore joins to `PlanInv` and `OutInv` what
holds once the plan is done (`PlanDone`: the table lengths and the content offset
were compared with their limits, the archive size with 64 bits, and nothing of
the plan changes after the first write) and that each extent holds what the plan
says at that place (`ContentInv`).

*CpkArchive.* Assumption besides `WriterAssumption`: `EarlierAssumption`, the
tables an archive of another tool holds are rows of numbers and strings, in any
number and with any of them missing. Two invariants carry the five theorems.

`ArchiveInv` says what is known of any archive: `WriterInv`, that the tables found
are tables of that type, and that a listing is what the reader makes of the tables
that are there (`ListInv`: nothing is read before the writer stops, and nothing
changes after). It gives `NothingDropped`. For `ListingIsEngineLookup` the lemma
`MergedSums` shows, by induction on the number of rows, that the bytes before the
*m*-th row of two merged tables are the bytes before its insertion index in the one
plus those in the other: the row lies in one of them, where it is the next, and
the insertion index in the other stays (`MergeStep`).

`FileInv` adds what the bytes of the writer's own archives are. `ChunksInv`: which
table chunks are written at each label. `DataInv`: unless a source ran over its
place, every payload whose planned end the stream has been past is whole. This
has to be stated for every position, not for the end alone, because an
interrupted archive is cut anywhere: an entry that reads within the file that
remains lies in front of the cut, hence is whole. The lemma `OrderRows` shows that
the rows of `DataL` and `DataH`, sorted by id, are the files in physical order
again, and `SumsAreOffsets`, by induction over that order, that the reader's sum of
padded sizes is the writer's cursor, and passes no limit of the reader's. With `MergedSums` this makes all four
computations of an offset the same.

*Selection.* The loops that keep, sort and add up are recursive functions or ranks
over numbers. What they compute for every input is proved by induction on those
numbers from the least element of a set of naturals (`LeastNatural`): a
counterexample with the least number leads to a smaller one. `KeptFacts` (the rows
kept are all of them, in order), `NthFacts` (a strict order on a finite set numbers
its elements), `SumsFacts` and `Split` are stated once and used by writer, reader
and commands.

*P5R.* Assumptions: the widths divide the count, and every target's loop is
compiled; `p5r_other_target` shows that the second is needed. The invariant says
that in a loop, the bytes below the current lane are combined and all others are
as before (`Partly`); the bytes combined and those they are combined with are
disjoint because `Count` lies between them.

*CpkCli.* Assumption: `CliAssumption`. The archives a user starts from are absent,
cut before their index, or rows of any number with ids of 32 bits. The path of an
entry is one of the directory (`CliPaths` checks that what leads outside is refused),
and the ids of an ITOC are distinct, since the reader refuses others
(`reader.rs:289`). Where a file has the marks of a compressor or of the transform in
front, something follows them, and the transform is not made over itself (it would
undo itself) nor over too few bytes (it has no effect there). The user edits other
files than the manifest. The order of paths, the contents of files and the numbers
of archives, edits and commands are arbitrary.

`ReplaceInv` says that the temporary file is a complete manifest from the end of
`FillTmp` until the rename, and that only an unpack, during which nobody edits, is
past that point.

The other four theorems rest on one invariant, `CliInv`, as none of them follows from
its own step alone: each speaks of a command that has ended or of the inputs of one
that runs, and is true because of what the steps before it did. Its parts are

* `ArchInv` and `DiskInv`: what is in an archive or a file has the form above, a
  listing is possible, and the manifest is that of an archive all of whose entries
  were accepted (`GoodManifest`);
* `UnpackInv`: every entry behind the unpack in progress is on disk under its path,
  if the path is its own (`Restored`); `CountInv`: the same of all entries, as long as
  nothing was edited since an unpack returned `Ok`;
* `PackInv`: the inputs of a pack have ids that repeat only where those of the manifest
  do (`IsPack`), raw bytes come from the archive unpacked, which is not the output
  (`Raw`), and, as long as nothing was edited, the inputs are the files of the
  directory and every entry with a file is among them (`Current`);
* `RowsInv`: the rows written so far are the inputs, each with the payload planned
  for it or none (`RowsOf`); none is missing at the end.

The step that plans a pack with a manifest (`PackManifestCli`) is the core: the
entries that still have a file are numbered by `NthFacts` (`KnownFacts`), the files the
manifest does not know come after them (`NewFacts`), and the ids these get are free
(`NewIdFacts`), by the gaps below 2^16 for an ITOC and above the largest id for a TOC.
`Payloads` says that a rebuilt entry extracts to the file it was made of, because the
transform is its own inverse on the bytes above; a raw one does since its bytes were
hashed against what it extracted to.

*Layla.* Assumption: `LaylaAssumption`. Each input is a stream that stands for its
blocks, and they for its file, and the file fits the buffer; which compressor made
it, how it chose its blocks and how long they are is left open. The bits of a byte
are its remainders (`Low`, `Shr`), and a lemma for each reader shows that its masks
and shifts, over one byte, two or three, give the bits that follow and leave the
cursor after them. `LaylaInv` then says where a call is: at the head of the loop
before block *j* (`Decoded`: the cursor at the bit where block *j* begins, `pwrite`
below the bytes of the blocks before it, everything above as it was compressed,
the raw bytes in front), or within a copy (`InCopy`: the length read so far, by the
levels that are full). A copy that overlaps itself is the core: each byte it writes is
one it has the original of, since the file repeats itself at that offset.

*CliPaths.* No assumption; the two names of manifests may be any. `PathsInv` says that a place that was not refused is the
list of the normal components of the entry's names, none of them empty, a parent or
with a slash of either kind in it. Both ways back join these with `/` and take them
apart again, which gives the same list because no component has a slash
(`BetweenLaid`: what is laid out with separators between is taken apart at them).

*ManifestFile.* Assumption: `ManifestAssumption`. What unpack writes has strings of
bytes, numbers of the widths of their fields, and an index that agrees with itself:
`get_files` fails for an archive with neither table, and `direct_itoc` is only set
with an ITOC (`main.rs:237` to `239`); the path of the archive is one that can be stored (`Stored`). The proof follows the text: a line has no end
of a line in it, so `lines` gives the lines back; a field has no tab, since strings
are digits there (`EncodedFacts`), so `split` gives the ten fields back; and each
field parses to its value (`ShownFacts`).

*UtfFile.* Assumption: `UtfAssumption`. Tables are as tools make them: names and
strings of characters below 128 without a NUL, values of their columns' types, no
data as a default, all numbers below `Huge`, and sizes that fit their fields, which
is assumed of other tools only (for the builder it follows from the checks of
`build`). A damaged byte is a byte.

For `DamageNeverPanics`, `UtfInv` says that the chunk is bytes whatever happened to
it, and that what was opened is what the readers make of it. For any bytes at all,
the header's numbers are naturals, the container's table is no longer than what
follows the chunk's header, and the checks of the sections give the bounds of every
slice (`ReadTableContained`); the bound on the rows is the division `RowsFit`, not a
product that could overflow.

For the other two, `LifeInv` adds that an undamaged chunk is what `WrittenAs` says: the
source, enciphered or not, between its header and zeros. The argument follows the
bytes. What was written lies where it was put (`ImageFacts`, `ColumnsLie`, `RowLies`,
`DataLies`, by the running sums of the lengths before it); a number written is the
number read (`NumberBack`); the pool gives every interned string back at its offset,
because each string is between two NUL bytes and has none in it (`InternedFound`). So
a column is read as it was written (`ColumnsRead`), then a row (`RowsRead`), then the
table (`TableRead`, and `AcbTableRead` for the reader that does not cut the file off):
both are `ReadAll`, a table with the offsets in place of the strings and data, and
`FieldBack` and `ReadersSame` say what a lookup by name makes of it. The key is undone
by itself bit by bit (`XorTwice`), whatever its bytes, and its first four turn the
magic of a table into the prefix of an enciphered one (`PrefixIs`). `MaxRows` may be any
number, as long as the tables made fit it (`MemoryAssumption`, `IsSmall`).

*ACB.* Assumption: `AcbAssumption`, the words the format uses are spelled
differently, and the tables of every file are of the kind above; files may lack
either table or have an empty one, and have any number of cues and names in any order. `AcbInv` says that
the table loaded is the one `ReadAll` makes of the file, the reader is `KnownReader` of
it and the answer is the call's on that reader. The file's row holds each embedded
table's bytes at their place in the data pool, where `get_table` slices to the end of
the file: the embedded table, followed by other data, is read as if it stood alone
(`AcbTableRead`, `TableFound`), and a column that is not there gives no table
(`TableMissing`). Where a column has no data, what is read is the table behind it or,
at the end of the file, nothing (`NoDataPlaced`, `NoDataFound`). So the files that end
with such a column panic and no other does (`NewReader`). A map by key holds the value of
the last row with that key (`KeyedFacts`); `ByNameFound` and `ByIdFound` follow a row of
it to the cue and to the name, and the order of the names is what takes the row of one
table for the row of the other.

Only model-checked: liveness (`CallsReturn`, `CallEnds`, `CallReturns`), which is
outside what the prover handles; `LengthAsPlanned`, whose sum over a set of strings is a
recursion over sets; and what an edit of a manifest does (`ReadIsUsable`), a case for
every symbol a user may take out.

## Findings

* **`freelist_large`** (`free_list.rs:91`). `check_occupation` looks at
  `len.min(64)` blocks. A request of more than 16 MB can be given blocks that
  another node holds. The decompressor holds one node at a time today, so it is
  latent.
* **`cli_nested`** (`reader.rs:164`). An entry whose extracted bytes begin with the
  CriLAYLA magic is stored as it is by a rebuild and decompressed once more by
  the next unpack. `VALIDATION.md` says extracted data must match.
* **`cli_same_path`** (`main.rs:214`). Two entries with one path come back with the
  bytes of the second.
* **`cli_case`** (`writer.rs:469`). Without a manifest, files whose paths differ
  only in case get their ids in the order of `read_dir`; `README.md` calls them
  deterministic.
* **`p5r_other_target`** (`p5r.rs:112`). The portable loop is itself compiled for
  `x86_64` only. On any other target, and on `aarch64` without `neon`, the
  transform leaves the data as it is, against the head of the file
  (`p5r.rs:8`).

Some more things a reader of the code should know, which contradict no document:
a kill between the removal of the old manifest and the rename leaves none, and the
next `pack` then takes the path without a manifest and packs the temporary file
as an entry; `pack --p5r` with raw reuse over a directory unpacked without it
mixes entries in two forms; an entry below a directory with the name of the manifest
is unpacked, but a pack without a manifest leaves its file out; a column of an ACB file
that has no data is read as what lies behind it; the ACB reader panics on files the
CPK reader would refuse, and on cues without a table of names; a table with rows of
size zero makes the reader reserve as many rows as its header says; and
`pack_directory` of 2^32 files empties its output before it refuses them.

## Not modelled

* Inputs of the decompressor no compressor makes: it reads and writes through raw
  pointers without checks, so they have no defined outcome.
* Strings that are not ASCII in `@UTF` tables (the code decodes Shift-JIS through a
  library); numbers of 2^30 and more, which are one value (`Huge`); damaged ACB
  files.
* The instructions of the vector loops: a lane is one step. Waveforms of cues,
  which are always empty in the code.
* Argument parsing, symbolic links, outputs inside the directory, the manifest of
  the older format, printing.
* `utils/x86_64.rs` and `arm.rs` (processor features) and `progress.rs`: no state.

## Plan

Done: the allocator with its abstract specification, writer, reader and both
together, the commands, the decompressor, tables and chunks byte by byte, the ACB
reader, P5R, the text of the manifest, the paths.

Left:

1. `ReadIsUsable` for every manifest and every edit.
2. An abstract archive store (a map from id to bytes with *pack* and *list*) that
   `CpkArchive` implements.
3. ACB files with other data between the tables, and damaged ones.
