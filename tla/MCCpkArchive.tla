---------------------------- MODULE MCCpkArchive ----------------------------
(* Calls of CpkWriter, and archives of other tools, for TLC.                *)
EXTENDS CpkArchive, UtfTable

Encrypted == "CRI_CFATTR:ENCRYPT"
MCStrings == {"", "a", "b", "dir", Encrypted, "long", "longer", "most"}

(* A source disappears, or becomes shorter or longer than planned.          *)
MCLengths == {-1, 3000, 200000}

(* A file to copy, one whose packed bytes are reused, and one listed with a *)
(* size its source no longer has.                                           *)
File(name, id, size) ==
    [dir |-> "dir", name |-> name, user |-> "", size |-> size, extract |-> size,
     id |-> id, raw |-> FALSE, rawsize |-> 0, has |-> size]
Raw(name, id, size, extract) ==
    [File(name, id, size) EXCEPT !.extract = extract, !.raw = TRUE, !.rawsize = size,
                                 !.user = Encrypted, !.has = size + 70000]

(* By id: a high row before low ones, and one between two low ones.  Ids are *)
(* not in list order, sizes are at the 16-bit limit and past it, and an      *)
(* empty payload lies between two others.                                    *)
MixedFiles == << File("a", 7, 65535), File("b", 2, 65536), File("a", 4, 0) >>
RawFiles == << Raw("a", 1, 100, 70000), [File("b", 0, 2049) EXCEPT !.user = Encrypted],
               File("b", 3, 1) >>
Unusable ==
    { << Raw("a", 0, 30, 30), [Raw("b", 1, 20, 20) EXCEPT !.rawsize = 21] >>,
      << [Raw("a", 0, 30, 30) EXCEPT !.has = 10] >> }
BadIds ==
    { << File("a", 3, 1), File("b", 3, 1) >>, << File("a", 65536, 1) >> }

(* Files as collect_files numbers them, and one or two more than there may be.*)
Numbered(fs) == [i \in DOMAIN fs |-> [fs[i] EXCEPT !.id = i - 1]]
Crowd(n) == [i \in 1 .. n |-> File("a", i, 1)]

Call(entry, a, mode, direct, fs, p5r) ==
    [entry |-> entry, alignment |-> a, mode |-> mode, direct |-> direct, files |-> fs,
     p5r |-> p5r, tvers |-> "7.0.0", comment |-> ""]

Modes == {<<"Toc", FALSE>>, <<"Itoc", FALSE>>, <<"Itoc", TRUE>>,
          <<"TocAndItoc", FALSE>>, <<"TocAndItoc", TRUE>>}

Calls ==
    {Call("files", a, m[1], m[2], fs, TRUE) :
        a \in {1, 16, 2048, 32768}, m \in Modes, fs \in {MixedFiles, RawFiles}}
    \cup {Call("files", 16, "Itoc", FALSE, fs, FALSE) : fs \in Unusable \cup BadIds}
    \cup {Call("files", a, "Toc", FALSE, fs, FALSE) : a \in {0, 24, 64}, fs \in {<<>>, MixedFiles}}
    \cup {Call("directory", a, "Toc", FALSE, Numbered(fs), FALSE) :
            a \in {0, 24, 64}, fs \in {<<>>, MixedFiles, Crowd(4), Crowd(5)}}
    \cup {Call("files", 16, "Toc", FALSE, Crowd(4), FALSE)}
    \cup {Call("files", 16, m[1], m[2], << File("a", 1, 9), File("", 0, 9) >>, FALSE) : m \in Modes}

(* The limits of the format, with u32::MAX scaled to 1000000 and u64::MAX   *)
(* to 1060000: tables of two strings of half a million bytes are too long,  *)
(* one of 985000 pushes what follows it, padded, over either limit.         *)
LongPool(S) ==
    InternedBytes(S) + 500000 * Cardinality(S \cap {"long", "longer"})
                     + 985000 * Cardinality(S \cap {"most"})

Long == [File("long", 0, 3) EXCEPT !.extract = 4]
Longer == [Long EXCEPT !.dir = "longer"]
Most == File("most", 0, 3)
LimitCalls ==
    {Call("files", a, m[1], m[2], fs, FALSE) :
        a \in {1, 16384, 32768}, m \in Modes, fs \in {<<Long>>, <<Longer>>, <<Most>>}}
    \cup {Call("files", 16, "Toc", FALSE, << File("a", 0, 600000), File("b", 1, 600000) >>, FALSE),
          [Call("files", 16, "Toc", FALSE, << File("a", 0, 5) >>, FALSE) EXCEPT !.comment = "long"],
          Call("directory", 16, "Toc", FALSE, << File("a", 0, U32Max + 1) >>, FALSE)}

-----------------------------------------------------------------------------
(* Archives of other tools: index tables of every shape, headers that name  *)
(* one, both or neither, and files that end early.                          *)
Named == <<"ID", "FileSize">>           \* columns of an ITOC
Turned == <<"FileSize", "Hash", "ID">>
Unnamed == <<"A", "B", "C">>
ItocRows == {R!itoc_row(Named, <<i, n>>) : i \in {1, 2, 3}, n \in {0, 10, 16}}
OddRows ==
    {R!itoc_row(Turned, <<n, 5, i>>) : i \in {1, U32Max + 1}, n \in {-1, 16}}
    \cup {R!itoc_row(Unnamed, <<2, n, x>>) : n \in {10, U32Max + 1}, x \in {-1, 20, U32Max + 1}}
    \cup {R!itoc_row(Unnamed, <<>>), R!itoc_row(<<"B", "ID">>, <<7, 3>>)}
Tables == {<<>>} \cup {<<r>> : r \in ItocRows} \cup {<<r, s>> : r, s \in ItocRows}
NestedBodies ==
    [DataL : Tables, DataH : {t \in Tables : Len(t) <= 1}]
    \cup [DataL : Tables]
DirectBodies == [rows : Tables]
OddBodies ==
    {[DataL |-> <<r>>, DataH |-> <<>>] : r \in OddRows}
    \cup {[rows |-> <<R!itoc_row(Named, <<1, 10>>), r>>] : r \in OddRows}
    \cup {[rows |-> <<R!itoc_row(Named, <<1, U32Max>>), R!itoc_row(Named, <<2, n>>)>>] :
            n \in {40000, 60000, 58000, 62000}}

TocRows ==
    [dir : {""}, name : {"", "a"}, user : {""}, size : {-1, 5}, extract : {-1, 0, 9},
     id : {-1, 3}, offset : {-1, 100}]
    \cup [dir : {""}, name : {"a"}, user : {""}, size : {5, U32Max + 1},
          extract : {0, U32Max + 1}, id : {3, U32Max + 1},
          offset : {U64Max - 2048, U64Max - 2047}]

Header(toc, itoc, content, a, eid) ==
    [TocOffset |-> toc, ItocOffset |-> itoc, ContentOffset |-> content, Align |-> a, EID |-> eid]
Chunk(at, len, kind, body) == [at |-> at, len |-> len, kind |-> kind, body |-> body]
Archive(header, kind, body, len) ==
    [ext |-> {Chunk(0, 500, "cpk", header), Chunk(2048, 200, kind, body)}, len |-> len]

OtherArchives ==
    {Archive(Header(0, 2048, 2304, a, 0), "itoc", b, 4000) : a \in {0, 1, 6, 16}, b \in NestedBodies}
    \cup {Archive(Header(0, 2048, 2304, a, 1), "itoc", b, 4000) : a \in {0, 1, 6, 16}, b \in DirectBodies}
    \cup {Archive(Header(0, 2048, 2304, 1, IF "rows" \in DOMAIN b THEN 1 ELSE 0), "itoc", b, 4000) :
            b \in OddBodies}
    \cup {Archive(Header(2048, 0, 2304, 16, 0), "toc", <<r>>, n) : r \in TocRows, n \in {4000, 2200, 400}}
    \cup {Archive(Header(0, i, c, 16, e), "itoc", [DataL |-> <<>>, DataH |-> <<>>], 4000) :
            i \in {0, 2048, 2049}, c \in {0, 2304, U32Max + 1}, e \in {0, 1}}

(* They are read where a call was refused and left them alone.              *)
Refused == Call("directory", 24, "Toc", FALSE, Numbered(MixedFiles), FALSE)
NoArchive == [ext |-> {}, len |-> 0]
MCEarlier(j) == IF j = Refused THEN OtherArchives ELSE {NoArchive}
MCJobs == Calls \cup LimitCalls
=============================================================================
