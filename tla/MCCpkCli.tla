------------------------------ MODULE MCCpkCli ------------------------------
(* Instances of CpkCli for TLC.                                             *)
EXTENDS CpkCli, TLC

Row(path, id, user, packed) == [path |-> path, id |-> id, user |-> user, packed |-> packed]
Archive(mode, rows) == [mode |-> mode, rows |-> rows]

(* One archive of each index mode: an entry stored, one compressed, one     *)
(* compressed and encrypted, one too short for the transform; ids in and    *)
(* out of order, at the limit of the format, and missing; entries named     *)
(* like a manifest, one of them below a directory.                          *)
Below == "d/.cri-cpk-manifest-v2"
MCManifestNamed == {ManifestPath, LegacyPath, Below}
Both == Archive("TocAndItoc", << Row("a", 2, Encrypted, <<"p5r", "layla", "x">>),
                                 Row(LegacyPath, 0, "", <<"x">>) >>)
Named == Archive("Toc", << Row(Below, -1, "", <<"layla", "z">>),
                           Row("a", 3, Encrypted, <<"s">>) >>)
Numbered == Archive("Itoc", << Row("", 1, "", <<"z">>), Row("", 0, "", <<"layla", "x">>) >>)

(* Archives an unpack refuses half-way, or that lack a payload.             *)
Outside == Archive("Toc", << Row("unsafe", 1, "", <<"x">>) >>)
Reserved == Archive("Toc", << Row(ManifestPath, 1, "", <<"x">>) >>)
Partial == Archive("Toc", << Row("a", 0, "", <<"z">>), Row("b", 1, "", <<>>) >>)

Holding(src, new) == [a \in {"src", "new"} |-> IF a = "src" THEN src ELSE new]
MCOriginals ==
    {Holding(Both, Partial), Holding(Named, Reserved), Holding(Numbered, Outside)}

MCPathOrder == <<LegacyPath, "0", "1", "2", "a", "b", "c", Below, "unsafe">>
MCShort == {<<"s">>}
MCUserBytes == {<<>>, <<"z">>}
Rank(p) == IF p \in {MCPathOrder[i] : i \in 1 .. 9}
           THEN CHOOSE i \in 1 .. 9 : MCPathOrder[i] = p ELSE 0

(* Archives that do not come back the same: bytes that are compressed       *)
(* twice, and two entries with one path.                                    *)
NestedOriginals == {Holding(Archive("Toc", << Row("a", 0, "", <<"layla", "layla", "x">>) >>), Absent)}
SamePathOriginals ==
    {Holding(Archive("TocAndItoc", << Row("a", 0, "", <<"x">>), Row("a", 1, "", <<"z">>) >>), Absent)}

(* Two files whose names differ in case only.                               *)
NoOriginals == {Holding(Absent, Absent)}
CasePaths == <<"0", "1", "2", "A", "a">>
CaseBytes == {<<"x">>}
SameKey(p) == 1
=============================================================================
