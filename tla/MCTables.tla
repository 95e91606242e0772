------------------------------ MODULE MCTables ------------------------------
(* Instances of UtfFile and Acb for TLC.  They share the codec and nothing  *)
(* else: a behaviour is the life of one table, or that of one ACB file.     *)
EXTENDS UtfFile, Acb

T == <<84>>
A == <<97>>
B == <<98>>
AB == <<97, 98>>
N == <<78, 49>>
Empty == <<>>

Num(type, v) == Value(type, v)
Str(s) == [type |-> "String", v |-> s]
Bin(s) == [type |-> "Data", v |-> s]
Col(name, type) == [name |-> name, type |-> type]

(* Shapes of the tables of the writer: names, numbers, the two data columns *)
(* of an ITOC; an empty table; one the builder refuses.                     *)
Toc == <<Col(N, "String"), Col(AB, "UInt32"), Col(T, "String"), Col(A, "UInt64")>>
Itoc == <<Col(AB, "UInt16"), Col(N, "Data"), Col(A, "Data")>>
MCBuilderInputs ==
    {[name |-> T, columns |-> Toc, rows |-> rows] :
        rows \in {<<>>, <<<<Str(A), Num("UInt32", 258), Str(Empty), Num("UInt64", 65536)>>,
                          <<Str(A), Num("UInt32", 0), Str(AB), Num("UInt64", 1)>>>>}}
    \cup {[name |-> N, columns |-> Itoc, rows |-> <<<<Num("UInt16", 65535), d, e>>>>] :
            d \in {Bin(Empty), Bin(<<7, 0, 9>>)}, e \in {Bin(<<1, 2>>), Bin(Empty)}}
    \cup {[name |-> T, columns |-> Toc, rows |-> <<<<Str(A)>>>>]}

(* Shapes of other tools: columns that are not stored, with and without a   *)
(* default, without a name, two of one name, signed numbers, a Guid, rows   *)
(* with padding or without a byte, the literal text an empty string may     *)
(* point to.                                                                *)
Column(flag, type, name, default) ==
    [flag |-> flag + Code(type), name |-> name, default |-> default]
Guid == Num("Guid", [k \in 1 .. 16 |-> k])
Mixed ==
    <<Column(80, "SByte", A, NoValue), Column(48, "UInt32", AB, Num("UInt32", 9)),
      Column(16, "UInt16", T, NoValue), Column(64, "Byte", Empty, NoValue),
      Column(112, "Int16", N, Num("Int16", 3)), Column(48, "String", <<68>>, Str(AB))>>
Twice ==
    <<Column(80, "UInt16", A, NoValue), Column(80, "UInt16", A, NoValue),
      Column(80, "String", AB, NoValue), Column(80, "Guid", N, NoValue)>>
MCOtherTables ==
    {[name |-> T, columns |-> Mixed, padding |-> p,
      rows |-> <<<<Num("SByte", 5), NoValue, NoValue, Num("Byte", 1), Num("Int16", 7), NoValue>>,
                 <<Num("SByte", 6), NoValue, NoValue, Num("Byte", 2), Num("Int16", 0), NoValue>>>>] :
        p \in {0, 3}}
    \cup {[name |-> Empty, columns |-> Twice, padding |-> 1,
           rows |-> <<<<Num("UInt16", 1), Num("UInt16", 2), Str(AB), Guid>>>>],
          [name |-> T, columns |-> SubSeq(Mixed, 2, 3), padding |-> 0,
           rows |-> <<<<NoValue, NoValue>>, <<NoValue, NoValue>>>>]}

-----------------------------------------------------------------------------
(* ACB files with two or three cues, their names in the order of the cues   *)
(* and in every other, some twice, files that lack a table, and files with  *)
(* a column for one that has no data.                                       *)
MCSpell == [n \in {"Header", "Cue", "CueName", "Name", "AcfMd5Hash", "CueTable", "CueNameTable",
                   "WaveformTable", "SequenceTable", "CueId", "ReferenceIndex", "CueIndex"} |->
    CASE n = "Header" -> <<72>>           [] n = "Cue" -> <<67>>
      [] n = "CueName" -> <<67, 78>>      [] n = "Name" -> <<78>>
      [] n = "AcfMd5Hash" -> <<65, 53>>   [] n = "CueTable" -> <<67, 84>>
      [] n = "CueNameTable" -> <<67, 78, 84>> [] n = "WaveformTable" -> <<87>>
      [] n = "SequenceTable" -> <<83>>    [] n = "CueId" -> <<67, 73>>
      [] n = "ReferenceIndex" -> <<82>>   [] n = "CueIndex" -> <<67, 88>>]

Name3(x, y, z) == <<[name |-> A, index |-> x], [name |-> B, index |-> y], [name |-> AB, index |-> z]>>
MCFiles ==
    {[name |-> AB, cues |-> cues, names |-> names] :
        cues \in {<<34, 7, 300>>, <<7, 34, 7>>, <<0, 1, 2>>},
        names \in {Name3(x, y, z) : x, y, z \in 0 .. 2}
            \cup {<<[name |-> A, index |-> x], [name |-> B, index |-> 1], [name |-> A, index |-> y]>> :
                    x, y \in 0 .. 2}}
    \cup {[name |-> A, cues |-> <<>>, names |-> <<>>], [name |-> <<>>, cues |-> None, names |-> None],
          [name |-> B, cues |-> <<5>>, names |-> None],
          [name |-> B, cues |-> None, names |-> Name3(0, 1, 2)],
          [name |-> B, cues |-> <<5>>, names |-> Name3(0, 1, 2)]}
    \cup {[name |-> AB, cues |-> c, names |-> n] :
            c \in {NoData, <<5, 7>>}, n \in {NoData, None, Name3(0, 1, 1)}}
    \cup {[name |-> AB, cues |-> None, names |-> NoData]}
MCNames == {A, B, AB, <<>>}
MCIds == {0, 1, 7, 34, 300}

-----------------------------------------------------------------------------
MCInit == Init /\ AcbInit
MCNext ==
    \/ file = None /\ Next /\ UNCHANGED acbVars
    \/ source = <<>> /\ AcbNext /\ UNCHANGED vars
MCSpec == MCInit /\ [][MCNext]_<<vars, acbVars>>
=============================================================================
