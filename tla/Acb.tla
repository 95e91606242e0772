-------------------------------- MODULE Acb --------------------------------
(***************************************************************************)
(* AcbReader of acb/reader.rs: an ACB file is a @UTF table of one row, some *)
(* of whose data are tables of their own.  CueTable has a row for each cue, *)
(* with its id; CueNameTable has names, each with the index of its cue.     *)
(* The reader maps names to cues, and ids to cues.                          *)
(***************************************************************************)
EXTENDS UtfCodec, FiniteSets

CONSTANTS
    Files,      \* [name, cues, names]: ids by cue, [name, index] by row
    None,       \* instead of cues or names: the table has no column
    NoData,     \* instead of them: it has one, of length zero
    Spell,      \* the bytes of a column's name
    Names,      \* names that are asked for
    Ids         \* ids that are asked for

VARIABLES
    file,       \* the contents of the file, as given
    bytes,      \* its bytes
    header,     \* the AcbHighTable of all of it
    reader,     \* the AcbReader
    answer      \* the last call and its result

acbVars == <<file, bytes, header, reader, answer>>

-----------------------------------------------------------------------------
(* The bytes of the file, as the CRI tools write it.                        *)
Stored50(type, name) == [flag |-> NAME + ROW_STORAGE + Code(type), name |-> Spell[name]]
TableOf(name, columns, rows) == [name |-> Spell[name], columns |-> columns, rows |-> rows, padding |-> 0]
CueTable(cues) ==
    TableOf("Cue", <<Stored50("UInt32", "CueId"), Stored50("UInt16", "ReferenceIndex")>>,
            [i \in DOMAIN cues |-> <<Value("UInt32", cues[i]), Value("UInt16", 0)>>])
CueNameTable(names) ==
    TableOf("CueName", <<Stored50("String", "CueName"), Stored50("UInt16", "CueIndex")>>,
            [i \in DOMAIN names |-> <<Value("String", names[i].name), Value("UInt16", names[i].index)>>])
Present(f) ==
    (IF f.cues = None THEN <<>> ELSE <<"CueTable">>)
        \o (IF f.names = None THEN <<>> ELSE <<"CueNameTable">>)
(* Data of length zero is placed like any other: where the next data is.    *)
Embedded(f, name) ==
    IF name = "CueTable" THEN IF f.cues = NoData THEN <<>> ELSE Image(CueTable(f.cues))
    ELSE IF f.names = NoData THEN <<>> ELSE Image(CueNameTable(f.names))
AcbTable(f) ==
    TableOf("Header",
        <<Stored50("String", "Name"), Stored50("Data", "AcfMd5Hash")>>
            \o [i \in DOMAIN Present(f) |-> Stored50("Data", Present(f)[i])],
        << <<Value("String", f.name), Value("Data", [k \in 1 .. 16 |-> k])>>
            \o [i \in DOMAIN Present(f) |-> Value("Data", Embedded(f, Present(f)[i]))] >>)
AcbImage(f) == Image(AcbTable(f))

(* Files as tools make them, and the words of their columns.                *)
Words == {"Header", "Cue", "CueName", "Name", "AcfMd5Hash", "CueTable", "CueNameTable",
          "WaveformTable", "SequenceTable", "CueId", "ReferenceIndex", "CueIndex"}
IsUsual(t) == IsTable(t) /\ IsSmall(t) /\ Fits(t)
ASSUME AcbAssumption ==
    /\ None # NoData
    /\ \A m \in Words : Spell[m] \in Seq(Char) /\ \A n \in Words : Spell[m] = Spell[n] => m = n
    /\ \A f \in Files :
        /\ IsUsual(AcbTable(f))
        /\ f.cues \in {None, NoData} \/ (f.cues \in Seq(Nat) /\ IsUsual(CueTable(f.cues)))
        /\ f.names \in {None, NoData} \/ (f.names \in Seq(ToSet(f.names)) /\ IsUsual(CueNameTable(f.names)))

-----------------------------------------------------------------------------
(* Reading.                                                                *)

get_value_header(h, name) == get_value(h, 1, name)

(* get_table: a table within the data pool, up to the end of the file.  The *)
(* length of the data is not looked at: without any, what follows is read.  *)
get_table(name) ==
    LET v == get_value_header(header, name)
        at == header.header.data_pool_offset + v.offset
    IN  IF v.type # "Data" THEN [outcome |-> "none"]
        ELSE IF at > Len(header.alloc) THEN Panicked
        ELSE AcbHighTable(Sub(header.alloc, at, Len(header.alloc)))

(* Entries inserted in the order of the rows: of two with one key the last  *)
(* is kept.                                                                 *)
Keyed(rows, key, item) ==
    [k \in {key[r] : r \in rows} |->
        item[CHOOSE r \in rows : key[r] = k /\ \A q \in rows : key[q] = k => q <= r]]

RowsOf(t) == IF t.outcome = "table" THEN DOMAIN t.rows ELSE {}
NameAt(t, r) ==
    LET v == get_value(t, r, Spell["CueName"])
    IN  IF v.type = "String" THEN get_string(t.strings, v.v) ELSE NoString

(* Mutant: a name stands for the cue of its own row.                        *)
cue_name_to_index_OfRow(t) ==
    LET rows == {r \in RowsOf(t) : NameAt(t, r) # NoString}
    IN  Keyed(rows, [r \in rows |-> NameAt(t, r)], [r \in rows |-> r - 1])

cue_name_to_index(t) ==
    LET index(r) == get_value(t, r, Spell["CueIndex"])
        rows == {r \in RowsOf(t) : NameAt(t, r) # NoString /\ index(r).type = "UInt16"}
    IN  Keyed(rows, [r \in rows |-> NameAt(t, r)], [r \in rows |-> index(r).v])

(* Mutant: rows are counted from one.                                       *)
cue_id_to_index_FromOne(t) ==
    LET id(r) == get_value(t, r, Spell["CueId"])
        rows == {r \in RowsOf(t) : id(r).type = "UInt32"}
    IN  Keyed(rows, [r \in rows |-> id(r).v], [r \in rows |-> r])

cue_id_to_index(t) ==
    LET id(r) == get_value(t, r, Spell["CueId"])
        rows == {r \in RowsOf(t) : id(r).type = "UInt32"}
    IN  Keyed(rows, [r \in rows |-> id(r).v], [r \in rows |-> r - 1])

(* AcbReader::new, with the table of the file opened.                       *)
Tables == <<"CueTable", "CueNameTable", "WaveformTable", "SequenceTable">>
new ==
    LET tables == [i \in DOMAIN Tables |-> get_table(Spell[Tables[i]])]
        failed == {i \in DOMAIN tables : tables[i].outcome \notin {"none", "table"}}
    IN  IF header.outcome # "table" THEN header
        ELSE IF header.rows = <<>> THEN Panicked
        ELSE IF failed # {} THEN tables[CHOOSE i \in failed : \A j \in failed : i <= j]
        ELSE [outcome |-> "reader", header |-> header, cue_tbl |-> tables[1],
              cue_name_tbl |-> tables[2],
              cue_name_to_index |-> cue_name_to_index(tables[2]),
              cue_id_to_index |-> cue_id_to_index(tables[1])]

-----------------------------------------------------------------------------
(* Calls.  A result is Nothing, Panic, or what the call returns.            *)
Nothing == [found |-> "no"]
Panic == [found |-> "panic"]
Found(v) == [found |-> "yes", v |-> v]
Cue(name, id) == [name |-> name, id |-> id]

get_name(a) ==
    LET v == get_value_header(a.header, Spell["Name"])
        s == IF v.type = "String" THEN get_string(a.header.strings, v.v) ELSE NoString
    IN  IF s = NoString THEN Nothing ELSE Found(s)

get_cue_by_name(a, n) ==
    LET row == a.cue_name_to_index[n] + 1
        id == get_value(a.cue_tbl, row, Spell["CueId"])
    IN  IF a.cue_tbl.outcome = "none" \/ n \notin DOMAIN a.cue_name_to_index THEN Nothing
        ELSE IF row \notin DOMAIN a.cue_tbl.rows THEN Panic
        ELSE IF id.type = "UInt32" THEN Found(Cue(n, id.v)) ELSE Nothing

(* The row of the cue is used among the names.                              *)
get_cue_by_id(a, id) ==
    LET row == a.cue_id_to_index[id] + 1
        name == NameAt(a.cue_name_tbl, row)
    IN  IF id \notin DOMAIN a.cue_id_to_index THEN Nothing
        ELSE IF a.cue_name_tbl.outcome = "none" \/ row \notin DOMAIN a.cue_name_tbl.rows THEN Panic
        ELSE IF name = NoString THEN Nothing ELSE Found(Cue(name, id))

AcbInit == file = None /\ bytes = <<>> /\ header = None /\ reader = None /\ answer = None

Save(f) ==
    /\ file = None
    /\ file' = f /\ bytes' = AcbImage(f)
    /\ UNCHANGED <<header, reader, answer>>

(* AcbReader::new: the table of the file, then those in it.                 *)
LoadHeader ==
    /\ file # None /\ header = None
    /\ header' = AcbHighTable(bytes)
    /\ UNCHANGED <<file, bytes, reader, answer>>
Load ==
    /\ header # None /\ reader = None
    /\ reader' = new
    /\ UNCHANGED <<file, bytes, header, answer>>

Ask(call, arg, result) ==
    /\ reader # None /\ reader.outcome = "reader"
    /\ answer' = [call |-> call, arg |-> arg, result |-> result]
    /\ UNCHANGED <<file, bytes, header, reader>>
GetName == Ask("name", None, get_name(reader))
ByName(n) == Ask("by_name", n, get_cue_by_name(reader, n))
ById(id) == Ask("by_id", id, get_cue_by_id(reader, id))
AllNames == Ask("names", None, DOMAIN reader.cue_name_to_index)
AllIds == Ask("ids", None, DOMAIN reader.cue_id_to_index)

AcbNext ==
    \/ \E f \in Files : Save(f)
    \/ LoadHeader \/ Load
    \/ \E n \in Names : ByName(n)
    \/ \E id \in Ids : ById(id)
    \/ GetName \/ AllNames \/ AllIds

AcbSpec == AcbInit /\ [][AcbNext]_acbVars

-----------------------------------------------------------------------------
(* The files the lookups are meant for: no table is a column of length zero,*)
(* names point to cues, both tables or neither are there; and those whose   *)
(* names are in the order of the cues.                                      *)
Entries(s) == IF s = None THEN <<>> ELSE s
HasData(f) == f.cues # NoData /\ f.names # NoData
Complete ==
    /\ HasData(file)
    /\ (file.cues = None) = (file.names = None)
    /\ \A i \in DOMAIN Entries(file.names) : file.names[i].index < Len(file.cues)
InCueOrder ==
    /\ Complete
    /\ Len(Entries(file.names)) = Len(Entries(file.cues))
    /\ \A i \in DOMAIN Entries(file.names) : file.names[i].index = i - 1
Distinct(s) == \A i, j \in DOMAIN s : i # j => s[i] # s[j]

(* After a column of length zero there is no data in the file.              *)
EndsEmpty(f) == f.names = NoData \/ (f.cues = NoData /\ f.names = None)

(* The file is opened, whatever columns of tables it lacks; but a column    *)
(* that is there and has no data does not stand for a table that is lacking,*)
(* and at the end of the file the reader panics on it.  A cue asked for by  *)
(* name is the one the name points to, in whatever order the names are (of  *)
(* two rows with one name, the one of the last), and the names listed are   *)
(* those of the file.                                                       *)
ByNameIsTheCue ==
    /\ reader # None => reader.outcome = IF EndsEmpty(file) THEN "panic" ELSE "reader"
    /\ answer # None /\ answer.call = "name" => answer.result = Found(file.name)
    /\ answer # None /\ answer.call = "by_name" /\ Complete =>
        LET rows == {r \in DOMAIN Entries(file.names) : file.names[r].name = answer.arg}
            last == CHOOSE r \in rows : \A q \in rows : q <= r
        IN  answer.result = IF rows = {} THEN Nothing
                            ELSE Found(Cue(answer.arg, file.cues[file.names[last].index + 1]))
    /\ answer # None /\ answer.call = "names" /\ HasData(file) =>
        answer.result = {file.names[i].name : i \in DOMAIN Entries(file.names)}

(* A cue asked for by id has the name that leads to it, when the names are  *)
(* in the order of the cues: the two lookups are each other's inverse, and  *)
(* every id that is listed is found.                                        *)
ByIdIsInverse ==
    answer # None /\ InCueOrder =>
        /\ answer.call = "ids" =>
            /\ answer.result = {file.cues[i] : i \in DOMAIN Entries(file.cues)}
            /\ \A id \in answer.result : get_cue_by_id(reader, id).found = "yes"
        /\ answer.call = "by_id"
                /\ Distinct([i \in DOMAIN Entries(file.names) |-> file.names[i].name]) =>
            IF \A i \in DOMAIN Entries(file.cues) : file.cues[i] # answer.arg
            THEN answer.result = Nothing
            ELSE /\ answer.result.found = "yes"
                 /\ get_cue_by_name(reader, answer.result.v.name) = answer.result
=============================================================================
