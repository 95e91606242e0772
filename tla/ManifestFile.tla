---------------------------- MODULE ManifestFile ----------------------------
(***************************************************************************)
(* The text of the manifest (cri-cpk-cli, manifest.rs): what Manifest::write *)
(* makes of a manifest, what a user does to the text, and what              *)
(* Manifest::read makes of it again.  The text is a sequence of symbols: a  *)
(* keyword, a number, one digit of a hexadecimal string, a tab, an end of a *)
(* line.  CpkCli has the steps in which the file replaces an older one.     *)
(***************************************************************************)
EXTENDS Selection, SequencesExt

CONSTANTS
    Manifests,      \* what unpack writes: [head, entries], by key
    Numbers,        \* what a user puts in the place of a number
    U16Max, U32Max, U64Max  \* bounds: the largest u16, u32 and u64

VARIABLES
    manifest,   \* the manifest in memory of unpack
    text,       \* the file
    edited,     \* whether a user changed it
    result      \* what read returned

vars == <<manifest, text, edited, result>>

-----------------------------------------------------------------------------
(* Symbols.  Digits of strings are below sixteen; numbers may have digits   *)
(* of either base and are the same in both.                                 *)
Sym(kind, n) == [kind |-> kind, n |-> n]
Word(w) == Sym(w, 0)
Tab == Word("tab")
Newline == Word("newline")
MANIFEST_MAGIC == Word("CRI_CPK_MANIFEST_V2")

(* The lines of the head, and the fields of an entry, in order.             *)
HeadKeys == <<"source", "archive_size", "archive_hash", "alignment", "has_toc", "has_itoc",
              "direct_itoc", "p5r", "version", "revision", "update_date_time">>
EntryKeys == <<"id", "extracted_size", "extracted_hash", "packed_size", "packed_offset",
               "packed_hash", "directory", "file_name", "user_string">>
Text == {"source", "directory", "file_name", "user_string"}
Bools == {"has_toc", "has_itoc", "direct_itoc", "p5r"}
Hashes == {"archive_hash", "extracted_hash", "packed_hash"}
MaxOf(key) ==
    CASE key \in {"alignment", "version", "revision"} -> U16Max
      [] key \in {"id", "packed_size"} -> U32Max
      [] key \in Bools -> 1
      [] OTHER -> U64Max

(* Mutant: the bytes of a string are written as they are.                   *)
encode_field_AsIs(s) ==
    [k \in DOMAIN s |->
        CASE s[k] = 9 -> Tab [] s[k] = 10 -> Newline [] OTHER -> Sym("digit", s[k])]

(* encode_field: two digits for each byte.                                  *)
encode_field(s) ==
    FlattenSeq([k \in DOMAIN s |-> <<Sym("digit", s[k] \div 16), Sym("digit", s[k] % 16)>>])

Shown(key, v) ==
    IF key \in Text THEN encode_field(v)
    ELSE IF key \in Hashes THEN <<Sym("hash", v)>> ELSE <<Sym("number", v)>>

(* Manifest::write.                                                         *)
Line(symbols) == Append(symbols, Newline)
write(m) ==
    Line(<<MANIFEST_MAGIC>>)
        \o FlattenSeq([i \in DOMAIN HeadKeys |->
                Line(<<Word(HeadKeys[i]), Tab>> \o Shown(HeadKeys[i], m.head[HeadKeys[i]]))])
        \o FlattenSeq([e \in DOMAIN m.entries |->
                Line(<<Word("entry")>> \o FlattenSeq([i \in DOMAIN EntryKeys |->
                        <<Tab>> \o Shown(EntryKeys[i], m.entries[e][EntryKeys[i]])]))])

(* to_string_lossy: what is no UTF-8 in the path of the source archive       *)
(* becomes the replacement character, for which the last byte stands here.  *)
Replacement == 127
to_string_lossy(s) == [k \in DOMAIN s |-> IF s[k] > 127 THEN Replacement ELSE s[k]]
Stored(m) == [m EXCEPT !.head["source"] = to_string_lossy(@)]

-----------------------------------------------------------------------------
(* Reading.                                                                *)
lines(t) ==
    LET parts == Pieces(t, Newline)
    IN  IF Last(parts) = <<>> THEN Front(parts) ELSE parts

(* Strings of the program are UTF-8: here, of bytes below 128.              *)
decode_field(s) ==
    LET byte(k) == 16 * s[2 * k - 1].n + s[2 * k].n
    IN  IF \/ Len(s) % 2 # 0 \/ \E j \in DOMAIN s : s[j].kind # "digit"
           \/ \E j \in 1 .. Len(s) \div 2 : byte(j) > 127
        THEN [ok |-> FALSE] ELSE [ok |-> TRUE, v |-> [j \in 1 .. Len(s) \div 2 |-> byte(j)]]

(* parse_u64, parse_hex_u64, parse_bool, and the conversions to the width   *)
(* of the field.  A hash is written with all its digits, which a boolean is *)
(* not.                                                                     *)
parse(key, s) ==
    IF key \in Text THEN decode_field(s)
    ELSE IF \/ Len(s) # 1
            \/ s[1].kind \notin {"number", "digit", "hash"}
            \/ key \in Bools /\ s[1].kind = "hash"
    THEN [ok |-> FALSE]
    ELSE IF s[1].n > MaxOf(key) THEN [ok |-> FALSE] ELSE [ok |-> TRUE, v |-> s[1].n]

(* required_value: the key up to the first tab, the value after it.         *)
HeadValue(ls, i) ==
    IF i + 1 > Len(ls) \/ Len(ls[i + 1]) < 2 THEN [ok |-> FALSE]
    ELSE IF SubSeq(ls[i + 1], 1, 2) # <<Word(HeadKeys[i]), Tab>> THEN [ok |-> FALSE]
    ELSE parse(HeadKeys[i], SubSeq(ls[i + 1], 3, Len(ls[i + 1])))

(* What was parsed for each of the keys.                                    *)
ByKey(keys, parsed) ==
    [key \in ToSet(keys) |-> parsed[CHOOSE i \in DOMAIN keys : keys[i] = key].v]

Entry(line) ==
    LET fields == Pieces(line, Tab)
        values == [i \in DOMAIN EntryKeys |-> parse(EntryKeys[i], fields[i + 1])]
    IN  IF fields[1] # <<Word("entry")>> \/ Len(fields) # Len(EntryKeys) + 1 THEN [ok |-> FALSE]
        ELSE IF \E i \in DOMAIN values : ~values[i].ok THEN [ok |-> FALSE]
        ELSE [ok |-> TRUE, v |-> ByKey(EntryKeys, values)]

(* Mutant: a manifest without an index is accepted.                         *)
IndexesAgree_Any(head) == head["direct_itoc"] = 1 => head["has_itoc"] = 1

IndexesAgree(head) ==
    /\ head["has_toc"] = 1 \/ head["has_itoc"] = 1
    /\ head["direct_itoc"] = 1 => head["has_itoc"] = 1

(* Manifest::read.                                                          *)
Invalid == [outcome |-> "error"]
read(t) ==
    LET ls == lines(t)
        head == [i \in DOMAIN HeadKeys |-> HeadValue(ls, i)]
        values == ByKey(HeadKeys, head)
        more == SubSeq(ls, Len(HeadKeys) + 2, Len(ls))
        rest == Kept(more, {l \in DOMAIN more : more[l] # <<>>})
        entries == [e \in DOMAIN rest |-> Entry(rest[e])]
    IN  IF ls = <<>> \/ \E i \in DOMAIN head : ~head[i].ok THEN Invalid
        ELSE IF ls[1] # <<MANIFEST_MAGIC>> \/ \E e \in DOMAIN entries : ~entries[e].ok
        THEN Invalid
        ELSE IF ~IndexesAgree(values) THEN Invalid
        ELSE [outcome |-> "manifest",
              m |-> [head |-> values, entries |-> [e \in DOMAIN entries |-> entries[e].v]]]

(* writer_profile: the index of the archive; its last case is unreachable!. *)
index_mode(head) ==
    CASE head["has_toc"] = 1 /\ head["has_itoc"] = 1 -> "TocAndItoc"
      [] head["has_toc"] = 1 /\ head["has_itoc"] = 0 -> "Toc"
      [] head["has_toc"] = 0 /\ head["has_itoc"] = 1 -> "Itoc"
      [] OTHER -> "unreachable"

-----------------------------------------------------------------------------
(* What unpack makes: get_files fails for an archive without an index, and  *)
(* the direct ITOC is one of an ITOC; strings are bytes, numbers are those  *)
(* of their fields.  The path of the archive alone may be no UTF-8.         *)
IsRecord(r, keys) ==
    /\ r = [key \in ToSet(keys) |-> r[key]]
    /\ \A key \in ToSet(keys) :
        IF key \in Text THEN r[key] \in Seq(0 .. 127) ELSE r[key] \in 0 .. MaxOf(key)
IsManifest(m) ==
    /\ m = [head |-> m.head, entries |-> m.entries]
    /\ IsRecord(m.head, HeadKeys) /\ IndexesAgree(m.head)
    /\ m.entries \in Seq(ToSet(m.entries))
    /\ \A e \in DOMAIN m.entries : IsRecord(m.entries[e], EntryKeys)

ASSUME ManifestAssumption ==
    /\ U16Max \in Nat /\ U32Max \in Nat /\ U64Max \in Nat /\ Numbers \subseteq Nat
    /\ \A m \in Manifests : IsManifest(Stored(m))

Unread == [outcome |-> "none"]

Init ==
    /\ manifest \in Manifests
    /\ text = <<>> /\ edited = FALSE /\ result = Unread

Write ==
    /\ text = <<>>
    /\ text' = write(Stored(manifest))
    /\ UNCHANGED <<manifest, edited, result>>

(* A user takes a symbol out, cuts the end off, doubles a line or changes a *)
(* number.                                                                  *)
Edit(t) ==
    /\ text # <<>> /\ ~edited /\ result = Unread
    /\ text' = t /\ edited' = TRUE
    /\ UNCHANGED <<manifest, result>>
TakeOut(k) == Edit(RemoveAt(text, k))
Cut(k) == Edit(SubSeq(text, 1, k))
Renumber(k, n) == text[k].kind = "number" /\ text[k].n # n /\ Edit([text EXCEPT ![k].n = n])
DoubleLine(l) ==
    LET ls == lines(text)
        twice == SubSeq(ls, 1, l) \o SubSeq(ls, l, Len(ls))
    IN  Edit(FlattenSeq([i \in DOMAIN twice |-> Line(twice[i])]))

Read ==
    /\ text # <<>> /\ result = Unread
    /\ result' = read(text)
    /\ UNCHANGED <<manifest, text, edited>>

Next ==
    \/ Write \/ Read
    \/ \E k \in DOMAIN text : TakeOut(k) \/ Cut(k) \/ \E n \in Numbers : Renumber(k, n)
    \/ \E l \in 1 .. Len(lines(text)) : DoubleLine(l)

ManifestSpec == Init /\ [][Next]_vars

-----------------------------------------------------------------------------
(* What unpack writes pack reads: every name, whatever tabs and ends of     *)
(* lines it holds, every number, the entries in their order.  Only the path *)
(* of the archive loses what is no UTF-8.                                   *)
WrittenIsRead ==
    result # Unread /\ ~edited => result = [outcome |-> "manifest", m |-> Stored(manifest)]

(* The names of the entries, in order; an edit of one place leaves a prefix *)
(* of them, or has one entry twice.                                         *)
EntryNames(m) == [e \in DOMAIN m.entries |->
                    <<m.entries[e]["directory"], m.entries[e]["file_name"]>>]
NamesSurvive(before, after) ==
    \/ IsPrefix(after, before)
    \/ \E e \in DOMAIN before : after = SubSeq(before, 1, e) \o SubSeq(before, e, Len(before))

(* After one of the four edits above (a symbol taken out, the end cut off,   *)
(* a number changed, a line doubled) a manifest that is read gives an index *)
(* mode the writer has and numbers that fit its fields, and no entry has    *)
(* another place, directory or name than it had.                            *)
ReadIsUsable ==
    result.outcome = "manifest" =>
        /\ index_mode(result.m.head) \in {"Toc", "Itoc", "TocAndItoc"}
        /\ result.m.head["direct_itoc"] = 1 => index_mode(result.m.head) # "Toc"
        /\ \A key \in {"alignment", "version", "revision"} : result.m.head[key] <= U16Max
        /\ \A e \in DOMAIN result.m.entries :
            result.m.entries[e]["id"] <= U32Max /\ result.m.entries[e]["packed_size"] <= U32Max
        /\ NamesSurvive(EntryNames(manifest), EntryNames(result.m))
=============================================================================
