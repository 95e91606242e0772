------------------------------ MODULE CliPaths ------------------------------
(***************************************************************************)
(* Where the files of entries lie (cri-cpk-cli): unpack writes an entry to *)
(* safe_output_path (main.rs), pack looks for it at safe_relative_path     *)
(* (manifest.rs), and a file without an entry gets its directory and name  *)
(* from its place (collect_files of cpk/writer.rs, build_inputs).  Strings *)
(* are sequences of characters; paths those of a Unix host.                *)
(***************************************************************************)
EXTENDS Selection, SequencesExt

CONSTANTS
    Chars,      \* characters of names, "/", "\\" and "." among them
    MaxLen,     \* bound: characters of a directory or a name
    Reserved,   \* the name of the manifest, as characters
    Older       \* the name of the manifest of the version before

VARIABLES
    directory, file_name,   \* the entry
    place,                  \* where unpack writes it: a sequence of names
    known,                  \* where pack looks for the file of the entry
    again                   \* the entry of the file, and where that is written

pathVars == <<directory, file_name, place, known, again>>

(* No place has an empty name.                                              *)
Unknown == << <<>> >>
Rejected == << <<>>, <<>> >>
Dropped == << <<>>, <<>>, <<>> >>

-----------------------------------------------------------------------------
(* Path::components: the root, then what is between slashes; empty parts    *)
(* are none, and a dot is one at the start of the path only.                *)
Component(part, first) ==
    CASE part = <<>> -> [kind |-> "none"]
      [] part = <<".">> -> [kind |-> IF first THEN "CurDir" ELSE "none"]
      [] part = <<".", ".">> -> [kind |-> "ParentDir"]
      [] OTHER -> [kind |-> "Normal", name |-> part]
components(s) ==
    LET parts == Pieces(s, "/")
        all == [i \in DOMAIN parts |-> Component(parts[i], i = 1)]
        root == IF s # <<>> /\ s[1] = "/" THEN <<[kind |-> "RootDir"]>> ELSE <<>>
    IN  root \o Kept(all, {i \in DOMAIN all : all[i].kind # "none"})

(* Mutant: the separators are those of the host.                            *)
normalized_AsIs(s) == s

(* Archives use either slash, whatever the host.                            *)
normalized(s) == [k \in DOMAIN s |-> IF s[k] = "\\" THEN "/" ELSE s[k]]

EntryComponents(dir, name) == components(normalized(dir)) \o components(normalized(name))

NormalNames(cs) ==
    LET normal == Kept(cs, {i \in DOMAIN cs : cs[i].kind = "Normal"})
    IN  [i \in DOMAIN normal |-> normal[i].name]

Escapes(cs) == \E i \in DOMAIN cs : cs[i].kind \in {"ParentDir", "RootDir"}

(* Below the directory of the unpack; the manifest's own name is refused.   *)
safe_output_path(dir, name) ==
    LET cs == EntryComponents(dir, name)
    IN  IF Escapes(cs) \/ NormalNames(cs) = <<Reserved>> THEN Rejected ELSE NormalNames(cs)

safe_relative_path(dir, name) ==
    LET cs == EntryComponents(dir, name)
    IN  IF Escapes(cs) \/ NormalNames(cs) = <<>> THEN Rejected ELSE NormalNames(cs)

(* Mutant: the directories are joined without a separator.                  *)
path_to_cri_string_Joined(names) == FlattenSeq(names)

(* path_to_cri_string: the names with slashes between.                      *)
path_to_cri_string(names) ==
    FlattenSeq([i \in DOMAIN names |-> IF i = 1 THEN names[1] ELSE <<"/">> \o names[i]])

-----------------------------------------------------------------------------
(* An entry of any archive: its strings grow character by character.        *)
PathsInit ==
    /\ directory = <<>> /\ file_name = <<>>
    /\ place = Unknown /\ known = Unknown /\ again = Unknown

InDirectory(c) ==
    /\ place = Unknown /\ file_name = <<>> /\ Len(directory) < MaxLen
    /\ directory' = Append(directory, c)
    /\ UNCHANGED <<file_name, place, known, again>>
InName(c) ==
    /\ place = Unknown /\ Len(file_name) < MaxLen
    /\ file_name' = Append(file_name, c)
    /\ UNCHANGED <<directory, place, known, again>>

(* unpack; a file cannot be written at the directory itself.                *)
Unpack ==
    /\ place = Unknown
    /\ LET p == safe_output_path(directory, file_name)
       IN  place' = IF p = <<>> THEN Rejected ELSE p
    /\ UNCHANGED <<directory, file_name, known, again>>

Written == place \notin {Unknown, Rejected}

(* pack with the manifest of that unpack.                                   *)
PackKnown ==
    /\ Written /\ known = Unknown
    /\ known' = safe_relative_path(directory, file_name)
    /\ UNCHANGED <<directory, file_name, place, again>>

(* pack of the directory as it is, and unpack of what that made: a file     *)
(* with the name of a manifest, in whatever directory, is taken for one and *)
(* makes no entry.                                                          *)
PackNew ==
    /\ Written /\ again = Unknown
    /\ again' = IF Last(place) \in {Reserved, Older} THEN Dropped
                ELSE safe_output_path(path_to_cri_string(Front(place)), Last(place))
    /\ UNCHANGED <<directory, file_name, place, known>>

PathsNext ==
    \/ \E c \in Chars : InDirectory(c) \/ InName(c)
    \/ Unpack \/ PackKnown \/ PackNew

PathsSpec == PathsInit /\ [][PathsNext]_pathVars

-----------------------------------------------------------------------------
(* Whatever an entry is called, its file is below the directory it is       *)
(* unpacked to, its names hold no separator of any host, and it is not the  *)
(* manifest.                                                                *)
StaysInside ==
    Written =>
        /\ \A i \in DOMAIN place :
            place[i] \notin {<<>>, <<".">>, <<".", ".">>} /\ {"/", "\\"} \cap ToSet(place[i]) = {}
        /\ place # <<Reserved>>

(* A file unpack wrote is found again: a pack with the manifest looks for   *)
(* it at the same place, and packed without one and unpacked again it is    *)
(* written to that place.  The exception, which the code makes silently, is *)
(* the file named like a manifest below a directory, or like the older one  *)
(* at the top: unpack writes it, and a pack without a manifest leaves it    *)
(* out.                                                                     *)
UnpackedComesBack ==
    /\ known # Unknown => known = place
    /\ again # Unknown => again = IF Last(place) \in {Reserved, Older} THEN Dropped ELSE place
=============================================================================
