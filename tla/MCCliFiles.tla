----------------------------- MODULE MCCliFiles -----------------------------
(* Instances of ManifestFile and CliPaths for TLC: the text of a manifest,  *)
(* and the places its entries are written to.  A behaviour is one manifest, *)
(* or one entry.                                                            *)
EXTENDS ManifestFile, CliPaths

(* Names with a tab, the end of a line, none at all, a path that is no      *)
(* UTF-8; every index mode; numbers at the limits of their fields.          *)
HeadOf(source, toc, itoc, direct) ==
    [source |-> source, archive_size |-> 9, archive_hash |-> 7, alignment |-> U16Max,
     has_toc |-> toc, has_itoc |-> itoc, direct_itoc |-> direct, p5r |-> 1,
     version |-> 0, revision |-> U16Max, update_date_time |-> 8]
File(id, size, dir, name, user) ==
    [id |-> id, extracted_size |-> 9, extracted_hash |-> 3, packed_size |-> size,
     packed_offset |-> 8, packed_hash |-> 0, directory |-> dir, file_name |-> name,
     user_string |-> user]

A == <<97>>
B == <<98, 47>>
Odd == <<9, 97>>
Line2 == <<10>>
Foreign == <<97, 200>>
MCManifests ==
    {[head |-> h, entries |-> e] :
        h \in {HeadOf(A, 1, 1, 0), HeadOf(Odd, 0, 1, 1), HeadOf(Line2, 1, 0, 0),
             HeadOf(Foreign, 0, 1, 0)},
        e \in {<<>>, <<File(0, 5, <<>>, Odd, A)>>,
               <<File(1, 0, B, A, <<>>), File(5, 1, Line2, <<127>>, Odd)>>}}

(* Directories and names of up to MaxLen characters; the manifest is called *)
(* ".m", the older one ".a".                                                *)
MCChars == {"/", "\\", ".", "a", "m"}
MCReserved == <<".", "m">>
MCOlder == <<".", "a">>

MCInit == Init /\ PathsInit
MCNext ==
    \/ directory = <<>> /\ file_name = <<>> /\ place = Unknown /\ Next /\ UNCHANGED pathVars
    \/ /\ text = <<>> /\ manifest = CHOOSE m \in Manifests : TRUE
       /\ PathsNext /\ UNCHANGED vars
MCSpec == MCInit /\ [][MCNext]_<<vars, pathVars>>
=============================================================================
