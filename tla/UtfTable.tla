------------------------------ MODULE UtfTable ------------------------------
(***************************************************************************)
(* The @UTF tables UtfTableBuilder writes (cpk/writer.rs): which strings   *)
(* they intern and how many bytes they take.  What a table says is its     *)
(* rows; their bytes matter only through the offsets and limits that       *)
(* follow from the sizes.                                                  *)
(***************************************************************************)
EXTENDS Sequences, FiniteSetsExt

(* The string pool after intern_string of every string of S: a NUL byte at  *)
(* offset 0, which is also the empty string, then each distinct string once *)
(* with its terminator.                                                     *)
InternedBytes(S) == 1 + MapThenSumSet(LAMBDA s : Len(s) + 1, {s \in S : Len(s) > 0})
=============================================================================
