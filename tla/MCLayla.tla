------------------------------ MODULE MCLayla ------------------------------
EXTENDS Layla, LaylaFormat

Raw == <<1, 2>>

(* Literals, so many that the copy after them starts at every bit of a      *)
(* byte, then copies with lengths at the edges of every level; copies that  *)
(* overlap themselves, one after the other; and an offset and a length that *)
(* take more than a byte.                                                   *)
Literals(k) == [j \in 1 .. k |-> <<(90 * j + 77) % 256>>]
Copies == {<<3, 5>>, <<4, 6>>, <<3, 8>>, <<5, 12>>, <<3, 44>>}
Short == {<<255>>, <<3, 3>>, <<4, 7>>, <<5, 9>>}
Long == {Literals(3) \o <<<<3, 43>>, c, <<300, 9>>, d>> :
            c \in {<<3, 298>>, <<46, 299>>, <<7, 300>>}, d \in {<<4, 7>>}}
Files ==
    {f \in {Literals(k) : k \in {0, 1}} \cup {Literals(k) \o <<<<3, 13>>>> : k \in 3 .. 10}
            \cup {Literals(6) \o <<c>> : c \in Copies} \cup {Literals(3) \o <<c, d>> : c, d \in Short} \cup Long : WellFormed(f)}

Triples == {[form |-> Compressed(Raw, f), plain |-> File(Raw, f), blocks |-> f] : f \in Files}
MCInputs == {t.form : t \in Triples}
MCPlain(i) == (CHOOSE t \in Triples : t.form = i).plain
MCBlocks(i) == (CHOOSE t \in Triples : t.form = i).blocks
MCStale == {[n \in 0 .. BufferBytes - 1 |-> 238]}
=============================================================================
