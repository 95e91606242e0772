-------------------------- MODULE RoundTripProofs --------------------------
(* Proofs about CpkCli, for archives of any size, whatever their ids, paths *)
(* and payloads, and any number of commands, kills and edits: what a        *)
(* directory packs to, that an archive that was unpacked comes back, and    *)
(* how the manifest on disk is replaced.                                    *)
(*                                                                          *)
(* The inductive invariant CliInv says of the bytes on disk what makes them *)
(* survive the transform and the compressor, of an unpack in progress that  *)
(* the entries behind it are restored, and of a pack in progress that, as   *)
(* long as nothing was edited since it was planned, its inputs are the      *)
(* directory and the rows written so far are its inputs.                    *)
EXTENDS CpkCli, SelectionProofs, SequenceTheorems

-----------------------------------------------------------------------------
(* The bytes of a file.                                                     *)

Good(b) == WellFormed(b) /\ \E S : b \in Seq(S)

(* A mark less: what a decompressor, or the transform, leaves.              *)
LEMMA Unwrapped ==
    ASSUME NEW b, Good(b), b[1] \in {"layla", "p5r"}
    PROVE  /\ Good(Tail(b))
           /\ b[1] = "p5r" => Tail(b)[1] # "p5r" /\ Tail(b) \notin Short
           /\ <<b[1]>> \o Tail(b) = b
<1>1. PICK S : b \in Seq(S)
  BY DEF Good
<1>2. /\ b # <<>>
      /\ \A i \in 1 .. Len(b) : Marks(b, i) =>
            /\ i < Len(b)
            /\ b[i] = "p5r" => b[i + 1] # "p5r" /\ SubSeq(b, i + 1, Len(b)) \notin Short
  BY DEF Good, WellFormed
<1> DEFINE t == Tail(b)
           n == Len(b)
<1>3. n \in Nat /\ DOMAIN b = 1 .. n /\ n # 0
  BY <1>1, <1>2, LenProperties, EmptySeq
<1>4. t \in Seq(S) /\ Len(t) = n - 1 /\ \A i \in 1 .. n - 1 : t[i] = b[i + 1]
  BY <1>1, <1>2, HeadTailProperties
<1>5. t = SubSeq(b, 2, n)
  BY <1>1, <1>2, TailIsSubSeq
<1> HIDE DEF t, n
<1>6. Marks(b, 1)
  BY DEF Marks
<1>7. 1 < n /\ (b[1] = "p5r" => b[2] # "p5r" /\ SubSeq(b, 2, n) \notin Short)
  <2>1. 1 \in 1 .. n
    BY <1>3
  <2>2. QED
    BY <1>2, <1>6, <2>1 DEF n
<1>8. t # <<>>
  BY <1>3, <1>4, <1>7, EmptySeq
<1>9. ASSUME NEW i \in 1 .. Len(t), Marks(t, i)
      PROVE  /\ i < Len(t)
             /\ t[i] = "p5r" => t[i + 1] # "p5r" /\ SubSeq(t, i + 1, Len(t)) \notin Short
  <2> DEFINE h == i + 1
  <2>1. h \in 1 .. n /\ i \in 1 .. n - 1 /\ h # 1 /\ h - 1 = i
    BY <1>3, <1>4
  <2>2. Marks(b, h)
    <3> SUFFICES ASSUME NEW j \in 1 .. h PROVE b[j] \in {"layla", "p5r"}
      BY DEF Marks
    <3>1. CASE j = 1
      BY <3>1
    <3>2. CASE j # 1
      <4>1. j - 1 \in 1 .. i /\ j - 1 \in 1 .. n - 1 /\ (j - 1) + 1 = j
        BY <1>3, <2>1, <3>2
      <4>2. t[j - 1] = b[j]
        BY <1>4, <4>1
      <4>3. t[j - 1] \in {"layla", "p5r"}
        BY <1>9, <4>1 DEF Marks
      <4>4. QED
        BY <4>2, <4>3
    <3>3. QED
      BY <3>1, <3>2
  <2>3. h < n /\ (b[h] = "p5r" => b[h + 1] # "p5r" /\ SubSeq(b, h + 1, n) \notin Short)
    BY <1>2, <2>1, <2>2 DEF n
  <2>4. t[i] = b[h] /\ t[i + 1] = b[h + 1]
    BY <1>3, <1>4, <2>1, <2>3
  <2>5. SubSeq(t, i + 1, Len(t)) = SubSeq(b, h + 1, n)
    <3> DEFINE u == SubSeq(t, i + 1, n - 1)
               v == SubSeq(b, h + 1, n)
    <3>1. \A j \in i + 1 .. n - 1 : t[j] \in S
      BY <1>1, <1>3, <1>4, <2>1, ElementOfSeq
    <3>2. \A j \in h + 1 .. n : b[j] \in S
      BY <1>1, <1>3, <2>1, ElementOfSeq DEF n
    <3>3. /\ u \in Seq(S) /\ Len(u) = IF i + 1 <= n - 1 THEN (n - 1) - (i + 1) + 1 ELSE 0
          /\ \A j \in 1 .. (n - 1) - (i + 1) + 1 : u[j] = t[i + 1 + j - 1]
      <4>1. i + 1 \in Int /\ n - 1 \in Int
        BY <1>3, <2>1
      <4>2. QED
        BY <3>1, <4>1, SubSeqProperties
    <3>4. /\ v \in Seq(S) /\ Len(v) = IF h + 1 <= n THEN n - (h + 1) + 1 ELSE 0
          /\ \A j \in 1 .. n - (h + 1) + 1 : v[j] = b[h + 1 + j - 1]
      <4>1. h + 1 \in Int /\ n \in Int
        BY <1>3, <2>1
      <4>2. QED
        BY <3>2, <4>1, SubSeqProperties
    <3> HIDE DEF u, v
    <3>5. Len(u) = Len(v) /\ Len(u) = n - h
      BY <1>3, <2>1, <2>3, <3>3, <3>4
    <3>6. ASSUME NEW j \in 1 .. Len(u) PROVE u[j] = v[j]
      <4>1. j \in 1 .. n - h
        BY <3>5
      <4>2. u[j] = t[i + j]
        BY <1>3, <2>1, <3>3, <4>1, SMTT(30)
      <4>3. v[j] = b[h + j]
        BY <1>3, <2>1, <3>4, <4>1
      <4>4. i + j \in 1 .. n - 1 /\ (i + j) + 1 = h + j
        BY <1>3, <2>1, <4>1
      <4>5. QED
        BY <1>4, <4>2, <4>3, <4>4
    <3>7. u = v
      BY <3>3, <3>4, <3>5, <3>6, SeqEqual
    <3>8. QED
      BY <1>4, <3>7 DEF u, v
  <2>6. i < Len(t)
    BY <1>3, <1>4, <2>1, <2>3
  <2>7. QED
    BY <2>3, <2>4, <2>5, <2>6
<1>10. Good(t)
  BY <1>4, <1>8, <1>9 DEF Good, WellFormed
<1>11. <<b[1]>> \o t = b
  <2>1. b[1] \in S
    BY <1>1, <1>3, ElementOfSeq DEF n
  <2>2. <<b[1]>> \in Seq(S) /\ Len(<<b[1]>>) = 1 /\ <<b[1]>>[1] = b[1]
    BY <2>1
  <2> DEFINE s == <<b[1]>>
             c == s \o t
  <2> HIDE DEF s
  <2>3. /\ c \in Seq(S) /\ Len(c) = Len(s) + Len(t)
        /\ \A i \in 1 .. Len(s) + Len(t) : c[i] = IF i <= Len(s) THEN s[i] ELSE t[i - Len(s)]
    BY <1>4, <2>2, ConcatProperties DEF s
  <2> HIDE DEF c
  <2>4. Len(c) = n /\ Len(s) = 1 /\ s[1] = b[1]
    BY <1>3, <1>4, <2>2, <2>3 DEF s
  <2>5. ASSUME NEW i \in 1 .. Len(c) PROVE c[i] = b[i]
    <3>1. CASE i = 1
      BY <1>3, <1>4, <2>3, <2>4, <3>1
    <3>2. CASE i # 1
      <4>1. i - 1 \in 1 .. n - 1 /\ i \in 1 .. n /\ ~(i <= 1)
        BY <1>3, <2>4, <3>2
      <4>2. c[i] = t[i - 1]
        BY <1>3, <1>4, <2>3, <2>4, <4>1
      <4>3. t[i - 1] = b[(i - 1) + 1]
        BY <1>4, <4>1
      <4>4. (i - 1) + 1 = i
        BY <4>1
      <4>5. QED
        BY <4>2, <4>3, <4>4
    <3>3. QED
      BY <3>1, <3>2
  <2>6. QED
    BY <1>1, <2>3, <2>4, <2>5, SeqEqual DEF c, s, n
<1>12. t[1] = b[2]
  BY <1>3, <1>4, <1>7
<1>13. QED
  BY <1>5, <1>7, <1>10, <1>11, <1>12 DEF t

(* A mark more: the transform over bytes that are not under it.             *)
LEMMA Wrapped ==
    ASSUME NEW b, Good(b), b[1] # "p5r", b \notin Short
    PROVE  /\ Good(<<"p5r">> \o b)
           /\ (<<"p5r">> \o b)[1] = "p5r"
           /\ Tail(<<"p5r">> \o b) = b
<1>1. PICK S : b \in Seq(S)
  BY DEF Good
<1>2. /\ b # <<>>
      /\ \A i \in 1 .. Len(b) : Marks(b, i) =>
            /\ i < Len(b)
            /\ b[i] = "p5r" => b[i + 1] # "p5r" /\ SubSeq(b, i + 1, Len(b)) \notin Short
  BY DEF Good, WellFormed
<1> DEFINE T == S \cup {"p5r"}
           s == <<"p5r">>
           c == s \o b
           n == Len(b)
<1>3. n \in Nat /\ DOMAIN b = 1 .. n /\ n # 0
  BY <1>1, <1>2, LenProperties, EmptySeq
<1>4. b \in Seq(T) /\ s \in Seq(T) /\ Len(s) = 1 /\ s[1] = "p5r"
  <2>1. b \in Seq(T)
    BY <1>1, SeqMonotonic
  <2>2. QED
    BY <2>1
<1> HIDE DEF T, s, n
<1>5. /\ c \in Seq(T) /\ Len(c) = Len(s) + Len(b)
      /\ \A i \in 1 .. Len(s) + Len(b) : c[i] = IF i <= Len(s) THEN s[i] ELSE b[i - Len(s)]
  BY <1>4, ConcatProperties
<1> HIDE DEF c
<1>6. Len(c) = n + 1 /\ c[1] = "p5r" /\ \A i \in 1 .. n : c[i + 1] = b[i]
  <2>1. Len(c) = n + 1 /\ c[1] = "p5r"
    BY <1>3, <1>4, <1>5 DEF n
  <2>2. ASSUME NEW i \in 1 .. n PROVE c[i + 1] = b[i]
    <3>1. i + 1 \in 1 .. 1 + n /\ ~(i + 1 <= 1) /\ (i + 1) - 1 = i
      BY <1>3
    <3>2. QED
      BY <1>4, <1>5, <3>1 DEF n
  <2>3. QED
    BY <2>1, <2>2
<1>7. c # <<>>
  BY <1>3, <1>5, <1>6, EmptySeq
<1>8. ASSUME NEW i \in 1 .. n + 1
      PROVE  SubSeq(c, i + 1, n + 1) = SubSeq(b, i, n)
  <2> DEFINE u == SubSeq(c, i + 1, n + 1)
             v == SubSeq(b, i, n)
  <2>1. \A j \in i + 1 .. n + 1 : c[j] \in T
    BY <1>3, <1>5, <1>6, ElementOfSeq
  <2>2. \A j \in i .. n : b[j] \in T
    BY <1>3, <1>4, ElementOfSeq DEF n
  <2>3. /\ u \in Seq(T) /\ Len(u) = IF i + 1 <= n + 1 THEN (n + 1) - (i + 1) + 1 ELSE 0
        /\ \A j \in 1 .. (n + 1) - (i + 1) + 1 : u[j] = c[i + 1 + j - 1]
    <3>1. i + 1 \in Int /\ n + 1 \in Int
      BY <1>3
    <3>2. QED
      BY <2>1, <3>1, SubSeqProperties
  <2>4. /\ v \in Seq(T) /\ Len(v) = IF i <= n THEN n - i + 1 ELSE 0
        /\ \A j \in 1 .. n - i + 1 : v[j] = b[i + j - 1]
    <3>1. i \in Int /\ n \in Int
      BY <1>3
    <3>2. QED
      BY <2>2, <3>1, SubSeqProperties
  <2> HIDE DEF u, v
  <2>5. Len(u) = Len(v) /\ Len(u) = n + 1 - i
    BY <1>3, <2>3, <2>4
  <2>6. ASSUME NEW j \in 1 .. Len(u) PROVE u[j] = v[j]
    <3>1. j \in 1 .. n + 1 - i
      BY <2>5
    <3>2. u[j] = c[i + j]
      BY <1>3, <2>3, <3>1
    <3>3. v[j] = b[i + j - 1]
      BY <1>3, <2>4, <3>1
    <3>4. i + j - 1 \in 1 .. n /\ (i + j - 1) + 1 = i + j
      BY <1>3, <3>1
    <3>5. QED
      BY <1>6, <3>2, <3>3, <3>4
  <2>7. u = v
    BY <2>3, <2>4, <2>5, <2>6, SeqEqual
  <2>8. QED
    BY <2>7 DEF u, v
<1>9. SubSeq(b, 1, n) = b
  BY <1>1, SubSeqFull DEF n
<1>10. ASSUME NEW i \in 1 .. n + 1, Marks(c, i)
       PROVE  /\ i < n + 1
              /\ c[i] = "p5r" => c[i + 1] # "p5r" /\ SubSeq(c, i + 1, n + 1) \notin Short
  <2>1. CASE i = 1
    <3>1. c[2] = b[1]
      BY <1>3, <1>6
    <3>2. SubSeq(c, i + 1, n + 1) = b
      BY <1>8, <1>9, <2>1
    <3>3. i + 1 = 2 /\ i < n + 1
      BY <1>3, <2>1
    <3>4. c[i + 1] # "p5r"
      BY <3>1, <3>3
    <3>5. QED
      BY <3>2, <3>3, <3>4
  <2>2. CASE i # 1
    <3> DEFINE h == i - 1
    <3>1. h \in 1 .. n /\ h + 1 = i /\ i \in 1 .. n + 1
      BY <1>3, <2>2
    <3> HIDE DEF h
    <3>2. Marks(b, h)
      <4> SUFFICES ASSUME NEW j \in 1 .. h PROVE b[j] \in {"layla", "p5r"}
        BY DEF Marks
      <4>1. j + 1 \in 1 .. i /\ j \in 1 .. n
        BY <1>3, <3>1
      <4>2. QED
        BY <1>6, <1>10, <4>1 DEF Marks
    <3>3. h < n /\ (b[h] = "p5r" => b[h + 1] # "p5r" /\ SubSeq(b, h + 1, n) \notin Short)
      BY <1>2, <3>1, <3>2 DEF n
    <3>4. c[i] = b[h] /\ c[i + 1] = b[h + 1] /\ i < n + 1
      <4>1. h + 1 \in 1 .. n /\ i < n + 1
        BY <1>3, <3>1, <3>3
      <4>2. c[h + 1] = b[h]
        BY <1>6, <3>1
      <4>3. c[(h + 1) + 1] = b[h + 1]
        BY <1>6, <4>1
      <4>4. QED
        BY <3>1, <4>1, <4>2, <4>3
    <3>5. SubSeq(c, i + 1, n + 1) = SubSeq(b, h + 1, n)
      BY <1>8, <3>1
    <3>6. QED
      BY <3>3, <3>4, <3>5
  <2>3. QED
    BY <2>1, <2>2
<1>11. Good(c)
  BY <1>5, <1>6, <1>7, <1>10 DEF Good, WellFormed
<1>12. Tail(c) = b
  <2>1. Tail(c) = SubSeq(c, 2, Len(c))
    BY <1>5, <1>7, TailIsSubSeq
  <2>2. SubSeq(c, 1 + 1, n + 1) = SubSeq(b, 1, n)
    BY <1>3, <1>8
  <2>3. 1 + 1 = 2 /\ Len(c) = n + 1
    BY <1>6
  <2>4. QED
    BY <1>9, <2>1, <2>2, <2>3
<1>13. QED
  BY <1>6, <1>11, <1>12 DEF c, s

(* The transform is its own inverse.                                        *)
LEMMA Decrypted ==
    ASSUME NEW b, Good(b)
    PROVE  Good(decrypt_in_place(b)) /\ decrypt_in_place(decrypt_in_place(b)) = b
<1>1. CASE b \in Short
  BY <1>1 DEF decrypt_in_place
<1>2. CASE b \notin Short /\ b[1] = "p5r"
  <2>1. Good(Tail(b)) /\ Tail(b)[1] # "p5r" /\ Tail(b) \notin Short /\ <<"p5r">> \o Tail(b) = b
    BY <1>2, Unwrapped
  <2>2. decrypt_in_place(b) = Tail(b)
    BY <1>2 DEF decrypt_in_place
  <2>3. decrypt_in_place(Tail(b)) = b
    BY <2>1 DEF decrypt_in_place
  <2>4. QED
    BY <2>1, <2>2, <2>3
<1>3. CASE b \notin Short /\ b[1] # "p5r"
  <2> DEFINE c == <<"p5r">> \o b
  <2>1. Good(c) /\ c[1] = "p5r" /\ Tail(c) = b
    BY <1>3, Wrapped
  <2>2. decrypt_in_place(b) = c
    BY <1>3 DEF decrypt_in_place
  <2> HIDE DEF c
  <2>3. c \notin Short
    BY <2>1, CliAssumption
  <2>4. decrypt_in_place(c) = b
    BY <2>1, <2>3 DEF decrypt_in_place
  <2>5. QED
    BY <2>1, <2>2, <2>4
<1>4. QED
  BY <1>1, <1>2, <1>3

(* What decompressing a payload leaves, the junk of a payload that is       *)
(* none included.                                                           *)
LEMMA Decompressed ==
    ASSUME NEW b, Good(b)
    PROVE  Good(decompress(b))
<1>1. CASE b[1] = "layla"
  BY <1>1, Unwrapped DEF decompress
<1>2. CASE b[1] # "layla"
  <2>1. Good(<<"junk">>)
    <3>1. <<"junk">> \in Seq({"junk"}) /\ <<"junk">> # <<>> /\ Len(<<"junk">>) = 1 /\ <<"junk">>[1] = "junk"
      OBVIOUS
    <3> DEFINE j == <<"junk">>
    <3>2. j # <<>> /\ Len(j) = 1 /\ j[1] = "junk" /\ j \in Seq({"junk"})
      BY <3>1
    <3> HIDE DEF j
    <3>3. \A i \in 1 .. Len(j) : ~Marks(j, i)
      BY <3>2 DEF Marks
    <3>4. Good(j)
      BY <3>2, <3>3 DEF Good, WellFormed
    <3>5. QED
      BY <3>4 DEF j
  <2>2. QED
    BY <1>2, <2>1 DEF decompress
<1>3. QED
  BY <1>1, <1>2

(* What unpack writes and pack stores are such bytes again, and a rebuilt   *)
(* entry extracts to the file it was made of.                               *)
LEMMA Payloads ==
    ASSUME NEW b, Good(b), NEW user, NEW p5r
    PROVE  /\ Good(Extract(b, user, p5r)) /\ Good(Rebuild(b, user, p5r))
           /\ ~is_compressed(b) => Extract(Rebuild(b, user, p5r), user, p5r) = b
<1>1. CASE p5r /\ user = Encrypted
  <2>1. Good(decrypt_in_place(b)) /\ decrypt_in_place(decrypt_in_place(b)) = b
    BY Decrypted
  <2>2. Rebuild(b, user, p5r) = decrypt_in_place(b)
    BY <1>1 DEF Rebuild
  <2>3. Good(Extract(b, user, p5r))
    BY <1>1, <2>1, Decompressed DEF Extract
  <2>4. QED
    BY <1>1, <2>1, <2>2, <2>3, ZenonT(30) DEF Extract
<1>2. CASE ~(p5r /\ user = Encrypted)
  BY <1>2, Decompressed DEF Extract, Rebuild
<1>3. QED
  BY <1>1, <1>2

(* A file of such bytes is not the absent one.                              *)
LEMMA NotEmpty == ASSUME NEW b, Good(b) PROVE b # <<>>
BY DEF Good, WellFormed

-----------------------------------------------------------------------------
(* Archives and manifests.                                                  *)

(* A row of an archive, its payload written or not yet.                     *)
GoodRow(r) ==
    /\ r = [path |-> r.path, id |-> r.id, user |-> r.user, packed |-> r.packed]
    /\ r.packed = <<>> \/ Good(r.packed)

(* What the reader of an archive relies on.                                 *)
GoodArchive(a) ==
    /\ a = [mode |-> a.mode, rows |-> a.rows]
    /\ a.mode \in Modes \/ a \in {Absent, Truncated}
    /\ \E n \in Nat : DOMAIN a.rows = 1 .. n
    /\ \A i \in DOMAIN a.rows :
        /\ GoodRow(a.rows[i])
        /\ IF has_toc(a.mode)
           THEN /\ a.rows[i].path \in Paths
                /\ a.rows[i].id \in 0 .. U32Max \/ (a.rows[i].id = -1 /\ i <= U32Max)
           ELSE a.rows[i].id \in 0 .. U32Max /\ IdPath(a.rows[i].id) \in Paths
    /\ ~has_toc(a.mode) =>
        \A i, j \in DOMAIN a.rows : i # j => a.rows[i].id # a.rows[j].id

(* An archive with no rows, and one of another tool.                        *)
LEMMA GivenArchive ==
    ASSUME NEW a, a \in {Absent, Truncated} \/ ValidArchive(a)
    PROVE  GoodArchive(a)
<1>1. CASE a \in {Absent, Truncated}
  <2>1. a.rows = <<>> /\ a = [mode |-> a.mode, rows |-> a.rows]
    BY <1>1 DEF Absent, Truncated
  <2>2. DOMAIN a.rows = 1 .. 0 /\ 0 \in Nat /\ \A i \in DOMAIN a.rows : FALSE
    BY <2>1
  <2>3. QED
    BY <1>1, <2>1, <2>2 DEF GoodArchive
<1>2. CASE ValidArchive(a)
  <2>1. /\ a.mode \in Modes /\ a.rows \in Seq(ArchiveRow) /\ Len(a.rows) <= U32Max
        /\ a = [mode |-> a.mode, rows |-> a.rows]
    BY <1>2 DEF ValidArchive
  <2>2. Len(a.rows) \in Nat /\ DOMAIN a.rows = 1 .. Len(a.rows)
    BY <2>1, LenProperties
  <2>3. ASSUME NEW i \in DOMAIN a.rows
        PROVE  /\ GoodRow(a.rows[i])
               /\ a.rows[i].id \in -1 .. U32Max
               /\ i <= U32Max
    <3>1. a.rows[i] \in ArchiveRow
      BY <2>1, <2>2, ElementOfSeq
    <3>2. /\ a.rows[i].packed \in Seq(STRING)
          /\ a.rows[i].packed = <<>> \/ WellFormed(a.rows[i].packed)
      BY <1>2, <3>1 DEF ValidArchive, ArchiveRow
    <3>3. a.rows[i].packed = <<>> \/ Good(a.rows[i].packed)
      BY <3>2 DEF Good
    <3>4. a.rows[i] = [path |-> a.rows[i].path, id |-> a.rows[i].id, user |-> a.rows[i].user,
                       packed |-> a.rows[i].packed] /\ a.rows[i].id \in -1 .. U32Max
      BY <3>1 DEF ArchiveRow
    <3>5. i <= U32Max
      BY <2>1, <2>2, CliAssumption
    <3>6. QED
      BY <3>3, <3>4, <3>5 DEF GoodRow
  <2>4. has_toc(a.mode) <=> a.mode # "Itoc"
    BY <2>1 DEF Modes, has_toc
  <2>5. ASSUME NEW i \in DOMAIN a.rows
        PROVE  IF has_toc(a.mode)
               THEN a.rows[i].path \in Paths
               ELSE a.rows[i].id # -1 /\ IdPath(a.rows[i].id) \in Paths
    BY <1>2, <2>4 DEF ValidArchive
  <2>6. ~has_toc(a.mode) => \A i, j \in DOMAIN a.rows : i # j => a.rows[i].id # a.rows[j].id
    BY <1>2, <2>4 DEF ValidArchive
  <2>7. U32Max \in Nat
    BY CliAssumption
  <2>8. ASSUME NEW i \in DOMAIN a.rows
        PROVE  IF has_toc(a.mode)
               THEN /\ a.rows[i].path \in Paths
                    /\ a.rows[i].id \in 0 .. U32Max \/ (a.rows[i].id = -1 /\ i <= U32Max)
               ELSE a.rows[i].id \in 0 .. U32Max /\ IdPath(a.rows[i].id) \in Paths
    <3>1. a.rows[i].id = -1 \/ a.rows[i].id \in 0 .. U32Max
      BY <2>3, <2>7
    <3>2. QED
      BY <2>3, <2>5, <3>1
  <2>9. QED
    BY <2>1, <2>2, <2>3, <2>6, <2>8 DEF GoodArchive
<1>3. QED
  BY <1>1, <1>2

(* The listing of an archive: each row once.                                *)
LEMMA ListingFacts ==
    ASSUME NEW a, GoodArchive(a)
    PROVE  /\ \E n \in Nat : /\ DOMAIN a.rows = 1 .. n
                             /\ DOMAIN Listing(a) = 1 .. n /\ Len(Listing(a)) = n
           /\ \A i \in DOMAIN Listing(a) :
                LET e == Listing(a)[i]
                    r == a.rows[e.at]
                IN  /\ e.at \in DOMAIN a.rows
                    /\ e.path \in Paths /\ e.id \in 0 .. U32Max
                    /\ r.id # -1 => e.id = r.id
                    /\ IF has_toc(a.mode) THEN e.path = r.path /\ e.user = r.user
                       ELSE e.path = IdPath(r.id) /\ e.user = ""
           /\ \A j \in DOMAIN a.rows : \E i \in DOMAIN Listing(a) : Listing(a)[i].at = j
<1>1. PICK n \in Nat : DOMAIN a.rows = 1 .. n
  BY DEF GoodArchive
<1>2. U32Max \in Nat
  BY CliAssumption
<1>3. CASE has_toc(a.mode)
  <2>1. Listing(a) = [i \in 1 .. n |->
            [path |-> a.rows[i].path, id |-> IF a.rows[i].id = -1 THEN i - 1 ELSE a.rows[i].id,
             user |-> a.rows[i].user, at |-> i]]
    BY <1>1, <1>3 DEF Listing
  <2>2. DOMAIN Listing(a) = 1 .. n /\ Len(Listing(a)) = n
    BY <2>1
  <2>3. ASSUME NEW i \in 1 .. n
        PROVE  LET e == Listing(a)[i]
                   r == a.rows[e.at]
               IN  /\ e.at = i
                   /\ e.path \in Paths /\ e.id \in 0 .. U32Max
                   /\ r.id # -1 => e.id = r.id
                   /\ e.path = r.path /\ e.user = r.user
    <3>1. Listing(a)[i] =
            [path |-> a.rows[i].path, id |-> IF a.rows[i].id = -1 THEN i - 1 ELSE a.rows[i].id,
             user |-> a.rows[i].user, at |-> i]
      BY <2>1
    <3>2. a.rows[i].path \in Paths
          /\ (a.rows[i].id \in 0 .. U32Max \/ (a.rows[i].id = -1 /\ i <= U32Max))
      BY <1>1, <1>3 DEF GoodArchive
    <3>3. (IF a.rows[i].id = -1 THEN i - 1 ELSE a.rows[i].id) \in 0 .. U32Max
      BY <1>2, <3>2
    <3>4. QED
      BY <3>1, <3>2, <3>3
  <2>4. QED
    BY <1>1, <1>3, <2>2, <2>3
<1>4. CASE ~has_toc(a.mode)
  <2> DEFINE D == DOMAIN a.rows
             R == IdOrder(a.rows)
  <2>1. /\ \A i \in D : a.rows[i].id \in 0 .. U32Max /\ IdPath(a.rows[i].id) \in Paths
        /\ \A i, j \in D : i # j => a.rows[i].id # a.rows[j].id
    BY <1>4 DEF GoodArchive
  <2>2. \A i, j \in D : <<i, j>> \in R <=> a.rows[i].id < a.rows[j].id
    BY DEF IdOrder
  <2>3. IsFiniteSet(D) /\ Cardinality(D) = n
    <3>1. 1 \in Int /\ n \in Int
      OBVIOUS
    <3>2. IsFiniteSet(1 .. n) /\ Cardinality(1 .. n) = IF 1 > n THEN 0 ELSE n - 1 + 1
      BY <3>1, FS_Interval
    <3>3. QED
      BY <1>1, <3>2
  <2>4. Listing(a) = [i \in 1 .. n |->
            [path |-> IdPath(a.rows[NthIn(D, R, i)].id), id |-> a.rows[NthIn(D, R, i)].id,
             user |-> "", at |-> NthIn(D, R, i)]]
    BY <1>1, <1>4 DEF Listing, ById
  <2> HIDE DEF R
  <2>5. StrictOrder(D, R)
    <3>1. \A i \in D : a.rows[i].id \in Int
      BY <1>2, <2>1
    <3> HIDE DEF D
    <3>2. QED
      BY <2>1, <2>2, <3>1 DEF StrictOrder
  <2>6. /\ \A i \in 1 .. n : NthIn(D, R, i) \in D
        /\ \A x \in D : \E i \in 1 .. n : NthIn(D, R, i) = x
    BY <2>3, <2>5, NthInOrder
  <2>7. DOMAIN Listing(a) = 1 .. n /\ Len(Listing(a)) = n
    <3> DEFINE e(i) == [path |-> IdPath(a.rows[NthIn(D, R, i)].id), id |-> a.rows[NthIn(D, R, i)].id,
                        user |-> "", at |-> NthIn(D, R, i)]
    <3>1. Listing(a) = [i \in 1 .. n |-> e(i)]
      BY <2>4, ZenonT(30)
    <3> HIDE DEF e
    <3>2. QED
      BY <3>1
  <2>8. ASSUME NEW i \in 1 .. n
        PROVE  LET e == Listing(a)[i]
                   r == a.rows[e.at]
               IN  /\ e.at = NthIn(D, R, i) /\ e.at \in D
                   /\ e.path \in Paths /\ e.id \in 0 .. U32Max
                   /\ e.id = r.id
                   /\ e.path = IdPath(r.id) /\ e.user = ""
    <3> DEFINE j == NthIn(D, R, i)
    <3>1. j \in D
      BY <2>6
    <3>2. Listing(a)[i] = [path |-> IdPath(a.rows[j].id), id |-> a.rows[j].id, user |-> "", at |-> j]
      BY <2>4, ZenonT(30)
    <3> HIDE DEF j
    <3>3. a.rows[j].id \in 0 .. U32Max /\ IdPath(a.rows[j].id) \in Paths
      BY <2>1, <3>1
    <3>4. /\ Listing(a)[i].at = j /\ Listing(a)[i].id = a.rows[j].id
          /\ Listing(a)[i].path = IdPath(a.rows[j].id) /\ Listing(a)[i].user = ""
      <4> DEFINE p == IdPath(a.rows[j].id)
                 d == a.rows[j].id
                 e == Listing(a)[i]
      <4> HIDE DEF p, d, e
      <4>1. e = [path |-> p, id |-> d, user |-> "", at |-> j]
        BY <3>2, ZenonT(30) DEF p, d, e
      <4>2. e.at = j /\ e.id = d /\ e.path = p /\ e.user = ""
        BY <4>1, ZenonT(30)
      <4>3. QED
        BY <4>2, ZenonT(30) DEF p, d, e
    <3>5. a.rows[Listing(a)[i].at].id = a.rows[j].id
      BY <3>4, ZenonT(30)
    <3>6. Listing(a)[i].at \in D /\ Listing(a)[i].path \in Paths /\ Listing(a)[i].id \in 0 .. U32Max
      BY <3>1, <3>3, <3>4, ZenonT(30)
    <3>7. /\ Listing(a)[i].id = a.rows[Listing(a)[i].at].id
          /\ Listing(a)[i].path = IdPath(a.rows[Listing(a)[i].at].id)
      BY <3>4, <3>5, ZenonT(30)
    <3>8. Listing(a)[i].at = NthIn(D, R, i) /\ Listing(a)[i].user = ""
      BY <3>4, ZenonT(30) DEF j
    <3>9. QED
      BY <3>6, <3>7, <3>8, ZenonT(30)
  <2>9. \A x \in D : \E i \in 1 .. n : Listing(a)[i].at = x
    <3> SUFFICES ASSUME NEW x \in D PROVE \E i \in 1 .. n : Listing(a)[i].at = x
      OBVIOUS
    <3>1. PICK i \in 1 .. n : NthIn(D, R, i) = x
      BY <2>6
    <3>2. Listing(a)[i].at = x
      BY <2>8, <3>1, ZenonT(30)
    <3>3. QED
      BY <3>2
  <2>10. QED
    BY <1>1, <1>4, <2>7, <2>8, <2>9, ZenonT(30)
<1>5. QED
  BY <1>3, <1>4, ZenonT(30)

(* An entry unpack accepts, one whose path is its own, and its bytes.       *)
Accepted(a, i) == Listing(a)[i].path # ManifestPath /\ a.rows[Listing(a)[i].at].packed # <<>>
Apart(a, i) ==
    /\ Listing(a)[i].path # TmpPath
    /\ \A j \in DOMAIN Listing(a) : i # j => Listing(a)[i].path # Listing(a)[j].path
Extracted(a, i, p5r) == Extract(a.rows[Listing(a)[i].at].packed, Listing(a)[i].user, p5r)

(* The entry run_unpack puts into the manifest for a listed entry.          *)
EntryOf(a, i, p5r) ==
    [path |-> Listing(a)[i].path, id |-> Listing(a)[i].id, user |-> Listing(a)[i].user,
     at |-> Listing(a)[i].at, extracted |-> Extracted(a, i, p5r)]

(* What an accepted entry extracts to.                                      *)
LEMMA ExtractedIsGood ==
    ASSUME NEW a, GoodArchive(a), NEW i \in DOMAIN Listing(a), Accepted(a, i), NEW p5r
    PROVE  Good(Extracted(a, i, p5r))
<1> DEFINE at == Listing(a)[i].at
<1>1. at \in DOMAIN a.rows
  BY ListingFacts, ZenonT(30)
<1>2. a.rows[at].packed # <<>>
  BY DEF Accepted
<1>3. Good(a.rows[at].packed)
  BY <1>1, <1>2 DEF GoodArchive, GoodRow
<1>4. QED
  BY <1>3, Payloads DEF Extracted

(* A manifest that describes an archive of which every entry was            *)
(* accepted.                                                                *)
GoodManifest(m) ==
    /\ m = ManifestOf([source |-> m.source, sum |-> m.sum, p5r |-> m.p5r])
    /\ m.source \in Archives /\ GoodArchive(m.sum) /\ m.sum.mode \in Modes
    /\ \A i \in DOMAIN Listing(m.sum) : Accepted(m.sum, i)

(* The manifest of an archive, field by field.                              *)
LEMMA ManifestFields ==
    ASSUME NEW c, NEW m, m = ManifestOf(c)
    PROVE  /\ m.source = c.source /\ m.sum = c.sum /\ m.mode = c.sum.mode /\ m.p5r = c.p5r
           /\ DOMAIN m.entries = DOMAIN Listing(c.sum)
           /\ \A i \in DOMAIN m.entries :
                m.entries[i] = EntryOf(c.sum, i, c.p5r)
           /\ m = ManifestOf([source |-> c.source, sum |-> c.sum, p5r |-> c.p5r])
<1> DEFINE entries == [i \in DOMAIN Listing(c.sum) |-> EntryOf(c.sum, i, c.p5r)]
<1>1. m = [source |-> c.source, sum |-> c.sum, mode |-> c.sum.mode, p5r |-> c.p5r,
           entries |-> entries]
  BY DEF ManifestOf, Extracted, EntryOf
<1>2. ManifestOf([source |-> c.source, sum |-> c.sum, p5r |-> c.p5r]) = m
  BY <1>1 DEF ManifestOf, Extracted, EntryOf
<1>3. QED
  BY <1>1, <1>2

(* What a pack relies on in such a manifest.                                *)
LEMMA ManifestFacts ==
    ASSUME NEW m, GoodManifest(m)
    PROVE  /\ m.mode = m.sum.mode /\ m.mode \in Modes
           /\ m.source \in Archives /\ GoodArchive(m.sum)
           /\ DOMAIN m.entries = DOMAIN Listing(m.sum)
           /\ \E n \in Nat : DOMAIN m.entries = 1 .. n
           /\ \A i \in DOMAIN m.entries :
                LET e == m.entries[i] IN
                /\ e = EntryOf(m.sum, i, m.p5r)
                /\ e.path \in Paths \ {ManifestPath} /\ e.id \in 0 .. U32Max
                /\ e.at \in DOMAIN m.sum.rows /\ e.at # 0
                /\ Good(e.extracted)
<1> DEFINE c == [source |-> m.source, sum |-> m.sum, p5r |-> m.p5r]
<1>1. /\ m = ManifestOf(c) /\ m.source \in Archives
      /\ GoodArchive(m.sum) /\ m.sum.mode \in Modes
      /\ \A i \in DOMAIN Listing(m.sum) : Accepted(m.sum, i)
  BY DEF GoodManifest
<1>2. c.sum = m.sum /\ c.p5r = m.p5r
  OBVIOUS
<1> HIDE DEF c
<1>3. /\ m.mode = m.sum.mode
      /\ DOMAIN m.entries = DOMAIN Listing(m.sum)
      /\ \A i \in DOMAIN m.entries :
            m.entries[i] = EntryOf(m.sum, i, m.p5r)
  <2>1. m = ManifestOf(c)
    BY <1>1
  <2>2. /\ m.mode = c.sum.mode
        /\ DOMAIN m.entries = DOMAIN Listing(c.sum)
        /\ \A i \in DOMAIN m.entries :
            m.entries[i] = EntryOf(c.sum, i, c.p5r)
    <3>1. /\ m.mode = c.sum.mode
          /\ DOMAIN m.entries = DOMAIN Listing(c.sum)
      BY <2>1, ManifestFields
    <3>2. \A i \in DOMAIN m.entries :
            m.entries[i] = EntryOf(c.sum, i, c.p5r)
      BY <2>1, ManifestFields
    <3>3. QED
      BY <3>1, <3>2
  <2>3. QED
    BY <1>2, <2>2
<1>4. PICK n \in Nat : DOMAIN m.sum.rows = 1 .. n /\ DOMAIN Listing(m.sum) = 1 .. n
  BY <1>1, ListingFacts, ZenonT(30)
<1>5. ASSUME NEW i \in DOMAIN m.entries
      PROVE  LET e == m.entries[i] IN
             /\ e.path \in Paths \ {ManifestPath} /\ e.id \in 0 .. U32Max
             /\ e.at \in DOMAIN m.sum.rows /\ e.at # 0
             /\ Good(e.extracted)
  <2>1. i \in DOMAIN Listing(m.sum) /\ Accepted(m.sum, i)
    BY <1>1, <1>3
  <2>2. /\ Listing(m.sum)[i].at \in DOMAIN m.sum.rows
        /\ Listing(m.sum)[i].path \in Paths /\ Listing(m.sum)[i].id \in 0 .. U32Max
    BY <1>1, <2>1, ListingFacts, ZenonT(30)
  <2>3. Listing(m.sum)[i].path # ManifestPath
    BY <2>1 DEF Accepted
  <2>4. Good(Extracted(m.sum, i, m.p5r))
    BY <1>1, <2>1, ExtractedIsGood
  <2>5. Listing(m.sum)[i].at # 0
    BY <1>4, <2>2
  <2>6. m.entries[i] = EntryOf(m.sum, i, m.p5r)
    BY <1>3
  <2>7. /\ m.entries[i].path = Listing(m.sum)[i].path /\ m.entries[i].id = Listing(m.sum)[i].id
        /\ m.entries[i].at = Listing(m.sum)[i].at
        /\ m.entries[i].extracted = Extracted(m.sum, i, m.p5r)
    BY <2>6 DEF EntryOf
  <2>8. QED
    BY <2>2, <2>3, <2>4, <2>5, <2>7
<1>6. QED
  BY <1>1, <1>3, <1>4, <1>5
-----------------------------------------------------------------------------
(* The inductive invariant.                                                 *)

(* A function on 1 .. n.                                                    *)
IsList(f) == \E n \in Nat : DOMAIN f = 1 .. n

(* The directory: bytes as above in every file but the manifest, which      *)
(* describes an archive.                                                    *)
GoodFiles(d) ==
    /\ DOMAIN d = Paths
    /\ \A p \in Paths \ {ManifestPath} : d[p] = <<>> \/ Good(d[p])
    /\ d[ManifestPath] = <<>> \/ GoodManifest(d[ManifestPath][2])

(* What an unpack leaves under the path of an entry that has one to         *)
(* itself.                                                                  *)
Restored(d, a, i, p5r) == Apart(a, i) => d[Listing(a)[i].path] = Extracted(a, i, p5r)
AllRestored(d, m) == \A i \in DOMAIN Listing(m.sum) : Restored(d, m.sum, i, m.p5r)

(* An unpack in progress; from the temporary manifest on, every entry is    *)
(* behind it.                                                               *)
IsUnpack(c) ==
    /\ c = [op |-> "unpack", source |-> c.source, sum |-> c.sum, p5r |-> c.p5r, k |-> c.k,
            at |-> c.at]
    /\ c.at \in {"extract", "fill", "remove", "rename"}
    /\ c.source \in Archives /\ GoodArchive(c.sum) /\ c.sum.mode \in Modes
    /\ c.k \in Nat \ {0}
    /\ c.at # "extract" => Len(Listing(c.sum)) < c.k

(* An input of a pack, planned while the manifest was file: its bytes are   *)
(* those of the directory; raw bytes are those of the archive unpacked.     *)
Raw(c, file, f) ==
    /\ file # <<>> /\ c.source # c.out /\ c.source \in Archives
    /\ f.at \in DOMAIN file[2].sum.rows
    /\ f.bytes = Extract(file[2].sum.rows[f.at].packed, f.user, file[2].p5r)
GoodInput(c, file, f) ==
    /\ f.path \in Paths \ {ManifestPath} /\ f.id \in 0 .. U32Max /\ Good(f.bytes)
    /\ f.at = 0 \/ Raw(c, file, f)

(* The ids that two of a list of inputs or entries have.                    *)
Repeated(fs) ==
    {fs[i].id : i \in {i \in DOMAIN fs : \E j \in DOMAIN fs : i # j /\ fs[i].id = fs[j].id}}

(* A pack in progress or ended well: what it was planned from, its ids      *)
(* those of the manifest and its mode that of the archive unpacked.         *)
IsPack(c, file) ==
    /\ c = [op |-> "pack", out |-> c.out, inputs |-> c.inputs, mode |-> c.mode, p5r |-> c.p5r,
            source |-> c.source, since |-> c.since, at |-> c.at]
    /\ c.at \in {"create", "index", "copy", "ok"}
    /\ c.out \in Archives /\ c.mode \in Modes /\ c.since \in Nat
    /\ IsList(c.inputs)
    /\ \A i \in DOMAIN c.inputs : GoodInput(c, file, c.inputs[i])
    /\ Repeated(c.inputs) \subseteq IF file = <<>> THEN {} ELSE Repeated(file[2].entries)
    /\ file # <<>> => c.mode = file[2].mode

(* Nothing has changed since a pack was planned.                            *)
Covered(fs, e) == \E j \in DOMAIN fs : fs[j].path = e.path /\ fs[j].id = e.id /\ fs[j].user = e.user
Current(c, d, sources) ==
    /\ {c.inputs[i].path : i \in DOMAIN c.inputs} = Packable(d)
    /\ \A i \in DOMAIN c.inputs :
        /\ c.inputs[i].bytes = d[c.inputs[i].path]
        /\ c.inputs[i].at # 0 => sources[c.source] = d[ManifestPath][2].sum
    /\ d[ManifestPath] # <<>> =>
        \A i \in DOMAIN d[ManifestPath][2].entries :
            d[d[ManifestPath][2].entries[i].path] # <<>> =>
                Covered(c.inputs, d[ManifestPath][2].entries[i])

(* The rows of the new archive are the inputs, each with its payload or, as *)
(* long as the pack goes on, none.                                          *)
Planned(c, file, f) ==
    IF f.at # 0 THEN file[2].sum.rows[f.at].packed ELSE Rebuild(f.bytes, f.user, c.p5r)
Filled(c, file, f, r) ==
    /\ r.path = f.path /\ r.id = f.id /\ r.user = f.user
    /\ r.packed = Planned(c, file, f) \/ (r.packed = <<>> /\ c.at = "copy")
RowsOf(c, file, a) ==
    /\ a.mode = c.mode /\ DOMAIN a.rows = DOMAIN c.inputs
    /\ \A i \in DOMAIN a.rows : Filled(c, file, c.inputs[i], a.rows[i])

(* The parts of the invariant: the command, the archives, the directory,    *)
(* what the last complete unpack left, the unpack in progress, the pack     *)
(* in progress and the archive it writes.                                   *)
OpInv == cmd.op \in {"none", "unpack", "pack"} /\ (cmd.op = "none" => Done)
ArchInv == DOMAIN arch = Archives /\ \A a \in Archives : GoodArchive(arch[a])
DiskInv == GoodFiles(disk)
CountInv ==
    /\ edits \in Nat /\ unpacked \in Int /\ unpacked <= edits
    /\ unpacked = edits => disk[ManifestPath] # <<>> /\ AllRestored(disk, disk[ManifestPath][2])
UnpackInv ==
    cmd.op = "unpack" =>
        /\ IsUnpack(cmd) /\ unpacked = -1
        /\ \A i \in DOMAIN Listing(cmd.sum) : i < cmd.k =>
            Accepted(cmd.sum, i) /\ Restored(disk, cmd.sum, i, cmd.p5r)
        /\ cmd.at \in {"remove", "rename"} => disk[TmpPath] = <<"manifest", ManifestOf(cmd)>>
PackInv ==
    cmd.op = "pack" =>
        /\ IsPack(cmd, disk[ManifestPath]) /\ cmd.since <= edits
        /\ cmd.since = edits => Current(cmd, disk, arch)
RowsInv ==
    cmd.op = "pack" /\ cmd.at \in {"copy", "ok"} /\ cmd.since = edits =>
        RowsOf(cmd, disk[ManifestPath], arch[cmd.out])

CliInv == OpInv /\ ArchInv /\ DiskInv /\ CountInv /\ UnpackInv /\ PackInv /\ RowsInv
-----------------------------------------------------------------------------
(* The steps of an unpack.                                                  *)

(* The manifest and its temporary file are two files of the directory.      *)
LEMMA Names == ManifestPath \in Paths /\ TmpPath \in Paths /\ ManifestPath # TmpPath
BY DEF Paths, ManifestPath, TmpPath

(* The label of the command tells what it is.                               *)
LEMMA Labels ==
    ASSUME CliInv
    PROVE  /\ cmd.at \in {"extract", "fill", "remove", "rename"} => cmd.op = "unpack"
           /\ cmd.at \in {"create", "index", "copy"} => cmd.op = "pack"
           /\ cmd.op = "unpack" => ~Done
<1>1. cmd.op \in {"none", "unpack", "pack"} /\ (cmd.op = "none" => Done)
  BY DEF CliInv, OpInv
<1>2. cmd.op = "unpack" => cmd.at \in {"extract", "fill", "remove", "rename"}
  BY DEF CliInv, UnpackInv, IsUnpack
<1>3. cmd.op = "pack" => cmd.at \in {"create", "index", "copy", "ok"}
  BY DEF CliInv, PackInv, IsPack
<1>4. QED
  BY <1>1, <1>2, <1>3 DEF Done

(* A file of the directory is written.                                      *)
LEMMA FilePut ==
    ASSUME NEW d, GoodFiles(d), NEW p \in Paths \ {ManifestPath}, NEW b, b = <<>> \/ Good(b)
    PROVE  /\ GoodFiles([d EXCEPT ![p] = b])
           /\ [d EXCEPT ![p] = b][p] = b
           /\ \A q \in Paths : q # p => [d EXCEPT ![p] = b][q] = d[q]
<1> DEFINE e == [d EXCEPT ![p] = b]
<1>1. /\ DOMAIN d = Paths
      /\ \A q \in Paths \ {ManifestPath} : d[q] = <<>> \/ Good(d[q])
      /\ d[ManifestPath] = <<>> \/ GoodManifest(d[ManifestPath][2])
  BY DEF GoodFiles
<1>2. DOMAIN e = Paths /\ e[p] = b /\ \A q \in Paths : q # p => e[q] = d[q]
  BY <1>1
<1> HIDE DEF e
<1>3. \A q \in Paths \ {ManifestPath} : e[q] = <<>> \/ Good(e[q])
  BY <1>1, <1>2
<1>4. e[ManifestPath] = d[ManifestPath]
  BY <1>2, Names
<1>5. GoodFiles(e)
  BY <1>1, <1>2, <1>3, <1>4 DEF GoodFiles
<1>6. QED
  BY <1>2, <1>5 DEF e

(* Nothing but the bookkeeping of the commands changes.                     *)
LEMMA CountsKept ==
    ASSUME CountInv, UNCHANGED <<disk, edits>>, unpacked' \in {unpacked, -1}
    PROVE  CountInv'
BY DEF CountInv

(* A command that ends in failure, or an unpack that ends, leaves nothing   *)
(* to say of it.                                                            *)
LEMMA Ended ==
    ASSUME NEW l \in {"ok", "failed", "killed"}, Exit(l), ArchInv', DiskInv', CountInv'
    PROVE  CliInv'
<1>1. cmd'.op = "none" /\ cmd'.at = l
  BY DEF Exit
<1>2. OpInv' /\ UnpackInv' /\ PackInv' /\ RowsInv'
  BY <1>1 DEF OpInv, UnpackInv, PackInv, RowsInv, Done
<1>3. QED
  BY <1>2 DEF CliInv

(* The archives given, and an empty directory.                              *)
LEMMA InitCli == Init => CliInv
<1> SUFFICES ASSUME Init PROVE CliInv
  OBVIOUS
<1>1. cmd.op = "none" /\ cmd.at = "idle" /\ edits = 0 /\ unpacked = -1
  BY DEF Init
<1>2. ArchInv
  <2>1. arch \in Originals
    BY DEF Init
  <2>2. /\ DOMAIN arch = Archives
        /\ \A a \in Archives : arch[a] \in {Absent, Truncated} \/ ValidArchive(arch[a])
    BY <2>1, CliAssumption
  <2>3. QED
    BY <2>2, GivenArchive DEF ArchInv
<1>3. DiskInv
  <2>1. disk = [p \in Paths |-> <<>>]
    BY DEF Init
  <2>2. QED
    BY <2>1, Names DEF DiskInv, GoodFiles
<1>4. OpInv /\ CountInv /\ UnpackInv /\ PackInv /\ RowsInv
  BY <1>1 DEF OpInv, CountInv, UnpackInv, PackInv, RowsInv, Done
<1>5. QED
  BY <1>2, <1>3, <1>4 DEF CliInv

(* An unpack is planned: nothing is on disk yet.                            *)
LEMMA UnpackCli ==
    ASSUME CliInv, NEW a \in Archives, NEW p5r \in BOOLEAN, Unpack(a, p5r)
    PROVE  CliInv'
<1>1. UNCHANGED <<arch, disk, edits>> /\ unpacked' = -1
  BY DEF Unpack
<1>2. ArchInv' /\ DiskInv' /\ CountInv'
  <2>1. ArchInv' /\ DiskInv'
    BY <1>1 DEF CliInv, ArchInv, DiskInv
  <2>2. QED
    BY <1>1, <2>1, CountsKept DEF CliInv
<1>3. CASE Exit("failed")
  BY <1>2, <1>3, Ended
<1>4. CASE ~Exit("failed")
  <2>1. /\ arch[a] \notin {Absent, Truncated}
        /\ cmd' = [op |-> "unpack", source |-> a, sum |-> arch[a], p5r |-> p5r, k |-> 1,
                   at |-> "extract"]
    BY <1>4 DEF Unpack
  <2>2. GoodArchive(arch[a]) /\ arch[a].mode \in Modes
    BY <2>1 DEF CliInv, ArchInv, GoodArchive
  <2>3. IsUnpack(cmd')
    BY <2>1, <2>2 DEF IsUnpack
  <2>4. \A i \in DOMAIN Listing(arch[a]) : ~(i < 1)
    <3>1. PICK n \in Nat : DOMAIN Listing(arch[a]) = 1 .. n
      BY <2>2, ListingFacts, ZenonT(30)
    <3>2. QED
      BY <3>1
  <2>5. cmd'.op = "unpack" /\ cmd'.sum = arch[a] /\ cmd'.k = 1 /\ cmd'.at = "extract"
    BY <2>1
  <2>6. UnpackInv'
    BY <1>1, <2>3, <2>4, <2>5 DEF UnpackInv
  <2>7. OpInv' /\ PackInv' /\ RowsInv'
    BY <2>5 DEF OpInv, PackInv, RowsInv
  <2>8. QED
    BY <1>2, <2>6, <2>7 DEF CliInv
<1>5. QED
  BY <1>3, <1>4

(* An entry is written: it restores its file, and no other of a path of     *)
(* its own.                                                                 *)
LEMMA ExtractCli ==
    ASSUME CliInv, ExtractNext
    PROVE  CliInv'
<1>1. /\ cmd.op = "unpack" /\ cmd.at = "extract" /\ UNCHANGED <<arch, edits, unpacked>>
      /\ cmd.k <= Len(Listing(cmd.sum))
  BY Labels DEF ExtractNext
<1>2. /\ IsUnpack(cmd) /\ unpacked = -1
      /\ \A i \in DOMAIN Listing(cmd.sum) : i < cmd.k =>
            Accepted(cmd.sum, i) /\ Restored(disk, cmd.sum, i, cmd.p5r)
  BY <1>1 DEF CliInv, UnpackInv
<1>3. /\ GoodArchive(cmd.sum) /\ cmd.k \in Nat \ {0}
      /\ cmd = [op |-> "unpack", source |-> cmd.source, sum |-> cmd.sum, p5r |-> cmd.p5r,
                k |-> cmd.k, at |-> cmd.at]
  BY <1>2 DEF IsUnpack
<1> DEFINE k == cmd.k
           a == cmd.sum
           e == Listing(a)[k]
           packed == a.rows[e.at].packed
<1>4. PICK n \in Nat : DOMAIN Listing(a) = 1 .. n /\ Len(Listing(a)) = n
  BY <1>3, ListingFacts, ZenonT(30)
<1>5. k \in DOMAIN Listing(a)
  BY <1>1, <1>3, <1>4
<1>6. e.path \in Paths
  BY <1>3, <1>5, ListingFacts, ZenonT(30)
<1>7. ArchInv'
  BY <1>1 DEF CliInv, ArchInv
<1>8. CASE Exit("failed") /\ UNCHANGED disk
  <2>1. DiskInv' /\ CountInv'
    BY <1>1, <1>8, CountsKept DEF CliInv, DiskInv
  <2>2. QED
    BY <1>7, <1>8, <2>1, Ended
<1>9. CASE ~(Exit("failed") /\ UNCHANGED disk)
  <2>1. /\ packed # <<>> /\ e.path # ManifestPath
        /\ disk' = [disk EXCEPT ![e.path] = Extract(packed, e.user, cmd.p5r)]
        /\ cmd' = [cmd EXCEPT !.k = cmd.k + 1]
    BY <1>9, ZenonT(30) DEF ExtractNext, Put
  <2>2. Accepted(a, k)
    BY <2>1 DEF Accepted
  <2>3. Extracted(a, k, cmd.p5r) = Extract(packed, e.user, cmd.p5r)
    BY DEF Extracted
  <2>4. Good(Extracted(a, k, cmd.p5r))
    BY <1>3, <1>5, <2>2, ExtractedIsGood
  <2> HIDE DEF packed
  <2>5. /\ GoodFiles(disk') /\ disk'[e.path] = Extracted(a, k, cmd.p5r)
        /\ \A q \in Paths : q # e.path => disk'[q] = disk[q]
    <3> DEFINE p == e.path
               b == Extract(packed, e.user, cmd.p5r)
    <3>1. GoodFiles(disk) /\ p \in Paths \ {ManifestPath} /\ Good(b) /\ b = Extracted(a, k, cmd.p5r)
      BY <1>6, <2>1, <2>3, <2>4 DEF CliInv, DiskInv
    <3>2. disk' = [disk EXCEPT ![p] = b]
      BY <2>1
    <3> HIDE DEF p, b
    <3>3. GoodFiles(disk') /\ disk'[p] = b /\ \A q \in Paths : q # p => disk'[q] = disk[q]
      <4>1. /\ GoodFiles([disk EXCEPT ![p] = b])
            /\ [disk EXCEPT ![p] = b][p] = b
            /\ \A q \in Paths : q # p => [disk EXCEPT ![p] = b][q] = disk[q]
        <5>1. GoodFiles([disk EXCEPT ![p] = b]) /\ [disk EXCEPT ![p] = b][p] = b
          BY <3>1, FilePut
        <5>2. DOMAIN disk = Paths
          BY <3>1 DEF GoodFiles
        <5>3. QED
          BY <3>1, <5>1, <5>2
      <4>2. QED
        BY <3>2, <4>1, Zenon
    <3>4. QED
      BY <3>1, <3>3 DEF p
  <2>6. /\ cmd' = [op |-> "unpack", source |-> cmd.source, sum |-> a, p5r |-> cmd.p5r,
                   k |-> k + 1, at |-> "extract"]
    BY <1>1, <1>3, <2>1
  <2>7. IsUnpack(cmd')
    BY <1>2, <1>3, <2>6 DEF IsUnpack
  <2>8. /\ cmd'.op = "unpack" /\ cmd'.sum = a /\ cmd'.k = k + 1 /\ cmd'.p5r = cmd.p5r
        /\ cmd'.at = "extract"
    BY <2>6
  <2>9. ASSUME NEW i \in DOMAIN Listing(a), i < k + 1
        PROVE  Accepted(a, i) /\ Restored(disk', a, i, cmd.p5r)
    <3>1. CASE i = k
      BY <2>2, <2>5, <3>1 DEF Restored
    <3>2. CASE i # k
      <4>1. i < k
        BY <1>3, <1>4, <2>9, <3>2
      <4>2. Accepted(a, i) /\ Restored(disk, a, i, cmd.p5r)
        BY <1>2, <4>1
      <4>3. Listing(a)[i].path \in Paths
        BY <1>3, ListingFacts, ZenonT(30)
      <4>4. Apart(a, i) => Listing(a)[i].path # e.path
        BY <1>5, <3>2 DEF Apart
      <4>5. QED
        BY <2>5, <4>2, <4>3, <4>4 DEF Restored
    <3>3. QED
      BY <3>1, <3>2
  <2>10. UnpackInv'
    BY <1>1, <1>2, <2>7, <2>8, <2>9 DEF UnpackInv
  <2>11. OpInv' /\ PackInv' /\ RowsInv'
    BY <2>8 DEF OpInv, PackInv, RowsInv
  <2>12. DiskInv' /\ CountInv'
    BY <1>1, <1>2, <2>5 DEF DiskInv, CliInv, CountInv
  <2>13. QED
    BY <1>7, <2>10, <2>11, <2>12 DEF CliInv
<1>10. QED
  BY <1>8, <1>9

(* An unpack goes on.                                                       *)
LEMMA UnpackGoesOn ==
    ASSUME NEW c, IsUnpack(c), Len(Listing(c.sum)) < c.k,
           NEW l \in {"fill", "remove", "rename"}, NEW d, d = [c EXCEPT !.at = l]
    PROVE  /\ IsUnpack(d) /\ d.op = "unpack" /\ d.at = l
           /\ d.source = c.source /\ d.sum = c.sum /\ d.p5r = c.p5r /\ d.k = c.k
           /\ ManifestOf(d) = ManifestOf(c)
<1>1. /\ c = [op |-> "unpack", source |-> c.source, sum |-> c.sum, p5r |-> c.p5r, k |-> c.k,
              at |-> c.at]
      /\ c.source \in Archives /\ GoodArchive(c.sum) /\ c.sum.mode \in Modes
      /\ c.k \in Nat \ {0}
  BY DEF IsUnpack
<1>2. d = [op |-> "unpack", source |-> c.source, sum |-> c.sum, p5r |-> c.p5r, k |-> c.k, at |-> l]
  BY <1>1
<1>3. /\ d.op = "unpack" /\ d.at = l
      /\ d.source = c.source /\ d.sum = c.sum /\ d.p5r = c.p5r /\ d.k = c.k
  BY <1>2
<1>4. IsUnpack(d)
  BY <1>1, <1>2, <1>3 DEF IsUnpack
<1>5. ManifestOf(d) = ManifestOf(c)
  BY <1>3 DEF ManifestOf
<1>6. QED
  BY <1>3, <1>4, <1>5

(* What was restored stays restored while the manifest is replaced.         *)
LEMMA RestoredKept ==
    ASSUME NEW a, GoodArchive(a), NEW i \in DOMAIN Listing(a), Accepted(a, i), NEW p5r,
           NEW d, NEW e, \A q \in Paths \ {ManifestPath, TmpPath} : e[q] = d[q],
           Restored(d, a, i, p5r)
    PROVE  Restored(e, a, i, p5r)
<1>1. Listing(a)[i].path \in Paths
  BY ListingFacts, ZenonT(30)
<1>2. Apart(a, i) => Listing(a)[i].path \in Paths \ {ManifestPath, TmpPath}
  BY <1>1 DEF Accepted, Apart
<1>3. QED
  BY <1>2 DEF Restored

(* The end of an unpack, seen from its entries: every one was accepted and  *)
(* restored, and is still.                                                  *)
LEMMA PastEntries ==
    ASSUME CliInv, cmd.op = "unpack", Len(Listing(cmd.sum)) < cmd.k,
           \A q \in Paths \ {ManifestPath, TmpPath} : disk'[q] = disk[q]
    PROVE  \A i \in DOMAIN Listing(cmd.sum) :
                Accepted(cmd.sum, i) /\ Restored(disk', cmd.sum, i, cmd.p5r)
<1>1. /\ IsUnpack(cmd)
      /\ \A i \in DOMAIN Listing(cmd.sum) : i < cmd.k =>
            Accepted(cmd.sum, i) /\ Restored(disk, cmd.sum, i, cmd.p5r)
  BY DEF CliInv, UnpackInv
<1>2. GoodArchive(cmd.sum) /\ cmd.k \in Nat
  BY <1>1 DEF IsUnpack
<1>3. PICK n \in Nat : DOMAIN Listing(cmd.sum) = 1 .. n /\ Len(Listing(cmd.sum)) = n
  BY <1>2, ListingFacts, ZenonT(30)
<1>4. ASSUME NEW i \in DOMAIN Listing(cmd.sum)
      PROVE  Accepted(cmd.sum, i) /\ Restored(disk', cmd.sum, i, cmd.p5r)
  <2>1. i < cmd.k
    BY <1>2, <1>3
  <2>2. Accepted(cmd.sum, i) /\ Restored(disk, cmd.sum, i, cmd.p5r)
    BY <1>1, <2>1
  <2>3. QED
    BY <1>2, <2>2, RestoredKept
<1>5. QED
  BY <1>4

(* The steps of Manifest::write that only touch the temporary file.         *)
LEMMA TmpCli ==
    ASSUME CliInv, cmd.op = "unpack", Len(Listing(cmd.sum)) < cmd.k,
           NEW b, Good(b), Put(TmpPath, b), NEW l \in {"fill", "remove"}, Goto(l),
           l = "remove" => b = <<"manifest", ManifestOf(cmd)>>,
           UNCHANGED <<arch, edits, unpacked>>
    PROVE  CliInv'
<1>1. IsUnpack(cmd) /\ unpacked = -1
  BY DEF CliInv, UnpackInv
<1>2. cmd' = [cmd EXCEPT !.at = l]
  BY DEF Goto
<1>3. /\ IsUnpack(cmd') /\ cmd'.op = "unpack" /\ cmd'.at = l
      /\ cmd'.sum = cmd.sum /\ cmd'.p5r = cmd.p5r /\ cmd'.k = cmd.k
      /\ ManifestOf(cmd') = ManifestOf(cmd)
  BY <1>1, <1>2, UnpackGoesOn
<1>4. GoodFiles(disk') /\ disk'[TmpPath] = b /\ \A q \in Paths : q # TmpPath => disk'[q] = disk[q]
  <2>1. GoodFiles(disk) /\ TmpPath \in Paths \ {ManifestPath} /\ disk' = [disk EXCEPT ![TmpPath] = b]
    BY Names DEF CliInv, DiskInv, Put
  <2>2. GoodFiles([disk EXCEPT ![TmpPath] = b])
    BY <2>1, FilePut
  <2>3. DOMAIN disk = Paths
    BY <2>1 DEF GoodFiles
  <2>4. QED
    BY <2>1, <2>2, <2>3
<1>5. \A i \in DOMAIN Listing(cmd.sum) :
            Accepted(cmd.sum, i) /\ Restored(disk', cmd.sum, i, cmd.p5r)
  BY <1>4, PastEntries
<1>6. UnpackInv'
  BY <1>1, <1>3, <1>4, <1>5 DEF UnpackInv
<1>7. CountInv'
  BY <1>1 DEF CliInv, CountInv
<1>8. OpInv' /\ PackInv' /\ RowsInv'
  BY <1>3 DEF OpInv, PackInv, RowsInv
<1>9. ArchInv' /\ DiskInv'
  BY <1>4 DEF CliInv, ArchInv, DiskInv
<1>10. QED
  BY <1>6, <1>7, <1>8, <1>9 DEF CliInv

(* The bytes of the temporary manifest.                                     *)
LEMMA PlainBytes ==
    ASSUME NEW b, \E S : b \in Seq(S), b # <<>>, b[1] \notin {"layla", "p5r"}
    PROVE  Good(b)
<1>1. \A i \in 1 .. Len(b) : ~Marks(b, i)
  BY DEF Marks
<1>2. QED
  BY <1>1 DEF Good, WellFormed

(* The temporary manifest is created, ...                                   *)
LEMMA CreateTmpCli == ASSUME CliInv, CreateTmp PROVE CliInv'
<1>1. Good(<<"partial">>)
  <2> DEFINE b == <<"partial">>
  <2>1. b \in Seq({"partial"}) /\ b # <<>> /\ b[1] = "partial"
    OBVIOUS
  <2> HIDE DEF b
  <2>2. Good(b)
    BY <2>1, PlainBytes
  <2>3. QED
    BY <2>2 DEF b
<1>2. cmd.op = "unpack" /\ Put(TmpPath, <<"partial">>) /\ Goto("fill") /\ UNCHANGED <<arch, edits, unpacked>>
  BY Labels DEF CreateTmp
<1>3. Len(Listing(cmd.sum)) < cmd.k
  <2>1. IsUnpack(cmd) /\ cmd.k > Len(Listing(cmd.sum))
    BY <1>2 DEF CliInv, UnpackInv, CreateTmp
  <2>2. cmd.k \in Nat /\ GoodArchive(cmd.sum)
    BY <2>1 DEF IsUnpack
  <2>3. QED
    BY <2>1, <2>2, ListingFacts, ZenonT(30)
<1>4. QED
  BY <1>1, <1>2, <1>3, TmpCli

(* ... filled, ...                                                          *)
LEMMA FillTmpCli == ASSUME CliInv, FillTmp PROVE CliInv'
<1> DEFINE b == <<"manifest", ManifestOf(cmd)>>
<1>1. Good(b)
  <2>1. b \in Seq({"manifest", ManifestOf(cmd)}) /\ b # <<>> /\ b[1] = "manifest"
    OBVIOUS
  <2> HIDE DEF b
  <2>2. QED
    BY <2>1, PlainBytes
<1>2. /\ cmd.op = "unpack" /\ cmd.at = "fill" /\ Put(TmpPath, b) /\ Goto("remove")
      /\ UNCHANGED <<arch, edits, unpacked>>
  BY Labels DEF FillTmp
<1>3. Len(Listing(cmd.sum)) < cmd.k
  BY <1>2 DEF CliInv, UnpackInv, IsUnpack
<1>4. QED
  BY <1>1, <1>2, <1>3, TmpCli

(* ... and takes the place of the old one, removed first.                   *)
LEMMA RemoveManifestCli == ASSUME CliInv, RemoveManifest PROVE CliInv'
<1>1. /\ cmd.op = "unpack" /\ cmd.at = "remove" /\ UNCHANGED <<arch, edits, unpacked>>
      /\ disk' = [disk EXCEPT ![ManifestPath] = <<>>] /\ cmd' = [cmd EXCEPT !.at = "rename"]
  BY Labels DEF RemoveManifest, Put, Goto
<1>2. /\ IsUnpack(cmd) /\ unpacked = -1 /\ Len(Listing(cmd.sum)) < cmd.k
      /\ disk[TmpPath] = <<"manifest", ManifestOf(cmd)>>
  BY <1>1 DEF CliInv, UnpackInv, IsUnpack
<1>3. /\ IsUnpack(cmd') /\ cmd'.op = "unpack" /\ cmd'.at = "rename"
      /\ cmd'.sum = cmd.sum /\ cmd'.p5r = cmd.p5r /\ cmd'.k = cmd.k
      /\ ManifestOf(cmd') = ManifestOf(cmd)
  BY <1>1, <1>2, UnpackGoesOn
<1>4. /\ DOMAIN disk = Paths
      /\ \A p \in Paths \ {ManifestPath} : disk[p] = <<>> \/ Good(disk[p])
  BY DEF CliInv, DiskInv, GoodFiles
<1>5. /\ DOMAIN disk' = Paths /\ disk'[ManifestPath] = <<>>
      /\ \A q \in Paths \ {ManifestPath} : disk'[q] = disk[q]
  BY <1>1, <1>4, Names
<1>6. \A i \in DOMAIN Listing(cmd.sum) :
            Accepted(cmd.sum, i) /\ Restored(disk', cmd.sum, i, cmd.p5r)
  BY <1>1, <1>2, <1>5, PastEntries
<1>7. disk'[TmpPath] = <<"manifest", ManifestOf(cmd')>>
  BY <1>2, <1>3, <1>5, Names
<1>8. UnpackInv'
  BY <1>1, <1>2, <1>3, <1>6, <1>7 DEF UnpackInv
<1>9. CountInv'
  BY <1>1, <1>2 DEF CliInv, CountInv
<1>10. OpInv' /\ PackInv' /\ RowsInv'
  BY <1>3 DEF OpInv, PackInv, RowsInv
<1>11. ArchInv' /\ DiskInv'
  <2>1. \A q \in Paths \ {ManifestPath} : disk'[q] = <<>> \/ Good(disk'[q])
    BY <1>4, <1>5
  <2>2. QED
    BY <1>1, <1>5, <2>1 DEF CliInv, ArchInv, DiskInv, GoodFiles
<1>12. QED
  BY <1>8, <1>9, <1>10, <1>11 DEF CliInv

(* The manifest of an unpack that is through says what is on disk.          *)
LEMMA RenameTmpCli == ASSUME CliInv, RenameTmp PROVE CliInv'
<1>1. /\ cmd.op = "unpack" /\ cmd.at = "rename" /\ UNCHANGED <<arch, edits>> /\ unpacked' = edits
      /\ disk' = [disk EXCEPT ![ManifestPath] = disk[TmpPath], ![TmpPath] = <<>>] /\ Exit("ok")
  BY Labels DEF RenameTmp
<1> DEFINE m == ManifestOf(cmd)
<1>2. /\ IsUnpack(cmd) /\ Len(Listing(cmd.sum)) < cmd.k
      /\ disk[TmpPath] = <<"manifest", m>>
  BY <1>1 DEF CliInv, UnpackInv, IsUnpack
<1>3. cmd.source \in Archives /\ GoodArchive(cmd.sum) /\ cmd.sum.mode \in Modes
  BY <1>2 DEF IsUnpack
<1>4. /\ DOMAIN disk = Paths /\ edits \in Nat
      /\ \A p \in Paths \ {ManifestPath} : disk[p] = <<>> \/ Good(disk[p])
  BY DEF CliInv, DiskInv, GoodFiles, CountInv
<1>5. /\ DOMAIN disk' = Paths /\ disk'[ManifestPath] = disk[TmpPath] /\ disk'[TmpPath] = <<>>
      /\ \A q \in Paths \ {ManifestPath, TmpPath} : disk'[q] = disk[q]
  BY <1>1, <1>4, Names
<1>6. \A i \in DOMAIN Listing(cmd.sum) :
            Accepted(cmd.sum, i) /\ Restored(disk', cmd.sum, i, cmd.p5r)
  BY <1>1, <1>2, <1>5, PastEntries
<1>7. /\ m.source = cmd.source /\ m.sum = cmd.sum /\ m.p5r = cmd.p5r
      /\ m = ManifestOf([source |-> cmd.source, sum |-> cmd.sum, p5r |-> cmd.p5r])
  BY ManifestFields
<1>8. disk'[ManifestPath] # <<>> /\ disk'[ManifestPath][2] = m
  BY <1>2, <1>5
<1> HIDE DEF m
<1>9. GoodManifest(m)
  BY <1>3, <1>6, <1>7 DEF GoodManifest
<1>10. AllRestored(disk', m)
  BY <1>6, <1>7 DEF AllRestored
<1>11. DiskInv'
  <2>1. \A q \in Paths \ {ManifestPath} : disk'[q] = <<>> \/ Good(disk'[q])
    BY <1>4, <1>5
  <2>2. QED
    BY <1>5, <1>8, <1>9, <2>1 DEF DiskInv, GoodFiles
<1>12. CountInv'
  BY <1>1, <1>4, <1>8, <1>10 DEF CountInv
<1>13. ArchInv'
  BY <1>1 DEF CliInv, ArchInv
<1>14. QED
  BY <1>1, <1>11, <1>12, <1>13, Ended

-----------------------------------------------------------------------------
(* The steps of a pack once it is planned.                                  *)

(* A pack goes on.                                                          *)
LEMMA PackGoesOn ==
    ASSUME NEW c, NEW file, IsPack(c, file), NEW l \in {"create", "index", "copy", "ok"},
           NEW d, d = [c EXCEPT !.at = l]
    PROVE  /\ IsPack(d, file) /\ d.op = "pack" /\ d.at = l
           /\ d.out = c.out /\ d.inputs = c.inputs /\ d.mode = c.mode /\ d.p5r = c.p5r
           /\ d.source = c.source /\ d.since = c.since
<1>1. /\ c = [op |-> "pack", out |-> c.out, inputs |-> c.inputs, mode |-> c.mode, p5r |-> c.p5r,
              source |-> c.source, since |-> c.since, at |-> c.at]
      /\ c.out \in Archives /\ c.mode \in Modes /\ c.since \in Nat
      /\ IsList(c.inputs)
      /\ \A i \in DOMAIN c.inputs : GoodInput(c, file, c.inputs[i])
      /\ Repeated(c.inputs) \subseteq IF file = <<>> THEN {} ELSE Repeated(file[2].entries)
      /\ file # <<>> => c.mode = file[2].mode
  BY DEF IsPack
<1>2. d = [op |-> "pack", out |-> c.out, inputs |-> c.inputs, mode |-> c.mode, p5r |-> c.p5r,
           source |-> c.source, since |-> c.since, at |-> l]
  BY <1>1
<1>3. /\ d.op = "pack" /\ d.at = l
      /\ d.out = c.out /\ d.inputs = c.inputs /\ d.mode = c.mode /\ d.p5r = c.p5r
      /\ d.source = c.source /\ d.since = c.since
  BY <1>2
<1>4. \A i \in DOMAIN d.inputs : GoodInput(d, file, d.inputs[i])
  BY <1>1, <1>3 DEF GoodInput, Raw
<1>5. IsPack(d, file)
  BY <1>1, <1>2, <1>3, <1>4 DEF IsPack
<1>6. QED
  BY <1>3, <1>5

(* An archive other than the one written to is still that of the manifest.  *)
LEMMA SourceKept ==
    ASSUME NEW c, NEW file, IsPack(c, file), NEW i \in DOMAIN c.inputs, c.inputs[i].at # 0
    PROVE  c.source \in Archives /\ c.source # c.out
<1>1. GoodInput(c, file, c.inputs[i])
  BY DEF IsPack
<1>2. QED
  BY <1>1 DEF GoodInput, Raw

(* A step of a pack writes to the new archive alone.                        *)
LEMMA PackStep ==
    ASSUME CliInv, cmd.op = "pack", NEW l \in {"create", "index", "copy", "ok"},
           cmd' = [cmd EXCEPT !.at = l], UNCHANGED <<disk, edits, unpacked>>,
           NEW a, GoodArchive(a),
           \/ arch' = [arch EXCEPT ![cmd.out] = a]
           \/ arch' = arch /\ arch[cmd.out] = a,
           l \in {"copy", "ok"} /\ cmd.since = edits => RowsOf(cmd', disk[ManifestPath], a)
    PROVE  CliInv'
<1>1. /\ IsPack(cmd, disk[ManifestPath]) /\ cmd.since <= edits
      /\ cmd.since = edits => Current(cmd, disk, arch)
  BY DEF CliInv, PackInv
<1>2. cmd.out \in Archives /\ DOMAIN arch = Archives /\ \A x \in Archives : GoodArchive(arch[x])
  BY <1>1 DEF IsPack, CliInv, ArchInv
<1>3. /\ IsPack(cmd', disk[ManifestPath]) /\ cmd'.op = "pack" /\ cmd'.at = l
      /\ cmd'.out = cmd.out /\ cmd'.inputs = cmd.inputs /\ cmd'.mode = cmd.mode
      /\ cmd'.source = cmd.source /\ cmd'.since = cmd.since
  BY <1>1, PackGoesOn
<1>4. /\ DOMAIN arch' = Archives /\ arch'[cmd.out] = a
      /\ \A x \in Archives : x # cmd.out => arch'[x] = arch[x]
  BY <1>2
<1>5. ArchInv'
  BY <1>2, <1>4 DEF ArchInv
<1>6. Current(cmd, disk, arch) => Current(cmd', disk, arch')
  <2>1. \A i \in DOMAIN cmd.inputs : cmd.inputs[i].at # 0 => arch'[cmd.source] = arch[cmd.source]
    BY <1>1, <1>4, SourceKept
  <2>2. QED
    BY <1>3, <2>1 DEF Current
<1>7. PackInv'
  BY <1>1, <1>3, <1>6 DEF PackInv
<1>8. RowsInv'
  BY <1>3, <1>4 DEF RowsInv
<1>9. OpInv' /\ DiskInv' /\ CountInv' /\ UnpackInv'
  BY <1>3 DEF CliInv, OpInv, DiskInv, CountInv, UnpackInv
<1>10. QED
  BY <1>5, <1>7, <1>8, <1>9 DEF CliInv

(* The new archive is created and truncated: its reader lists nothing.      *)
LEMMA CreateOutputCli == ASSUME CliInv, CreateOutput PROVE CliInv'
<1>1. /\ cmd.op = "pack" /\ cmd' = [cmd EXCEPT !.at = "index"]
      /\ arch' = [arch EXCEPT ![cmd.out] = Truncated] /\ UNCHANGED <<disk, edits, unpacked>>
  BY Labels DEF CreateOutput, Goto
<1>2. GoodArchive(Truncated)
  BY GivenArchive
<1>3. QED
  BY <1>1, <1>2, PackStep

(* The index of a pack is one its reader can list.                          *)
IndexOf(c) ==
    [mode |-> c.mode,
     rows |-> [i \in DOMAIN c.inputs |->
        [path |-> c.inputs[i].path, id |-> c.inputs[i].id, user |-> c.inputs[i].user,
         packed |-> <<>>]]]
(* The index pack writes before any payload is one of an archive.           *)
LEMMA IndexIsGood ==
    ASSUME NEW c, NEW file, IsPack(c, file), ~(has_itoc(c.mode) /\ BadIds(c.inputs))
    PROVE  /\ GoodArchive(IndexOf(c)) /\ IndexOf(c).mode = c.mode
           /\ DOMAIN IndexOf(c).rows = DOMAIN c.inputs
           /\ \A i \in DOMAIN c.inputs :
                /\ IndexOf(c).rows[i].path = c.inputs[i].path
                /\ IndexOf(c).rows[i].id = c.inputs[i].id
                /\ IndexOf(c).rows[i].user = c.inputs[i].user
                /\ IndexOf(c).rows[i].packed = <<>>
<1> DEFINE a == IndexOf(c)
<1>1. /\ c.mode \in Modes /\ IsList(c.inputs)
      /\ \A i \in DOMAIN c.inputs : GoodInput(c, file, c.inputs[i])
  BY DEF IsPack
<1>2. PICK n \in Nat : DOMAIN c.inputs = 1 .. n
  BY <1>1 DEF IsList
<1>3. /\ a.mode = c.mode /\ a = [mode |-> a.mode, rows |-> a.rows]
      /\ DOMAIN a.rows = DOMAIN c.inputs
      /\ \A i \in DOMAIN c.inputs :
            a.rows[i] = [path |-> c.inputs[i].path, id |-> c.inputs[i].id,
                         user |-> c.inputs[i].user, packed |-> <<>>]
  BY DEF IndexOf
<1> HIDE DEF a
<1>4. ASSUME NEW i \in DOMAIN c.inputs
      PROVE  /\ a.rows[i].path = c.inputs[i].path /\ a.rows[i].id = c.inputs[i].id
             /\ a.rows[i].user = c.inputs[i].user /\ a.rows[i].packed = <<>>
             /\ GoodRow(a.rows[i])
             /\ a.rows[i].path \in Paths /\ a.rows[i].id \in 0 .. U32Max
  <2>1. a.rows[i] = [path |-> c.inputs[i].path, id |-> c.inputs[i].id,
                     user |-> c.inputs[i].user, packed |-> <<>>]
    BY <1>3
  <2>2. c.inputs[i].path \in Paths /\ c.inputs[i].id \in 0 .. U32Max
    BY <1>1 DEF GoodInput
  <2>3. QED
    BY <2>1, <2>2 DEF GoodRow
<1>5. CASE has_toc(a.mode)
  <2>1. GoodArchive(a)
    BY <1>1, <1>2, <1>3, <1>4, <1>5 DEF GoodArchive
  <2>2. QED
    BY <1>3, <1>4, <2>1 DEF a
<1>6. CASE ~has_toc(a.mode)
  <2>1. has_itoc(c.mode)
    BY <1>1, <1>3, <1>6 DEF has_itoc, has_toc, Modes
  <2>2. /\ \A i \in DOMAIN c.inputs : ~(c.inputs[i].id > U16Max)
        /\ \A i, j \in DOMAIN c.inputs : i # j => c.inputs[i].id # c.inputs[j].id
    BY <2>1 DEF BadIds
  <2>3. ASSUME NEW i \in DOMAIN c.inputs PROVE IdPath(a.rows[i].id) \in Paths
    <3>1. a.rows[i].id \in 0 .. U32Max /\ ~(a.rows[i].id > U16Max)
      BY <1>4, <2>2
    <3>2. a.rows[i].id \in 0 .. U16Max
      BY <3>1, CliAssumption
    <3>3. QED
      BY <3>2, CliAssumption
  <2>4. \A i, j \in DOMAIN a.rows : i # j => a.rows[i].id # a.rows[j].id
    BY <1>3, <1>4, <2>2
  <2>5. GoodArchive(a)
    BY <1>1, <1>2, <1>3, <1>4, <1>6, <2>3, <2>4 DEF GoodArchive
  <2>6. QED
    BY <1>3, <1>4, <2>5 DEF a
<1>7. QED
  BY <1>5, <1>6

(* Its index is written: a row of every input, none with a payload.         *)
LEMMA WriteIndexCli == ASSUME CliInv, WriteIndex PROVE CliInv'
<1>1. cmd.op = "pack" /\ UNCHANGED <<disk, edits, unpacked>>
  BY Labels DEF WriteIndex
<1>2. CASE Exit("failed") /\ UNCHANGED arch
  <2>1. ArchInv' /\ DiskInv' /\ CountInv'
    BY <1>1, <1>2, CountsKept DEF CliInv, ArchInv, DiskInv
  <2>2. QED
    BY <1>2, <2>1, Ended
<1>3. CASE ~(Exit("failed") /\ UNCHANGED arch)
  <2>1. /\ ~(has_itoc(cmd.mode) /\ BadIds(cmd.inputs))
        /\ arch' = [arch EXCEPT ![cmd.out] = IndexOf(cmd)]
        /\ cmd' = [cmd EXCEPT !.at = "copy"]
    BY <1>3 DEF WriteIndex, IndexOf, Goto
  <2>2. IsPack(cmd, disk[ManifestPath])
    BY <1>1 DEF CliInv, PackInv
  <2> DEFINE a == IndexOf(cmd)
  <2>3. /\ GoodArchive(a) /\ a.mode = cmd.mode /\ DOMAIN a.rows = DOMAIN cmd.inputs
        /\ \A i \in DOMAIN cmd.inputs :
            /\ a.rows[i].path = cmd.inputs[i].path /\ a.rows[i].id = cmd.inputs[i].id
            /\ a.rows[i].user = cmd.inputs[i].user /\ a.rows[i].packed = <<>>
    BY <2>1, <2>2, IndexIsGood
  <2> HIDE DEF a
  <2>4. cmd'.mode = cmd.mode /\ cmd'.inputs = cmd.inputs /\ cmd'.at = "copy"
    BY <2>1, <2>2, PackGoesOn
  <2>5. RowsOf(cmd', disk[ManifestPath], a)
    BY <2>3, <2>4 DEF RowsOf, Filled
  <2>6. arch' = [arch EXCEPT ![cmd.out] = a]
    BY <2>1 DEF a
  <2>7. QED
    BY <1>1, <2>1, <2>3, <2>5, <2>6, PackStep
<1>4. QED
  BY <1>2, <1>3

(* There is a next input as long as one is missing.                         *)
LEMMA NextIsMissing ==
    ASSUME NEW file, IsPack(cmd, file), Missing # {}
    PROVE  NextInput \in Missing
<1>1. PICK n \in Nat : DOMAIN cmd.inputs = 1 .. n
  BY DEF IsPack, IsList
<1>2. \A i \in DOMAIN cmd.inputs : cmd.inputs[i].id \in Nat
  <2>1. \A i \in DOMAIN cmd.inputs : cmd.inputs[i].id \in 0 .. U32Max
    BY DEF IsPack, GoodInput
  <2>2. QED
    BY <2>1, CliAssumption
<1>3. Missing \subseteq DOMAIN cmd.inputs
  BY DEF Missing
<1>4. CASE has_itoc(cmd.mode)
  <2> DEFINE T == {cmd.inputs[i].id : i \in Missing}
  <2>1. T \in SUBSET Nat /\ T # {}
    BY <1>2, <1>3
  <2>2. PICK d \in T : \A m \in T : d <= m
    <3> HIDE DEF T
    <3> QED
      BY <2>1, LeastNatural
  <2>3. PICK i \in Missing : d = cmd.inputs[i].id
    OBVIOUS
  <2>4. \A j \in Missing : cmd.inputs[i].id <= cmd.inputs[j].id
    BY <2>2, <2>3
  <2>5. QED
    BY <1>4, <2>4 DEF NextInput
<1>5. CASE ~has_itoc(cmd.mode)
  <2>1. Missing \in SUBSET Nat
    BY <1>1, <1>3
  <2>2. PICK i \in Missing : \A j \in Missing : i <= j
    BY <2>1, LeastNatural
  <2>3. QED
    BY <1>5, <2>2 DEF NextInput
<1>6. QED
  BY <1>4, <1>5

(* A row gets its payload.                                                  *)
Given(a, c, n, b) ==
    /\ c.mode = a.mode /\ DOMAIN c.rows = DOMAIN a.rows
    /\ \A i \in DOMAIN a.rows :
        /\ c.rows[i].path = a.rows[i].path /\ c.rows[i].id = a.rows[i].id
        /\ c.rows[i].user = a.rows[i].user
        /\ c.rows[i].packed = IF i = n THEN b ELSE a.rows[i].packed
(* A row that gets its payload leaves an archive.                           *)
LEMMA RowFilled ==
    ASSUME NEW a, GoodArchive(a), NEW n, NEW b, Good(b),
           NEW c, c = [a EXCEPT !.rows[n].packed = b]
    PROVE  GoodArchive(c) /\ Given(a, c, n, b)
<1>1. a = [mode |-> a.mode, rows |-> a.rows] /\ \A i \in DOMAIN a.rows : GoodRow(a.rows[i])
  BY DEF GoodArchive
<1> DEFINE rows == [a.rows EXCEPT ![n] = [a.rows[n] EXCEPT !.packed = b]]
<1>2. c = [mode |-> a.mode, rows |-> rows]
  BY <1>1
<1>3. c.mode = a.mode /\ c.rows = rows /\ DOMAIN rows = DOMAIN a.rows
      /\ c = [mode |-> c.mode, rows |-> c.rows]
  BY <1>2
<1>4. ASSUME NEW i \in DOMAIN a.rows
      PROVE  /\ c.rows[i].path = a.rows[i].path /\ c.rows[i].id = a.rows[i].id
             /\ c.rows[i].user = a.rows[i].user
             /\ c.rows[i].packed = IF i = n THEN b ELSE a.rows[i].packed
             /\ GoodRow(c.rows[i])
  <2>1. GoodRow(a.rows[i])
    BY <1>1
  <2>2. CASE i = n
    <3>1. c.rows[i] = [a.rows[i] EXCEPT !.packed = b]
      BY <1>3, <2>2
    <3>2. a.rows[i] = [path |-> a.rows[i].path, id |-> a.rows[i].id, user |-> a.rows[i].user,
                       packed |-> a.rows[i].packed]
      BY <2>1 DEF GoodRow
    <3>3. c.rows[i] = [path |-> a.rows[i].path, id |-> a.rows[i].id, user |-> a.rows[i].user,
                       packed |-> b]
      BY <3>1, <3>2
    <3>4. QED
      BY <2>2, <3>3 DEF GoodRow
  <2>3. CASE i # n
    BY <1>3, <2>1, <2>3
  <2>4. QED
    BY <2>2, <2>3
<1>5. GoodArchive(c)
  <2>1. c.mode \in Modes \/ c \in {Absent, Truncated}
    <3>1. CASE a \in {Absent, Truncated}
      <4>1. a.rows = <<>>
        BY <3>1 DEF Absent, Truncated
      <4>2. rows = a.rows
        BY <4>1
      <4>3. QED
        BY <1>1, <1>2, <3>1, <4>2
    <3>2. CASE a.mode \in Modes
      BY <1>3, <3>2
    <3>3. QED
      BY <3>1, <3>2 DEF GoodArchive
  <2>2. \E k \in Nat : DOMAIN c.rows = 1 .. k
    BY <1>3 DEF GoodArchive
  <2>3. ASSUME NEW i \in DOMAIN c.rows
        PROVE  IF has_toc(c.mode)
               THEN /\ c.rows[i].path \in Paths
                    /\ c.rows[i].id \in 0 .. U32Max \/ (c.rows[i].id = -1 /\ i <= U32Max)
               ELSE c.rows[i].id \in 0 .. U32Max /\ IdPath(c.rows[i].id) \in Paths
    <3>1. i \in DOMAIN a.rows /\ c.mode = a.mode
      BY <1>3
    <3>2. c.rows[i].path = a.rows[i].path /\ c.rows[i].id = a.rows[i].id
      BY <1>4, <3>1
    <3>3. QED
      BY <3>1, <3>2 DEF GoodArchive
  <2>4. ~has_toc(c.mode) => \A i, j \in DOMAIN c.rows : i # j => c.rows[i].id # c.rows[j].id
    <3>1. ~has_toc(a.mode) => \A i, j \in DOMAIN a.rows : i # j => a.rows[i].id # a.rows[j].id
      BY DEF GoodArchive
    <3>2. \A i \in DOMAIN a.rows : c.rows[i].id = a.rows[i].id
      BY <1>4
    <3>3. DOMAIN c.rows = DOMAIN a.rows /\ c.mode = a.mode
      BY <1>3
    <3>4. QED
      BY <3>1, <3>2, <3>3
  <2>5. \A i \in DOMAIN c.rows : GoodRow(c.rows[i])
    BY <1>3, <1>4
  <2>6. QED
    BY <1>3, <2>1, <2>2, <2>3, <2>4, <2>5, ZenonT(30) DEF GoodArchive
<1>6. QED
  BY <1>3, <1>4, <1>5 DEF Given

(* The payload of an input is what was planned, unless something changed.   *)
LEMMA PayloadFacts ==
    ASSUME CliInv, cmd.op = "pack", NEW i \in DOMAIN cmd.inputs, Payload(cmd.inputs[i]) # <<>>
    PROVE  /\ Good(Payload(cmd.inputs[i]))
           /\ cmd.since = edits =>
                Payload(cmd.inputs[i]) = Planned(cmd, disk[ManifestPath], cmd.inputs[i])
<1> DEFINE f == cmd.inputs[i]
           file == disk[ManifestPath]
<1>1. /\ IsPack(cmd, file)
      /\ cmd.since = edits => Current(cmd, disk, arch)
  BY DEF CliInv, PackInv
<1>2. GoodInput(cmd, file, f)
  BY <1>1 DEF IsPack
<1> HIDE DEF f
<1>3. CASE f.at # 0
  <2>1. cmd.source \in Archives /\ f.at \in DOMAIN file[2].sum.rows
    BY <1>2, <1>3 DEF GoodInput, Raw
  <2>2. /\ f.at \in DOMAIN arch[cmd.source].rows
        /\ Payload(f) = arch[cmd.source].rows[f.at].packed
    BY <1>3 DEF Payload, f
  <2>3. GoodArchive(arch[cmd.source])
    BY <2>1 DEF CliInv, ArchInv
  <2>4. Good(Payload(f))
    <3>1. GoodRow(arch[cmd.source].rows[f.at])
      BY <2>2, <2>3 DEF GoodArchive
    <3>2. Payload(f) # <<>>
      BY DEF f
    <3>3. QED
      BY <2>2, <3>1, <3>2 DEF GoodRow
  <2>5. cmd.since = edits => arch[cmd.source] = file[2].sum
    BY <1>1, <1>3 DEF Current, f
  <2>6. QED
    BY <1>3, <2>2, <2>4, <2>5, ZenonT(30) DEF Planned, f
<1>4. CASE f.at = 0
  <2>1. disk[f.path] # <<>> /\ Payload(f) = Rebuild(disk[f.path], f.user, cmd.p5r)
    BY <1>4 DEF Payload, f
  <2>2. f.path \in Paths \ {ManifestPath}
    BY <1>2 DEF GoodInput
  <2>3. Good(disk[f.path])
    BY <2>1, <2>2 DEF CliInv, DiskInv, GoodFiles
  <2>4. Good(Payload(f))
    BY <2>1, <2>3, Payloads
  <2>5. cmd.since = edits => f.bytes = disk[f.path]
    BY <1>1 DEF Current, f
  <2>6. QED
    BY <1>4, <2>1, <2>4, <2>5 DEF Planned, f
<1>5. QED
  BY <1>3, <1>4

(* A payload is copied into its row.                                        *)
LEMMA CopyCli == ASSUME CliInv, CopyNext PROVE CliInv'
<1>1. /\ cmd.op = "pack" /\ cmd.at = "copy" /\ Missing # {}
      /\ UNCHANGED <<disk, edits, unpacked>>
  BY Labels DEF CopyNext
<1>2. CASE Exit("failed") /\ UNCHANGED arch
  <2>1. ArchInv' /\ DiskInv' /\ CountInv'
    BY <1>1, <1>2, CountsKept DEF CliInv, ArchInv, DiskInv
  <2>2. QED
    BY <1>2, <2>1, Ended
<1>3. CASE ~(Exit("failed") /\ UNCHANGED arch)
  <2> DEFINE n == NextInput
             b == Payload(cmd.inputs[n])
             a == arch[cmd.out]
             c == [a EXCEPT !.rows[n].packed = b]
             file == disk[ManifestPath]
  <2>1. b # <<>> /\ arch' = [arch EXCEPT ![cmd.out].rows[n].packed = b] /\ cmd' = cmd
    BY <1>3 DEF CopyNext
  <2>2. IsPack(cmd, file)
    BY <1>1 DEF CliInv, PackInv
  <2>3. cmd.out \in Archives /\ DOMAIN arch = Archives
    BY <2>2 DEF IsPack, CliInv, ArchInv
  <2>4. n \in DOMAIN cmd.inputs
    BY <1>1, <2>2, NextIsMissing DEF Missing
  <2> HIDE DEF n
  <2>5. Good(b) /\ (cmd.since = edits => b = Planned(cmd, file, cmd.inputs[n]))
    BY <1>1, <2>1, <2>4, PayloadFacts
  <2>6. arch' = [arch EXCEPT ![cmd.out] = c]
    BY <2>1, <2>3
  <2>7. cmd' = [cmd EXCEPT !.at = "copy"]
    <3>1. cmd = [op |-> "pack", out |-> cmd.out, inputs |-> cmd.inputs, mode |-> cmd.mode,
                 p5r |-> cmd.p5r, source |-> cmd.source, since |-> cmd.since, at |-> cmd.at]
      BY <2>2 DEF IsPack
    <3>2. [cmd EXCEPT !.at = "copy"] =
            [op |-> "pack", out |-> cmd.out, inputs |-> cmd.inputs, mode |-> cmd.mode,
             p5r |-> cmd.p5r, source |-> cmd.source, since |-> cmd.since, at |-> "copy"]
      BY <3>1
    <3>3. QED
      BY <1>1, <2>1, <3>1, <3>2
  <2>8. GoodArchive(a)
    BY <2>3 DEF CliInv, ArchInv
  <2> HIDE DEF b, a
  <2>9. GoodArchive(c) /\ Given(a, c, n, b)
    BY <2>5, <2>8, RowFilled
  <2> HIDE DEF c
  <2>10. ASSUME cmd.since = edits PROVE RowsOf(cmd', file, c)
    <3>1. RowsOf(cmd, file, a)
      BY <1>1, <2>10 DEF CliInv, RowsInv, a
    <3>2. ASSUME NEW i \in DOMAIN c.rows PROVE Filled(cmd, file, cmd.inputs[i], c.rows[i])
      <4>1. Filled(cmd, file, cmd.inputs[i], a.rows[i])
        BY <2>9, <3>1 DEF RowsOf, Given
      <4>2. /\ c.rows[i].path = a.rows[i].path /\ c.rows[i].id = a.rows[i].id
            /\ c.rows[i].user = a.rows[i].user
            /\ c.rows[i].packed = IF i = n THEN b ELSE a.rows[i].packed
        <5>1. i \in DOMAIN a.rows
          BY <2>9 DEF Given
        <5>2. QED
          BY <2>9, <5>1 DEF Given
      <4>3. CASE i = n
        BY <2>5, <2>10, <4>1, <4>2, <4>3 DEF Filled
      <4>4. CASE i # n
        BY <4>1, <4>2, <4>4 DEF Filled
      <4>5. QED
        BY <4>3, <4>4
    <3>3. QED
      BY <2>1, <2>9, <3>1, <3>2 DEF RowsOf, Given
  <2>11. QED
    BY <1>1, <2>6, <2>7, <2>9, <2>10, PackStep
<1>4. QED
  BY <1>2, <1>3

(* No payload is missing.                                                   *)
LEMMA FinishCli == ASSUME CliInv, FinishPack PROVE CliInv'
<1>1. /\ cmd.op = "pack" /\ cmd.at = "copy" /\ Missing = {} /\ cmd' = [cmd EXCEPT !.at = "ok"]
      /\ UNCHANGED <<arch, disk, edits, unpacked>>
  BY Labels DEF FinishPack, Goto
<1> DEFINE a == arch[cmd.out]
           file == disk[ManifestPath]
<1>2. IsPack(cmd, file)
  BY <1>1 DEF CliInv, PackInv
<1>3. cmd.out \in Archives /\ DOMAIN arch = Archives /\ GoodArchive(a)
  BY <1>2 DEF IsPack, CliInv, ArchInv
<1>4. arch' = arch /\ arch[cmd.out] = a
  BY <1>1
<1>5. /\ cmd'.at = "ok" /\ cmd'.inputs = cmd.inputs /\ cmd'.mode = cmd.mode /\ cmd'.p5r = cmd.p5r
  BY <1>1, <1>2, PackGoesOn
<1>6. ASSUME cmd.since = edits PROVE RowsOf(cmd', file, a)
  <2>1. RowsOf(cmd, file, a)
    BY <1>1, <1>6 DEF CliInv, RowsInv
  <2>2. ASSUME NEW i \in DOMAIN a.rows PROVE Filled(cmd', file, cmd'.inputs[i], a.rows[i])
    <3>1. Filled(cmd, file, cmd.inputs[i], a.rows[i]) /\ i \in DOMAIN cmd.inputs
      BY <2>1 DEF RowsOf
    <3>2. a.rows[i].packed # <<>>
      BY <1>1, <3>1 DEF Missing
    <3>3. QED
      BY <1>5, <3>1, <3>2, ZenonT(30) DEF Filled, Planned
  <2>3. QED
    BY <1>5, <2>1, <2>2 DEF RowsOf
<1> HIDE DEF a
<1>7. QED
  BY <1>1, <1>3, <1>4, <1>6, PackStep

-----------------------------------------------------------------------------
(* The environment.                                                         *)

(* A kill keeps the invariant.                                              *)
LEMMA KillCli == ASSUME CliInv, Kill PROVE CliInv'
<1>1. Exit("killed") /\ UNCHANGED <<arch, disk, edits, unpacked>>
  BY DEF Kill
<1>2. ArchInv' /\ DiskInv' /\ CountInv'
  BY <1>1, CountsKept DEF CliInv, ArchInv, DiskInv
<1>3. QED
  BY <1>1, <1>2, Ended

(* Whatever was planned or restored before an edit need not be so after it. *)
LEMMA Edited ==
    ASSUME CliInv, edits' = edits + 1, UNCHANGED <<cmd, unpacked>>, cmd.op # "unpack",
           ArchInv', DiskInv', disk'[ManifestPath] = disk[ManifestPath]
    PROVE  CliInv'
<1>1. edits \in Nat /\ unpacked \in Int /\ unpacked <= edits
  BY DEF CliInv, CountInv
<1>2. CountInv'
  BY <1>1 DEF CountInv
<1>3. cmd.op = "pack" => IsPack(cmd, disk[ManifestPath]) /\ cmd.since <= edits /\ cmd.since \in Nat
  BY DEF CliInv, PackInv, IsPack
<1>4. PackInv'
  BY <1>1, <1>3 DEF PackInv
<1>5. RowsInv'
  BY <1>1, <1>3 DEF RowsInv
<1>6. OpInv' /\ UnpackInv'
  BY DEF CliInv, OpInv, UnpackInv, Done
<1>7. QED
  BY <1>2, <1>4, <1>5, <1>6 DEF CliInv

(* The user edits a file ...                                                *)
LEMMA EditCli ==
    ASSUME CliInv, NEW p \in UserPaths, NEW bytes \in UserBytes, EditFile(p, bytes)
    PROVE  CliInv'
<1>1. /\ edits' = edits + 1 /\ UNCHANGED <<arch, cmd, unpacked>> /\ cmd.op # "unpack"
      /\ disk' = [disk EXCEPT ![p] = bytes]
  BY Labels DEF EditFile, Put
<1>2. p \in Paths \ {ManifestPath} /\ (bytes = <<>> \/ Good(bytes))
  BY CliAssumption DEF Good
<1>3. GoodFiles(disk) /\ DOMAIN disk = Paths
  BY DEF CliInv, DiskInv, GoodFiles
<1>4. GoodFiles([disk EXCEPT ![p] = bytes])
  BY <1>2, <1>3, FilePut
<1>5. DiskInv' /\ ArchInv' /\ disk'[ManifestPath] = disk[ManifestPath]
  BY <1>1, <1>2, <1>3, <1>4, Names DEF DiskInv, CliInv, ArchInv
<1>6. QED
  BY <1>1, <1>5, Edited

(* ... or puts another archive in the place of one.                         *)
LEMMA SwapCli ==
    ASSUME CliInv, NEW a \in Archives, NEW o \in Originals, SwapArchive(a, o)
    PROVE  CliInv'
<1>1. /\ edits' = edits + 1 /\ UNCHANGED <<disk, cmd, unpacked>> /\ cmd.op # "unpack"
      /\ arch' = [arch EXCEPT ![a] = o[a]]
  BY Labels DEF SwapArchive
<1>2. GoodArchive(o[a])
  BY CliAssumption, GivenArchive
<1>3. ArchInv'
  BY <1>1, <1>2 DEF CliInv, ArchInv
<1>4. DiskInv'
  BY <1>1 DEF CliInv, DiskInv
<1>5. QED
  BY <1>1, <1>3, <1>4, Edited

-----------------------------------------------------------------------------
(* Planning a pack.                                                         *)

(* The files that may be in the directory.                                  *)
LEMMA PathsAreFinite == IsFiniteSet(Paths)
<1> DEFINE n == Len(PathOrder)
           T == {PathOrder[i] : i \in 1 .. n}
           f == [i \in 1 .. n |-> PathOrder[i]]
<1>1. n \in Nat
  BY CliAssumption, LenProperties
<1>2. IsFiniteSet(1 .. n)
  <2>1. 1 \in Int /\ n \in Int
    BY <1>1
  <2> HIDE DEF n
  <2>2. QED
    BY <2>1, FS_Interval
<1>3. f \in Surjection(1 .. n, T)
  BY DEF Surjection
<1>4. IsFiniteSet(T)
  <2> HIDE DEF n, T, f
  <2> QED
    BY <1>2, <1>3, FS_Surjection
<1>5. IsFiniteSet({ManifestPath, TmpPath})
  <2>1. IsFiniteSet({ManifestPath}) /\ IsFiniteSet({TmpPath})
    BY FS_Singleton
  <2>2. IsFiniteSet({ManifestPath} \cup {TmpPath})
    BY <2>1, FS_Union
  <2>3. {ManifestPath} \cup {TmpPath} = {ManifestPath, TmpPath}
    OBVIOUS
  <2>4. QED
    BY <2>2, <2>3
<1>6. Paths = T \cup {ManifestPath, TmpPath}
  BY DEF Paths
<1> HIDE DEF T
<1>7. QED
  BY <1>4, <1>5, <1>6, FS_Union

(* An order of all files with distinct positions reaches every file.        *)
LEMMA OrderIsComplete ==
    ASSUME NEW o \in KeyOrders
    PROVE  /\ Cardinality(Collected) \in Nat /\ DOMAIN o = 1 .. Cardinality(Collected)
           /\ {o[i] : i \in DOMAIN o} = Collected
<1> DEFINE n == Cardinality(Collected)
<1>1. IsFiniteSet(Collected)
  <2>1. Collected \in SUBSET Paths
    BY DEF Collected
  <2>2. QED
    BY <2>1, PathsAreFinite, FS_Subset
<1>2. n \in Nat
  BY <1>1, FS_CardinalityType
<1>3. /\ o \in [1 .. n -> Collected]
      /\ \A i, j \in 1 .. n : i < j => o[i] # o[j]
  BY DEF KeyOrders
<1> HIDE DEF n
<1>4. IsFiniteSet(1 .. n) /\ Cardinality(1 .. n) = n
  <2>1. 1 \in Int /\ n \in Int
    BY <1>2
  <2>2. IsFiniteSet(1 .. n) /\ Cardinality(1 .. n) = IF 1 > n THEN 0 ELSE n - 1 + 1
    BY <2>1, FS_Interval
  <2>3. QED
    BY <1>2, <2>2
<1>5. o \in Injection(1 .. n, Collected)
  <2>1. \A i, j \in 1 .. n : o[i] = o[j] => i = j
    <3> SUFFICES ASSUME NEW i \in 1 .. n, NEW j \in 1 .. n, o[i] = o[j], i # j PROVE FALSE
      OBVIOUS
    <3>1. i < j \/ j < i
      BY <1>2
    <3>2. QED
      BY <1>3, <3>1
  <2>2. QED
    BY <1>3, <2>1 DEF Injection, IsInjective
<1>6. o \in Surjection(1 .. n, Collected)
  <2>1. Cardinality(1 .. n) = Cardinality(Collected)
    BY <1>4 DEF n
  <2>2. QED
    BY <1>1, <1>5, <2>1, FS_Injection
<1>7. {o[i] : i \in DOMAIN o} = Collected
  BY <1>3, <1>6 DEF Surjection
<1>8. QED
  BY <1>2, <1>3, <1>7 DEF n

(* A pack without a manifest: the files in the order of their ids.          *)
LEMMA PackDirectoryCli ==
    ASSUME CliInv, NEW out \in Archives, NEW reuse \in BOOLEAN, NEW p5r \in BOOLEAN,
           PackDirectory(out, reuse, p5r)
    PROVE  CliInv'
<1>1. UNCHANGED <<arch, disk, edits, unpacked>> /\ disk[ManifestPath] = <<>>
  BY DEF PackDirectory
<1>2. ArchInv' /\ DiskInv' /\ CountInv'
  BY <1>1, CountsKept DEF CliInv, ArchInv, DiskInv
<1>3. CASE Exit("failed")
  BY <1>2, <1>3, Ended
<1>4. CASE ~Exit("failed")
  <2>1. PICK o \in KeyOrders : Packing(out, collect_files(o), "Toc", p5r, out)
    BY <1>4 DEF PackDirectory
  <2>2. Cardinality(Collected) \in 1 .. U32Max + 1
    BY <1>4 DEF PackDirectory
  <2>3. /\ DOMAIN o = 1 .. Cardinality(Collected)
        /\ {o[i] : i \in DOMAIN o} = Collected
    BY OrderIsComplete
  <2> DEFINE fs == collect_files(o)
             n == Cardinality(Collected)
  <2>4. DOMAIN fs = 1 .. n /\ n \in Nat /\ n - 1 <= U32Max
    BY <2>2, <2>3, CliAssumption DEF collect_files
  <2>5. ASSUME NEW i \in 1 .. n
        PROVE  /\ fs[i].path = o[i] /\ fs[i].id = i - 1 /\ fs[i].at = 0
               /\ fs[i].bytes = disk[o[i]] /\ o[i] \in Collected
    BY <2>3, ZenonT(30) DEF collect_files
  <2> HIDE DEF fs, n
  <2>6. \A i \in DOMAIN fs : GoodInput(cmd', <<>>, fs[i])
    <3> SUFFICES ASSUME NEW i \in 1 .. n PROVE GoodInput(cmd', <<>>, fs[i])
      BY <2>4
    <3>1. o[i] \in Paths \ {ManifestPath} /\ Good(disk[o[i]])
      BY <2>5, CliAssumption DEF Collected, CliInv, DiskInv, GoodFiles
    <3>2. i - 1 \in 0 .. U32Max
      BY <2>4, CliAssumption
    <3>3. QED
      BY <2>5, <3>1, <3>2 DEF GoodInput
  <2>7. Repeated(fs) \subseteq {}
    <3> SUFFICES ASSUME NEW i \in DOMAIN fs, NEW j \in DOMAIN fs, i # j, fs[i].id = fs[j].id
                 PROVE  FALSE
      BY DEF Repeated
    <3>1. i \in 1 .. n /\ j \in 1 .. n
      BY <2>4
    <3>2. fs[i].id = i - 1 /\ fs[j].id = j - 1
      BY <2>5, <3>1
    <3>3. i - 1 = j - 1
      BY <3>2
    <3>4. i \in Int /\ j \in Int
      BY <3>1
    <3>5. QED
      BY <3>3, <3>4
  <2>8. {fs[i].path : i \in DOMAIN fs} = Collected
    BY <2>3, <2>4, <2>5 DEF n
  <2>9. \A i \in DOMAIN fs : fs[i].bytes = disk[fs[i].path] /\ fs[i].at = 0
    BY <2>4, <2>5
  <2>10. cmd' = [op |-> "pack", out |-> out, inputs |-> fs, mode |-> "Toc", p5r |-> p5r,
                 source |-> out, since |-> edits, at |-> "create"]
    BY <2>1 DEF Packing, fs
  <2>11. /\ cmd'.op = "pack" /\ cmd'.out = out /\ cmd'.inputs = fs /\ cmd'.mode = "Toc"
         /\ cmd'.at = "create" /\ cmd'.since = edits
    BY <2>10
  <2>12. edits \in Nat
    BY DEF CliInv, CountInv
  <2>13. IsPack(cmd', <<>>)
    <3>1. IsList(fs)
      BY <2>4 DEF IsList
    <3>2. cmd' = [op |-> "pack", out |-> cmd'.out, inputs |-> cmd'.inputs, mode |-> cmd'.mode,
                  p5r |-> cmd'.p5r, source |-> cmd'.source, since |-> cmd'.since, at |-> cmd'.at]
      BY <2>10
    <3>3. QED
      BY <2>6, <2>7, <2>11, <2>12, <3>1, <3>2 DEF IsPack, Modes
  <2>14. Current(cmd', disk, arch)
    BY <1>1, <2>8, <2>9, <2>11 DEF Current, Collected, Packable
  <2>15. PackInv'
    BY <1>1, <2>11, <2>12, <2>13, <2>14 DEF PackInv
  <2>16. OpInv' /\ UnpackInv' /\ RowsInv'
    BY <2>11 DEF OpInv, UnpackInv, RowsInv
  <2>17. QED
    BY <1>2, <2>15, <2>16 DEF CliInv
<1>5. QED
  BY <1>3, <1>4

(* The inputs a manifest gives: its entries that still have a file ...      *)
Present(m) == {i \in DOMAIN m.entries : disk[m.entries[i].path] # <<>>}
KnownPaths(m) == {m.entries[i].path : i \in DOMAIN m.entries}
OfEntry(f, e, reuse) ==
    /\ f.path = e.path /\ f.id = e.id /\ f.user = e.user /\ f.bytes = disk[e.path]
    /\ f.at = 0 \/ (reuse /\ f.at = e.at /\ disk[e.path] = e.extracted)
(* The inputs made from the manifest: one for each entry that is present.   *)
LEMMA KnownFacts ==
    ASSUME NEW m, GoodManifest(m), NEW reuse \in BOOLEAN,
           NEW known, known = KnownInputs(m, reuse), NEW P, P = Present(m)
    PROVE  /\ Cardinality(P) \in Nat
           /\ known = [j \in 1 .. Cardinality(P) |-> known[j]] /\ Len(known) = Cardinality(P)
           /\ \A j \in 1 .. Cardinality(P) :
                Nth(P, j) \in P /\ OfEntry(known[j], m.entries[Nth(P, j)], reuse)
           /\ \A j, k \in 1 .. Cardinality(P) : j # k => Nth(P, j) # Nth(P, k)
           /\ \A i \in P : \E j \in 1 .. Cardinality(P) : Nth(P, j) = i
<1>1. PICK len \in Nat : DOMAIN m.entries = 1 .. len
  BY ManifestFacts
<1>2. P \in SUBSET (1 .. len)
  BY <1>1 DEF Present
<1> DEFINE kept == Kept(m.entries, P)
           n == Cardinality(P)
<1>3. /\ n \in Nat /\ DOMAIN kept = 1 .. n
      /\ \A j \in 1 .. n : Nth(P, j) \in P /\ kept[j] = m.entries[Nth(P, j)]
      /\ \A j, k \in 1 .. n : j < k => Nth(P, j) < Nth(P, k)
      /\ \A i \in P : \E j \in 1 .. n : Nth(P, j) = i
  <2> DEFINE s == m.entries
  <2> HIDE DEF s
  <2>1. n \in Nat /\ DOMAIN Kept(s, P) = 1 .. n
    BY <1>2, KeptFacts
  <2>2. \A j \in 1 .. n : Nth(P, j) \in P /\ Kept(s, P)[j] = s[Nth(P, j)]
    BY <1>2, KeptFacts
  <2>3. \A j, k \in 1 .. n : j < k => Nth(P, j) < Nth(P, k)
    BY <1>2, KeptFacts
  <2>4. \A i \in P : \E j \in 1 .. n : Nth(P, j) = i
    BY <1>2, KeptFacts
  <2>5. QED
    BY <2>1, <2>2, <2>3, <2>4 DEF s
<1>4. known = [j \in DOMAIN kept |->
            [path |-> kept[j].path, id |-> kept[j].id, user |-> kept[j].user,
             bytes |-> disk[kept[j].path],
             at |-> IF reuse /\ disk[kept[j].path] = kept[j].extracted THEN kept[j].at ELSE 0]]
  BY ZenonT(30) DEF KnownInputs, Present
<1> HIDE DEF kept, n
<1>5. ASSUME NEW j \in 1 .. n PROVE OfEntry(known[j], m.entries[Nth(P, j)], reuse)
  <2> DEFINE e == kept[j]
  <2>1. known[j] = [path |-> e.path, id |-> e.id, user |-> e.user, bytes |-> disk[e.path],
                    at |-> IF reuse /\ disk[e.path] = e.extracted THEN e.at ELSE 0]
    BY <1>3, <1>4
  <2>2. e = m.entries[Nth(P, j)]
    BY <1>3
  <2> HIDE DEF e
  <2>3. OfEntry(known[j], e, reuse)
    BY <2>1 DEF OfEntry
  <2>4. QED
    BY <2>2, <2>3
<1>6. known = [j \in 1 .. n |-> known[j]] /\ Len(known) = n
  <2>1. DOMAIN known = 1 .. n
    BY <1>3, <1>4
  <2>2. known = [j \in 1 .. n |-> known[j]]
    BY <1>4, <2>1
  <2>3. Len(known) = n
    BY <1>3, <2>1, <2>2
  <2>4. QED
    BY <2>2, <2>3
<1>7. ASSUME NEW j \in 1 .. n, NEW k \in 1 .. n, j # k PROVE Nth(P, j) # Nth(P, k)
  <2>1. j < k \/ k < j
    BY <1>3, <1>7
  <2>2. Nth(P, j) \in Int /\ Nth(P, k) \in Int
    BY <1>2, <1>3
  <2>3. QED
    BY <1>3, <2>1, <2>2
<1>8. \A j \in 1 .. n : Nth(P, j) \in P
  BY <1>3
<1>9. \A i \in P : \E j \in 1 .. n : Nth(P, j) = i
  BY <1>3
<1>10. QED
  BY <1>3, <1>5, <1>6, <1>7, <1>8, <1>9 DEF n

(* ... and the files it does not know.                                      *)
IsNew(m, p) ==
    p \in Paths \ {ManifestPath} /\ disk[p] # <<>> /\ p \notin KnownPaths(m) \cup {LegacyPath}
(* The new paths are the files that are in no entry.                        *)
LEMMA NewFacts ==
    ASSUME NEW m, GoodManifest(m), NEW new, new = NewPaths(m)
    PROVE  /\ Len(new) \in Nat /\ DOMAIN new = 1 .. Len(new)
           /\ \A n \in DOMAIN new : IsNew(m, new[n])
           /\ \A p : IsNew(m, p) => \E n \in DOMAIN new : new[n] = p
<1> DEFINE paths == <<TmpPath>> \o PathOrder
           Q == {i \in DOMAIN paths :
                    disk[paths[i]] # <<>> /\ paths[i] \notin KnownPaths(m) \cup {LegacyPath}}
           s == <<TmpPath>>
           len == 1 + Len(PathOrder)
           S == STRING \cup {TmpPath}
<1>1. PathOrder \in Seq(S) /\ Len(PathOrder) \in Nat /\ DOMAIN PathOrder = 1 .. Len(PathOrder)
  BY CliAssumption, LenProperties, SeqMonotonic
<1>2. s \in Seq(S) /\ Len(s) = 1 /\ s[1] = TmpPath
  <2> DEFINE t == TmpPath
  <2>1. t \in S
    OBVIOUS
  <2> HIDE DEF S, t
  <2>2. <<t>> \in Seq(S) /\ Len(<<t>>) = 1 /\ <<t>>[1] = t
    BY <2>1
  <2>3. QED
    BY <2>2 DEF t
<1> HIDE DEF S
<1> HIDE DEF s
<1>3. /\ s \o PathOrder \in Seq(S) /\ Len(s \o PathOrder) = len
      /\ \A i \in 1 .. len : (s \o PathOrder)[i] = IF i <= 1 THEN s[i] ELSE PathOrder[i - 1]
  <2>1. s \o PathOrder \in Seq(S) /\ Len(s \o PathOrder) = Len(s) + Len(PathOrder)
    BY <1>1, <1>2, ConcatProperties
  <2>2. \A i \in 1 .. Len(s) + Len(PathOrder) :
            (s \o PathOrder)[i] = IF i <= Len(s) THEN s[i] ELSE PathOrder[i - Len(s)]
    BY <1>1, <1>2, ConcatProperties
  <2>3. QED
    BY <1>2, <2>1, <2>2
<1>4. paths = s \o PathOrder
  BY DEF s
<1> HIDE DEF paths
<1>5. /\ DOMAIN paths = 1 .. len /\ len \in Nat
      /\ \A i \in 1 .. len : paths[i] = IF i <= 1 THEN s[i] ELSE PathOrder[i - 1]
  BY <1>1, <1>3, <1>4, LenProperties
<1>6. \A i \in DOMAIN paths : paths[i] \in Paths \ {ManifestPath}
  <2> SUFFICES ASSUME NEW i \in 1 .. len PROVE paths[i] \in Paths \ {ManifestPath}
    BY <1>5
  <2>1. CASE i = 1
    BY <1>2, <1>5, <2>1, Names
  <2>2. CASE i # 1
    <3>1. i - 1 \in 1 .. Len(PathOrder) /\ paths[i] = PathOrder[i - 1]
      BY <1>1, <1>5, <2>2
    <3>2. PathOrder[i - 1] \in Paths
      BY <3>1 DEF Paths
    <3>3. PathOrder[i - 1] # ManifestPath
      BY <1>1, <3>1, CliAssumption
    <3>4. QED
      BY <3>1, <3>2, <3>3
  <2>3. QED
    BY <2>1, <2>2
<1>7. \A p \in Paths \ {ManifestPath} : \E i \in DOMAIN paths : paths[i] = p
  <2> SUFFICES ASSUME NEW p \in Paths \ {ManifestPath} PROVE \E i \in 1 .. len : paths[i] = p
    BY <1>5
  <2>1. CASE p = TmpPath
    <3>1. 1 \in 1 .. len /\ paths[1] = TmpPath
      BY <1>1, <1>2, <1>5
    <3>2. QED
      BY <2>1, <3>1
  <2>2. CASE p # TmpPath
    <3>1. PICK i \in 1 .. Len(PathOrder) : p = PathOrder[i]
      BY <2>2 DEF Paths
    <3>2. i + 1 \in 1 .. len /\ ~(i + 1 <= 1) /\ (i + 1) - 1 = i
      BY <1>1
    <3>3. paths[i + 1] = PathOrder[i]
      BY <1>5, <3>2
    <3>4. QED
      BY <3>1, <3>2, <3>3
  <2>3. QED
    BY <2>1, <2>2
<1>8. new = Kept(paths, Q)
  BY DEF NewPaths, KnownPaths, paths
<1>9. Q \in SUBSET (1 .. len)
  BY <1>5
<1> DEFINE n == Cardinality(Q)
<1> HIDE DEF len
<1>10. /\ n \in Nat /\ DOMAIN Kept(paths, Q) = 1 .. n /\ Len(Kept(paths, Q)) = n
       /\ \A j \in 1 .. n : Nth(Q, j) \in Q /\ Kept(paths, Q)[j] = paths[Nth(Q, j)]
       /\ \A i \in Q : \E j \in 1 .. n : Nth(Q, j) = i
  <2> HIDE DEF Q
  <2> QED
    BY <1>5, <1>9, KeptFacts
<1> HIDE DEF n
<1>11. ASSUME NEW j \in 1 .. n PROVE IsNew(m, new[j])
  <2>1. Nth(Q, j) \in Q /\ new[j] = paths[Nth(Q, j)]
    BY <1>8, <1>10
  <2>2. QED
    BY <1>6, <2>1 DEF IsNew
<1>12. ASSUME NEW p, IsNew(m, p) PROVE \E j \in 1 .. n : new[j] = p
  <2>1. PICK i \in DOMAIN paths : paths[i] = p
    BY <1>7, <1>12 DEF IsNew
  <2>2. i \in Q
    BY <1>12, <2>1 DEF IsNew
  <2>3. PICK j \in 1 .. n : Nth(Q, j) = i
    BY <1>10, <2>2
  <2>4. new[j] = p
    BY <1>8, <1>10, <2>1, <2>3
  <2>5. QED
    BY <2>4
<1> HIDE DEF Q
<1>13. QED
  BY <1>8, <1>10, <1>11, <1>12

(* A new id is no other one of the archive.                                 *)
LEMMA NewIdFacts ==
    ASSUME NEW m, NEW known, NEW N \in Nat, DOMAIN known = 1 .. N, known = <<>> => N = 0,
           \A j \in 1 .. N : known[j].id \in 0 .. U32Max,
           NEW L \in Nat, L = Len(NewPaths(m)), ~NoFreeIds(m, known)
    PROVE  /\ \A n \in 1 .. L : NewId(m, known, n) \in 0 .. U32Max \ UsedIds(known)
           /\ \A n, k \in 1 .. L : n # k => NewId(m, known, n) # NewId(m, known, k)
<1>1. U16Max \in Nat /\ U32Max \in Nat /\ U16Max <= U32Max
  BY CliAssumption
<1>2. UsedIds(known) = {known[j].id : j \in 1 .. N} /\ UsedIds(known) \subseteq 0 .. U32Max
  BY DEF UsedIds
<1>3. CASE has_itoc(m.mode)
  <2> DEFINE F == FreeIds(known)
  <2>1. IsFiniteSet(F) /\ F \in SUBSET Int /\ F \subseteq 0 .. U32Max \ UsedIds(known)
    <3>1. IsFiniteSet(0 .. U16Max)
      <4>1. 0 \in Int /\ U16Max \in Int
        BY <1>1
      <4>2. QED
        BY <4>1, FS_Interval
    <3>2. F \in SUBSET (0 .. U16Max)
      BY DEF FreeIds
    <3>3. IsFiniteSet(F)
      BY <3>1, <3>2, FS_Subset
    <3>4. F \subseteq 0 .. U32Max \ UsedIds(known)
      BY <1>1, <3>2 DEF FreeIds
    <3>5. QED
      BY <1>1, <3>2, <3>3, <3>4
  <2>2. ~(L > Cardinality(F))
    BY <1>3 DEF NoFreeIds
  <2> HIDE DEF F
  <2>3. /\ Cardinality(F) \in Nat
        /\ \A n \in 1 .. Cardinality(F) : Nth(F, n) \in F
        /\ \A n, k \in 1 .. Cardinality(F) : n < k => Nth(F, n) < Nth(F, k)
    BY <2>1, NthFacts
  <2>4. 1 .. L \subseteq 1 .. Cardinality(F)
    BY <2>2, <2>3
  <2>5. \A n : NewId(m, known, n) = Nth(F, n)
    BY <1>3 DEF NewId, F
  <2>6. ASSUME NEW n \in 1 .. L, NEW k \in 1 .. L, n # k
        PROVE  NewId(m, known, n) # NewId(m, known, k)
    <3>1. n < k \/ k < n
      BY <2>6
    <3>2. Nth(F, n) \in Int /\ Nth(F, k) \in Int
      BY <2>1, <2>3, <2>4
    <3>3. QED
      BY <2>3, <2>4, <2>5, <3>1, <3>2, SMTT(30)
  <2>7. \A n \in 1 .. L : NewId(m, known, n) \in 0 .. U32Max \ UsedIds(known)
    BY <2>1, <2>3, <2>4, <2>5
  <2>8. QED
    BY <2>6, <2>7
<1>4. CASE ~has_itoc(m.mode)
  <2> DEFINE next == NextTocId(known)
  <2>1. next \in Nat /\ \A i \in UsedIds(known) : i < next
    <3>1. CASE known = <<>>
      BY <1>2, <3>1 DEF NextTocId
    <3>2. CASE known # <<>> /\ N = 0
      BY <1>2, <3>2 DEF NextTocId
    <3>3. CASE known # <<>> /\ N # 0
      <4> DEFINE U == UsedIds(known)
                 T == {d \in Nat : \E i \in U : d = U32Max - i}
      <4>1. T # {}
        <5>1. known[1].id \in U /\ known[1].id \in 0 .. U32Max
          BY <1>2, <3>3
        <5>2. U32Max - known[1].id \in Nat
          BY <1>1, <5>1
        <5>3. QED
          BY <5>1, <5>2
      <4>2. PICK d \in T : \A e \in T : d <= e
        <5>1. T \in SUBSET Nat
          OBVIOUS
        <5> HIDE DEF T
        <5>2. QED
          BY <4>1, <5>1, LeastNatural
      <4>3. PICK i \in U : d = U32Max - i
        OBVIOUS
      <4>4. \A k \in U : k <= i
        <5> SUFFICES ASSUME NEW k \in U PROVE k <= i
          OBVIOUS
        <5>1. k \in 0 .. U32Max /\ i \in 0 .. U32Max
          BY <1>2
        <5>2. U32Max - k \in T
          BY <1>1, <5>1
        <5>3. d <= U32Max - k
          BY <4>2, <5>2
        <5>4. QED
          BY <1>1, <4>3, <5>1, <5>3
      <4> DEFINE top == CHOOSE n \in UsedIds(known) : \A k \in UsedIds(known) : k <= n
      <4>5. top \in U /\ \A k \in U : k <= top
        BY <4>4
      <4>6. next = 1 + top
        BY <3>3 DEF NextTocId
      <4> HIDE DEF top
      <4>7. top \in 0 .. U32Max
        BY <1>2, <4>5
      <4>8. ASSUME NEW k \in U PROVE k < next
        <5>1. k \in 0 .. U32Max /\ k <= top
          BY <1>2, <4>5
        <5>2. QED
          BY <1>1, <4>6, <4>7, <5>1
      <4>9. next \in Nat
        BY <1>1, <4>6, <4>7
      <4>10. QED
        BY <4>8, <4>9
    <3>4. QED
      BY <3>1, <3>2, <3>3
  <2>2. ~(next > U32Max) /\ ~(next + L - 1 > U32Max)
    BY <1>4 DEF NoFreeIds
  <2>3. \A n : NewId(m, known, n) = next + n - 1
    BY <1>4 DEF NewId
  <2> HIDE DEF next
  <2>4. ASSUME NEW n \in 1 .. L PROVE next + n - 1 \in 0 .. U32Max /\ next + n - 1 >= next
    BY <1>1, <2>1, <2>2
  <2>5. ASSUME NEW n \in 1 .. L PROVE next + n - 1 \notin UsedIds(known)
    <3>1. ASSUME next + n - 1 \in UsedIds(known) PROVE FALSE
      <4>1. next + n - 1 < next
        BY <2>1, <3>1
      <4>2. QED
        BY <2>1, <2>4, <4>1
    <3>2. QED
      BY <3>1
  <2>6. ASSUME NEW n \in 1 .. L, NEW k \in 1 .. L, n # k PROVE next + n - 1 # next + k - 1
    BY <2>1, <2>6
  <2>7. QED
    BY <2>3, <2>4, <2>5, <2>6
<1>5. QED
  BY <1>3, <1>4

(* Two sequences, one after the other.                                      *)
LEMMA Joined ==
    ASSUME NEW a \in Nat, NEW b \in Nat,
           NEW s, s = [i \in 1 .. a |-> s[i]], NEW t, t = [i \in 1 .. b |-> t[i]]
    PROVE  /\ DOMAIN (s \o t) = 1 .. a + b
           /\ \A i \in 1 .. a : (s \o t)[i] = s[i]
           /\ \A i \in 1 .. b : (s \o t)[a + i] = t[i]
<1> DEFINE S == {s[i] : i \in 1 .. a} \cup {t[i] : i \in 1 .. b}
<1>1. s \in [1 .. a -> S] /\ t \in [1 .. b -> S]
  OBVIOUS
<1> HIDE DEF S
<1>2. s \in Seq(S) /\ t \in Seq(S)
  BY <1>1, SeqDef
<1>3. Len(s) = a /\ Len(t) = b
  BY <1>1, <1>2, LenProperties
<1> DEFINE c == s \o t
<1>4. c \in Seq(S) /\ Len(c) = a + b
  BY <1>2, <1>3, ConcatProperties
<1>5. \A i \in 1 .. Len(s) + Len(t) : c[i] = IF i <= Len(s) THEN s[i] ELSE t[i - Len(s)]
  BY <1>2, ConcatProperties
<1> HIDE DEF c
<1>6. DOMAIN c = 1 .. a + b
  BY <1>4, LenProperties
<1>7. ASSUME NEW i \in 1 .. a PROVE c[i] = s[i]
  <2>1. i \in 1 .. a + b /\ i <= a
    OBVIOUS
  <2>2. QED
    BY <1>3, <1>5, <2>1
<1>8. ASSUME NEW i \in 1 .. b PROVE c[a + i] = t[i]
  <2>1. a + i \in 1 .. a + b /\ ~(a + i <= a) /\ (a + i) - a = i
    OBVIOUS
  <2>2. QED
    BY <1>3, <1>5, <2>1
<1>9. QED
  BY <1>6, <1>7, <1>8 DEF c

(* What build_inputs makes of a manifest and the directory.                 *)
FromDirectory(f, m, reuse) ==
    /\ f.path \in Paths \ {ManifestPath} /\ f.id \in 0 .. U32Max
    /\ disk[f.path] # <<>> /\ f.bytes = disk[f.path]
    /\ f.at = 0 \/ \E i \in DOMAIN m.entries :
                        reuse /\ f.at = m.entries[i].at /\ f.user = m.entries[i].user
                        /\ f.bytes = m.entries[i].extracted
OfManifest(m) ==
    {p \in Paths \ {ManifestPath} : disk[p] # <<>> /\ (p = LegacyPath => p \in KnownPaths(m))}
(* build_inputs: every input is a file of the directory, and every present  *)
(* entry has one.                                                           *)
LEMMA BuildFacts ==
    ASSUME CliInv, NEW m, GoodManifest(m), NEW reuse \in BOOLEAN,
           ~NoFreeIds(m, KnownInputs(m, reuse)), NEW fs, fs = build_inputs(m, reuse)
    PROVE  /\ IsList(fs)
           /\ \A i \in DOMAIN fs : FromDirectory(fs[i], m, reuse)
           /\ Repeated(fs) \subseteq Repeated(m.entries)
           /\ {fs[i].path : i \in DOMAIN fs} = OfManifest(m)
           /\ \A i \in Present(m) : Covered(fs, m.entries[i])
<1> DEFINE known == KnownInputs(m, reuse)
           new == NewPaths(m)
           P == Present(m)
           K == Cardinality(P)
           L == Len(new)
           added == [n \in DOMAIN new |->
                        [path |-> new[n], id |-> NewId(m, known, n), user |-> "",
                         bytes |-> disk[new[n]], at |-> 0]]
<1>1. fs = known \o added
  BY ZenonT(30) DEF build_inputs
<1> HIDE DEF known, new, P
<1>2. /\ K \in Nat /\ known = [j \in 1 .. K |-> known[j]]
  BY KnownFacts DEF known, P
<1>3. \A j \in 1 .. K : Nth(P, j) \in P /\ OfEntry(known[j], m.entries[Nth(P, j)], reuse)
  BY KnownFacts DEF known, P
<1>4. \A j, k \in 1 .. K : j # k => Nth(P, j) # Nth(P, k)
  BY KnownFacts DEF known, P
<1>5. \A i \in P : \E j \in 1 .. K : Nth(P, j) = i
  BY KnownFacts DEF known, P
<1>6. /\ L \in Nat /\ DOMAIN new = 1 .. L
      /\ \A n \in 1 .. L : IsNew(m, new[n])
  BY NewFacts DEF new
<1>7. \A p : IsNew(m, p) => \E n \in 1 .. L : new[n] = p
  <2>1. \A p : IsNew(m, p) => \E n \in DOMAIN new : new[n] = p
    BY NewFacts DEF new
  <2>2. QED
    BY <1>6, <2>1
<1> HIDE DEF K, L
<1>8. \A i \in P : i \in DOMAIN m.entries /\ disk[m.entries[i].path] # <<>>
  BY DEF P, Present
<1>9. \A i \in DOMAIN m.entries :
        /\ m.entries[i].path \in Paths \ {ManifestPath} /\ m.entries[i].id \in 0 .. U32Max
  BY ManifestFacts
<1>10. \A j \in 1 .. K : known[j].id \in 0 .. U32Max
  BY <1>3, <1>8, <1>9 DEF OfEntry
<1>11. /\ \A n \in 1 .. L : NewId(m, known, n) \in 0 .. U32Max \ UsedIds(known)
       /\ \A n, k \in 1 .. L : n # k => NewId(m, known, n) # NewId(m, known, k)
  <2>1. DOMAIN known = 1 .. K
    BY <1>2
  <2>2. known = <<>> => K = 0
    <3>1. Len(known) = K
      BY KnownFacts DEF known, P, K
    <3>2. QED
      BY <3>1
  <2>3. L = Len(NewPaths(m)) /\ ~NoFreeIds(m, known)
    BY DEF L, new, known
  <2>4. \A n \in 1 .. L : NewId(m, known, n) \in 0 .. U32Max \ UsedIds(known)
    BY <1>2, <1>6, <1>10, <2>1, <2>2, <2>3, NewIdFacts
  <2>5. \A n, k \in 1 .. L : n # k => NewId(m, known, n) # NewId(m, known, k)
    BY <1>2, <1>6, <1>10, <2>1, <2>2, <2>3, NewIdFacts
  <2>6. QED
    BY <2>4, <2>5
<1>12. \A n \in 1 .. L :
            added[n] = [path |-> new[n], id |-> NewId(m, known, n), user |-> "",
                        bytes |-> disk[new[n]], at |-> 0]
  BY <1>6
<1>13. added = [n \in 1 .. L |-> added[n]]
  BY <1>6
<1> HIDE DEF added
<1>14. DOMAIN fs = 1 .. K + L
  BY <1>1, <1>2, <1>6, <1>13, Joined
<1>15. \A j \in 1 .. K : fs[j] = known[j]
  BY <1>1, <1>2, <1>6, <1>13, Joined
<1>16. \A n \in 1 .. L : fs[K + n] = added[n]
  BY <1>1, <1>2, <1>6, <1>13, Joined
<1>17. \A i \in DOMAIN fs : i \in 1 .. K \/ \E n \in 1 .. L : i = K + n
  <2> SUFFICES ASSUME NEW i \in 1 .. K + L, i \notin 1 .. K PROVE \E n \in 1 .. L : i = K + n
    BY <1>14
  <2>1. i - K \in 1 .. L /\ i = K + (i - K)
    BY <1>2, <1>6
  <2>2. QED
    BY <2>1
<1>18. \A j \in 1 .. K :
            Nth(P, j) \in DOMAIN m.entries /\ OfEntry(fs[j], m.entries[Nth(P, j)], reuse)
  BY <1>3, <1>8, <1>15
<1>19. \A n \in 1 .. L :
            /\ fs[K + n].path = new[n] /\ fs[K + n].id = NewId(m, known, n)
            /\ fs[K + n].bytes = disk[new[n]] /\ fs[K + n].at = 0
  <2> SUFFICES ASSUME NEW n \in 1 .. L
               PROVE  /\ fs[K + n].path = new[n] /\ fs[K + n].id = NewId(m, known, n)
                      /\ fs[K + n].bytes = disk[new[n]] /\ fs[K + n].at = 0
    OBVIOUS
  <2> DEFINE f == fs[K + n]
             p == new[n]
             id == NewId(m, known, n)
             bytes == disk[new[n]]
  <2>1. f = [path |-> p, id |-> id, user |-> "", bytes |-> bytes, at |-> 0]
    BY <1>12, <1>16, ZenonT(30)
  <2> HIDE DEF f, p, id, bytes
  <2>2. f.path = p /\ f.id = id /\ f.bytes = bytes /\ f.at = 0
    BY <2>1, ZenonT(30)
  <2>3. QED
    BY <2>2 DEF f, p, id, bytes
<1>20. ASSUME NEW i \in DOMAIN fs PROVE FromDirectory(fs[i], m, reuse)
  <2>1. CASE i \in 1 .. K
    <3> DEFINE h == Nth(P, i)
    <3>1. h \in DOMAIN m.entries /\ OfEntry(fs[i], m.entries[h], reuse) /\ h \in P
      BY <1>3, <1>18, <2>1
    <3> HIDE DEF h
    <3>2. /\ m.entries[h].path \in Paths \ {ManifestPath} /\ m.entries[h].id \in 0 .. U32Max
          /\ disk[m.entries[h].path] # <<>>
      BY <1>8, <1>9, <3>1
    <3>3. QED
      BY <3>1, <3>2 DEF FromDirectory, OfEntry
  <2>2. CASE i \notin 1 .. K
    <3>1. PICK n \in 1 .. L : i = K + n
      BY <1>17, <2>2
    <3>2. IsNew(m, new[n]) /\ NewId(m, known, n) \in 0 .. U32Max
      BY <1>6, <1>11
    <3>3. /\ fs[i].path = new[n] /\ fs[i].id = NewId(m, known, n)
          /\ fs[i].bytes = disk[new[n]] /\ fs[i].at = 0
      BY <1>19, <3>1
    <3>4. QED
      BY <3>2, <3>3 DEF FromDirectory, IsNew
  <2>3. QED
    BY <2>1, <2>2
<1>21. Repeated(fs) \subseteq Repeated(m.entries)
  <2> SUFFICES ASSUME NEW i \in DOMAIN fs, NEW j \in DOMAIN fs, i # j, fs[i].id = fs[j].id
               PROVE  fs[i].id \in Repeated(m.entries)
    BY DEF Repeated
  <2>1. \A k \in 1 .. K : fs[k].id \in UsedIds(known)
    BY <1>2, <1>15 DEF UsedIds
  <2>2. \A n \in 1 .. L : fs[K + n].id \notin UsedIds(known)
    BY <1>11, <1>19
  <2>3. CASE i \in 1 .. K /\ j \in 1 .. K
    <3>1. /\ Nth(P, i) \in DOMAIN m.entries /\ Nth(P, j) \in DOMAIN m.entries
          /\ Nth(P, i) # Nth(P, j)
      BY <1>4, <1>18, <2>3
    <3>2. fs[i].id = m.entries[Nth(P, i)].id /\ fs[j].id = m.entries[Nth(P, j)].id
      BY <1>18, <2>3 DEF OfEntry
    <3>3. QED
      BY <3>1, <3>2 DEF Repeated
  <2>4. CASE i \notin 1 .. K /\ j \notin 1 .. K
    <3>1. PICK n \in 1 .. L : i = K + n
      BY <1>17, <2>4
    <3>2. PICK k \in 1 .. L : j = K + k
      BY <1>17, <2>4
    <3>3. n # k
      BY <3>1, <3>2
    <3>4. fs[i].id # fs[j].id
      BY <1>11, <1>19, <3>1, <3>2, <3>3
    <3>5. QED
      BY <3>4
  <2>5. CASE i \in 1 .. K /\ j \notin 1 .. K
    <3>1. PICK n \in 1 .. L : j = K + n
      BY <1>17, <2>5
    <3>2. QED
      BY <2>1, <2>2, <2>5, <3>1
  <2>6. CASE i \notin 1 .. K /\ j \in 1 .. K
    <3>1. PICK n \in 1 .. L : i = K + n
      BY <1>17, <2>6
    <3>2. QED
      BY <2>1, <2>2, <2>6, <3>1
  <2>7. QED
    BY <2>3, <2>4, <2>5, <2>6
<1>22. ASSUME NEW i \in P PROVE \E j \in 1 .. K : OfEntry(fs[j], m.entries[i], reuse)
  <2>1. PICK j \in 1 .. K : Nth(P, j) = i
    BY <1>5
  <2>2. QED
    BY <1>18, <2>1
<1>23. \A i \in P : Covered(fs, m.entries[i])
  <2> SUFFICES ASSUME NEW i \in P PROVE Covered(fs, m.entries[i])
    OBVIOUS
  <2>1. PICK j \in 1 .. K : OfEntry(fs[j], m.entries[i], reuse)
    BY <1>22
  <2>2. j \in DOMAIN fs
    BY <1>2, <1>6, <1>14
  <2>3. QED
    BY <2>1, <2>2 DEF Covered, OfEntry
<1>24. {fs[i].path : i \in DOMAIN fs} = OfManifest(m)
  <2>1. ASSUME NEW i \in DOMAIN fs PROVE fs[i].path \in OfManifest(m)
    <3>1. fs[i].path \in Paths \ {ManifestPath} /\ disk[fs[i].path] # <<>>
      BY <1>20 DEF FromDirectory
    <3>2. CASE i \in 1 .. K
      <4>1. fs[i].path \in KnownPaths(m)
        BY <1>18, <3>2 DEF OfEntry, KnownPaths
      <4>2. QED
        BY <3>1, <4>1 DEF OfManifest
    <3>3. CASE i \notin 1 .. K
      <4>1. PICK n \in 1 .. L : i = K + n
        BY <1>17, <3>3
      <4>2. fs[i].path # LegacyPath
        BY <1>6, <1>19, <4>1 DEF IsNew
      <4>3. QED
        BY <3>1, <4>2 DEF OfManifest
    <3>4. QED
      BY <3>2, <3>3
  <2>2. ASSUME NEW p \in OfManifest(m) PROVE \E i \in DOMAIN fs : fs[i].path = p
    <3>1. CASE p \in KnownPaths(m)
      <4>1. PICK i \in DOMAIN m.entries : m.entries[i].path = p
        BY <3>1 DEF KnownPaths
      <4>2. i \in P
        BY <4>1 DEF P, Present, OfManifest
      <4>3. PICK j \in 1 .. K : OfEntry(fs[j], m.entries[i], reuse)
        BY <1>22, <4>2
      <4>4. j \in DOMAIN fs
        BY <1>2, <1>6, <1>14
      <4>5. QED
        BY <4>1, <4>3, <4>4 DEF OfEntry
    <3>2. CASE p \notin KnownPaths(m)
      <4>1. IsNew(m, p)
        BY <3>2 DEF IsNew, OfManifest
      <4>2. PICK n \in 1 .. L : new[n] = p
        BY <1>7, <4>1
      <4>3. K + n \in DOMAIN fs
        BY <1>2, <1>6, <1>14
      <4>4. QED
        BY <1>19, <4>2, <4>3
    <3>3. QED
      BY <3>1, <3>2
  <2>3. QED
    BY <2>1, <2>2
<1>25. IsList(fs)
  <2>1. K + L \in Nat
    BY <1>2, <1>6
  <2>2. QED
    BY <1>14, <2>1 DEF IsList
<1>26. QED
  BY <1>20, <1>21, <1>23, <1>24, <1>25 DEF P

(* A pack with a manifest.                                                  *)
LEMMA PackManifestCli ==
    ASSUME CliInv, NEW out \in Archives, NEW reuse \in BOOLEAN, NEW p5r \in BOOLEAN,
           PackManifest(out, reuse, p5r)
    PROVE  CliInv'
<1>1. UNCHANGED <<arch, disk, edits, unpacked>> /\ disk[ManifestPath] # <<>>
  BY DEF PackManifest
<1>2. ArchInv' /\ DiskInv' /\ CountInv'
  BY <1>1, CountsKept DEF CliInv, ArchInv, DiskInv
<1>3. CASE Exit("failed")
  BY <1>2, <1>3, Ended
<1>4. CASE ~Exit("failed")
  <2> DEFINE file == disk[ManifestPath]
             m == file[2]
             fs == build_inputs(m, reuse)
  <2>1. /\ reuse => MayReuse(m, out)
        /\ ~NoFreeIds(m, KnownInputs(m, reuse))
        /\ Packing(out, fs, m.mode, m.p5r \/ p5r, m.source)
    BY <1>4 DEF PackManifest
  <2>2. GoodManifest(m)
    BY <1>1 DEF CliInv, DiskInv, GoodFiles
  <2>3. m.mode \in Modes /\ m.source \in Archives
    BY <2>2, ManifestFacts
  <2> HIDE DEF m
  <2>4. /\ IsList(fs)
        /\ \A i \in DOMAIN fs : FromDirectory(fs[i], m, reuse)
        /\ Repeated(fs) \subseteq Repeated(m.entries)
        /\ {fs[i].path : i \in DOMAIN fs} = OfManifest(m)
        /\ \A i \in Present(m) : Covered(fs, m.entries[i])
    BY <2>1, <2>2, BuildFacts
  <2>5. /\ cmd' = [op |-> "pack", out |-> out, inputs |-> fs, mode |-> m.mode,
                   p5r |-> (m.p5r \/ p5r), source |-> m.source, since |-> edits, at |-> "create"]
    BY <2>1 DEF Packing
  <2> HIDE DEF fs
  <2>6. /\ cmd'.op = "pack" /\ cmd'.out = out /\ cmd'.inputs = fs /\ cmd'.mode = m.mode
        /\ cmd'.source = m.source /\ cmd'.at = "create" /\ cmd'.since = edits
    BY <2>5
  <2>7. edits \in Nat
    BY DEF CliInv, CountInv
  <2>8. ASSUME NEW i \in DOMAIN fs
        PROVE  /\ GoodInput(cmd', file, fs[i])
               /\ fs[i].bytes = disk[fs[i].path]
               /\ fs[i].at # 0 => arch[m.source] = m.sum
    <3> DEFINE f == fs[i]
    <3>1. FromDirectory(f, m, reuse)
      BY <2>4
    <3> HIDE DEF f
    <3>2. f.path \in Paths \ {ManifestPath} /\ f.id \in 0 .. U32Max /\ f.bytes = disk[f.path]
      BY <3>1 DEF FromDirectory
    <3>3. Good(f.bytes)
      BY <3>1 DEF FromDirectory, CliInv, DiskInv, GoodFiles
    <3>4. CASE f.at = 0
      BY <3>2, <3>3, <3>4 DEF GoodInput, f
    <3>5. CASE f.at # 0
      <4>1. PICK k \in DOMAIN m.entries :
                reuse /\ f.at = m.entries[k].at /\ f.user = m.entries[k].user
                /\ f.bytes = m.entries[k].extracted
        BY <3>1, <3>5 DEF FromDirectory
      <4>2. m.source # out /\ arch[m.source] = m.sum
        BY <2>1, <4>1 DEF MayReuse
      <4>3. /\ m.entries[k] = EntryOf(m.sum, k, m.p5r)
            /\ m.entries[k].at \in DOMAIN m.sum.rows
        BY <2>2, ManifestFacts
      <4>4. m.entries[k].extracted =
                Extract(m.sum.rows[m.entries[k].at].packed, m.entries[k].user, m.p5r)
        <5>1. /\ m.entries[k].extracted = Extracted(m.sum, k, m.p5r)
              /\ m.entries[k].at = Listing(m.sum)[k].at
              /\ m.entries[k].user = Listing(m.sum)[k].user
          BY <4>3 DEF EntryOf
        <5>2. QED
          BY <5>1 DEF Extracted
      <4>5. Raw(cmd', file, f)
        BY <1>1, <2>3, <2>6, <4>1, <4>2, <4>3, <4>4, ZenonT(30) DEF Raw, m
      <4>6. QED
        BY <3>2, <3>3, <4>2, <4>5 DEF GoodInput, f
    <3>6. QED
      BY <3>4, <3>5
  <2>9. IsPack(cmd', file)
    <3>1. cmd' = [op |-> "pack", out |-> cmd'.out, inputs |-> cmd'.inputs, mode |-> cmd'.mode,
                  p5r |-> cmd'.p5r, source |-> cmd'.source, since |-> cmd'.since, at |-> cmd'.at]
      BY <2>5
    <3>2. Repeated(fs) \subseteq Repeated(file[2].entries) /\ cmd'.mode = file[2].mode
      BY <2>4, <2>6 DEF m
    <3>3. QED
      BY <1>1, <2>3, <2>4, <2>6, <2>7, <2>8, <3>1, <3>2 DEF IsPack
  <2>10. Current(cmd', disk, arch)
    <3>1. {fs[i].path : i \in DOMAIN fs} = Packable(disk)
      BY <1>1, <2>4 DEF Packable, OfManifest, KnownPaths, m
    <3>2. \A i \in DOMAIN m.entries : disk[m.entries[i].path] # <<>> => Covered(fs, m.entries[i])
      BY <2>4 DEF Present
    <3>3. QED
      BY <2>6, <2>8, <3>1, <3>2 DEF Current, m
  <2>11. PackInv'
    BY <1>1, <2>6, <2>7, <2>9, <2>10 DEF PackInv
  <2>12. OpInv' /\ UnpackInv' /\ RowsInv'
    BY <2>6 DEF OpInv, UnpackInv, RowsInv
  <2>13. QED
    BY <1>2, <2>11, <2>12 DEF CliInv
<1>5. QED
  BY <1>3, <1>4

-----------------------------------------------------------------------------
(* Every step, and what it comes to.                                        *)

(* Every step of the commands keeps the invariant.                          *)
LEMMA NextCli == CliInv /\ [Next]_vars => CliInv'
<1> SUFFICES ASSUME CliInv, [Next]_vars PROVE CliInv'
  OBVIOUS
<1>1. ASSUME NEW a \in Archives, NEW p5r \in BOOLEAN, Unpack(a, p5r) PROVE CliInv'
  BY <1>1, UnpackCli
<1>2. CASE ExtractNext
  BY <1>2, ExtractCli
<1>3. CASE CreateTmp
  BY <1>3, CreateTmpCli
<1>4. CASE FillTmp
  BY <1>4, FillTmpCli
<1>5. CASE RemoveManifest
  BY <1>5, RemoveManifestCli
<1>6. CASE RenameTmp
  BY <1>6, RenameTmpCli
<1>7. ASSUME NEW out \in Archives, NEW reuse \in BOOLEAN, NEW p5r \in BOOLEAN,
             PackDirectory(out, reuse, p5r)
      PROVE  CliInv'
  BY <1>7, PackDirectoryCli
<1>8. ASSUME NEW out \in Archives, NEW reuse \in BOOLEAN, NEW p5r \in BOOLEAN,
             PackManifest(out, reuse, p5r)
      PROVE  CliInv'
  BY <1>8, PackManifestCli
<1>9. CASE CreateOutput
  BY <1>9, CreateOutputCli
<1>10. CASE WriteIndex
  BY <1>10, WriteIndexCli
<1>11. CASE CopyNext
  BY <1>11, CopyCli
<1>12. CASE FinishPack
  BY <1>12, FinishCli
<1>13. CASE Kill
  BY <1>13, KillCli
<1>14. ASSUME NEW p \in UserPaths, NEW bytes \in UserBytes, EditFile(p, bytes) PROVE CliInv'
  BY <1>14, EditCli
<1>15. ASSUME NEW a \in Archives, NEW o \in Originals, SwapArchive(a, o) PROVE CliInv'
  BY <1>15, SwapCli
<1>16. CASE UNCHANGED vars
  BY <1>16 DEF vars, CliInv, OpInv, Done, ArchInv, DiskInv, CountInv, UnpackInv, PackInv, RowsInv
<1>17. QED
  BY <1>1, <1>2, <1>3, <1>4, <1>5, <1>6, <1>7, <1>8, <1>9, <1>10, <1>11, <1>12, <1>13, <1>14,
     <1>15, <1>16 DEF Next

(* The invariant holds in every state of every behaviour.                   *)
LEMMA AlwaysCli == Spec => []CliInv
BY InitCli, NextCli, PTL DEF Spec

(* A pack never gives a file the id of another entry: whatever ids repeat   *)
(* among its inputs already repeat in the manifest, and every id fits its   *)
(* field. This is the numbering of new files in build_inputs and its        *)
(* refusal of a manifest with no free ids left (manifest.rs).               *)
THEOREM PlansKeepIdsUnique == Spec => []IdsStayUnique
<1>1. CliInv => IdsStayUnique
  <2> SUFFICES ASSUME CliInv, cmd.op = "pack" PROVE IdsStayUnique
    BY DEF IdsStayUnique
  <2>1. IsPack(cmd, disk[ManifestPath])
    BY DEF CliInv, PackInv
  <2>2. /\ Repeated(cmd.inputs) \subseteq
                IF disk[ManifestPath] = <<>> THEN {} ELSE Repeated(Manifest.entries)
        /\ \A i \in DOMAIN cmd.inputs : cmd.inputs[i].id \in 0 .. U32Max
    BY <2>1 DEF IsPack, GoodInput, Manifest
  <2>3. \A i \in DOMAIN cmd.inputs : cmd.inputs[i].id <= U32Max
    BY <2>2, CliAssumption
  <2>4. QED
    BY <2>2, <2>3 DEF IdsStayUnique, Repeated
<1>2. QED
  BY <1>1, AlwaysCli, PTL

(* While a pack that copies raw bytes runs, nothing it does changes the     *)
(* archive they come from: run_pack refuses --reuse-raw-entries when the    *)
(* output is that archive (main.rs), and a pack writes to its output        *)
(* alone.                                                                   *)
THEOREM RawSourceSurvives == Spec => SourceSurvives
<1> DEFINE Survives == cmd.op = "pack" /\ (\E i \in DOMAIN cmd.inputs : cmd.inputs[i].at # 0) /\ ~Done
                         => arch'[cmd.source] = arch[cmd.source]
<1>1. CliInv /\ [Next]_vars => [Survives]_vars
  <2> SUFFICES ASSUME CliInv, Next, cmd.op = "pack", ~Done,
                      NEW i \in DOMAIN cmd.inputs, cmd.inputs[i].at # 0
               PROVE  arch'[cmd.source] = arch[cmd.source]
    OBVIOUS
  <2>1. IsPack(cmd, disk[ManifestPath]) /\ DOMAIN arch = Archives
    BY DEF CliInv, PackInv, ArchInv
  <2>2. cmd.source \in Archives /\ cmd.source # cmd.out
    BY <2>1, SourceKept
  <2>3. CASE UNCHANGED arch
    BY <2>3
  <2>4. CASE CreateOutput
    BY <2>1, <2>2, <2>4 DEF CreateOutput
  <2>5. CASE WriteIndex
    BY <2>1, <2>2, <2>5 DEF WriteIndex
  <2>6. CASE CopyNext
    BY <2>1, <2>2, <2>6 DEF CopyNext
  <2>7. QED
    BY <2>3, <2>4, <2>5, <2>6, ZenonT(30)
    DEF Next, Unpack, ExtractNext, CreateTmp, FillTmp, RemoveManifest, RenameTmp, PackDirectory,
        PackManifest, FinishPack, Kill, EditFile, SwapArchive
<1>2. QED
  BY <1>1, AlwaysCli, PTL DEF Spec, SourceSurvives

(* What a finished pack left.                                               *)
LEMMA PackedFacts ==
    ASSUME CliInv, PackOk
    PROVE  /\ IsPack(cmd, disk[ManifestPath]) /\ Current(cmd, disk, arch)
           /\ RowsOf(cmd, disk[ManifestPath], arch[cmd.out])
           /\ GoodArchive(arch[cmd.out])
<1>1. cmd.op = "pack" /\ cmd.at = "ok" /\ cmd.since = edits
  BY DEF PackOk
<1>2. IsPack(cmd, disk[ManifestPath]) /\ Current(cmd, disk, arch)
  BY <1>1 DEF CliInv, PackInv
<1>3. RowsOf(cmd, disk[ManifestPath], arch[cmd.out])
  BY <1>1 DEF CliInv, RowsInv
<1>4. cmd.out \in Archives
  BY <1>2 DEF IsPack
<1>5. QED
  BY <1>2, <1>3, <1>4 DEF CliInv, ArchInv

(* A row of a finished pack extracts to the file under its path.            *)
LEMMA PackedExtracts ==
    ASSUME CliInv, PackOk, NEW i \in DOMAIN arch[cmd.out].rows,
           cmd.inputs[i].at = 0 \/ cmd.p5r = Manifest.p5r,
           ~is_compressed(disk[arch[cmd.out].rows[i].path])
    PROVE  Extract(arch[cmd.out].rows[i].packed, arch[cmd.out].rows[i].user, cmd.p5r)
                = disk[arch[cmd.out].rows[i].path]
<1> DEFINE file == disk[ManifestPath]
           r == arch[cmd.out].rows[i]
           f == cmd.inputs[i]
<1>1. IsPack(cmd, file) /\ Current(cmd, disk, arch) /\ RowsOf(cmd, file, arch[cmd.out])
  BY PackedFacts
<1>2. i \in DOMAIN cmd.inputs /\ Filled(cmd, file, f, r)
  BY <1>1 DEF RowsOf
<1>3. GoodInput(cmd, file, f) /\ f.bytes = disk[f.path]
  BY <1>1, <1>2, ZenonT(30) DEF IsPack, Current
<1> HIDE DEF f, r
<1>4. r.path = f.path /\ r.user = f.user /\ r.packed = Planned(cmd, file, f)
  BY <1>2 DEF Filled, PackOk
<1>5. ~is_compressed(f.bytes) /\ (f.at = 0 \/ cmd.p5r = Manifest.p5r)
  BY <1>3, <1>4 DEF r, f
<1>6. Extract(r.packed, r.user, cmd.p5r) = f.bytes
  <2>1. CASE f.at = 0
    <3>1. r.packed = Rebuild(f.bytes, f.user, cmd.p5r) /\ Good(f.bytes)
      BY <1>3, <1>4, <2>1 DEF Planned, GoodInput
    <3>2. QED
      BY <1>4, <1>5, <3>1, Payloads
  <2>2. CASE f.at # 0
    <3>1. /\ r.packed = file[2].sum.rows[f.at].packed
          /\ f.bytes = Extract(file[2].sum.rows[f.at].packed, f.user, file[2].p5r)
          /\ cmd.p5r = file[2].p5r
      BY <1>3, <1>4, <1>5, <2>2 DEF Planned, GoodInput, Raw, Manifest
    <3>2. QED
      BY <1>4, <3>1
  <2>3. QED
    BY <2>1, <2>2
<1>7. QED
  BY <1>3, <1>4, <1>6 DEF r, f

(* A pack that returns Ok leaves an archive whose paths are the files of    *)
(* the directory and whose entries extract to the bytes of those files,     *)
(* with a manifest of whatever age or none, whether a payload was rebuilt   *)
(* or copied raw (build_inputs, run_pack and write_file_payload). Not so    *)
(* a file that itself starts with the magic of CriLAYLA, nor raw bytes      *)
(* packed under another --p5r than they were unpacked with.                 *)
THEOREM PackIsTheDirectory == Spec => []PackedIsDirectory
<1>1. CliInv => PackedIsDirectory
  <2> SUFFICES ASSUME CliInv, PackOk PROVE PackedIsDirectory
    BY DEF PackedIsDirectory
  <2> DEFINE rows == arch[cmd.out].rows
             plain == \A i \in DOMAIN cmd.inputs : cmd.inputs[i].at = 0
  <2>1. /\ Current(cmd, disk, arch) /\ RowsOf(cmd, disk[ManifestPath], arch[cmd.out])
    BY PackedFacts
  <2>2. DOMAIN rows = DOMAIN cmd.inputs /\ \A i \in DOMAIN rows : rows[i].path = cmd.inputs[i].path
    BY <2>1 DEF RowsOf, Filled
  <2>3. {rows[i].path : i \in DOMAIN rows} = Packable(disk)
    BY <2>1, <2>2 DEF Current
  <2>4. ASSUME plain \/ cmd.p5r = Manifest.p5r, NEW i \in DOMAIN rows,
               ~is_compressed(disk[rows[i].path])
        PROVE  Extract(rows[i].packed, rows[i].user, cmd.p5r) = disk[rows[i].path]
    BY <2>2, <2>4, PackedExtracts, ZenonT(30)
  <2>5. QED
    BY <2>3, <2>4 DEF PackedIsDirectory
<1>2. QED
  BY <1>1, AlwaysCli, PTL

(* An archive unpacked and packed again with the same --p5r and no edit     *)
(* between has every entry of the first under its id and path, with the     *)
(* bytes it extracted to: run_unpack, Manifest::write, build_inputs and     *)
(* run_pack together. It is so for every archive whose entries have paths   *)
(* of their own, none that of the temporary manifest, and whose files do    *)
(* not start with the magic of CriLAYLA.                                    *)
THEOREM UnpackedComesBack == Spec => []RoundTrip
<1>1. CliInv => RoundTrip
  <2> SUFFICES ASSUME CliInv, Unedited, Ordinary(Manifest)
               PROVE  SameEntries(Manifest.sum, arch[cmd.out], cmd.p5r)
    BY DEF RoundTrip
  <2> DEFINE m == Manifest
             new == arch[cmd.out]
             file == disk[ManifestPath]
  <2>1. PackOk /\ unpacked = edits /\ cmd.p5r = m.p5r
    BY DEF Unedited
  <2>2. file # <<>> /\ AllRestored(disk, m) /\ GoodManifest(m)
    BY <2>1 DEF CliInv, CountInv, DiskInv, GoodFiles, Manifest
  <2>3. IsPack(cmd, file) /\ Current(cmd, disk, arch) /\ RowsOf(cmd, file, new) /\ GoodArchive(new)
    BY <2>1, PackedFacts
  <2>4. new.mode = m.sum.mode
    BY <2>2, <2>3, ManifestFacts DEF IsPack, RowsOf, Manifest
  <2> HIDE DEF m, file
  <2>5. ASSUME NEW i \in DOMAIN Listing(m.sum)
        PROVE  \E j \in DOMAIN Listing(new) :
                    LET e == Listing(m.sum)[i]
                        f == Listing(new)[j]
                    IN  /\ e.id = f.id /\ e.path = f.path
                        /\ Extract(m.sum.rows[e.at].packed, e.user, cmd.p5r)
                            = Extract(new.rows[f.at].packed, f.user, cmd.p5r)
    <3> DEFINE e == Listing(m.sum)[i]
               n == m.entries[i]
    <3>1. /\ GoodArchive(m.sum) /\ i \in DOMAIN m.entries /\ n = EntryOf(m.sum, i, m.p5r)
          /\ Good(n.extracted)
      BY <2>2, ManifestFacts
    <3>2. /\ n.path = e.path /\ n.id = e.id /\ n.user = e.user
          /\ n.extracted = Extracted(m.sum, i, m.p5r)
      BY <3>1 DEF EntryOf
    <3>3. Apart(m.sum, i) /\ ~is_compressed(n.extracted)
      <4>1. /\ n.path # TmpPath /\ ~is_compressed(n.extracted)
            /\ \A j \in DOMAIN m.entries : i # j => n.path # m.entries[j].path
        BY <3>1 DEF Ordinary, m
      <4>2. \A j \in DOMAIN Listing(m.sum) :
                j \in DOMAIN m.entries /\ m.entries[j].path = Listing(m.sum)[j].path
        <5> SUFFICES ASSUME NEW j \in DOMAIN Listing(m.sum)
                     PROVE  j \in DOMAIN m.entries /\ m.entries[j].path = Listing(m.sum)[j].path
          OBVIOUS
        <5>1. j \in DOMAIN m.entries
          BY <2>2, ManifestFacts
        <5>2. m.entries[j] = EntryOf(m.sum, j, m.p5r)
          BY <2>2, <5>1, ManifestFacts
        <5>3. QED
          BY <5>1, <5>2 DEF EntryOf
      <4>3. QED
        BY <3>2, <4>1, <4>2 DEF Apart
    <3>4. disk[n.path] = n.extracted
      BY <2>2, <3>2, <3>3 DEF AllRestored, Restored
    <3>5. Covered(cmd.inputs, n)
      <4>1. disk[n.path] # <<>>
        BY <3>1, <3>4, NotEmpty
      <4>2. QED
        BY <2>2, <2>3, <3>1, <4>1, ZenonT(30) DEF Current, file, m, Manifest
    <3>6. PICK k \in DOMAIN cmd.inputs :
              cmd.inputs[k].path = n.path /\ cmd.inputs[k].id = n.id /\ cmd.inputs[k].user = n.user
      BY <3>5 DEF Covered
    <3> DEFINE r == new.rows[k]
    <3>7. k \in DOMAIN new.rows /\ r.path = n.path /\ r.id = n.id /\ r.user = n.user
      BY <2>3, <3>6 DEF RowsOf, Filled
    <3>8. Extract(r.packed, r.user, cmd.p5r) = n.extracted
      <4>1. cmd.p5r = Manifest.p5r /\ ~is_compressed(disk[r.path])
        BY <2>1, <3>3, <3>4, <3>7 DEF m
      <4>2. Extract(r.packed, r.user, cmd.p5r) = disk[r.path]
        BY <2>1, <3>7, <4>1, PackedExtracts, ZenonT(30)
      <4>3. QED
        BY <3>4, <3>7, <4>2
    <3>9. PICK j \in DOMAIN Listing(new) : Listing(new)[j].at = k
      BY <2>3, <3>7, ListingFacts, ZenonT(30)
    <3> DEFINE f == Listing(new)[j]
    <3>10. /\ r.id # -1 => f.id = r.id
           /\ IF has_toc(new.mode) THEN f.path = r.path /\ f.user = r.user
              ELSE f.path = IdPath(r.id) /\ f.user = ""
      BY <2>3, <3>9, ListingFacts, ZenonT(30)
    <3> DEFINE s == m.sum.rows[e.at]
    <3>11. /\ e.id \in 0 .. U32Max /\ e.at \in DOMAIN m.sum.rows
           /\ s.id # -1 => e.id = s.id
           /\ IF has_toc(m.sum.mode) THEN e.path = s.path /\ e.user = s.user
              ELSE e.path = IdPath(s.id) /\ e.user = ""
      BY <3>1, ListingFacts, ZenonT(30)
    <3>0. \A id \in 0 .. U32Max : id # -1
      BY CliAssumption
    <3>12. r.id # -1
      <4>1. r.id \in 0 .. U32Max
        BY <3>2, <3>7, <3>11, ZenonT(30)
      <4> HIDE DEF r
      <4>2. QED
        BY <3>0, <4>1
    <3>13. ~has_toc(m.sum.mode) => s.id # -1
      <4>1. ~has_toc(m.sum.mode) => s.id \in 0 .. U32Max
        BY <3>1, <3>11, ZenonT(30) DEF GoodArchive
      <4> HIDE DEF s
      <4>2. QED
        BY <3>0, <4>1
    <3> HIDE DEF e, n, f, r, s
    <3>14. f.id = e.id
      BY <3>2, <3>7, <3>10, <3>12, ZenonT(30)
    <3>15. f.path = e.path /\ f.user = e.user
      BY <2>4, <3>2, <3>7, <3>10, <3>11, <3>13, <3>12, ZenonT(30)
    <3>16. Extract(m.sum.rows[e.at].packed, e.user, cmd.p5r) = n.extracted
      BY <2>1, <3>2 DEF Extracted, e
    <3>17. Extract(new.rows[f.at].packed, f.user, cmd.p5r) = n.extracted
      BY <3>2, <3>7, <3>8, <3>9, <3>15 DEF f, r
    <3>18. QED
      BY <3>9, <3>14, <3>15, <3>16, <3>17, SMTT(30) DEF e, f
  <2>6. QED
    BY <2>5 DEF SameEntries, m
<1>2. QED
  BY <1>1, AlwaysCli, PTL

-----------------------------------------------------------------------------
(* How the manifest on disk is replaced.                                    *)

Whole(p) == disk[p] # <<>> /\ disk[p][1] = "manifest"

(* An unpack that is past its entries: the temporary manifest is complete   *)
(* before the old one goes.  Only an unpack replaces the manifest, and it   *)
(* is during an unpack that the user edits nothing.                         *)
Replacing == cmd.at \in {"fill", "remove", "rename"}

ReplaceInv ==
    /\ DOMAIN disk = Paths
    /\ {"op", "at"} \subseteq DOMAIN cmd
    /\ cmd.at = "extract" \/ Replacing => cmd.op = "unpack"
    /\ cmd.at \in {"remove", "rename"} => Whole(TmpPath)
    /\ disk[ManifestPath] = <<>> \/ Whole(ManifestPath)

(* What a step may do to the file under the name of the manifest.           *)
ReplacedWhole ==
    disk'[ManifestPath] # disk[ManifestPath] =>
        IF disk'[ManifestPath] = <<>> THEN disk'[TmpPath][1] = "manifest"
        ELSE disk'[ManifestPath][1] = "manifest"

(* There is no manifest at first.                                           *)
LEMMA InitReplace == Init => ReplaceInv
BY Names DEF Init, ReplaceInv, Replacing

(* A step that leaves the directory alone and starts no replacement.        *)
LEMMA DiskKept ==
    ASSUME ReplaceInv, UNCHANGED disk, {"op", "at"} \subseteq DOMAIN cmd',
           cmd'.at \notin {"fill", "remove", "rename"},
           cmd'.at = "extract" => cmd'.op = "unpack"
    PROVE  ReplaceInv' /\ ReplacedWhole
BY DEF ReplaceInv, Replacing, ReplacedWhole, Whole

(* The commands up to the temporary manifest.                               *)
LEMMA UnpackReplace ==
    ASSUME ReplaceInv, NEW a \in Archives, NEW p5r \in BOOLEAN, Unpack(a, p5r)
    PROVE  ReplaceInv' /\ ReplacedWhole
<1>1. UNCHANGED disk
  BY DEF Unpack
<1>2. \/ cmd' = [op |-> "none", at |-> "failed"]
      \/ cmd' = [op |-> "unpack", source |-> a, sum |-> arch[a], p5r |-> p5r, k |-> 1,
                 at |-> "extract"]
  BY DEF Unpack, Exit
<1>3. QED
  BY <1>1, <1>2, DiskKept

(* An entry is written: never to the name of the manifest.                  *)
LEMMA ExtractReplace ==
    ASSUME ReplaceInv, ExtractNext
    PROVE  ReplaceInv' /\ ReplacedWhole
<1> DEFINE e == Listing(cmd.sum)[cmd.k]
           bytes == Extract(cmd.sum.rows[e.at].packed, e.user, cmd.p5r)
<1>1. cmd.at = "extract" /\ cmd.op = "unpack"
  BY DEF ExtractNext, ReplaceInv
<1>2. CASE Exit("failed") /\ UNCHANGED disk
  BY <1>2, DiskKept DEF Exit
<1>3. CASE /\ e.path # ManifestPath /\ Put(e.path, bytes)
           /\ cmd' = [cmd EXCEPT !.k = @ + 1]
  <2>1. disk'[ManifestPath] = disk[ManifestPath] /\ DOMAIN disk' = Paths
    BY <1>3, Names DEF ReplaceInv, Put
  <2>2. {"op", "at"} \subseteq DOMAIN cmd' /\ cmd'.at = "extract" /\ cmd'.op = "unpack"
    BY <1>1, <1>3 DEF ReplaceInv
  <2>3. QED
    BY <2>1, <2>2 DEF ReplaceInv, Replacing, ReplacedWhole, Whole
<1>4. QED
  BY <1>2, <1>3, SMTT(30) DEF ExtractNext

(* The temporary file is created and filled; the manifest stays.            *)
LEMMA TmpReplace ==
    ASSUME ReplaceInv, CreateTmp \/ FillTmp
    PROVE  ReplaceInv' /\ ReplacedWhole
<1>1. /\ cmd.op = "unpack" /\ cmd.at \in {"extract", "fill"}
      /\ cmd' = [cmd EXCEPT !.at = IF cmd.at = "extract" THEN "fill" ELSE "remove"]
  BY DEF CreateTmp, FillTmp, Goto, ReplaceInv, Replacing
<1>2. /\ {"op", "at"} \subseteq DOMAIN cmd' /\ cmd'.op = "unpack"
      /\ cmd'.at = IF cmd.at = "extract" THEN "fill" ELSE "remove"
  BY <1>1 DEF ReplaceInv
<1>3. /\ disk'[ManifestPath] = disk[ManifestPath] /\ DOMAIN disk' = Paths
      /\ cmd.at = "fill" => disk'[TmpPath] = <<"manifest", ManifestOf(cmd)>>
  BY Names DEF CreateTmp, FillTmp, Put, ReplaceInv
<1>4. cmd.at = "fill" => disk'[TmpPath] # <<>> /\ disk'[TmpPath][1] = "manifest"
  <2>1. <<"manifest", ManifestOf(cmd)>> # <<>> /\ <<"manifest", ManifestOf(cmd)>>[1] = "manifest"
    OBVIOUS
  <2>2. QED
    BY <1>3, <2>1
<1>5. QED
  BY <1>1, <1>2, <1>3, <1>4 DEF ReplaceInv, Replacing, ReplacedWhole, Whole

(* The old manifest goes, and the new one takes its name.                   *)
LEMMA RemoveReplace ==
    ASSUME ReplaceInv, RemoveManifest
    PROVE  ReplaceInv' /\ ReplacedWhole
<1>1. cmd.at = "remove" /\ cmd.op = "unpack" /\ cmd' = [cmd EXCEPT !.at = "rename"]
  BY DEF RemoveManifest, Goto, ReplaceInv, Replacing
<1>2. {"op", "at"} \subseteq DOMAIN cmd' /\ cmd'.op = "unpack" /\ cmd'.at = "rename"
  BY <1>1 DEF ReplaceInv
<1>3. /\ disk'[ManifestPath] = <<>> /\ DOMAIN disk' = Paths
      /\ disk'[TmpPath] = disk[TmpPath]
  BY Names DEF RemoveManifest, Put, ReplaceInv
<1>4. Whole(TmpPath)
  BY <1>1 DEF ReplaceInv
<1>5. QED
  BY <1>2, <1>3, <1>4 DEF ReplaceInv, Replacing, ReplacedWhole, Whole

(* The complete temporary file takes the name.                              *)
LEMMA RenameReplace ==
    ASSUME ReplaceInv, RenameTmp
    PROVE  ReplaceInv' /\ ReplacedWhole
<1>1. cmd.at = "rename" /\ cmd' = [op |-> "none", at |-> "ok"]
  BY DEF RenameTmp, Exit
<1>2. disk'[ManifestPath] = disk[TmpPath] /\ DOMAIN disk' = Paths
  BY Names DEF RenameTmp, ReplaceInv
<1>3. Whole(TmpPath)
  BY <1>1 DEF ReplaceInv
<1>4. {"op", "at"} \subseteq DOMAIN cmd' /\ cmd'.at = "ok"
  BY <1>1
<1>5. disk'[ManifestPath] # <<>> /\ disk'[ManifestPath][1] = "manifest"
  BY <1>2, <1>3 DEF Whole
<1>6. QED
  BY <1>2, <1>4, <1>5 DEF ReplaceInv, Replacing, ReplacedWhole, Whole

(* A pack reads the directory and never writes to it.                       *)
LEMMA PackReplace ==
    ASSUME ReplaceInv,
           \/ \E out \in Archives, reuse, p5r \in BOOLEAN :
                PackDirectory(out, reuse, p5r) \/ PackManifest(out, reuse, p5r)
           \/ CreateOutput \/ WriteIndex \/ CopyNext \/ FinishPack
    PROVE  ReplaceInv' /\ ReplacedWhole
<1>1. UNCHANGED disk
  BY DEF PackDirectory, PackManifest, CreateOutput, WriteIndex, CopyNext, FinishPack
<1>2. {"op", "at"} \subseteq DOMAIN cmd
  BY DEF ReplaceInv
<1>3. CASE \E out \in Archives, reuse, p5r \in BOOLEAN :
            PackDirectory(out, reuse, p5r) \/ PackManifest(out, reuse, p5r)
  <2>1. \/ Exit("failed")
        \/ \E out, inputs, mode, p5r, source : Packing(out, inputs, mode, p5r, source)
    BY <1>3 DEF PackDirectory, PackManifest
  <2>2. {"op", "at"} \subseteq DOMAIN cmd' /\ cmd'.at \in {"failed", "create"}
    BY <2>1 DEF Exit, Packing
  <2>3. QED
    BY <1>1, <2>2, DiskKept
<1>4. CASE CreateOutput \/ WriteIndex \/ CopyNext \/ FinishPack
  <2>1. \/ cmd' = [op |-> "none", at |-> "failed"]
        \/ cmd' = cmd /\ cmd.at = "copy"
        \/ \E label \in {"index", "copy", "ok"} : cmd' = [cmd EXCEPT !.at = label]
    BY <1>4 DEF CreateOutput, WriteIndex, CopyNext, FinishPack, Goto, Exit
  <2>2. {"op", "at"} \subseteq DOMAIN cmd' /\ cmd'.at \in {"failed", "index", "copy", "ok"}
    BY <1>2, <2>1
  <2>3. QED
    BY <1>1, <2>2, DiskKept
<1>5. QED
  BY <1>3, <1>4

(* A kill leaves what is on disk; the user edits other files, and not while *)
(* an unpack is running.                                                    *)
LEMMA EnvironmentReplace ==
    ASSUME ReplaceInv,
           \/ Kill
           \/ \E p \in UserPaths, bytes \in UserBytes : EditFile(p, bytes)
           \/ \E a \in Archives, o \in Originals : SwapArchive(a, o)
    PROVE  ReplaceInv' /\ ReplacedWhole
<1>1. CASE Kill
  BY <1>1, DiskKept DEF Kill, Exit
<1>2. ASSUME NEW p \in UserPaths, NEW bytes \in UserBytes, EditFile(p, bytes)
      PROVE  ReplaceInv' /\ ReplacedWhole
  <2>1. /\ cmd' = cmd /\ DOMAIN disk' = Paths
        /\ disk'[ManifestPath] = disk[ManifestPath]
    BY <1>2, Names, CliAssumption DEF EditFile, Put, ReplaceInv
  <2>2. ~Replacing
    BY <1>2 DEF EditFile, Done, ReplaceInv, Replacing
  <2>3. QED
    BY <2>1, <2>2 DEF ReplaceInv, Replacing, ReplacedWhole, Whole
<1>3. ASSUME NEW a \in Archives, NEW o \in Originals, SwapArchive(a, o)
      PROVE  ReplaceInv' /\ ReplacedWhole
  BY <1>3, DiskKept DEF SwapArchive, Done, ReplaceInv
<1>4. QED
  BY <1>1, <1>2, <1>3

(* Each step replaces the manifest as a whole or leaves it.                 *)
LEMMA NextReplace ==
    ASSUME ReplaceInv, [Next]_vars
    PROVE  ReplaceInv' /\ [ReplacedWhole]_vars
<1>1. CASE UNCHANGED vars
  BY <1>1 DEF ReplaceInv, Replacing, Whole, vars
<1>2. CASE \E a \in Archives, p5r \in BOOLEAN : Unpack(a, p5r)
  BY <1>2, UnpackReplace
<1>3. CASE ExtractNext
  BY <1>3, ExtractReplace
<1>4. CASE CreateTmp \/ FillTmp
  BY <1>4, TmpReplace
<1>5. CASE RemoveManifest \/ RenameTmp
  BY <1>5, RemoveReplace, RenameReplace
<1>6. CASE \/ \E out \in Archives, reuse, p5r \in BOOLEAN :
                PackDirectory(out, reuse, p5r) \/ PackManifest(out, reuse, p5r)
           \/ CreateOutput \/ WriteIndex \/ CopyNext \/ FinishPack
  BY <1>6, PackReplace
<1>7. CASE \/ Kill
           \/ \E p \in UserPaths, bytes \in UserBytes : EditFile(p, bytes)
           \/ \E a \in Archives, o \in Originals : SwapArchive(a, o)
  BY <1>7, EnvironmentReplace
<1>8. QED
  BY <1>1, <1>2, <1>3, <1>4, <1>5, <1>6, <1>7 DEF Next

(* Manifest::write replaces the manifest as a whole, for every archive and  *)
(* directory and whatever is killed when: under its name there is nothing   *)
(* or a complete manifest, and the old one goes only when the complete new  *)
(* one is on disk.                                                          *)
THEOREM ManifestIsWhole ==
    Spec => /\ ManifestReplacedWhole
            /\ [](disk[ManifestPath] = <<>> \/ Whole(ManifestPath))
<1>1. Init => ReplaceInv
  BY InitReplace
<1>2. ReplaceInv /\ [Next]_vars => ReplaceInv' /\ [ReplacedWhole]_vars
  BY NextReplace
<1>3. ReplaceInv => disk[ManifestPath] = <<>> \/ Whole(ManifestPath)
  BY DEF ReplaceInv
<1>4. Spec => [][ReplacedWhole]_vars /\ [](disk[ManifestPath] = <<>> \/ Whole(ManifestPath))
  BY <1>1, <1>2, <1>3, PTL DEF Spec
<1>5. QED
  BY <1>4 DEF ManifestReplacedWhole, ReplacedWhole
=============================================================================
