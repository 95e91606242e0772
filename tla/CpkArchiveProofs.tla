-------------------------- MODULE CpkArchiveProofs --------------------------
(***************************************************************************)
(* Proofs about CpkWriter and CpkArchive, for every set of calls, every    *)
(* length of file lists and tables, every size, every behaviour of the     *)
(* sources, and archives of any tool: what the writer leaves on the disk,  *)
(* and what the reader lists and reads of it.                              *)
(*                                                                         *)
(* ArchiveInv is what is known of any archive: its tables are parsed       *)
(* tables, and a listing is what the reader makes of them.  From it follow *)
(* that no row is dropped and that the reader's running sum over the rows, *)
(* merged by id, is the engine's sum of two prefixes.  FileInv adds what   *)
(* the bytes of the writer's own archives are: which tables are written,   *)
(* and that every place the stream has been past holds its payload, whole. *)
(***************************************************************************)
EXTENDS CpkArchive, SelectionProofs, SequenceTheorems

-----------------------------------------------------------------------------
(* Lemmas on the arithmetic.                                                *)

(* The bits of a number, one power of two after the other.                  *)
LEMMA BitsOf ==
    ASSUME NEW x \in Nat
    PROVE  \A p \in PowersOfTwo :
              /\ Bit(x, p) \in {0, 1} /\ x \div p \in Nat /\ x \div (2 * p) \in Nat
              /\ p * Bit(x, p) = p * (x \div p) - 2 * p * (x \div (2 * p))
<1> SUFFICES ASSUME NEW p \in PowersOfTwo
             PROVE  /\ Bit(x, p) \in {0, 1} /\ x \div p \in Nat /\ x \div (2 * p) \in Nat
                    /\ p * Bit(x, p) = p * (x \div p) - 2 * p * (x \div (2 * p))
  OBVIOUS
<1>1. CASE p = 1
  BY <1>1 DEF Bit
<1>2. CASE p = 2
  BY <1>2 DEF Bit
<1>3. CASE p = 4
  BY <1>3 DEF Bit
<1>4. CASE p = 8
  BY <1>4 DEF Bit
<1>5. CASE p = 16
  BY <1>5 DEF Bit
<1>6. CASE p = 32
  BY <1>6 DEF Bit
<1>7. CASE p = 64
  BY <1>7 DEF Bit
<1>8. CASE p = 128
  BY <1>8 DEF Bit
<1>9. CASE p = 256
  BY <1>9 DEF Bit
<1>10. CASE p = 512
  BY <1>10 DEF Bit
<1>11. CASE p = 1024
  BY <1>11 DEF Bit
<1>12. CASE p = 2048
  BY <1>12 DEF Bit
<1>13. CASE p = 4096
  BY <1>13 DEF Bit
<1>14. CASE p = 8192
  BY <1>14 DEF Bit
<1>15. CASE p = 16384
  BY <1>15 DEF Bit
<1>16. CASE p = 32768
  BY <1>16 DEF Bit
<1>17. QED
  BY <1>1, <1>2, <1>3, <1>4, <1>5, <1>6, <1>7, <1>8, <1>9, <1>10, <1>11, <1>12, <1>13, <1>14, <1>15, <1>16 DEF PowersOfTwo

(* value & !mask, when the mask has the bits below a power of two: what is   *)
(* left is the multiple of that power of two.                               *)
LEMMA AndNotRoundsDown ==
    ASSUME NEW x \in Nat, NEW a \in PowersOfTwo
    PROVE  AndNot(a - 1)[x] = a * (x \div a)
<1>1. AndNot(a - 1)[x] = x - (1 * Bit(x, 1) * Bit(a - 1, 1) + 2 * Bit(x, 2) * Bit(a - 1, 2)
          + 4 * Bit(x, 4) * Bit(a - 1, 4) + 8 * Bit(x, 8) * Bit(a - 1, 8)
          + 16 * Bit(x, 16) * Bit(a - 1, 16) + 32 * Bit(x, 32) * Bit(a - 1, 32)
          + 64 * Bit(x, 64) * Bit(a - 1, 64) + 128 * Bit(x, 128) * Bit(a - 1, 128)
          + 256 * Bit(x, 256) * Bit(a - 1, 256) + 512 * Bit(x, 512) * Bit(a - 1, 512)
          + 1024 * Bit(x, 1024) * Bit(a - 1, 1024) + 2048 * Bit(x, 2048) * Bit(a - 1, 2048)
          + 4096 * Bit(x, 4096) * Bit(a - 1, 4096) + 8192 * Bit(x, 8192) * Bit(a - 1, 8192)
          + 16384 * Bit(x, 16384) * Bit(a - 1, 16384) + 32768 * Bit(x, 32768) * Bit(a - 1, 32768))
  <2>1. a - 1 \in Nat
    BY DEF PowersOfTwo
  <2>2. QED
    BY <2>1 DEF AndNot
<1>2. \A p \in PowersOfTwo :
         /\ Bit(x, p) \in {0, 1} /\ x \div p \in Nat /\ x \div (2 * p) \in Nat
         /\ p * Bit(x, p) = p * (x \div p) - 2 * p * (x \div (2 * p))
  BY BitsOf
<1>3. CASE a = 1
  BY <1>1, <1>2, <1>3 DEF Bit, PowersOfTwo
<1>4. CASE a = 2
  BY <1>1, <1>2, <1>4 DEF Bit, PowersOfTwo
<1>5. CASE a = 4
  BY <1>1, <1>2, <1>5 DEF Bit, PowersOfTwo
<1>6. CASE a = 8
  BY <1>1, <1>2, <1>6 DEF Bit, PowersOfTwo
<1>7. CASE a = 16
  BY <1>1, <1>2, <1>7 DEF Bit, PowersOfTwo
<1>8. CASE a = 32
  BY <1>1, <1>2, <1>8 DEF Bit, PowersOfTwo
<1>9. CASE a = 64
  BY <1>1, <1>2, <1>9 DEF Bit, PowersOfTwo
<1>10. CASE a = 128
  BY <1>1, <1>2, <1>10 DEF Bit, PowersOfTwo
<1>11. CASE a = 256
  BY <1>1, <1>2, <1>11 DEF Bit, PowersOfTwo
<1>12. CASE a = 512
  BY <1>1, <1>2, <1>12 DEF Bit, PowersOfTwo
<1>13. CASE a = 1024
  BY <1>1, <1>2, <1>13 DEF Bit, PowersOfTwo
<1>14. CASE a = 2048
  BY <1>1, <1>2, <1>14 DEF Bit, PowersOfTwo
<1>15. CASE a = 4096
  BY <1>1, <1>2, <1>15 DEF Bit, PowersOfTwo
<1>16. CASE a = 8192
  BY <1>1, <1>2, <1>16 DEF Bit, PowersOfTwo
<1>17. CASE a = 16384
  BY <1>1, <1>2, <1>17 DEF Bit, PowersOfTwo
<1>18. CASE a = 32768
  BY <1>1, <1>2, <1>18 DEF Bit, PowersOfTwo
<1>19. QED
  BY <1>3, <1>4, <1>5, <1>6, <1>7, <1>8, <1>9, <1>10, <1>11, <1>12, <1>13, <1>14, <1>15, <1>16, <1>17, <1>18 DEF PowersOfTwo

(* align_up is the least multiple of a power of two that is not less.        *)
LEMMA AlignUpIsMultiple ==
    ASSUME NEW v \in Nat, NEW a \in PowersOfTwo
    PROVE  align_up(v, a) = a * ((v + a - 1) \div a)
<1>1. v + a - 1 \in Nat
  BY DEF PowersOfTwo
<1>2. QED
  BY <1>1, AndNotRoundsDown DEF align_up

(* align_up gives the next multiple of a power of two.                      *)
LEMMA AlignUp ==
    ASSUME NEW v \in Nat, NEW a \in PowersOfTwo
    PROVE  /\ align_up(v, a) \in Nat
           /\ align_up(v, a) >= v
           /\ align_up(v, a) < v + a
           /\ align_up(v, a) % a = 0
<1>1. align_up(v, a) = a * ((v + a - 1) \div a)
  BY AlignUpIsMultiple
<1>2. QED
  BY <1>1 DEF PowersOfTwo

(* What the assumption on the calls says of a job and of its files.         *)
LEMMA JobFacts ==
    ASSUME job \in Jobs
    PROVE  /\ Len(files) \in Nat
           /\ \A i \in Files : /\ files[i].size \in Nat /\ files[i].rawsize \in Nat
                               /\ files[i].has \in Nat \cup {-1}
                               /\ files[i].id \in Nat
           /\ toc_table_len(files) \in Nat
           /\ itoc_table_len(files, job.direct) \in Nat
           /\ header_table_len(job) \in Nat
           /\ job.mode \in {"Toc", "Itoc", "TocAndItoc"}
           /\ job.entry \in {"directory", "files"}
           /\ alignment \in Nat
<1>1. /\ files \in Seq(InputFiles)
      /\ toc_table_len(files) \in Nat
      /\ itoc_table_len(files, job.direct) \in Nat
      /\ header_table_len(job) \in Nat
      /\ job.mode \in {"Toc", "Itoc", "TocAndItoc"}
      /\ job.entry \in {"directory", "files"}
      /\ alignment \in Nat
  BY WriterAssumption DEF files, alignment
<1>2. Len(files) \in Nat
  BY <1>1
<1>3. \A i \in Files : files[i] \in InputFiles
  BY <1>1 DEF Files
<1>4. ASSUME NEW f \in InputFiles
      PROVE  f.size \in Nat /\ f.rawsize \in Nat /\ f.has \in Nat \cup {-1} /\ f.id \in Nat
  BY DEF InputFiles
<1>5. QED
  BY <1>1, <1>2, <1>3, <1>4

(* The layout of the index chunks: the content starts after them.           *)
LEMMA LayoutFacts ==
    ASSUME job \in Jobs, ValidAlignment(alignment)
    PROVE  /\ TocEnd \in Nat /\ ItocEnd \in Nat /\ ContentOffset \in Nat
           /\ toc_chunk_len \in Nat /\ itoc_chunk_len \in Nat
           /\ IndexBase <= TocEnd /\ TocEnd <= ItocEnd /\ ItocEnd <= ContentOffset
           /\ has_toc(job.mode) => IndexBase + toc_chunk_len <= TocEnd
           /\ has_itoc(job.mode) => TocEnd + itoc_chunk_len <= ItocEnd
           /\ ContentOffset % alignment = 0
<1>1. alignment \in PowersOfTwo
  BY DEF ValidAlignment
<1>2. toc_chunk_len \in Nat /\ itoc_chunk_len \in Nat
  BY JobFacts DEF toc_chunk_len, itoc_chunk_len, chunk_size, ChunkHeaderBytes
<1>3. /\ TocEnd \in Nat /\ IndexBase <= TocEnd
      /\ has_toc(job.mode) => IndexBase + toc_chunk_len <= TocEnd
  <2>1. IndexBase + toc_chunk_len \in Nat
    BY <1>2 DEF IndexBase
  <2>2. /\ align_up(IndexBase + toc_chunk_len, alignment) \in Nat
        /\ align_up(IndexBase + toc_chunk_len, alignment) >= IndexBase + toc_chunk_len
    BY <1>1, <2>1, AlignUp
  <2>3. QED
    BY <1>2, <2>2 DEF TocEnd, IndexBase
<1>4. /\ ItocEnd \in Nat /\ TocEnd <= ItocEnd
      /\ has_itoc(job.mode) => TocEnd + itoc_chunk_len <= ItocEnd
  <2>1. TocEnd + itoc_chunk_len \in Nat
    BY <1>2, <1>3
  <2>2. /\ align_up(TocEnd + itoc_chunk_len, alignment) \in Nat
        /\ align_up(TocEnd + itoc_chunk_len, alignment) >= TocEnd + itoc_chunk_len
    BY <1>1, <2>1, AlignUp
  <2>3. QED
    BY <1>2, <1>3, <2>2 DEF ItocEnd
<1>5. /\ ContentOffset \in Nat /\ ItocEnd <= ContentOffset
      /\ ContentOffset % alignment = 0
  BY <1>1, <1>4, AlignUp DEF ContentOffset
<1>6. QED
  BY <1>2, <1>3, <1>4, <1>5

-----------------------------------------------------------------------------
(* The plan.  The invariant says what is known of the order, the offsets    *)
(* and the cursor at each point of the call.                                *)

Writing == {"header", "toc", "itoc", "content", "payload", "copied", "ok"}

PlanTypes ==
    /\ job \in Jobs /\ pc \in Labels
    /\ lay \in [toc : Nat, itoc : Nat, content : Nat, size : Nat]
    /\ k \in Nat /\ cursor \in Nat

(* After the checks: the alignment is valid, the order a permutation.       *)
OrderInv ==
    pc \in {"layout", "plan"} \cup Writing =>
        /\ ValidAlignment(alignment)
        /\ order \in [Files -> Files]
        /\ \A i, j \in Files : i # j => order[i] # order[j]
        /\ \A i \in Files : \E j \in Files : order[j] = i

LayInv ==
    pc \in {"plan"} \cup Writing =>
        /\ lay.toc = (IF has_toc(job.mode) THEN IndexBase ELSE 0)
        /\ lay.itoc = (IF has_itoc(job.mode) THEN TocEnd ELSE 0)
        /\ lay.content = ContentOffset
        /\ lay.content <= cursor
        /\ off \in [Files -> Nat]

LoopInv == pc = "plan" => k \in 1 .. Len(files) + 1

SizeInv == pc \in Writing => lay.size = cursor

PlanInv == PlanTypes /\ OrderInv /\ LayInv /\ LoopInv /\ SizeInv /\ PlanIsDisjoint

(* The call begins with nothing planned.                                    *)
LEMMA InitPlan == Init => PlanInv
<1> SUFFICES ASSUME Init PROVE PlanInv
  OBVIOUS
<1>1. job \in Jobs /\ pc \in {"directory", "files"}
  BY JobFacts DEF Init
<1>2. PlanTypes
  BY <1>1 DEF Init, PlanTypes, Labels
<1>3. QED
  BY <1>1, <1>2 DEF PlanInv, OrderInv, LayInv, LoopInv, SizeInv, PlanIsDisjoint, Planning, Writing

(* Before the layout nothing is claimed; an end by error claims nothing.    *)
LEMMA EarlySteps ==
    ASSUME PlanInv, job' = job, PlanTypes',
           pc' \in {"directory", "files", "validate", "failed", "killed"}
    PROVE  PlanInv'
BY DEF PlanInv, OrderInv, LayInv, LoopInv, SizeInv, PlanIsDisjoint, Planning, Writing

(* build_physical_order yields a permutation: ids are distinct.             *)
LEMMA ValidatePlan ==
    ASSUME PlanInv, Validate
    PROVE  PlanInv'
<1>1. PlanTypes'
  BY DEF PlanInv, PlanTypes, Validate, Fail, Goto, Labels
<1>2. job' = job
  BY DEF Validate
<1>3. CASE pc' = "failed"
  BY <1>1, <1>2, <1>3, EarlySteps
<1>4. CASE pc' # "failed"
  <2>1. /\ pc' = "layout" /\ ValidAlignment(alignment)
        /\ order' \in PhysicalOrders
    BY <1>4 DEF Validate, Fail, Goto
  <2>2. Len(files) \in Nat /\ \A i \in Files : files[i].id \in Nat
    BY JobFacts DEF PlanInv, PlanTypes
  <2>3. /\ order' \in [Files -> Files]
        /\ \A i, j \in Files : i # j => order'[i] # order'[j]
        /\ \A i \in Files : \E j \in Files : order'[j] = i
    <3>1. CASE has_itoc(job.mode)
      <4>1. /\ order' \in [Files -> Files]
            /\ \A i \in Files : \E j \in Files : order'[j] = i
            /\ \A i, j \in Files : i < j => files[order'[i]].id < files[order'[j]].id
        BY <2>1, <3>1 DEF PhysicalOrders, Rearrangements
      <4>2. ASSUME NEW i \in Files, NEW j \in Files, i < j
            PROVE  order'[i] # order'[j]
        <5>1. /\ files[order'[i]].id < files[order'[j]].id
              /\ order'[i] \in Files
          BY <4>1, <4>2
        <5>2. files[order'[i]].id \in Nat
          BY <2>2, <5>1
        <5>3. ~(files[order'[i]].id < files[order'[i]].id)
          BY <5>2
        <5>4. QED
          BY <5>1, <5>3
      <4>3. \A i, j \in Files : i # j => i < j \/ j < i
        BY <2>2 DEF Files
      <4>4. QED
        BY <4>1, <4>2, <4>3
    <3>2. CASE ~has_itoc(job.mode)
      BY <2>1, <3>2 DEF PhysicalOrders
    <3>3. QED
      BY <3>1, <3>2
  <2>4. OrderInv'
    BY <1>2, <2>1, <2>3 DEF OrderInv, files, Files, alignment
  <2>5. QED
    BY <1>1, <2>1, <2>4 DEF PlanInv, LayInv, LoopInv, SizeInv, PlanIsDisjoint, Planning, Writing
<1>5. QED
  BY <1>3, <1>4

(* The loop starts at the content offset, which is aligned.                 *)
LEMMA LayoutPlan ==
    ASSUME PlanInv, Layout
    PROVE  PlanInv'
<1>1. job' = job /\ order' = order /\ pc = "layout"
  BY DEF Layout
<1>2. job \in Jobs /\ Len(files) \in Nat
  BY JobFacts DEF PlanInv, PlanTypes
<1>3. /\ ValidAlignment(alignment) /\ order \in [Files -> Files]
      /\ \A i, j \in Files : i # j => order[i] # order[j]
      /\ \A i \in Files : \E j \in Files : order[j] = i
  BY <1>1 DEF PlanInv, OrderInv
<1>4. /\ TocEnd \in Nat /\ ContentOffset \in Nat /\ ContentOffset % alignment = 0
  BY <1>2, <1>3, LayoutFacts
<1>5. CASE pc' = "failed"
  <2>1. PlanTypes'
    BY <1>1, <1>5 DEF PlanInv, PlanTypes, Layout, Fail, Goto, Labels
  <2>2. QED
    BY <1>1, <1>5, <2>1, EarlySteps
<1>6. CASE pc' # "failed"
  <2>1. /\ pc' = "plan" /\ k' = 1 /\ cursor' = ContentOffset /\ off' = [i \in Files |-> 0]
        /\ lay' = [toc |-> IF has_toc(job.mode) THEN IndexBase ELSE 0,
                   itoc |-> IF has_itoc(job.mode) THEN TocEnd ELSE 0,
                   content |-> ContentOffset, size |-> 0]
    BY <1>6 DEF Layout, Fail, Goto
  <2>2. /\ lay'.toc = (IF has_toc(job.mode) THEN IndexBase ELSE 0)
        /\ lay'.itoc = (IF has_itoc(job.mode) THEN TocEnd ELSE 0)
        /\ lay'.content = ContentOffset
    BY <2>1
  <2>3. PlanTypes'
    BY <1>1, <1>4, <2>1 DEF PlanInv, PlanTypes, Labels, IndexBase
  <2>4. OrderInv'
    BY <1>1, <1>3 DEF OrderInv, files, Files, alignment
  <2>5. LayInv'
    BY <1>1, <1>4, <2>1, <2>2 DEF LayInv, files, Files, alignment, TocEnd, ItocEnd, ContentOffset,
       toc_chunk_len, itoc_chunk_len
  <2>6. PlanIsDisjoint'
    BY <1>1, <1>4, <2>1 DEF PlanIsDisjoint, Planned, alignment
  <2>7. QED
    BY <1>1, <1>2, <2>1, <2>3, <2>4, <2>5, <2>6 DEF PlanInv, LoopInv, SizeInv, Writing, files
<1>7. QED
  BY <1>5, <1>6

(* One turn of the loop: the new range starts at the cursor, after every    *)
(* earlier one, and the cursor moves past it.                               *)
LEMMA PlanFilePlan ==
    ASSUME PlanInv, PlanFile
    PROVE  PlanInv'
<1> DEFINE i == order[k]
           end == cursor + files[i].size
<1>1. /\ job' = job /\ order' = order /\ lay' = lay /\ pc = "plan"
      /\ k <= Len(files) /\ off' = [off EXCEPT ![i] = cursor]
  BY DEF PlanFile
<1>2. /\ job \in Jobs /\ Len(files) \in Nat /\ k \in 1 .. Len(files) /\ cursor \in Nat
      /\ \A j \in Files : files[j].size \in Nat
  BY <1>1, JobFacts DEF PlanInv, PlanTypes, LoopInv
<1>3. /\ ValidAlignment(alignment) /\ order \in [Files -> Files]
      /\ \A a, b \in Files : a # b => order[a] # order[b]
  BY <1>1 DEF PlanInv, OrderInv
<1>4. /\ off \in [Files -> Nat] /\ lay.content <= cursor /\ lay.content \in Nat
  BY <1>1 DEF PlanInv, LayInv, PlanTypes
<1>5. i \in Files /\ k \in Files /\ end \in Nat
  BY <1>2, <1>3 DEF Files
<1>6. CASE pc' = "failed"
  <2>1. PlanTypes'
    BY <1>1, <1>6 DEF PlanInv, PlanTypes, PlanFile, Fail, Goto, Labels
  <2>2. QED
    BY <1>1, <1>6, <2>1, EarlySteps
<1>7. CASE pc' # "failed"
  <2>1. pc' = "plan" /\ cursor' = align_up(end, alignment) /\ k' = k + 1
    BY <1>7 DEF PlanFile, Fail, Goto
  <2>2. /\ cursor' \in Nat /\ cursor' >= end /\ cursor' >= cursor
        /\ cursor' % alignment = 0
    <3>1. alignment \in PowersOfTwo
      BY <1>3 DEF ValidAlignment
    <3>2. /\ align_up(end, alignment) \in Nat /\ align_up(end, alignment) >= end
          /\ align_up(end, alignment) % alignment = 0
      BY <1>5, <3>1, AlignUp
    <3>3. files[i].size \in Nat
      BY <1>2, <1>5
    <3>4. QED
      BY <1>2, <2>1, <3>2, <3>3
  <2>3. PlanTypes'
    BY <1>1, <1>2, <2>1, <2>2 DEF PlanInv, PlanTypes, Labels
  <2>4. OrderInv'
    BY <1>1 DEF PlanInv, OrderInv, files, Files, alignment
  <2>5. off' \in [Files -> Nat] /\ lay'.content <= cursor'
    BY <1>1, <1>2, <1>4, <1>5, <2>2
  <2>6. LayInv'
    BY <1>1, <2>5 DEF PlanInv, LayInv, files, Files, alignment, TocEnd, ItocEnd, ContentOffset,
       toc_chunk_len, itoc_chunk_len
  <2>7. LoopInv'
    BY <1>1, <1>2, <2>1 DEF LoopInv, files
  <2>8. \A a \in 1 .. k - 1 : /\ a \in Files /\ order[a] \in Files
                             /\ off'[order[a]] = off[order[a]]
    <3> SUFFICES ASSUME NEW a \in 1 .. k - 1
                 PROVE  /\ a \in Files /\ order[a] \in Files
                        /\ off'[order[a]] = off[order[a]]
      OBVIOUS
    <3>1. a \in Files /\ a # k
      BY <1>2 DEF Files
    <3>2. order[a] \in Files /\ order[a] # i
      BY <1>3, <1>5, <3>1
    <3>3. QED
      BY <1>1, <1>4, <3>1, <3>2
  <2>9. off'[i] = cursor
    BY <1>1, <1>4, <1>5
  <2>10. /\ cursor % alignment = 0
         /\ \A a \in 1 .. k - 1 :
            /\ off[order[a]] % alignment = 0
            /\ lay.content <= off[order[a]]
            /\ off[order[a]] + files[order[a]].size <= cursor
            /\ \A b \in a + 1 .. k - 1 :
                off[order[a]] + files[order[a]].size <= off[order[b]]
    BY <1>1 DEF PlanInv, PlanIsDisjoint, Planning, Planned
  <2>11. ASSUME NEW a \in 1 .. k
         PROVE  /\ off'[order[a]] % alignment = 0
                /\ lay.content <= off'[order[a]]
                /\ off'[order[a]] + files[order[a]].size <= cursor'
                /\ \A b \in a + 1 .. k :
                    off'[order[a]] + files[order[a]].size <= off'[order[b]]
    <3>1. CASE a = k
      BY <1>2, <1>4, <2>2, <2>9, <2>10, <3>1
    <3>2. CASE a # k
      <4>1. a \in 1 .. k - 1 /\ a \in Files /\ order[a] \in Files
        BY <1>2, <2>8, <3>2
      <4>2. /\ off'[order[a]] = off[order[a]] /\ off[order[a]] \in Nat
            /\ files[order[a]].size \in Nat
        BY <1>2, <1>4, <2>8, <4>1
      <4>3. off'[order[a]] + files[order[a]].size <= cursor'
        BY <1>2, <2>2, <2>10, <4>1, <4>2
      <4>4. ASSUME NEW b \in a + 1 .. k
            PROVE  off'[order[a]] + files[order[a]].size <= off'[order[b]]
        <5>1. CASE b = k
          BY <2>9, <2>10, <4>1, <4>2, <5>1
        <5>2. CASE b # k
          <6>1. b \in a + 1 .. k - 1 /\ b \in 1 .. k - 1
            BY <1>2, <4>1, <5>2
          <6>2. QED
            BY <2>8, <2>10, <4>1, <4>2, <6>1
        <5>3. QED
          BY <5>1, <5>2
      <4>5. QED
        BY <2>10, <4>1, <4>2, <4>3, <4>4
    <3>3. QED
      BY <3>1, <3>2
  <2>12. k' - 1 = k
    BY <1>2, <2>1
  <2>13. PlanIsDisjoint'
    BY <1>1, <2>1, <2>2, <2>11, <2>12 DEF PlanIsDisjoint, Planning, Planned, files, alignment
  <2>14. QED
    BY <2>1, <2>3, <2>4, <2>6, <2>7, <2>13 DEF PlanInv, SizeInv, Writing
<1>8. QED
  BY <1>6, <1>7

(* The cursor after the loop is the archive size; from here on the plan is  *)
(* only read.                                                               *)
LEMMA BuildHeaderPlan ==
    ASSUME PlanInv, BuildHeader
    PROVE  PlanInv'
<1>1. /\ job' = job /\ order' = order /\ off' = off /\ k' = k /\ cursor' = cursor
      /\ pc = "plan" /\ k > Len(files) /\ lay' = [lay EXCEPT !.size = cursor]
      /\ pc' \in {"failed", "header"}
  BY DEF BuildHeader, Fail, Goto
<1>2. /\ lay'.toc = lay.toc /\ lay'.itoc = lay.itoc /\ lay'.content = lay.content
      /\ lay'.size = cursor
      /\ lay' \in [toc : Nat, itoc : Nat, content : Nat, size : Nat]
  BY <1>1 DEF PlanInv, PlanTypes
<1>3. PlanTypes'
  BY <1>1, <1>2 DEF PlanInv, PlanTypes, Labels
<1>4. CASE pc' = "failed"
  BY <1>1, <1>3, <1>4, EarlySteps
<1>5. CASE pc' = "header"
  <2>1. OrderInv'
    BY <1>1 DEF PlanInv, OrderInv, files, Files, alignment
  <2>2. LayInv'
    BY <1>1, <1>2 DEF PlanInv, LayInv, files, Files, alignment, TocEnd, ItocEnd, ContentOffset,
       toc_chunk_len, itoc_chunk_len
  <2>3. k - 1 = Len(files)
    BY <1>1, JobFacts DEF PlanInv, PlanTypes, LoopInv
  <2>4. PlanIsDisjoint'
    BY <1>1, <1>2, <1>5, <2>3 DEF PlanInv, PlanIsDisjoint, Planning, Planned, files, alignment
  <2>5. QED
    BY <1>2, <1>3, <1>5, <2>1, <2>2, <2>4, <1>1 DEF PlanInv, LoopInv, SizeInv
<1>6. QED
  BY <1>1, <1>4, <1>5

(* The steps that write leave the plan alone.                               *)
LEMMA WritingPlan ==
    ASSUME PlanInv, UNCHANGED <<job, order, lay, off, cursor>>, k' \in Nat,
           pc \in Writing, pc' \in Writing
    PROVE  PlanInv'
<1>1. PlanTypes'
  BY DEF PlanInv, PlanTypes, Labels, Writing
<1>2. OrderInv'
  BY DEF PlanInv, OrderInv, files, Files, alignment
<1>3. LayInv'
  BY DEF PlanInv, LayInv, files, Files, alignment, TocEnd, ItocEnd, ContentOffset,
       toc_chunk_len, itoc_chunk_len
<1>4. PlanIsDisjoint'
  BY DEF PlanInv, PlanIsDisjoint, Planning, Planned, files, alignment, Writing
<1>5. QED
  BY <1>1, <1>2, <1>3, <1>4 DEF PlanInv, LoopInv, SizeInv, Writing

(* Every step preserves the plan.                                           *)
LEMMA NextPlan ==
    ASSUME PlanInv, [Next]_vars
    PROVE  PlanInv'
<1>1. CASE UNCHANGED vars
  BY <1>1 DEF vars, planVars, PlanInv, PlanTypes, OrderInv, LayInv, LoopInv, SizeInv,
     PlanIsDisjoint, Planning, Planned, files, Files, alignment, TocEnd, ItocEnd, ContentOffset,
     toc_chunk_len, itoc_chunk_len
<1>2. CASE PackDirectory \/ Create
  <2>1. job' = job /\ UNCHANGED planVars /\ pc' \in {"failed", "files", "validate"}
    BY <1>2 DEF PackDirectory, Create, Fail, Goto
  <2>2. PlanTypes'
    BY <2>1 DEF PlanInv, PlanTypes, planVars, Labels
  <2>3. QED
    BY <2>1, <2>2, EarlySteps
<1>3. CASE Validate
  BY <1>3, ValidatePlan
<1>4. CASE Layout
  BY <1>4, LayoutPlan
<1>5. CASE PlanFile
  BY <1>5, PlanFilePlan
<1>6. CASE BuildHeader
  BY <1>6, BuildHeaderPlan
<1>7. CASE WriteHeader \/ WriteToc \/ WriteItoc \/ PadToContent \/ CopyPayload
           \/ CheckCopied \/ Finish
  <2>1. /\ UNCHANGED <<job, order, lay, off, cursor>> /\ pc \in Writing
        /\ pc' \in Writing \cup {"failed"}
        /\ k' \in {k, k + 1, 1}
    BY <1>7 DEF WriteHeader, WriteToc, WriteItoc, PadToContent, CopyPayload, CheckCopied,
       Finish, Fail, Goto, planVars, Writing
  <2>2. k' \in Nat
    BY <2>1 DEF PlanInv, PlanTypes
  <2>3. CASE pc' = "failed"
    <3>1. PlanTypes'
      BY <2>1, <2>2, <2>3 DEF PlanInv, PlanTypes, Labels
    <3>2. QED
      BY <2>1, <2>3, <3>1, EarlySteps
  <2>4. CASE pc' # "failed"
    BY <2>1, <2>2, <2>4, WritingPlan
  <2>5. QED
    BY <2>3, <2>4
<1>8. CASE SourceChanges
  BY <1>8 DEF SourceChanges, planVars, PlanInv, PlanTypes, OrderInv, LayInv, LoopInv, SizeInv,
     PlanIsDisjoint, Planning, Planned, files, Files, alignment, TocEnd, ItocEnd, ContentOffset,
     toc_chunk_len, itoc_chunk_len
<1>9. CASE Interrupted
  <2>1. job' = job /\ UNCHANGED planVars /\ pc' \in {"failed", "killed"}
    BY <1>9 DEF Interrupted
  <2>2. PlanTypes'
    BY <2>1 DEF PlanInv, PlanTypes, planVars, Labels
  <2>3. QED
    BY <2>1, <2>2, EarlySteps
<1>10. QED
  BY <1>1, <1>2, <1>3, <1>4, <1>5, <1>6, <1>7, <1>8, <1>9 DEF Next, Step

(* What PlanInv says of the chunks is that they precede the content.        *)
LEMMA PlanGivesChunks == PlanInv => ChunksFitBeforeContent
<1> SUFFICES ASSUME PlanInv, Planning
             PROVE  /\ has_toc(job.mode) => lay.toc + toc_chunk_len <= lay.content
                    /\ has_itoc(job.mode) => lay.itoc + itoc_chunk_len <= lay.content
                    /\ job.mode = "TocAndItoc" => lay.toc + toc_chunk_len <= lay.itoc
                    /\ lay.content % alignment = 0
  BY DEF ChunksFitBeforeContent
<1>1. /\ job \in Jobs /\ ValidAlignment(alignment)
      /\ lay.toc = (IF has_toc(job.mode) THEN IndexBase ELSE 0)
      /\ lay.itoc = (IF has_itoc(job.mode) THEN TocEnd ELSE 0)
      /\ lay.content = ContentOffset
  BY DEF PlanInv, PlanTypes, OrderInv, LayInv, Planning, Writing
<1>2. IndexBase \in Nat
  BY DEF IndexBase
<1>3. job.mode = "TocAndItoc" => has_toc(job.mode) /\ has_itoc(job.mode)
  BY DEF has_toc, has_itoc
<1>4. /\ TocEnd \in Nat /\ ItocEnd \in Nat /\ ContentOffset \in Nat
      /\ toc_chunk_len \in Nat /\ itoc_chunk_len \in Nat
      /\ TocEnd <= ItocEnd /\ ItocEnd <= ContentOffset
      /\ has_toc(job.mode) => IndexBase + toc_chunk_len <= TocEnd
      /\ has_itoc(job.mode) => TocEnd + itoc_chunk_len <= ItocEnd
      /\ ContentOffset % alignment = 0
  BY <1>1, LayoutFacts
<1>5. QED
  BY <1>1, <1>2, <1>3, <1>4

(* For every call, the plan gives the payloads disjoint aligned ranges      *)
(* after the index chunks, which do not overlap either.                     *)
THEOREM PlanIsSound == Spec => [](PlanIsDisjoint /\ ChunksFitBeforeContent)
<1>1. Init => PlanInv
  BY InitPlan
<1>2. PlanInv /\ [Next]_vars => PlanInv'
  BY NextPlan
<1>3. PlanInv => PlanIsDisjoint /\ ChunksFitBeforeContent
  BY PlanGivesChunks DEF PlanInv
<1>4. QED
  BY <1>1, <1>2, <1>3, PTL DEF Spec

-----------------------------------------------------------------------------
(* The output.  It grows only at its end: every write starts at or after    *)
(* the stream position, because the plan puts it there.                     *)

OutTypes ==
    /\ order = <<>> \/ order \in [Files -> Files]
    /\ off = <<>> \/ off \in [Files -> Nat]
    /\ old \in BOOLEAN
    /\ avail \in [Files -> Nat \cup {-1}]
    /\ changes \in 0 .. MaxChanges

(* A set of extents that fills 0 .. p - 1 without overlap.                  *)
Tiles(S, p) ==
    /\ p \in Nat
    /\ S = {} => p = 0
    /\ \A e \in S : e.at \in Nat /\ e.len \in Nat /\ e.at + e.len <= p
    /\ \A e, f \in S : e # f => \/ e.at + e.len <= f.at \/ f.at + f.len <= e.at
    /\ \A e \in S : \/ e.at + e.len = p \/ \E f \in S \ {e} : f.at = e.at + e.len
    /\ S # {} => \E e \in S : e.at = 0

LostInv == lost \in 0 .. pos /\ (~Stopped => lost = 0)

(* Where the next write of a payload, or the final padding, ends up.        *)
Target(n) == IF n <= Len(files) THEN off[order[n]] ELSE cursor

IsPayload(e, i) ==
    e.kind = "data" /\ e.body.file = i /\ e.at = off[i]

(* The payloads before the k-th are complete.                               *)
Written(n) ==
    \A a \in 1 .. n : \E e \in out :
        IsPayload(e, order[a]) /\ e.len = files[order[a]].size

PosInv ==
    /\ pc \in {"directory", "files", "validate", "layout", "plan", "header"} => out = {}
    /\ pc = "header" => header_chunk_len <= MarkerOffset
    /\ pc = "toc" => pos = IndexBase
    /\ pc = "itoc" =>
        pos = IF has_toc(job.mode) THEN IndexBase + toc_chunk_len ELSE IndexBase
    /\ pc = "content" => pos <= lay.content
    /\ pc \in {"payload", "copied"} => k \in 1 .. Len(files) + 1 /\ Written(k - 1)
    /\ pc = "payload" => pos <= Target(k)
    /\ pc = "copied" =>
        /\ k <= Len(files)
        /\ \E e \in out : IsPayload(e, order[k]) /\ e.at + e.len = pos
    /\ pc = "ok" => pos = lay.size /\ Written(Len(files))

OutInv == OutTypes /\ Tiles(out, pos) /\ LostInv /\ PosInv

(* Zeros fill the space between two positions.                              *)
LEMMA ZerosFacts ==
    ASSUME NEW from \in Nat, NEW to \in Nat
    PROVE  /\ from < to =>
                \E z : /\ Zeros(from, to) = {z} /\ z.at = from /\ z.len \in Nat
                      /\ from + z.len = to
           /\ ~(from < to) => Zeros(from, to) = {}
<1>1. CASE from < to
  <2> DEFINE z == Extent(from, to - from, "zero", 0)
  <2>1. z.at = from /\ z.len = to - from
    BY DEF Extent
  <2>2. Zeros(from, to) = {z}
    BY <1>1 DEF Zeros
  <2> HIDE DEF z
  <2>3. z.len \in Nat /\ from + z.len = to
    BY <1>1, <2>1
  <2>4. QED
    BY <1>1, <2>1, <2>2, <2>3
<1>2. CASE ~(from < to)
  BY <1>2 DEF Zeros
<1>3. QED
  BY <1>1, <1>2

(* An extent written at the end keeps the tiling.                           *)
LEMMA AppendTiles ==
    ASSUME NEW S, NEW p, Tiles(S, p), NEW x, x.at = p, x.len \in Nat
    PROVE  Tiles(S \cup {x}, p + x.len)
<1> DEFINE T == S \cup {x}
           q == p + x.len
<1>1. /\ p \in Nat /\ q \in Nat
      /\ \A e \in S : e.at \in Nat /\ e.len \in Nat /\ e.at + e.len <= p
  BY DEF Tiles
<1>2. \A e \in T : e.at \in Nat /\ e.len \in Nat /\ e.at + e.len <= q
  BY <1>1
<1>3. \A e, f \in T : e # f => \/ e.at + e.len <= f.at \/ f.at + f.len <= e.at
  BY <1>1 DEF Tiles
<1>4. ASSUME NEW e \in T
      PROVE  \/ e.at + e.len = q \/ \E f \in T \ {e} : f.at = e.at + e.len
  <2>1. CASE e = x
    BY <2>1
  <2>2. CASE e # x /\ e.at + e.len = p
    BY <2>2
  <2>3. CASE e # x /\ e.at + e.len # p
    BY <1>4, <2>3 DEF Tiles
  <2>4. QED
    BY <2>1, <2>2, <2>3
<1>5. \E e \in T : e.at = 0
  <2>1. CASE S = {}
    BY <2>1 DEF Tiles
  <2>2. CASE S # {}
    BY <2>2 DEF Tiles
  <2>3. QED
    BY <2>1, <2>2
<1>6. QED
  BY <1>1, <1>2, <1>3, <1>4, <1>5 DEF Tiles

(* So do zeros up to a later position.                                      *)
LEMMA PadTiles ==
    ASSUME NEW S, NEW p, Tiles(S, p), NEW to \in Nat, p <= to
    PROVE  Tiles(S \cup Zeros(p, to), to)
<1>1. p \in Nat
  BY DEF Tiles
<1>2. CASE p < to
  <2>1. PICK z : Zeros(p, to) = {z} /\ z.at = p /\ z.len \in Nat /\ p + z.len = to
    BY <1>1, <1>2, ZerosFacts
  <2>2. Tiles(S \cup {z}, p + z.len)
    BY <2>1, AppendTiles
  <2>3. QED
    BY <2>1, <2>2
<1>3. CASE ~(p < to)
  <2>1. p = to /\ Zeros(p, to) = {}
    BY <1>1, <1>3, ZerosFacts
  <2>2. S \cup Zeros(p, to) = S
    BY <2>1
  <2>3. QED
    BY <2>1, <2>2
<1>4. QED
  BY <1>2, <1>3

(* write_at at or after the stream position.                                *)
LEMMA WriteAtTiles ==
    ASSUME Tiles(out, pos), NEW at \in Nat, pos <= at, NEW len \in Nat, NEW kind, NEW body,
           write_at(at, kind, len, body)
    PROVE  /\ Tiles(out, pos)'
           /\ pos' = at + len
           /\ out \subseteq out'
           /\ Extent(at, len, kind, body) \in out'
<1> DEFINE x == Extent(at, len, kind, body)
<1>1. x.at = at /\ x.len = len
  BY DEF Extent
<1>2. out' = (out \cup Zeros(pos, at)) \cup {x} /\ pos' = at + len
  BY DEF write_at
<1>3. Tiles(out \cup Zeros(pos, at), at)
  BY PadTiles
<1>4. Tiles((out \cup Zeros(pos, at)) \cup {x}, at + len)
  BY <1>1, <1>3, AppendTiles
<1>5. QED
  BY <1>2, <1>4

(* The call begins with an empty output.                                    *)
LEMMA InitOut == Init => OutInv
<1> SUFFICES ASSUME Init PROVE OutInv
  OBVIOUS
<1>1. /\ job \in Jobs /\ pc \in {"directory", "files"}
      /\ \A i \in Files : files[i].has \in Nat \cup {-1}
  BY JobFacts DEF Init
<1>2. OutTypes
  BY <1>1, WriterAssumption DEF Init, OutTypes
<1>3. Tiles(out, pos)
  BY DEF Init, Tiles
<1>4. LostInv
  BY DEF Init, LostInv
<1>5. PosInv
  BY <1>1 DEF Init, PosInv
<1>6. QED
  BY <1>2, <1>3, <1>4, <1>5 DEF OutInv

(* An end by an error claims nothing more than the tiling.                  *)
LEMMA FailedOut ==
    ASSUME OutTypes', Tiles(out, pos)', LostInv', pc' \in {"failed", "killed"}
    PROVE  OutInv'
BY DEF OutInv, PosInv

(* Steps that do not write.                                                 *)
LEMMA QuietOut ==
    ASSUME PlanInv, PlanInv', OutInv,
           PackDirectory \/ Create \/ Validate \/ Layout \/ PlanFile \/ BuildHeader
    PROVE  OutInv'
<1>1. /\ UNCHANGED <<job, out, pos, lost, avail, changes>>
      /\ old' \in {old, FALSE}
      /\ pc \in {"directory", "files", "validate", "layout", "plan"}
      /\ pc' \in {"files", "validate", "layout", "plan", "header", "failed"}
  BY DEF PackDirectory, Create, Validate, Layout, PlanFile, BuildHeader, Goto, Fail
<1>2. out = {} /\ out' = {}
  BY <1>1 DEF OutInv, PosInv
<1>3. /\ order' = <<>> \/ order' \in [Files -> Files]
      /\ off' = <<>> \/ off' \in [Files -> Nat]
  <2>1. CASE PackDirectory \/ Create \/ BuildHeader
    BY <2>1 DEF OutInv, OutTypes, PackDirectory, Create, BuildHeader, planVars
  <2>2. CASE Validate
    <3>1. off' = off
      BY <2>2 DEF Validate
    <3>2. CASE order' = order
      BY <3>1, <3>2 DEF OutInv, OutTypes
    <3>3. CASE order' # order
      <4>1. order' \in PhysicalOrders
        BY <2>2, <3>3 DEF Validate
      <4>2. order' \in [Files -> Files]
        BY <4>1 DEF PhysicalOrders, Rearrangements
      <4>3. QED
        BY <3>1, <4>2 DEF OutInv, OutTypes
    <3>4. QED
      BY <3>2, <3>3
  <2>3. CASE Layout
    BY <2>3 DEF OutInv, OutTypes, Layout
  <2>4. CASE PlanFile
    <3>1. off \in [Files -> Nat] /\ cursor \in Nat /\ order' = order
      BY <2>4 DEF PlanFile, PlanInv, PlanTypes, LayInv
    <3>2. off' = [off EXCEPT ![order[k]] = cursor]
      BY <2>4 DEF PlanFile
    <3>3. QED
      BY <3>1, <3>2 DEF OutInv, OutTypes
  <2>5. QED
    BY <2>1, <2>2, <2>3, <2>4
<1>4. OutTypes'
  BY <1>1, <1>3 DEF OutInv, OutTypes, files, Files
<1>5. Tiles(out, pos)'
  BY <1>1 DEF OutInv
<1>6. LostInv'
  BY <1>1 DEF OutInv, LostInv, Stopped
<1>7. pc' = "header" => header_chunk_len' <= MarkerOffset
  BY <1>1 DEF PackDirectory, Create, Validate, Layout, PlanFile, BuildHeader, Goto, Fail,
     header_chunk_len
<1>8. PosInv'
  BY <1>1, <1>2, <1>7 DEF PosInv
<1>9. QED
  BY <1>4, <1>5, <1>6, <1>8 DEF OutInv

(* The header, the zeros after it and the copyright marker fill the first   *)
(* 0x800 bytes.                                                             *)
LEMMA WriteHeaderOut ==
    ASSUME PlanInv, OutInv, WriteHeader
    PROVE  OutInv'
<1> DEFINE h == header_chunk_len
           x == Extent(0, h, "cpk", header_row)
           m == Extent(MarkerOffset, 6, "mark", 0)
<1>1. /\ pc = "header" /\ pc' = "toc" /\ out = {} /\ pos' = MarkerOffset + 6
      /\ out' = (({} \cup {x}) \cup Zeros(h, MarkerOffset)) \cup {m}
      /\ UNCHANGED <<job, order, off, lost, old, avail, changes>>
  BY DEF WriteHeader, OutInv, PosInv, Goto, planVars
<1>2. h \in Nat /\ h <= MarkerOffset /\ MarkerOffset \in Nat
  BY <1>1, JobFacts DEF OutInv, PosInv, PlanInv, PlanTypes, header_chunk_len, chunk_size,
     ChunkHeaderBytes, MarkerOffset
<1>3. x.at = 0 /\ x.len = h /\ m.at = MarkerOffset /\ m.len = 6
  BY DEF Extent
<1> HIDE DEF x, m, h
<1>4. Tiles({}, 0)
  BY DEF Tiles
<1>5. Tiles({} \cup {x}, 0 + h)
  BY <1>2, <1>3, <1>4, AppendTiles
<1>6. Tiles(({} \cup {x}) \cup Zeros(h, MarkerOffset), MarkerOffset)
  BY <1>2, <1>5, PadTiles
<1>7. Tiles((({} \cup {x}) \cup Zeros(h, MarkerOffset)) \cup {m}, MarkerOffset + 6)
  BY <1>3, <1>6, AppendTiles
<1>8. Tiles(out, pos)'
  BY <1>1, <1>7
<1>9. OutTypes'
  BY <1>1 DEF OutInv, OutTypes, files, Files
<1>10. LostInv'
  BY <1>1 DEF OutInv, LostInv, Stopped, MarkerOffset
<1>11. PosInv'
  BY <1>1 DEF PosInv, MarkerOffset, IndexBase
<1>12. QED
  BY <1>8, <1>9, <1>10, <1>11 DEF OutInv

(* The index chunks are written at or after the stream position.            *)
LEMMA WriteIndexOut ==
    ASSUME PlanInv, OutInv, WriteToc \/ WriteItoc
    PROVE  OutInv'
<1>1. /\ UNCHANGED <<job, order, off, lay, k, cursor, lost, old, avail, changes>>
      /\ pc \in Writing /\ pc' \in {"itoc", "content"}
      /\ pc \in {"toc", "itoc"}
  BY DEF WriteToc, WriteItoc, Goto, planVars, Writing
<1>2. /\ job \in Jobs /\ ValidAlignment(alignment) /\ IndexBase \in Nat
      /\ lay.toc = (IF has_toc(job.mode) THEN IndexBase ELSE 0)
      /\ lay.itoc = (IF has_itoc(job.mode) THEN TocEnd ELSE 0)
      /\ lay.content = ContentOffset
  BY <1>1 DEF PlanInv, PlanTypes, OrderInv, LayInv, Writing, IndexBase
<1>3. /\ TocEnd \in Nat /\ ItocEnd \in Nat /\ ContentOffset \in Nat
      /\ toc_chunk_len \in Nat /\ itoc_chunk_len \in Nat
      /\ IndexBase <= TocEnd /\ TocEnd <= ItocEnd /\ ItocEnd <= ContentOffset
      /\ has_toc(job.mode) => IndexBase + toc_chunk_len <= TocEnd
      /\ has_itoc(job.mode) => TocEnd + itoc_chunk_len <= ItocEnd
  BY <1>2, LayoutFacts
<1>4. Tiles(out, pos) /\ pos \in Nat
  BY DEF OutInv, Tiles
<1>5. OutTypes'
  BY <1>1 DEF OutInv, OutTypes, files, Files
<1>6. CASE WriteToc
  <2>1. pos = IndexBase /\ pc' = "itoc"
    BY <1>6 DEF WriteToc, OutInv, PosInv, Goto
  <2>2. CASE has_toc(job.mode)
    <3>1. write_at(lay.toc, "toc", toc_chunk_len, toc_rows)
      BY <1>6, <2>2 DEF WriteToc
    <3>2. Tiles(out, pos)' /\ pos' = IndexBase + toc_chunk_len
      BY <1>2, <1>3, <1>4, <2>1, <2>2, <3>1, WriteAtTiles
    <3>3. QED
      BY <1>1, <1>2, <1>3, <1>5, <2>1, <2>2, <3>2
         DEF OutInv, LostInv, Stopped, PosInv, toc_chunk_len, files
  <2>3. CASE ~has_toc(job.mode)
    <3>1. out' = out /\ pos' = pos
      BY <1>6, <2>3 DEF WriteToc
    <3>2. QED
      BY <1>1, <1>4, <1>5, <2>1, <2>3, <3>1 DEF OutInv, LostInv, Stopped, PosInv
  <2>4. QED
    BY <2>2, <2>3
<1>7. CASE WriteItoc
  <2>1. pos <= TocEnd /\ pc' = "content"
    BY <1>2, <1>3, <1>7 DEF WriteItoc, OutInv, PosInv, Goto
  <2>2. CASE has_itoc(job.mode)
    <3>1. write_at(lay.itoc, "itoc", itoc_chunk_len, itoc_body)
      BY <1>7, <2>2 DEF WriteItoc
    <3>2. Tiles(out, pos)' /\ pos' = TocEnd + itoc_chunk_len
      BY <1>2, <1>3, <1>4, <2>1, <2>2, <3>1, WriteAtTiles
    <3>3. pos' <= lay'.content /\ pos' \in Nat
      BY <1>1, <1>2, <1>3, <2>2, <3>2
    <3>4. QED
      BY <1>1, <1>5, <2>1, <3>2, <3>3 DEF OutInv, LostInv, Stopped, PosInv
  <2>3. CASE ~has_itoc(job.mode)
    <3>1. out' = out /\ pos' = pos
      BY <1>7, <2>3 DEF WriteItoc
    <3>2. pos' <= lay'.content
      BY <1>1, <1>2, <1>3, <1>4, <2>1, <3>1
    <3>3. QED
      BY <1>1, <1>4, <1>5, <2>1, <3>1, <3>2 DEF OutInv, LostInv, Stopped, PosInv
  <2>4. QED
    BY <2>2, <2>3
<1>8. QED
  BY <1>6, <1>7

(* What the plan says of the payload loop.                                  *)
LEMMA TargetFacts ==
    ASSUME PlanInv, pc \in Writing, NEW n \in 1 .. Len(files) + 1
    PROVE  /\ Len(files) \in Nat /\ cursor \in Nat /\ lay.size = cursor
           /\ lay.content \in Nat /\ lay.content <= Target(n) /\ Target(n) \in Nat
           /\ n <= Len(files) =>
                /\ order[n] \in Files /\ off[order[n]] \in Nat
                /\ files[order[n]].size \in Nat
                /\ Target(n) = off[order[n]]
                /\ off[order[n]] + files[order[n]].size <= cursor
                /\ n < Len(files) =>
                    off[order[n]] + files[order[n]].size <= off[order[n + 1]]
<1>1. /\ Len(files) \in Nat /\ cursor \in Nat /\ lay.size = cursor /\ lay.content \in Nat
      /\ \A i \in Files : files[i].size \in Nat
  BY JobFacts DEF PlanInv, PlanTypes, SizeInv
<1>2. /\ order \in [Files -> Files] /\ off \in [Files -> Nat] /\ lay.content <= cursor
  BY DEF PlanInv, OrderInv, LayInv
<1>3. \A a \in 1 .. Len(files) :
        /\ lay.content <= off[order[a]]
        /\ off[order[a]] + files[order[a]].size <= cursor
        /\ \A b \in a + 1 .. Len(files) :
            off[order[a]] + files[order[a]].size <= off[order[b]]
  BY DEF PlanInv, PlanIsDisjoint, Planning, Planned, Writing
<1>4. CASE n <= Len(files)
  <2>1. n \in Files /\ n \in 1 .. Len(files)
    BY <1>1, <1>4 DEF Files
  <2>2. order[n] \in Files /\ off[order[n]] \in Nat /\ files[order[n]].size \in Nat
    BY <1>1, <1>2, <2>1
  <2>3. n < Len(files) => n + 1 \in n + 1 .. Len(files)
    BY <1>1, <2>1
  <2>4. QED
    BY <1>1, <1>3, <1>4, <2>1, <2>2, <2>3 DEF Target
<1>5. CASE ~(n <= Len(files))
  BY <1>1, <1>2, <1>5 DEF Target
<1>6. QED
  BY <1>4, <1>5

(* The padding before the content.                                          *)
LEMMA PadToContentOut ==
    ASSUME PlanInv, PlanInv', OutInv, PadToContent
    PROVE  OutInv'
<1>1. /\ UNCHANGED <<job, order, off, lay, cursor, lost, old, avail, changes>>
      /\ pc = "content" /\ pc' = "payload" /\ k' = 1
      /\ pos <= lay.content /\ pos \in Nat /\ lay.content \in Nat
      /\ out' = out \cup Zeros(pos, lay.content)
  BY DEF PadToContent, Goto, OutInv, PosInv, Tiles, PlanInv, PlanTypes
<1>2. pos' = lay.content
  BY <1>1 DEF PadToContent
<1>3. Tiles(out \cup Zeros(pos, lay.content), lay.content)
  BY <1>1, PadTiles DEF OutInv
<1>4. Tiles(out, pos)'
  BY <1>1, <1>2, <1>3
<1>5. OutTypes'
  BY <1>1 DEF OutInv, OutTypes, files, Files
<1>6. LostInv'
  BY <1>1, <1>2 DEF OutInv, LostInv, Stopped
<1>7. 1 \in 1 .. Len(files) + 1 /\ pc \in Writing
  BY <1>1, JobFacts DEF PlanInv, PlanTypes, Writing
<1>8. lay.content <= Target(1)
  BY <1>7, TargetFacts
<1>9. PosInv'
  BY <1>1, <1>2, <1>7, <1>8 DEF PosInv, Written, Target, files
<1>10. QED
  BY <1>4, <1>5, <1>6, <1>9 DEF OutInv

(* A payload is copied to the place the plan gave it; the bytes its source  *)
(* holds are a natural number, whatever it was when the plan was made.      *)
LEMMA CopyPayloadOut ==
    ASSUME PlanInv, OutInv, CopyPayload
    PROVE  OutInv'
<1> DEFINE i == order[k]
           at == off[i]
           body == [file |-> i, form |-> Form(files[i])]
           x == Extent(at, Copied(i), "data", body)
<1>1. /\ UNCHANGED <<job, order, off, lay, k, cursor, lost, old, avail, changes>>
      /\ pc = "payload" /\ pc' \in {"failed", "copied"} /\ k <= Len(files)
  BY DEF CopyPayload, Goto, Fail, planVars
<1>2. pc \in Writing /\ k \in 1 .. Len(files) + 1 /\ pos <= Target(k) /\ Written(k - 1)
  BY <1>1 DEF OutInv, PosInv, Writing
<1>3. i \in Files /\ at \in Nat /\ pos <= at /\ lost = 0
  BY <1>1, <1>2, TargetFacts DEF OutInv, LostInv, Stopped
<1>4. Tiles(out, pos) /\ pos \in Nat
  BY DEF OutInv, Tiles
<1>5. OutTypes'
  BY <1>1 DEF OutInv, OutTypes, files, Files
<1>6. CASE BadSource(i)
  <2>1. out' = out \cup Zeros(pos, at) /\ pos' = at /\ pc' = "failed"
    BY <1>3, <1>4, <1>6 DEF CopyPayload, Fail
  <2>2. Tiles(out \cup Zeros(pos, at), at)
    BY <1>3, <1>4, PadTiles
  <2>3. Tiles(out, pos)'
    BY <2>1, <2>2
  <2>4. LostInv'
    BY <1>1, <1>3, <2>1 DEF LostInv, Stopped
  <2>5. QED
    BY <1>5, <2>1, <2>3, <2>4, FailedOut
<1>7. CASE ~BadSource(i)
  <2>1. write_at(at, "data", Copied(i), body) /\ pc' = "copied"
    BY <1>3, <1>4, <1>7 DEF CopyPayload, Goto, Fail
  <2>2. Copied(i) \in Nat
    <3>1. avail[i] \in Nat
      BY <1>3, <1>7 DEF OutInv, OutTypes, BadSource
    <3>2. files[i].rawsize \in Nat
      BY <1>3, JobFacts DEF PlanInv, PlanTypes
    <3>3. QED
      BY <3>1, <3>2 DEF Copied
  <2>3. /\ Tiles(out, pos)' /\ pos' = at + Copied(i) /\ out \subseteq out' /\ x \in out'
    BY <1>3, <1>4, <2>1, <2>2, WriteAtTiles
  <2>4. /\ x.kind = "data" /\ x.body.file = i /\ x.at = at /\ x.len = Copied(i)
    BY DEF Extent
  <2>5. LostInv'
    BY <1>1, <1>3, <2>1, <2>2, <2>3 DEF LostInv, Stopped
  <2>6. Written(k - 1)'
    BY <1>1, <1>2, <2>3 DEF Written, IsPayload, files
  <2>7. \E e \in out' : e.kind = "data" /\ e.body.file = order'[k'] /\ e.at = off'[order'[k']]
                        /\ e.at + e.len = pos'
    BY <1>1, <2>3, <2>4
  <2>8. PosInv'
    BY <1>1, <1>2, <2>1, <2>6, <2>7 DEF PosInv, IsPayload, files
  <2>9. QED
    BY <1>5, <2>3, <2>5, <2>8 DEF OutInv
<1>8. QED
  BY <1>6, <1>7

(* Only a payload of the planned size lets the loop go on, and then the     *)
(* next one starts at or after the position.                                *)
LEMMA CheckCopiedOut ==
    ASSUME PlanInv, OutInv, CheckCopied
    PROVE  OutInv'
<1> DEFINE i == order[k]
<1>1. /\ UNCHANGED <<job, order, off, lay, cursor, out, pos, lost, old, avail, changes>>
      /\ pc = "copied" /\ pc' \in {"failed", "payload"}
      /\ pc' = "payload" => pos - off[i] = files[i].size /\ k' = k + 1
  BY DEF CheckCopied, Goto, Fail
<1>2. /\ pc \in Writing /\ k \in 1 .. Len(files) + 1 /\ k <= Len(files) /\ Written(k - 1)
  BY <1>1 DEF OutInv, PosInv, Writing
<1>3. PICK e \in out : IsPayload(e, i) /\ e.at + e.len = pos
  BY <1>1 DEF OutInv, PosInv
<1>4. Tiles(out, pos)' /\ OutTypes' /\ pos \in Nat /\ e.len \in Nat /\ e.at \in Nat
  BY <1>1 DEF OutInv, OutTypes, Tiles, files, Files
<1>5. LostInv'
  BY <1>1 DEF OutInv, LostInv, Stopped
<1>6. CASE pc' = "failed"
  BY <1>4, <1>5, <1>6, FailedOut
<1>7. CASE pc' = "payload"
  <2>1. /\ Len(files) \in Nat /\ cursor \in Nat /\ off[i] \in Nat /\ files[i].size \in Nat
        /\ off[i] + files[i].size <= cursor
        /\ k < Len(files) => off[i] + files[i].size <= off[order[k + 1]]
    BY <1>2, TargetFacts
  <2>2. pos = off[i] + files[i].size /\ k' = k + 1 /\ k + 1 \in 1 .. Len(files) + 1
    BY <1>1, <1>2, <1>4, <1>7, <2>1
  <2>3. pos <= Target(k + 1)
    BY <1>2, <2>1, <2>2, SMTT(30) DEF Target
  <2>4. e.len = files[i].size
    BY <1>3, <1>4, <2>1, <2>2, SMTT(30) DEF IsPayload
  <2>5. Written(k)
    <3>1. ASSUME NEW a \in 1 .. k
          PROVE  \E f \in out : IsPayload(f, order[a]) /\ f.len = files[order[a]].size
      <4>1. CASE a = k
        BY <1>3, <2>4, <4>1
      <4>2. CASE a # k
        BY <1>2, <4>2 DEF Written
      <4>3. QED
        BY <4>1, <4>2
    <3>2. QED
      BY <3>1 DEF Written
  <2>6. k' - 1 = k
    BY <1>2, <2>2
  <2>7. (k \in 1 .. Len(files) + 1 /\ Written(k - 1))'
    BY <1>1, <2>2, <2>5, <2>6 DEF Written, IsPayload, files
  <2>8. (pos <= Target(k))'
    BY <1>1, <2>2, <2>3 DEF Target, files
  <2>9. PosInv'
    BY <1>7, <2>7, <2>8 DEF PosInv
  <2>10. QED
    BY <1>4, <1>5, <2>9 DEF OutInv
<1>8. QED
  BY <1>1, <1>6, <1>7

(* The final padding: the position is at or before the archive size.        *)
LEMMA FinishOut ==
    ASSUME PlanInv, OutInv, Finish
    PROVE  OutInv'
<1>1. /\ UNCHANGED <<job, order, off, lay, k, cursor, lost, old, avail, changes>>
      /\ pc = "payload" /\ pc' = "ok" /\ k > Len(files)
      /\ out' = out \cup Zeros(pos, lay.size)
      /\ pos' = IF pos < lay.size THEN lay.size ELSE pos
  BY DEF Finish, Goto, planVars
<1>2. pc \in Writing /\ k \in 1 .. Len(files) + 1 /\ pos <= Target(k) /\ Written(k - 1)
  BY <1>1 DEF OutInv, PosInv, Writing
<1>3. /\ Len(files) \in Nat /\ lay.size \in Nat /\ pos <= lay.size
      /\ k - 1 = Len(files)
  BY <1>1, <1>2, TargetFacts DEF Target
<1>4. Tiles(out, pos) /\ pos \in Nat /\ lost = 0
  BY <1>1 DEF OutInv, Tiles, LostInv, Stopped
<1>5. pos' = lay.size
  BY <1>1, <1>3, <1>4
<1>6. Tiles(out \cup Zeros(pos, lay.size), lay.size)
  BY <1>3, <1>4, PadTiles
<1>7. Tiles(out, pos)'
  BY <1>1, <1>5, <1>6
<1>8. OutTypes'
  BY <1>1 DEF OutInv, OutTypes, files, Files
<1>9. LostInv'
  BY <1>1, <1>3, <1>4, <1>5 DEF LostInv
<1>10. Written(Len(files))
  BY <1>2, <1>3
<1>11. Written(Len(files))'
  BY <1>1, <1>10 DEF Written, IsPayload, files
<1>12. PosInv'
  BY <1>1, <1>5, <1>11 DEF PosInv
<1>13. QED
  BY <1>7, <1>8, <1>9, <1>12 DEF OutInv

(* A source that changes is not part of the output.                         *)
LEMMA SourceChangesOut ==
    ASSUME PlanInv, OutInv, SourceChanges
    PROVE  OutInv'
<1>1. UNCHANGED <<job, pc, order, off, lay, k, cursor, out, pos, lost, old>>
  BY DEF SourceChanges, planVars, outVars
<1>2. OutTypes'
  <2>1. avail \in [Files -> Nat \cup {-1}] /\ changes \in 0 .. MaxChanges
    BY DEF OutInv, OutTypes
  <2>2. PICK i \in Files, n \in Lengths : avail' = [avail EXCEPT ![i] = n]
    BY DEF SourceChanges
  <2>3. avail' \in [Files -> Nat \cup {-1}]
    BY <2>1, <2>2, WriterAssumption
  <2>4. changes' \in 0 .. MaxChanges
    BY <2>1, WriterAssumption DEF SourceChanges
  <2>5. QED
    BY <1>1, <2>3, <2>4 DEF OutInv, OutTypes, files, Files
<1>3. Tiles(out, pos)' /\ LostInv'
  BY <1>1 DEF OutInv, LostInv, Stopped
<1>4. PosInv'
  BY <1>1 DEF OutInv, PosInv, Written, IsPayload, Target, files, header_chunk_len,
     toc_chunk_len
<1>5. QED
  BY <1>2, <1>3, <1>4 DEF OutInv

(* An interruption keeps a prefix of what was written.                      *)
LEMMA InterruptedOut ==
    ASSUME OutInv, Interrupted
    PROVE  OutInv'
<1>1. /\ UNCHANGED <<job, order, off, out, pos, old, avail, changes>>
      /\ pc' \in {"failed", "killed"}
  BY DEF Interrupted, planVars
<1>2. PICK c \in CutPoints : lost' = pos - c
  BY DEF Interrupted
<1>3. Tiles(out, pos)
  BY DEF OutInv
<1>4. c \in 0 .. pos
  <2>1. pos \in Nat /\ \A e \in out : e.at \in Nat /\ e.len \in Nat /\ e.at + e.len <= pos
    BY <1>3 DEF Tiles
  <2>2. ASSUME NEW a \in Nat, NEW n \in Nat, a + n <= pos
        PROVE  a \in 0 .. pos /\ a + (n \div 2) \in 0 .. pos
    BY <2>1, <2>2
  <2>3. QED
    BY <2>1, <2>2 DEF CutPoints
<1>5. LostInv'
  BY <1>1, <1>2, <1>3, <1>4 DEF LostInv, Stopped, Tiles
<1>6. OutTypes'
  BY <1>1 DEF OutInv, OutTypes, files, Files
<1>7. Tiles(out, pos)'
  BY <1>1, <1>3
<1>8. QED
  BY <1>1, <1>5, <1>6, <1>7, FailedOut

(* Every step preserves the output invariant.                               *)
LEMMA NextOut ==
    ASSUME PlanInv, PlanInv', OutInv, [Next]_vars
    PROVE  OutInv'
<1>1. CASE UNCHANGED vars
  BY <1>1 DEF vars, planVars, outVars, OutInv, OutTypes, LostInv, Stopped, PosInv, Written,
     IsPayload, Target, files, Files, header_chunk_len, toc_chunk_len
<1>2. CASE PackDirectory \/ Create \/ Validate \/ Layout \/ PlanFile \/ BuildHeader
  BY <1>2, QuietOut
<1>3. CASE WriteHeader
  BY <1>3, WriteHeaderOut
<1>4. CASE WriteToc \/ WriteItoc
  BY <1>4, WriteIndexOut
<1>5. CASE PadToContent
  BY <1>5, PadToContentOut
<1>6. CASE CopyPayload
  BY <1>6, CopyPayloadOut
<1>7. CASE CheckCopied
  BY <1>7, CheckCopiedOut
<1>8. CASE Finish
  BY <1>8, FinishOut
<1>9. CASE SourceChanges
  BY <1>9, SourceChangesOut
<1>10. CASE Interrupted
  BY <1>10, InterruptedOut
<1>11. QED
  BY <1>1, <1>2, <1>3, <1>4, <1>5, <1>6, <1>7, <1>8, <1>9, <1>10 DEF Next, Step

(* At the end every file of the list has been written: the order reaches    *)
(* each of them.                                                            *)
LEMMA OutGivesComplete ==
    ASSUME PlanInv, OutInv
    PROVE  OkIsComplete
<1> SUFFICES ASSUME pc = "ok", NEW i \in Files
             PROVE  /\ pos = lay.size
                    /\ \E e \in out : /\ e.kind = "data" /\ e.body.file = i
                                      /\ e.at = off[i] /\ e.len = files[i].size
  BY DEF OkIsComplete, OutInv, PosInv
<1>1. pos = lay.size /\ Written(Len(files))
  BY DEF OutInv, PosInv
<1>2. PICK j \in Files : order[j] = i
  BY DEF PlanInv, OrderInv, Writing
<1>3. PICK e \in out : IsPayload(e, order[j]) /\ e.len = files[order[j]].size
  BY <1>1, <1>2 DEF Written, Files
<1>4. QED
  BY <1>1, <1>2, <1>3 DEF IsPayload

(* For every call and whatever the sources and the disk do: the state is    *)
(* well typed, the output has no gap and no byte written twice, and a call  *)
(* that returns Ok has written every payload whole where the index says.    *)
THEOREM OutputIsSound == Spec => [](TypeOK /\ OutputIsGapless /\ OkIsComplete)
<1>1. Init => PlanInv /\ OutInv
  BY InitPlan, InitOut
<1>2. PlanInv /\ OutInv /\ [Next]_vars => PlanInv' /\ OutInv'
  BY NextPlan, NextOut
<1>3. PlanInv /\ OutInv => TypeOK /\ OutputIsGapless /\ OkIsComplete
  <2> SUFFICES ASSUME PlanInv, OutInv PROVE TypeOK /\ OutputIsGapless /\ OkIsComplete
    OBVIOUS
  <2>1. TypeOK
    BY DEF PlanInv, OutInv, PlanTypes, OutTypes, Tiles, LostInv, TypeOK
  <2>2. OutputIsGapless
    BY DEF OutInv, Tiles, OutputIsGapless
  <2>3. QED
    BY <2>1, <2>2, OutGivesComplete
<1>4. QED
  BY <1>1, <1>2, <1>3, PTL DEF Spec
-----------------------------------------------------------------------------
(* pack_directory's checks come before File::create.  Once it has passed    *)
(* them the same checks of write_with_profile cannot fail any more, but for *)
(* the count of the files, one of which may be too many; and while it makes *)
(* them the old output is still there.                                      *)

Rejections == {"InvalidAlignment", "EmptyInput", "FileTooLarge", "TooManyFiles"}

CheckedInv ==
    /\ pc = "directory" => old
    /\ pc # "failed" => err = "none"
    /\ job.entry = "directory" /\ pc \notin {"directory", "failed", "killed"} =>
        ValidAlignment(alignment) /\ files # <<>> /\ Len(files) - 1 <= CountMax
    /\ job \in Jobs /\ DirectoryRejectsFirst

(* A step after the checks raises none of their errors.                     *)
LEMMA LaterChecked ==
    ASSUME CheckedInv, job' = job, old' = old,
           pc \notin {"directory", "failed", "killed"}, pc' \in Labels \ {"directory"},
           \/ err' = err
           \/ pc' = "failed" /\ err' \notin Rejections
    PROVE  CheckedInv'
BY DEF CheckedInv, DirectoryRejectsFirst, Rejections, files, alignment

(* Every step keeps the checks made.                                        *)
LEMMA NextChecked ==
    ASSUME CheckedInv, [Next]_vars
    PROVE  CheckedInv'
<1>1. CASE UNCHANGED vars
  BY <1>1 DEF CheckedInv, DirectoryRejectsFirst, files, alignment, vars, outVars, planVars
<1>2. CASE PackDirectory
  BY <1>2 DEF PackDirectory, Fail, Goto, CheckedInv, DirectoryRejectsFirst, files, alignment
<1>3. CASE Create
  BY <1>3 DEF Create, Goto, CheckedInv, DirectoryRejectsFirst, files, alignment
<1>4. CASE Validate
  <2>1. CASE job.entry = "directory"
    <3>1. pc = "validate" /\ job' = job /\ old' = old
      BY <1>4 DEF Validate
    <3>2. /\ ValidAlignment(alignment) /\ files # <<>> /\ Len(files) - 1 <= CountMax
          /\ job \in Jobs
      BY <2>1, <3>1 DEF CheckedInv
    <3>3. \/ pc' = "failed" /\ err' = "BadItocId"
          \/ pc' = "failed" /\ err' = "TooManyFiles" /\ Len(files) > CountMax
          \/ pc' = "layout" /\ err' = err
      BY <1>4, <3>2 DEF Validate, Fail, Goto
    <3>4. CASE err' = "TooManyFiles" /\ pc' = "failed"
      <4>1. Len(files) \in Nat /\ CountMax \in Nat
        BY <3>2, JobFacts, WriterAssumption
      <4>2. Len(files) = CountMax + 1
        BY <3>2, <3>3, <3>4, <4>1
      <4>3. QED
        BY <3>1, <3>2, <3>4, <4>2 DEF CheckedInv, DirectoryRejectsFirst, files
    <3>5. QED
      BY <3>1, <3>3, <3>4, LaterChecked DEF Labels, Rejections
  <2>2. CASE job.entry # "directory"
    BY <1>4, <2>2 DEF Validate, Fail, Goto, CheckedInv, DirectoryRejectsFirst
  <2>3. QED
    BY <2>1, <2>2
<1>5. CASE Layout
  <2>1. /\ pc = "layout" /\ job' = job /\ old' = old
        /\ \/ pc' = "failed" /\ err' \in {"ArithmeticOverflow", "ItocContentOffsetTooLarge"}
           \/ pc' = "plan" /\ err' = err
    BY <1>5 DEF Layout, Fail, Goto
  <2>2. QED
    BY <2>1, LaterChecked DEF Labels, Rejections
<1>6. CASE PlanFile \/ BuildHeader
  <2>1. /\ pc = "plan" /\ job' = job /\ old' = old
        /\ \/ pc' = "failed" /\ err' \in {"ArithmeticOverflow", "HeaderTooLarge"}
           \/ pc' \in {"plan", "header"} /\ err' = err
    BY <1>6 DEF PlanFile, BuildHeader, Fail, Goto
  <2>2. QED
    BY <2>1, LaterChecked DEF Labels, Rejections
<1>7. CASE WriteHeader \/ WriteToc \/ WriteItoc \/ PadToContent
  <2>1. /\ pc \in {"header", "toc", "itoc", "content"} /\ job' = job /\ old' = old
        /\ pc' \in {"toc", "itoc", "content", "payload"} /\ err' = err
    BY <1>7 DEF WriteHeader, WriteToc, WriteItoc, PadToContent, Goto
  <2>2. QED
    BY <2>1, LaterChecked DEF Labels
<1>8. CASE CopyPayload \/ CheckCopied \/ Finish
  <2>1. /\ pc \in {"payload", "copied"} /\ job' = job /\ old' = old
        /\ \/ pc' = "failed" /\ err' \in {"ArithmeticOverflow", "SourceUnusable", "SizeChanged"}
           \/ pc' \in {"payload", "copied", "ok"} /\ err' = err
    BY <1>8 DEF CopyPayload, CheckCopied, Finish, Fail, Goto
  <2>2. QED
    BY <2>1, LaterChecked DEF Labels, Rejections
<1>9. CASE SourceChanges
  BY <1>9 DEF SourceChanges, CheckedInv, DirectoryRejectsFirst, files, alignment, outVars
<1>10. CASE Interrupted
  <2>1. /\ pc \notin {"failed", "killed"} /\ ~old /\ job' = job /\ old' = old
        /\ \/ pc' = "killed" /\ err' = err
           \/ pc' = "failed" /\ err' = "Io"
    BY <1>10 DEF Interrupted, Stopped
  <2>2. pc # "directory"
    BY <2>1 DEF CheckedInv
  <2>3. QED
    BY <2>1, <2>2, LaterChecked DEF Labels, Rejections
<1>11. QED
  BY <1>1, <1>2, <1>3, <1>4, <1>5, <1>6, <1>7, <1>8, <1>9, <1>10 DEF Next, Step

(* For every call of pack_directory: when it returns one of the errors its  *)
(* own checks raise, the archive that was at the output path is untouched.  *)
THEOREM RejectedCallKeepsArchive == Spec => []DirectoryRejectsFirst
<1>1. Init => CheckedInv
  BY DEF Init, CheckedInv, DirectoryRejectsFirst
<1>2. CheckedInv /\ [Next]_vars => CheckedInv'
  BY NextChecked
<1>3. CheckedInv => DirectoryRejectsFirst
  BY DEF CheckedInv
<1>4. QED
  BY <1>1, <1>2, <1>3, PTL DEF Spec

-----------------------------------------------------------------------------
(* What is written.  The plan the checks let through does not change while  *)
(* the extents are written, and an error or a kill leaves it as it was: the *)
(* extents on disk always follow one complete plan.                         *)

(* What write_with_profile accepts: files that can be counted, in a physical *)
(* order which is by id where there is an ITOC and the list's otherwise.    *)
Accepted ==
    /\ Len(files) <= CountMax
    /\ has_itoc(job.mode) =>
        /\ \A i \in Files : files[i].id <= U16Max
        /\ \A a, b \in Files : a < b => files[order[a]].id < files[order[b]].id
    /\ ~has_itoc(job.mode) => \A i \in Files : order[i] = i

InLimits ==
    /\ has_toc(job.mode) => TableFits(toc_table_len(files))
    /\ has_itoc(job.mode) => /\ TableFits(itoc_table_len(files, job.direct))
                             /\ ContentOffset <= U32Max
    /\ cursor <= U64Max

(* The first n payloads follow each other without a gap but the padding.    *)
Chained(n) ==
    /\ cursor = IF n = 0 THEN lay.content
                ELSE align_up(off[order[n]] + files[order[n]].size, alignment)
    /\ n > 0 => off[order[1]] = lay.content
    /\ \A a \in 1 .. n - 1 :
        off[order[a + 1]] = align_up(off[order[a]] + files[order[a]].size, alignment)

SizesFit == \A i \in Files : files[i].size <= U32Max /\ files[i].extract <= U32Max

ChainInv ==
    /\ pc \notin {"directory", "failed", "killed"} => SizesFit
    /\ pc \in {"layout", "plan"} \cup Writing => Accepted
    /\ pc \in {"plan"} \cup Writing => InLimits /\ Chained(Planned)
    /\ pc \in Writing => header_chunk_len <= MarkerOffset

(* All that is known of a plan once something is written.                   *)
PlanDone ==
    /\ ValidAlignment(alignment)
    /\ order \in [Files -> Files]
    /\ \A i, j \in Files : i # j => order[i] # order[j]
    /\ \A i \in Files : \E j \in Files : order[j] = i
    /\ lay.toc = (IF has_toc(job.mode) THEN IndexBase ELSE 0)
    /\ lay.itoc = (IF has_itoc(job.mode) THEN TocEnd ELSE 0)
    /\ lay.content = ContentOffset /\ lay.size = cursor
    /\ off \in [Files -> Nat]
    /\ \A a \in Files :
        /\ lay.content <= off[order[a]] /\ off[order[a]] + files[order[a]].size <= cursor
        /\ \A b \in a + 1 .. Len(files) : off[order[a]] + files[order[a]].size <= off[order[b]]
    /\ Accepted /\ InLimits /\ Chained(Len(files)) /\ SizesFit
    /\ header_chunk_len <= MarkerOffset

PlanSame == UNCHANGED <<job, order, lay, off, cursor>>

(* A plan that is done depends on nothing a later step changes.             *)
LEMMA SamePlanDone ==
    ASSUME PlanDone, PlanSame
    PROVE  PlanDone'
<1>1. /\ UNCHANGED <<job, order, lay, off, cursor>>
      /\ files' = files /\ Files' = Files /\ alignment' = alignment
      /\ toc_chunk_len' = toc_chunk_len /\ itoc_chunk_len' = itoc_chunk_len
      /\ header_chunk_len' = header_chunk_len
  BY DEF PlanSame, files, Files, alignment, toc_chunk_len, itoc_chunk_len, header_chunk_len
<1>2. TocEnd' = TocEnd /\ ItocEnd' = ItocEnd /\ ContentOffset' = ContentOffset
  BY <1>1 DEF TocEnd, ItocEnd, ContentOffset
<1>3. Accepted' /\ SizesFit'
  BY <1>1 DEF PlanDone, Accepted, SizesFit
<1>4. InLimits'
  BY <1>1, <1>2 DEF PlanDone, InLimits
<1>5. Chained(Len(files))'
  BY <1>1 DEF PlanDone, Chained
<1>6. QED
  BY <1>1, <1>2, <1>3, <1>4, <1>5 DEF PlanDone

(* Nothing is planned at first.                                             *)
LEMMA InitChain == Init => ChainInv
<1> SUFFICES ASSUME Init PROVE ChainInv
  OBVIOUS
<1>1. pc = job.entry /\ job \in Jobs /\ pc \in {"directory", "files"}
  BY JobFacts DEF Init
<1>2. CASE job.entry = "directory"
  BY <1>1, <1>2 DEF ChainInv, Writing
<1>3. CASE job.entry = "files"
  <2>1. \A i \in Files : FieldsAre32Bits("files", files[i])
    BY <1>1, <1>3, WriterAssumption DEF Files, files
  <2>2. SizesFit
    BY <2>1 DEF SizesFit, FieldsAre32Bits
  <2>3. QED
    BY <1>1, <1>3, <2>2 DEF ChainInv, Writing
<1>4. QED
  BY <1>1, <1>2, <1>3

(* Up to the planning loop.                                                 *)
LEMMA EarlyChain ==
    ASSUME PlanInv, PlanInv', ChainInv, PackDirectory \/ Create \/ Validate
    PROVE  ChainInv'
<1>0. job' = job /\ job \in Jobs /\ (SizesFit <=> SizesFit')
  BY DEF PlanInv, PlanTypes, PackDirectory, Create, Validate, SizesFit, Files, files
<1>1. CASE PackDirectory
  <2>1. CASE pc' = "failed"
    BY <2>1 DEF ChainInv, Writing
  <2>2. CASE pc' # "failed"
    <3>1. pc' = "files" /\ \A i \in Files : files[i].size <= U32Max
      BY <1>1, <2>2 DEF PackDirectory, Fail, Goto
    <3>2. SizesFit
      <4>1. \A i \in Files : FieldsAre32Bits(job.entry, files[i])
        BY <1>0, WriterAssumption DEF Files, files
      <4>2. QED
        BY <3>1, <4>1 DEF SizesFit, FieldsAre32Bits
    <3>3. QED
      BY <1>0, <3>1, <3>2 DEF ChainInv, Writing
  <2>3. QED
    BY <2>1, <2>2
<1>2. CASE Create
  BY <1>0, <1>2 DEF Create, Goto, ChainInv, Writing
<1>3. CASE Validate
  <2>1. CASE pc' = "failed"
    BY <2>1 DEF ChainInv, Writing
  <2>2. CASE pc' # "failed"
    <3>1. /\ pc = "validate" /\ pc' = "layout" /\ order' \in PhysicalOrders
          /\ ~(has_itoc(job.mode) /\ (IdTooLarge \/ DuplicateId))
      BY <1>3, <2>2 DEF Validate, Fail, Goto
    <3>2. /\ \A i \in Files : files[i].id \in Nat
          /\ U16Max \in Nat
      BY <1>0, JobFacts, WriterAssumption
    <3>3. Accepted'
      <4>0. Len(files) <= CountMax
        BY <1>3, <2>2 DEF Validate, Fail
      <4>1. CASE has_itoc(job.mode)
        <5>1. \A i \in Files : files[i].id <= U16Max
          BY <3>1, <3>2, <4>1 DEF IdTooLarge
        <5>2. \A a, b \in Files : a < b => files[order'[a]].id < files[order'[b]].id
          BY <3>1, <4>1 DEF PhysicalOrders
        <5>3. QED
          BY <1>0, <4>0, <4>1, <5>1, <5>2 DEF Accepted, files, Files
      <4>2. CASE ~has_itoc(job.mode)
        BY <1>0, <3>1, <4>0, <4>2 DEF PhysicalOrders, Accepted, files, Files
      <4>3. QED
        BY <4>1, <4>2
    <3>4. QED
      BY <1>0, <3>1, <3>3 DEF ChainInv, Writing
  <2>3. QED
    BY <2>1, <2>2
<1>4. QED
  BY <1>1, <1>2, <1>3

(* The layout starts the loop at the content offset.                        *)
LEMMA LayoutChain ==
    ASSUME PlanInv, PlanInv', ChainInv, Layout
    PROVE  ChainInv'
<1>1. CASE pc' = "failed"
  BY <1>1 DEF ChainInv, Writing
<1>2. CASE pc' # "failed"
  <2>1. /\ pc = "layout" /\ pc' = "plan" /\ k' = 1 /\ cursor' = ContentOffset
        /\ lay'.content = ContentOffset
        /\ job' = job /\ order' = order
        /\ has_toc(job.mode) => TableFits(toc_table_len(files))
        /\ has_itoc(job.mode) => /\ TableFits(itoc_table_len(files, job.direct))
                                 /\ ContentOffset <= U32Max
        /\ ~AlignOverflows(ItocEnd, alignment)
    BY <1>2 DEF Layout, Fail, Goto
  <2>2. ValidAlignment(alignment) /\ job \in Jobs
    BY <2>1 DEF PlanInv, PlanTypes, OrderInv
  <2>3. ItocEnd \in Nat /\ U64Max \in Nat /\ alignment \in PowersOfTwo /\ alignment \in Nat
    BY <2>2, LayoutFacts, JobFacts, WriterAssumption DEF ValidAlignment
  <2>4. ContentOffset \in Nat /\ ContentOffset < ItocEnd + alignment
    BY <2>3, AlignUp DEF ContentOffset
  <2>5. ContentOffset <= U64Max
    BY <2>1, <2>3, <2>4 DEF AlignOverflows
  <2>6. InLimits'
    BY <2>1, <2>5 DEF InLimits, files, Files, alignment, ContentOffset, ItocEnd, TocEnd,
       toc_chunk_len, itoc_chunk_len
  <2>7. Chained(Planned)'
    BY <2>1 DEF Chained, Planned
  <2>8. Accepted' /\ SizesFit'
    BY <2>1 DEF ChainInv, Accepted, SizesFit, files, Files
  <2>9. QED
    BY <2>1, <2>6, <2>7, <2>8 DEF ChainInv, Writing
<1>3. QED
  BY <1>1, <1>2

(* A turn of the planning loop links one more payload.                      *)
LEMMA PlanFileChain ==
    ASSUME PlanInv, PlanInv', ChainInv, PlanFile
    PROVE  ChainInv'
<1> DEFINE i == order[k]
           end == cursor + files[i].size
<1>1. CASE pc' = "failed"
  BY <1>1 DEF ChainInv, Writing
<1>2. CASE pc' # "failed"
  <2>1. /\ pc = "plan" /\ pc' = "plan" /\ k <= Len(files) /\ k' = k + 1
        /\ off' = [off EXCEPT ![i] = cursor] /\ cursor' = align_up(end, alignment)
        /\ ~AlignOverflows(end, alignment)
        /\ UNCHANGED <<job, order, lay>>
    BY <1>2 DEF PlanFile, Fail, Goto
  <2>2. /\ job \in Jobs /\ ValidAlignment(alignment) /\ cursor \in Nat /\ off \in [Files -> Nat]
        /\ k \in Nat /\ k >= 1
        /\ order \in [Files -> Files]
        /\ \A a, b \in Files : a # b => order[a] # order[b]
    <3>1. job \in Jobs /\ cursor \in Nat /\ k \in Nat
      BY DEF PlanInv, PlanTypes
    <3>2. k >= 1
      BY <2>1, <3>1, JobFacts DEF PlanInv, LoopInv
    <3>3. off \in [Files -> Nat]
      BY <2>1 DEF PlanInv, LayInv
    <3>4. /\ ValidAlignment(alignment) /\ order \in [Files -> Files]
          /\ \A a, b \in Files : a # b => order[a] # order[b]
      BY <2>1 DEF PlanInv, OrderInv
    <3>5. QED
      BY <3>1, <3>2, <3>3, <3>4
  <2>3. Len(files) \in Nat /\ U64Max \in Nat /\ \A j \in Files : files[j].size \in Nat
    BY <2>2, JobFacts, WriterAssumption
  <2>4. k \in Files /\ i \in Files /\ end \in Nat /\ alignment \in Nat
    <3>1. k \in Files
      BY <2>1, <2>2, <2>3 DEF Files
    <3>2. i \in Files
      BY <2>2, <3>1
    <3>3. alignment \in Nat
      BY <2>2, JobFacts
    <3>4. end \in Nat
      BY <2>2, <2>3, <3>2
    <3>5. QED
      BY <3>1, <3>2, <3>3, <3>4
  <2>5. cursor' \in Nat /\ cursor' < end + alignment
    BY <2>1, <2>2, <2>4, AlignUp DEF ValidAlignment
  <2>6. InLimits'
    <3>1. cursor' <= U64Max
      BY <2>1, <2>3, <2>4, <2>5, SMTT(30) DEF AlignOverflows
    <3>2. InLimits
      BY <2>1 DEF ChainInv
    <3>3. QED
      BY <2>1, <3>1, <3>2 DEF InLimits, files, Files, alignment, ContentOffset, ItocEnd, TocEnd,
         toc_chunk_len, itoc_chunk_len
  <2>7. Accepted' /\ SizesFit'
    BY <2>1 DEF ChainInv, Accepted, SizesFit, files, Files
  <2>8. Chained(k - 1)
    BY <2>1 DEF ChainInv, Planned
  <2>9. off'[i] = cursor /\ \A a \in 1 .. k - 1 : off'[order[a]] = off[order[a]]
    <3>1. off'[i] = cursor
      BY <2>1, <2>2, <2>4
    <3>2. ASSUME NEW a \in 1 .. k - 1 PROVE off'[order[a]] = off[order[a]]
      <4>1. a \in Files /\ a # k
        BY <2>1, <2>2, <2>3 DEF Files
      <4>2. QED
        BY <2>1, <2>2, <2>4, <4>1
    <3>3. QED
      BY <3>1, <3>2
  <2>10. /\ cursor' = align_up(off'[order[k]] + files[order[k]].size, alignment)
         /\ off'[order[1]] = lay.content
    <3>1. CASE k = 1
      BY <2>1, <2>8, <2>9, <3>1 DEF Chained
    <3>2. CASE k # 1
      <4>1. 1 \in 1 .. k - 1 /\ k - 1 > 0
        BY <2>2, <3>2
      <4>2. QED
        BY <2>1, <2>8, <2>9, <4>1 DEF Chained
    <3>3. QED
      BY <3>1, <3>2
  <2>11. ASSUME NEW a \in 1 .. k - 1
         PROVE  off'[order[a + 1]] = align_up(off'[order[a]] + files[order[a]].size, alignment)
    <3>1. CASE a = k - 1
      <4>1. cursor = align_up(off[order[k - 1]] + files[order[k - 1]].size, alignment)
        BY <2>2, <2>8, <3>1 DEF Chained
      <4>2. a + 1 = k
        BY <2>2, <3>1
      <4>3. QED
        BY <2>9, <3>1, <4>1, <4>2
    <3>2. CASE a # k - 1
      <4>1. a \in 1 .. (k - 1) - 1 /\ a + 1 \in 1 .. k - 1
        BY <2>2, <3>2
      <4>2. QED
        BY <2>8, <2>9, <4>1 DEF Chained
    <3>3. QED
      BY <3>1, <3>2
  <2>12. Chained(Planned)'
    <3>1. Planned' = k
      BY <2>1, <2>2 DEF Planned
    <3>2. files' = files /\ alignment' = alignment
      BY <2>1 DEF files, alignment
    <3>3. QED
      BY <2>1, <2>2, <2>10, <2>11, <3>1, <3>2 DEF Chained
  <2>13. QED
    BY <2>1, <2>6, <2>7, <2>12 DEF ChainInv, Writing
<1>3. QED
  BY <1>1, <1>2

(* The writing steps leave the plan alone.                                  *)
LEMMA WritingChain ==
    ASSUME ChainInv, PlanSame, pc \in Writing, pc' \in Writing
    PROVE  ChainInv'
<1>1. /\ UNCHANGED <<job, order, lay, off, cursor>>
      /\ files' = files /\ Files' = Files /\ alignment' = alignment
      /\ toc_chunk_len' = toc_chunk_len /\ itoc_chunk_len' = itoc_chunk_len
      /\ header_chunk_len' = header_chunk_len
  BY DEF PlanSame, files, Files, alignment, toc_chunk_len, itoc_chunk_len, header_chunk_len
<1>2. ContentOffset' = ContentOffset
  BY <1>1 DEF TocEnd, ItocEnd, ContentOffset
<1>3. Accepted /\ SizesFit /\ InLimits /\ Chained(Planned) /\ header_chunk_len <= MarkerOffset
  BY DEF ChainInv, Writing
<1>4. Accepted' /\ SizesFit' /\ InLimits' /\ header_chunk_len' <= MarkerOffset
  BY <1>1, <1>2, <1>3 DEF Accepted, SizesFit, InLimits
<1>5. Planned = Len(files) /\ Planned' = Len(files)
  BY <1>1 DEF Planned, Writing
<1>6. Chained(Planned)'
  BY <1>1, <1>3, <1>5 DEF Chained
<1>7. QED
  BY <1>4, <1>6 DEF ChainInv

(* Each step keeps the links of the plan.                                   *)
LEMMA NextChain ==
    ASSUME PlanInv, PlanInv', OutInv, ChainInv, [Next]_vars
    PROVE  ChainInv'
<1>1. CASE UNCHANGED vars \/ SourceChanges
  <2>1. UNCHANGED <<job, order, lay, off, cursor, k, pc>>
    BY <1>1 DEF vars, planVars, SourceChanges
  <2>2. /\ files' = files /\ Files' = Files /\ alignment' = alignment
        /\ toc_chunk_len' = toc_chunk_len /\ itoc_chunk_len' = itoc_chunk_len
        /\ header_chunk_len' = header_chunk_len
    BY <2>1 DEF files, Files, alignment, toc_chunk_len, itoc_chunk_len, header_chunk_len
  <2>3. ContentOffset' = ContentOffset /\ Planned' = Planned
    BY <2>1, <2>2 DEF TocEnd, ItocEnd, ContentOffset, Planned
  <2>4. QED
    BY <2>1, <2>2, <2>3 DEF ChainInv, Accepted, SizesFit, InLimits, Chained
<1>2. CASE PackDirectory \/ Create \/ Validate
  BY <1>2, EarlyChain
<1>3. CASE Layout
  BY <1>3, LayoutChain
<1>4. CASE PlanFile
  BY <1>4, PlanFileChain
<1>5. CASE BuildHeader
  <2>1. CASE pc' = "failed"
    BY <2>1 DEF ChainInv, Writing
  <2>2. CASE pc' # "failed"
    <3>1. /\ pc = "plan" /\ pc' = "header" /\ k > Len(files) /\ lay'.content = lay.content
          /\ header_chunk_len <= MarkerOffset
          /\ UNCHANGED <<job, order, off, cursor, k>>
      <4>1. lay \in [toc : Nat, itoc : Nat, content : Nat, size : Nat]
        BY DEF PlanInv, PlanTypes
      <4>2. QED
        BY <1>5, <2>2, <4>1 DEF BuildHeader, Fail, Goto
    <3>2. /\ files' = files /\ Files' = Files /\ alignment' = alignment
          /\ toc_chunk_len' = toc_chunk_len /\ itoc_chunk_len' = itoc_chunk_len
          /\ header_chunk_len' = header_chunk_len
      BY <3>1 DEF files, Files, alignment, toc_chunk_len, itoc_chunk_len, header_chunk_len
    <3>3. ContentOffset' = ContentOffset
      BY <3>1, <3>2 DEF TocEnd, ItocEnd, ContentOffset
    <3>4. Planned = Len(files) /\ Planned' = Len(files)
      <4>1. k \in 1 .. Len(files) + 1 /\ Len(files) \in Nat
        BY <3>1, JobFacts DEF PlanInv, PlanTypes, LoopInv
      <4>2. QED
        BY <3>1, <3>2, <4>1 DEF Planned
    <3>5. Accepted /\ SizesFit /\ InLimits /\ Chained(Len(files))
      BY <3>1, <3>4 DEF ChainInv
    <3>6. Chained(Planned)'
      BY <3>1, <3>2, <3>4, <3>5 DEF Chained
    <3>7. Accepted' /\ SizesFit' /\ InLimits'
      BY <3>1, <3>2, <3>3, <3>5 DEF Accepted, SizesFit, InLimits
    <3>8. QED
      BY <3>1, <3>2, <3>6, <3>7 DEF ChainInv
  <2>3. QED
    BY <2>1, <2>2
<1>6. CASE \/ WriteHeader \/ WriteToc \/ WriteItoc \/ PadToContent
           \/ CopyPayload \/ CheckCopied \/ Finish
  <2>1. PlanSame /\ pc \in Writing /\ pc' \in Writing \cup {"failed"}
    BY <1>6 DEF PlanSame, WriteHeader, WriteToc, WriteItoc, PadToContent, CopyPayload, CheckCopied,
       Finish, Goto, Fail, planVars, Writing
  <2>2. CASE pc' = "failed"
    BY <2>2 DEF ChainInv, Writing
  <2>3. QED
    BY <2>1, <2>2, WritingChain
<1>7. CASE Interrupted
  BY <1>7 DEF Interrupted, ChainInv, Writing
<1>8. QED
  BY <1>1, <1>2, <1>3, <1>4, <1>5, <1>6, <1>7 DEF Next, Step

(* Once something is written the plan is done, and stays.                   *)
DoneInv == out # {} => PlanDone

(* Past the planning, the plan is done.                                     *)
LEMMA WritingIsDone ==
    ASSUME PlanInv, ChainInv, pc \in Writing
    PROVE  PlanDone
<1>1. /\ ValidAlignment(alignment)
      /\ order \in [Files -> Files]
      /\ \A i, j \in Files : i # j => order[i] # order[j]
      /\ \A i \in Files : \E j \in Files : order[j] = i
  BY DEF PlanInv, OrderInv
<1>2. /\ lay.toc = (IF has_toc(job.mode) THEN IndexBase ELSE 0)
      /\ lay.itoc = (IF has_itoc(job.mode) THEN TocEnd ELSE 0)
      /\ lay.content = ContentOffset /\ lay.size = cursor
      /\ off \in [Files -> Nat]
  BY DEF PlanInv, LayInv, SizeInv
<1>3. Planned = Len(files) /\ Planning
  BY DEF Planned, Planning, Writing
<1>4. Accepted /\ InLimits /\ Chained(Len(files)) /\ SizesFit /\ header_chunk_len <= MarkerOffset
  BY <1>3 DEF ChainInv, Writing
<1>5. \A a \in Files :
        /\ lay.content <= off[order[a]] /\ off[order[a]] + files[order[a]].size <= cursor
        /\ \A b \in a + 1 .. Len(files) : off[order[a]] + files[order[a]].size <= off[order[b]]
  BY <1>3 DEF PlanInv, PlanIsDisjoint, Files
<1>6. QED
  BY <1>1, <1>2, <1>4, <1>5 DEF PlanDone

(* Each step keeps it so.                                                   *)
LEMMA NextDone ==
    ASSUME PlanInv, OutInv, ChainInv, DoneInv, [Next]_vars
    PROVE  DoneInv'
<1>1. SUFFICES ASSUME out' # {} PROVE PlanDone'
  BY DEF DoneInv
<1>2. CASE UNCHANGED vars \/ SourceChanges \/ Interrupted
  BY <1>1, <1>2, SamePlanDone DEF vars, outVars, planVars, SourceChanges, Interrupted, PlanSame,
     DoneInv
<1>3. CASE PackDirectory \/ Create \/ Validate \/ Layout \/ PlanFile \/ BuildHeader
  <2>1. out' = out /\ pc \in {"directory", "files", "validate", "layout", "plan"}
    BY <1>3 DEF PackDirectory, Create, Validate, Layout, PlanFile, BuildHeader
  <2>2. QED
    BY <1>1, <2>1 DEF OutInv, PosInv
<1>4. CASE \/ WriteHeader \/ WriteToc \/ WriteItoc \/ PadToContent
           \/ CopyPayload \/ CheckCopied \/ Finish
  <2>1. PlanSame /\ pc \in Writing
    BY <1>4 DEF PlanSame, WriteHeader, WriteToc, WriteItoc, PadToContent, CopyPayload, CheckCopied,
       Finish, planVars, Writing
  <2>2. QED
    BY <2>1, WritingIsDone, SamePlanDone
<1>5. QED
  BY <1>2, <1>3, <1>4 DEF Next, Step

(* What an extent holds: the header and the tables of the plan at their     *)
(* places, zeros, the copyright marker, or a payload at its offset.         *)
Content(e) ==
    /\ e.kind \in {"cpk", "zero", "mark", "toc", "itoc", "data"}
    /\ e.kind = "cpk" => e = Extent(0, header_chunk_len, "cpk", header_row)
    /\ e.kind = "toc" =>
        has_toc(job.mode) /\ e = Extent(lay.toc, toc_chunk_len, "toc", toc_rows)
    /\ e.kind = "itoc" =>
        has_itoc(job.mode) /\ e = Extent(lay.itoc, itoc_chunk_len, "itoc", itoc_body)
    /\ e.kind = "data" => e.body.file \in Files /\ e.at = off[e.body.file]

ContentInv == \A e \in out : Content(e)

(* What an extent has to hold follows from the plan.                        *)
LEMMA SameContent ==
    ASSUME PlanSame, NEW e, Content(e)
    PROVE  Content(e)'
<1>1. /\ UNCHANGED <<job, order, lay, off, cursor>>
      /\ files' = files /\ Files' = Files /\ alignment' = alignment
      /\ toc_chunk_len' = toc_chunk_len /\ itoc_chunk_len' = itoc_chunk_len
      /\ header_chunk_len' = header_chunk_len
  BY DEF PlanSame, files, Files, alignment, toc_chunk_len, itoc_chunk_len, header_chunk_len
<1>2. header_row' = header_row
  BY <1>1 DEF header_row
<1>3. toc_rows' = toc_rows
  BY <1>1 DEF toc_rows
<1>4. itoc_body' = itoc_body
  <2>1. LowPositions' = LowPositions
    BY <1>1 DEF LowPositions
  <2>2. QED
    BY <1>1, <2>1 DEF itoc_body, itoc_rows
<1>5. QED
  BY <1>1, <1>2, <1>3, <1>4 DEF Content

(* Zeros have no number in them.                                            *)
LEMMA ZerosContent ==
    ASSUME NEW from, NEW to, NEW e \in Zeros(from, to)
    PROVE  Content(e)
<1>1. e = Extent(from, to - from, "zero", 0)
  BY DEF Zeros
<1>2. e.kind = "zero"
  BY <1>1 DEF Extent
<1>3. QED
  BY <1>2 DEF Content

(* A write adds zeros and one extent.                                       *)
LEMMA WriteAtContent ==
    ASSUME ContentInv, PlanSame, NEW at, NEW kind, NEW len, NEW body,
           write_at(at, kind, len, body), Content(Extent(at, len, kind, body))
    PROVE  ContentInv'
<1>1. \A e \in out' : Content(e)
  BY ZerosContent DEF write_at, ContentInv
<1>2. QED
  BY <1>1, SameContent DEF ContentInv

(* Each write puts what fits: the sizes of rows of DataL were compared with *)
(* 16 bits, table lengths and the content offset with 32 bits, the cursor   *)
(* with 64 bits.                                                            *)
LEMMA NextContent ==
    ASSUME PlanInv, OutInv, ContentInv, [Next]_vars
    PROVE  ContentInv'
<1>1. CASE UNCHANGED vars \/ SourceChanges \/ Interrupted
  <2>1. PlanSame /\ out' = out
    BY <1>1 DEF vars, outVars, planVars, SourceChanges, Interrupted, PlanSame
  <2>2. QED
    BY <2>1, SameContent DEF ContentInv
<1>2. CASE PackDirectory \/ Create \/ Validate \/ Layout \/ PlanFile \/ BuildHeader
  <2>1. out' = out /\ pc \in {"directory", "files", "validate", "layout", "plan"}
    BY <1>2 DEF PackDirectory, Create, Validate, Layout, PlanFile, BuildHeader
  <2>2. QED
    BY <2>1 DEF OutInv, PosInv, ContentInv
<1>3. CASE WriteHeader
  <2> DEFINE x == Extent(0, header_chunk_len, "cpk", header_row)
             m == Extent(MarkerOffset, 6, "mark", 0)
  <2>1. PlanSame /\ out' = {x} \cup Zeros(header_chunk_len, MarkerOffset) \cup {m}
    BY <1>3 DEF WriteHeader, planVars, PlanSame
  <2>2. x.kind = "cpk" /\ m.kind = "mark"
    BY DEF Extent
  <2>3. Content(x) /\ Content(m)
    BY <2>2 DEF Content
  <2> HIDE DEF x, m
  <2>4. \A e \in out' : Content(e)
    BY <2>1, <2>3, ZerosContent
  <2>5. QED
    BY <2>1, <2>4, SameContent DEF ContentInv
<1>4. CASE WriteToc
  <2>1. PlanSame
    BY <1>4 DEF WriteToc, planVars, PlanSame
  <2>2. CASE has_toc(job.mode)
    <3>1. write_at(lay.toc, "toc", toc_chunk_len, toc_rows)
      BY <1>4, <2>2 DEF WriteToc
    <3>2. Content(Extent(lay.toc, toc_chunk_len, "toc", toc_rows))
      <4>1. Extent(lay.toc, toc_chunk_len, "toc", toc_rows).kind = "toc"
        BY DEF Extent
      <4>2. QED
        BY <2>2, <4>1 DEF Content
    <3>3. QED
      BY <2>1, <3>1, <3>2, WriteAtContent
  <2>3. CASE ~has_toc(job.mode)
    BY <1>4, <2>1, <2>3, SameContent DEF WriteToc, ContentInv
  <2>4. QED
    BY <2>2, <2>3
<1>5. CASE WriteItoc
  <2>1. PlanSame
    BY <1>5 DEF WriteItoc, planVars, PlanSame
  <2>2. CASE has_itoc(job.mode)
    <3>1. write_at(lay.itoc, "itoc", itoc_chunk_len, itoc_body)
      BY <1>5, <2>2 DEF WriteItoc
    <3>2. Content(Extent(lay.itoc, itoc_chunk_len, "itoc", itoc_body))
      <4>1. Extent(lay.itoc, itoc_chunk_len, "itoc", itoc_body).kind = "itoc"
        BY DEF Extent
      <4>2. QED
        BY <2>2, <4>1 DEF Content
    <3>3. QED
      BY <2>1, <3>1, <3>2, WriteAtContent
  <2>3. CASE ~has_itoc(job.mode)
    BY <1>5, <2>1, <2>3, SameContent DEF WriteItoc, ContentInv
  <2>4. QED
    BY <2>2, <2>3
<1>6. CASE PadToContent \/ Finish
  <2>1. PlanSame
    BY <1>6 DEF PadToContent, Finish, planVars, PlanSame
  <2>2. \A e \in out' : Content(e)
    BY <1>6, ZerosContent DEF PadToContent, Finish, ContentInv
  <2>3. QED
    BY <2>1, <2>2, SameContent DEF ContentInv
<1>7. CASE CopyPayload
  <2> DEFINE i == order[k]
             body == [file |-> i, form |-> Form(files[i])]
  <2>1. PlanSame /\ pc = "payload" /\ k <= Len(files)
    BY <1>7 DEF CopyPayload, planVars, PlanSame
  <2>2. CASE out' = out \/ out' = out \cup Zeros(pos, off[i])
    <3>1. \A e \in out' : Content(e)
      BY <2>2, ZerosContent DEF ContentInv
    <3>2. QED
      BY <2>1, <3>1, SameContent DEF ContentInv
  <2>3. CASE write_at(off[i], "data", Copied(i), body)
    <3>1. i \in Files
      <4>1. k \in 1 .. Len(files) + 1 /\ Len(files) \in Nat /\ order \in [Files -> Files]
        BY <2>1, JobFacts DEF OutInv, PosInv, PlanInv, PlanTypes, OrderInv, Writing
      <4>2. k \in Files
        BY <2>1, <4>1 DEF Files
      <4>3. QED
        BY <4>1, <4>2
    <3>2. Content(Extent(off[i], Copied(i), "data", body))
      <4> DEFINE x == Extent(off[i], Copied(i), "data", body)
      <4>1. x.kind = "data" /\ x.body.file = i /\ x.at = off[i]
        BY DEF Extent
      <4> HIDE DEF x
      <4>2. Content(x)
        BY <3>1, <4>1 DEF Content
      <4>3. QED
        BY <4>2 DEF x
    <3>3. QED
      BY <2>1, <2>3, <3>2, WriteAtContent
  <2>4. QED
    BY <1>7, <2>2, <2>3 DEF CopyPayload
<1>8. CASE CheckCopied
  <2>1. PlanSame /\ out' = out
    BY <1>8 DEF CheckCopied, PlanSame
  <2>2. QED
    BY <2>1, SameContent DEF ContentInv
<1>9. QED
  BY <1>1, <1>2, <1>3, <1>4, <1>5, <1>6, <1>7, <1>8 DEF Next, Step

(* The strings and the numbers of a file to pack.                           *)
LEMMA JobNumbers ==
    ASSUME job \in Jobs
    PROVE  /\ \A i \in Files : /\ files[i].id \in Nat /\ files[i].size \in Nat
                               /\ files[i].extract \in Nat /\ files[i].id <= U32Max
                               /\ files[i].dir \in Strings /\ files[i].name \in Strings
                               /\ files[i].user \in Strings
           /\ U16Max \in Nat /\ U32Max \in Nat
<1>1. files \in Seq(InputFiles) /\ U16Max \in Nat /\ U32Max \in Nat
      /\ \A i \in DOMAIN files : FieldsAre32Bits(job.entry, files[i])
  BY WriterAssumption DEF files
<1>2. ASSUME NEW i \in Files
      PROVE  files[i] \in InputFiles /\ FieldsAre32Bits(job.entry, files[i])
  BY <1>1 DEF Files
<1>3. QED
  BY <1>1, <1>2 DEF InputFiles, FieldsAre32Bits

(* A row of an ITOC fits the tables that have it.                           *)
LEMMA ItocRowFits ==
    ASSUME job \in Jobs, PlanDone, has_itoc(job.mode),
           NEW n \in Nat, NEW s, DOMAIN s = 1 .. n, \A p \in 1 .. n : s[p] \in Files,
           NEW j \in DOMAIN itoc_rows(s)
    PROVE  /\ j \in 1 .. n
           /\ RowFits(itoc_rows(s)[j], U16Max, U32Max)
           /\ IsLow(files[s[j]]) => RowFits(itoc_rows(s)[j], U16Max, U16Max)
<1> DEFINE f == files[s[j]]
<1>1. j \in 1 .. n /\ itoc_rows(s)[j] = [id |-> f.id, size |-> f.size, extract |-> f.extract]
  BY DEF itoc_rows
<1>2. s[j] \in Files
  BY <1>1
<1>3. f.id <= U16Max /\ f.size <= U32Max /\ f.extract <= U32Max
  BY <1>2 DEF PlanDone, Accepted, SizesFit
<1> HIDE DEF f
<1>4. RowFits(itoc_rows(s)[j], U16Max, U32Max)
  BY <1>1, <1>3 DEF RowFits
<1>5. IsLow(f) => RowFits(itoc_rows(s)[j], U16Max, U16Max)
  BY <1>1, <1>3 DEF RowFits, IsLow
<1>6. QED
  BY <1>1, <1>4, <1>5 DEF f

(* Every number the writer stores fits its field.                           *)
LEMMA ContentFits ==
    ASSUME PlanInv, OutInv, DoneInv, ContentInv
    PROVE  FieldsFit
<1> SUFFICES ASSUME NEW e \in out
             PROVE  /\ e.kind \in {"toc", "itoc"} => TableFits(e.len - ChunkHeaderBytes)
                    /\ e.kind = "cpk" =>
                        /\ e.len <= MarkerOffset /\ e.body.FileSize <= U64Max
                        /\ e.body.Files <= CountMax
                        /\ e.body.ItocOffset # 0 => e.body.ContentOffset <= U32Max
                    /\ e.kind = "toc" =>
                        \A j \in DOMAIN e.body : RowFits(e.body[j], U32Max, U32Max)
                    /\ e.kind = "itoc" =>
                        \A t \in DOMAIN e.body : \A j \in DOMAIN e.body[t] :
                            RowFits(e.body[t][j], U16Max, IF t = "DataL" THEN U16Max ELSE U32Max)
  BY DEF FieldsFit
<1>1. PlanDone /\ Content(e) /\ job \in Jobs
  BY DEF DoneInv, ContentInv, PlanInv, PlanTypes
<1>2. CASE e.kind = "toc"
  <2>1. /\ has_toc(job.mode) /\ e.len = ChunkHeaderBytes + toc_table_len(files)
        /\ e.body = toc_rows
    BY <1>1, <1>2 DEF Content, Extent, toc_chunk_len, chunk_size
  <2>2. toc_table_len(files) \in Nat /\ TableFits(toc_table_len(files))
    BY <1>1, <2>1, JobFacts DEF PlanDone, InLimits
  <2>3. e.len - ChunkHeaderBytes = toc_table_len(files)
    BY <2>1, <2>2 DEF ChunkHeaderBytes
  <2>4. ASSUME NEW j \in DOMAIN toc_rows PROVE RowFits(toc_rows[j], U32Max, U32Max)
    <3>1. /\ toc_rows[j].id = files[j].id /\ toc_rows[j].size = files[j].size
          /\ toc_rows[j].extract = files[j].extract /\ j \in Files
      BY DEF toc_rows
    <3>2. files[j].id <= U32Max /\ files[j].size <= U32Max /\ files[j].extract <= U32Max
      BY <1>1, <3>1, JobNumbers DEF PlanDone, SizesFit
    <3>3. QED
      BY <3>1, <3>2 DEF RowFits
  <2>5. QED
    BY <1>2, <2>1, <2>2, <2>3, <2>4
<1>3. CASE e.kind = "itoc"
  <2>1. /\ has_itoc(job.mode) /\ e.body = itoc_body
        /\ e.len = ChunkHeaderBytes + itoc_table_len(files, job.direct)
    BY <1>1, <1>3 DEF Content, Extent, itoc_chunk_len, chunk_size
  <2>2. /\ itoc_table_len(files, job.direct) \in Nat
        /\ TableFits(itoc_table_len(files, job.direct))
    BY <1>1, <2>1, JobFacts DEF PlanDone, InLimits
  <2>3. e.len - ChunkHeaderBytes = itoc_table_len(files, job.direct)
    BY <2>1, <2>2 DEF ChunkHeaderBytes
  <2>4. Len(files) \in Nat /\ DOMAIN order = 1 .. Len(files)
        /\ \A p \in 1 .. Len(files) : order[p] \in Files
    BY <1>1, JobFacts DEF PlanDone, Files
  <2>5. ASSUME NEW P \in SUBSET Files
        PROVE  /\ Cardinality(P) \in Nat /\ DOMAIN Kept(order, P) = 1 .. Cardinality(P)
               /\ \A n \in 1 .. Cardinality(P) :
                    /\ Nth(P, n) \in P /\ Kept(order, P)[n] = order[Nth(P, n)]
                    /\ Kept(order, P)[n] \in Files
    <3>1. /\ Cardinality(P) \in Nat /\ DOMAIN Kept(order, P) = 1 .. Cardinality(P)
          /\ \A n \in 1 .. Cardinality(P) : Nth(P, n) \in P /\ Kept(order, P)[n] = order[Nth(P, n)]
      BY <2>4, KeptFacts DEF Files
    <3>2. QED
      BY <2>4, <3>1 DEF Files
  <2>6. ASSUME NEW t \in DOMAIN itoc_body, NEW j \in DOMAIN itoc_body[t]
        PROVE  RowFits(itoc_body[t][j], U16Max, IF t = "DataL" THEN U16Max ELSE U32Max)
    <3>1. CASE job.direct
      <4>1. itoc_body[t] = itoc_rows(order) /\ t # "DataL"
        BY <3>1 DEF itoc_body
      <4>2. QED
        BY <1>1, <2>1, <2>4, <4>1, ItocRowFits
    <3>2. CASE ~job.direct /\ t = "DataL"
      <4>1. itoc_body[t] = itoc_rows(Kept(order, LowPositions))
        BY <3>2 DEF itoc_body
      <4>2. LowPositions \in SUBSET Files
        BY DEF LowPositions
      <4>3. /\ j \in 1 .. Cardinality(LowPositions)
            /\ IsLow(files[Kept(order, LowPositions)[j]]) =>
                RowFits(itoc_body[t][j], U16Max, U16Max)
        BY <1>1, <2>1, <2>5, <4>1, <4>2, ItocRowFits
      <4>4. IsLow(files[Kept(order, LowPositions)[j]])
        BY <2>5, <4>2, <4>3 DEF LowPositions
      <4>5. QED
        BY <3>2, <4>3, <4>4
    <3>3. CASE ~job.direct /\ t # "DataL"
      <4>1. itoc_body[t] = itoc_rows(Kept(order, Files \ LowPositions))
        BY <3>3 DEF itoc_body
      <4>2. Files \ LowPositions \in SUBSET Files
        OBVIOUS
      <4>3. RowFits(itoc_body[t][j], U16Max, U32Max)
        BY <1>1, <2>1, <2>5, <4>1, <4>2, ItocRowFits
      <4>4. QED
        BY <3>3, <4>3
    <3>4. QED
      BY <3>1, <3>2, <3>3
  <2>7. QED
    BY <1>3, <2>1, <2>2, <2>3, <2>6
<1>4. CASE e.kind = "cpk"
  <2>1. e.len = header_chunk_len /\ e.body = header_row
    BY <1>1, <1>4 DEF Content, Extent
  <2>2. header_chunk_len <= MarkerOffset /\ lay.size <= U64Max /\ Len(files) <= CountMax
    BY <1>1 DEF PlanDone, InLimits, Accepted
  <2>3. lay.itoc # 0 => lay.content <= U32Max
    BY <1>1 DEF PlanDone, InLimits
  <2>4. QED
    BY <1>4, <2>1, <2>2, <2>3 DEF header_row
<1>5. QED
  BY <1>2, <1>3, <1>4

(* All that is known of a call.                                             *)
WriterInv == PlanInv /\ OutInv /\ ChainInv /\ DoneInv /\ ContentInv
(* The invariant of the writer with what it writes.                         *)
LEMMA InitWriter == Init => WriterInv
BY InitPlan, InitOut, InitChain DEF Init, DoneInv, ContentInv, WriterInv

(* Each step keeps it.                                                      *)
LEMMA NextWriter == WriterInv /\ [Next]_vars => WriterInv'
BY NextPlan, NextOut, NextChain, NextDone, NextContent DEF WriterInv

(* For every call, whatever the lengths, ids and strings: no number written *)
(* is too large for the field it goes to, in a complete archive and in one  *)
(* an error or a kill cut off.                                              *)
THEOREM NumbersFitTheirFields == Spec => []FieldsFit
<1>1. WriterInv => FieldsFit
  BY ContentFits DEF WriterInv
<1>2. QED
  BY InitWriter, NextWriter, <1>1, PTL DEF Spec


-----------------------------------------------------------------------------
(* The reader.                                                              *)

(* The header get_files parses, and what it knows of the index.             *)
Header == R!ChunkBody(0, "cpk")

ListInv ==
    /\ ~Stopped => metadata = <<>>
    /\ metadata = <<>> => listed = <<>> /\ result \in {"none", "get_files failed"}
    /\ metadata # <<>> =>
        /\ R!ChunksAt(0, "cpk") # {} /\ metadata = <<Header>>
        /\ IF R!ReadIndex(Header).ok
           THEN listed = R!ReadIndex(Header).files /\ result # "get_files failed"
           ELSE listed = <<>> /\ result = "get_files failed"

(* The calls of the reader come after the writer's.                         *)
LEMMA StoppedStays == Stopped /\ [Next]_vars => UNCHANGED vars
BY DEF Stopped, Next, Step, PackDirectory, Create, Validate, Layout, PlanFile, BuildHeader,
   WriteHeader, WriteToc, WriteItoc, PadToContent, CopyPayload, CheckCopied, Finish,
   SourceChanges, Interrupted

(* To the writer, a call of the reader is a stutter.                        *)
LEMMA WriterStep == [ArchiveNext]_allVars => [Next]_vars
BY DEF ArchiveNext, allVars, ReadBack, vars, planVars, outVars

(* A step of the reader leaves what it reads as it is.                      *)
LEMMA SameStream ==
    ASSUME UNCHANGED <<vars, before>>
    PROVE  stream' = stream /\ Header' = Header /\ R!ReadIndex(Header)' = R!ReadIndex(Header)
           /\ \A at, kind : R!ChunksAt(at, kind)' = R!ChunksAt(at, kind)
<1>1. stream' = stream
  BY DEF stream, vars, planVars, outVars, FileLength
<1>2. \A at, kind : R!ChunksAt(at, kind)' = R!ChunksAt(at, kind)
  BY <1>1 DEF R!ChunksAt
<1>6. \A at, kind : R!ChunkBody(at, kind)' = R!ChunkBody(at, kind)
  BY <1>2 DEF R!ChunkBody
<1>3. Header' = Header
  BY <1>6 DEF Header
<1>4. R!ReadIndex(Header)' = R!ReadIndex(Header)
  BY <1>2, <1>3, <1>6 DEF R!ReadIndex, R!read_toc, R!read_itoc
<1>5. QED
  BY <1>1, <1>2, <1>3, <1>4

(* The reader keeps what it read of an archive that no longer changes.      *)
LEMMA NextList ==
    ASSUME ListInv, [ArchiveNext]_allVars
    PROVE  ListInv'
<1>1. CASE UNCHANGED allVars
  <2>1. UNCHANGED <<vars, before>> /\ UNCHANGED <<metadata, listed, result>>
    BY <1>1 DEF allVars, readerVars
  <2>2. Stopped' = Stopped
    BY <2>1 DEF Stopped, vars
  <2>3. QED
    BY <2>1, <2>2, SameStream, ZenonT(30) DEF ListInv
<1>2. CASE Next /\ UNCHANGED <<before, readerVars>>
  <2>1. CASE Stopped
    <3>1. UNCHANGED <<vars, before>> /\ UNCHANGED <<metadata, listed, result>>
      BY <1>2, <2>1, StoppedStays DEF readerVars
    <3>2. Stopped' = Stopped
      BY <3>1 DEF Stopped, vars
    <3>3. QED
      BY <3>1, <3>2, SameStream, ZenonT(30) DEF ListInv
  <2>2. CASE ~Stopped
    <3>1. metadata' = <<>> /\ listed' = <<>> /\ result' \in {"none", "get_files failed"}
      BY <1>2, <2>2, ZenonT(30) DEF ListInv, readerVars
    <3>2. QED
      BY <3>1, ZenonT(30) DEF ListInv
  <2>3. QED
    BY <2>1, <2>2
<1>3. CASE ReadBack
  <2>1. Stopped /\ UNCHANGED <<vars, before>> /\ R!Next
    BY <1>3 DEF ReadBack
  <2>2. Stopped' = Stopped
    BY <2>1 DEF Stopped, vars
  <2>3. CASE R!GetFilesBadHeader
    <3>1. R!ChunksAt(0, "cpk") = {} /\ result' = "get_files failed"
          /\ UNCHANGED <<metadata, listed>>
      BY <2>3, ZenonT(30) DEF R!GetFilesBadHeader
    <3>2. metadata = <<>> /\ listed = <<>>
      BY <3>1, ZenonT(30) DEF ListInv
    <3>3. QED
      BY <3>1, <3>2, ZenonT(30) DEF ListInv
  <2>4. CASE R!GetFiles
    <3> DEFINE index == R!ReadIndex(Header)
    <3>1. /\ R!ChunksAt(0, "cpk") # {} /\ metadata' = <<Header>>
          /\ listed' = IF index.ok THEN index.files ELSE listed
          /\ result' = IF index.ok THEN "listed" ELSE "get_files failed"
      BY <2>4, ZenonT(30) DEF R!GetFiles, Header
    <3>2. ~index.ok => listed = <<>>
      BY ZenonT(30) DEF ListInv
    <3>3. metadata' # <<>>
      BY <3>1, ZenonT(30)
    <3>4. R!ChunksAt(0, "cpk")' # {} /\ metadata' = <<Header'>>
      BY <2>1, <3>1, SameStream, ZenonT(30)
    <3>5. IF R!ReadIndex(Header)'.ok
          THEN listed' = R!ReadIndex(Header)'.files /\ result' # "get_files failed"
          ELSE listed' = <<>> /\ result' = "get_files failed"
      BY <2>1, <3>1, <3>2, SameStream, ZenonT(30)
    <3>6. QED
      BY <2>1, <2>2, <3>3, <3>4, <3>5, ZenonT(30) DEF ListInv
  <2>5. ASSUME NEW j \in DOMAIN listed, R!ReadPackedFile(j)
        PROVE  ListInv'
    <3>1. UNCHANGED <<metadata, listed>> /\ result' \in {"read", "read failed"}
      BY <2>5, ZenonT(30) DEF R!ReadPackedFile
    <3>2. listed # <<>>
      BY <2>5
    <3>3. metadata # <<>> /\ R!ReadIndex(Header).ok
      BY <3>2, ZenonT(30) DEF ListInv
    <3>4. QED
      BY <2>1, <2>2, <3>1, <3>3, SameStream, ZenonT(30) DEF ListInv
  <2>6. QED
    BY <2>1, <2>3, <2>4, <2>5 DEF R!Next
<1>4. QED
  BY <1>1, <1>2, <1>3 DEF ArchiveNext

-----------------------------------------------------------------------------
(* Sorting by id, and the padding of a size.                                *)
LEMMA SameOperators ==
    /\ \A S : R!Cardinality(S) = Cardinality(S)
    /\ \A S, O, n : R!NthIn(S, O, n) = NthIn(S, O, n)
    /\ \A h : R!Sums(h) = Sums(h)
<1>5. ASSUME NEW S PROVE R!Cardinality(S) = Cardinality(S)
  BY DEF R!Cardinality, Cardinality
<1>1. ASSUME NEW S, NEW O, NEW x PROVE R!RankIn(S, O, x) = RankIn(S, O, x)
  BY <1>5 DEF R!RankIn, RankIn
<1>2. ASSUME NEW S, NEW O, NEW n PROVE R!NthIn(S, O, n) = NthIn(S, O, n)
  BY <1>1 DEF R!NthIn, NthIn
<1>3. ASSUME NEW h PROVE R!Sums(h) = Sums(h)
  BY DEF R!Sums, Sums
<1>4. QED
  BY <1>2, <1>3, <1>5

(* Every row of a table is in another one; the rows are in strict order.    *)
Among(s, t, n) == \A i \in 1 .. n : \E j \in 1 .. n : s[i] = t[j]
InIdOrder(s, n) ==
    /\ \A i \in 1 .. n : s[i].id \in Int
    /\ \A i, j \in 1 .. n : i < j => s[i].id < s[j].id

(* The sorted rows are the rows, each once, in the order of their ids.      *)
LEMMA SortedRows ==
    ASSUME NEW n \in Nat, NEW rows, DOMAIN rows = 1 .. n,
           \A p \in 1 .. n : rows[p].id \in Int
    PROVE  LET s == R!SortById(rows) IN
           /\ DOMAIN s = 1 .. n /\ Len(s) = n
           /\ \A i, j \in 1 .. n : i < j => s[i].id <= s[j].id
           /\ Among(s, rows, n) /\ Among(rows, s, n)
           /\ (\A p, q \in 1 .. n : p # q => rows[p].id # rows[q].id)
                <=> (\A i, j \in 1 .. n : i # j => s[i].id # s[j].id)
<1> DEFINE D == 1 .. n
           O == R!IdOrder(rows)
           pi(i) == NthIn(D, O, i)
           s == R!SortById(rows)
<1>1. IsFiniteSet(D) /\ Cardinality(D) = n
  <2>1. 1 \in Int /\ n \in Int
    OBVIOUS
  <2>2. IsFiniteSet(1 .. n) /\ Cardinality(1 .. n) = IF 1 > n THEN 0 ELSE n - 1 + 1
    BY <2>1, FS_Interval
  <2>3. QED
    BY <2>2
<1>2. \A i, j \in D : <<i, j>> \in O <=> \/ rows[i].id < rows[j].id
                                         \/ rows[i].id = rows[j].id /\ i < j
  BY DEF R!IdOrder
<1> HIDE DEF O
<1>3. StrictOrder(D, O)
  <2>1. \A i \in D : <<i, i>> \notin O
    BY <1>2
  <2>2. \A i, j \in D : i # j => <<i, j>> \in O \/ <<j, i>> \in O
    BY <1>2
  <2>3. ASSUME NEW i \in D, NEW j \in D, NEW l \in D, <<i, j>> \in O, <<j, l>> \in O
        PROVE  <<i, l>> \in O
    <3>1. rows[i].id \in Int /\ rows[j].id \in Int /\ rows[l].id \in Int
      OBVIOUS
    <3>2. /\ rows[i].id < rows[j].id \/ (rows[i].id = rows[j].id /\ i < j)
          /\ rows[j].id < rows[l].id \/ (rows[j].id = rows[l].id /\ j < l)
      BY <1>2, <2>3
    <3>3. rows[i].id < rows[l].id \/ (rows[i].id = rows[l].id /\ i < l)
      BY <3>1, <3>2
    <3>4. QED
      BY <1>2, <3>3
  <2>4. QED
    BY <2>1, <2>2, <2>3 DEF StrictOrder
<1>4. /\ \A i \in D : pi(i) \in D
      /\ \A i, j \in D : i < j => <<pi(i), pi(j)>> \in O
      /\ \A p \in D : \E i \in D : pi(i) = p
  <2> HIDE DEF D
  <2>1. /\ \A i \in 1 .. Cardinality(D) : NthIn(D, O, i) \in D
        /\ \A i, j \in 1 .. Cardinality(D) :
             i < j => <<NthIn(D, O, i), NthIn(D, O, j)>> \in O
        /\ \A p \in D : \E i \in 1 .. Cardinality(D) : NthIn(D, O, i) = p
    BY <1>1, <1>3, NthInOrder
  <2>2. 1 .. Cardinality(D) = D
    BY <1>1 DEF D
  <2>3. QED
    BY <2>1, <2>2
<1> HIDE DEF pi
<1>5. s = [i \in D |-> rows[pi(i)]]
  BY SameOperators DEF R!SortById, O, pi
<1>6. DOMAIN s = D /\ Len(s) = n /\ \A i \in D : s[i] = rows[pi(i)]
  BY <1>5
<1> HIDE DEF s
<1>7. ASSUME NEW i \in D, NEW j \in D, i < j PROVE s[i].id <= s[j].id
  <2>1. pi(i) \in D /\ pi(j) \in D /\ <<pi(i), pi(j)>> \in O
    BY <1>4, <1>7
  <2>2. rows[pi(i)].id <= rows[pi(j)].id
    BY <1>2, <2>1
  <2>3. QED
    BY <1>6, <2>2
<1>8. \A i, j \in D : i # j => pi(i) # pi(j)
  <2> SUFFICES ASSUME NEW i \in D, NEW j \in D, i < j PROVE pi(i) # pi(j)
    OBVIOUS
  <2>1. <<pi(i), pi(j)>> \in O
    BY <1>4
  <2>2. <<pi(i), pi(i)>> \notin O
    BY <1>3, <1>4 DEF StrictOrder
  <2>3. QED
    BY <2>1, <2>2
<1>9. /\ \A i \in D : \E p \in D : s[i] = rows[p]
      /\ \A p \in D : \E i \in D : s[i] = rows[p]
  <2>1. ASSUME NEW i \in D PROVE s[i] = rows[pi(i)] /\ pi(i) \in D
    BY <1>4, <1>6
  <2>2. ASSUME NEW p \in D PROVE \E i \in D : s[i] = rows[p]
    <3>1. PICK i \in D : pi(i) = p
      BY <1>4
    <3>2. QED
      BY <2>1, <3>1
  <2> HIDE DEF D
  <2>3. QED
    BY <2>1, <2>2
<1>10. ASSUME \A p, q \in D : p # q => rows[p].id # rows[q].id, NEW i \in D, NEW j \in D, i # j
       PROVE  s[i].id # s[j].id
  <2>1. pi(i) \in D /\ pi(j) \in D /\ pi(i) # pi(j)
    BY <1>4, <1>8, <1>10
  <2>2. QED
    BY <1>6, <1>10, <2>1
<1>11. ASSUME \A i, j \in D : i # j => s[i].id # s[j].id
       PROVE  \A p, q \in D : p # q => rows[p].id # rows[q].id
  <2> SUFFICES ASSUME NEW p \in D, NEW q \in D, p # q PROVE rows[p].id # rows[q].id
    OBVIOUS
  <2>1. PICK i \in D : pi(i) = p
    BY <1>4
  <2>2. PICK j \in D : pi(j) = q
    BY <1>4
  <2>3. QED
    BY <1>6, <1>11, <2>1, <2>2, SMTT(30)
<1>12. (\A p, q \in D : p # q => rows[p].id # rows[q].id)
         <=> (\A i, j \in D : i # j => s[i].id # s[j].id)
  <2> HIDE DEF D
  <2> QED
    BY <1>10, <1>11
<1>15. (\A i, j \in D : i < j => s[i].id <= s[j].id)
  BY <1>7
<1>16. QED
  <2>1. Among(s, rows, n)
    BY <1>9 DEF Among, D
  <2>2. ASSUME NEW p \in 1 .. n PROVE \E i \in 1 .. n : rows[p] = s[i]
    <3>1. PICK i \in D : s[i] = rows[p]
      BY <1>9 DEF D
    <3>2. QED
      BY <3>1 DEF D
  <2>3. Among(rows, s, n)
    BY <2>2 DEF Among
  <2> HIDE DEF D
  <2>4. QED
    BY <1>6, <1>12, <1>15, <2>1, <2>3 DEF s, D

(* Two sequences of the same rows, both in ascending order of distinct ids, *)
(* are the same.                                                            *)
LEMMA SameRowsInOrder ==
    ASSUME NEW n \in Nat, NEW s, NEW t, InIdOrder(s, n), InIdOrder(t, n),
           Among(s, t, n), Among(t, s, n)
    PROVE  \A i \in 1 .. n : s[i] = t[i]
<1> DEFINE Diff == {i \in 1 .. n : s[i] # t[i]}
<1>1. SUFFICES ASSUME Diff # {} PROVE FALSE
  OBVIOUS
<1>2. PICK m \in Diff : \A i \in Diff : m <= i
  <2>1. Diff \in SUBSET Nat
    OBVIOUS
  <2> HIDE DEF Diff
  <2>2. QED
    BY <1>1, <2>1, LeastNatural
<1>3. m \in 1 .. n /\ s[m] # t[m] /\ \A i \in 1 .. n : i < m => s[i] = t[i]
  BY <1>2
<1>4. PICK a \in 1 .. n : s[m] = t[a]
  BY <1>3 DEF Among
<1>5. PICK b \in 1 .. n : t[m] = s[b]
  BY <1>3 DEF Among
<1>6. a # m /\ b # m
  BY <1>3, <1>4, <1>5
<1>7. ~(a < m)
  <2> SUFFICES ASSUME a < m PROVE FALSE
    OBVIOUS
  <2>1. s[a] = s[m] /\ s[a].id < s[m].id /\ s[a].id \in Int
    BY <1>3, <1>4 DEF InIdOrder
  <2>2. QED
    BY <2>1
<1>8. ~(b < m)
  <2> SUFFICES ASSUME b < m PROVE FALSE
    OBVIOUS
  <2>1. t[b] = t[m] /\ t[b].id < t[m].id /\ t[b].id \in Int
    BY <1>3, <1>5 DEF InIdOrder
  <2>2. QED
    BY <2>1
<1>9. m < a /\ m < b
  BY <1>3, <1>6, <1>7, <1>8
<1>10. t[m].id < t[a].id /\ s[m].id < s[b].id
  BY <1>3, <1>9 DEF InIdOrder
<1>11. s[m].id \in Int /\ t[m].id \in Int
  BY <1>3 DEF InIdOrder
<1>12. QED
  BY <1>4, <1>5, <1>10, <1>11

(* Division with remainder by a number that is not fixed.                   *)
LEMMA DivUnique == ASSUME NEW a \in Nat \ {0}, NEW q \in Nat, NEW r \in 0 .. a - 1
  PROVE (a * q + r) \div a = q
OBVIOUS

(* ... and a remainder.                                                     *)
LEMMA ModUnique == ASSUME NEW a \in Nat \ {0}, NEW q \in Nat, NEW r \in 0 .. a - 1
  PROVE (a * q + r) % a = r
OBVIOUS

(* Division with a remainder: by induction on the number divided.           *)
LEMMA Quotient ==
    ASSUME NEW v \in Nat, NEW a \in Nat \ {0}
    PROVE  \E q \in Nat, r \in 0 .. a - 1 : v = a * q + r
<1> DEFINE S == {n \in Nat : \E q \in Nat, r \in 0 .. a - 1 : n = a * q + r}
<1>1. 0 \in S
  <2>1. 0 = a * 0 + 0 /\ 0 \in 0 .. a - 1
    OBVIOUS
  <2>2. QED
    BY <2>1
<1>2. ASSUME NEW n \in Nat, n \in S PROVE n + 1 \in S
  <2>1. PICK q \in Nat, r \in 0 .. a - 1 : n = a * q + r
    BY <1>2
  <2>2. CASE r = a - 1
    <3>1. n + 1 = a * (q + 1) + 0 /\ 0 \in 0 .. a - 1 /\ q + 1 \in Nat
      <4>1. a * (q + 1) = a * q + a /\ a * q \in Int
        OBVIOUS
      <4>2. n + 1 = a * q + a
        BY <2>1, <2>2, <4>1
      <4>3. a * (q + 1) + 0 = a * q + a
        BY <4>1
      <4>4. 0 \in 0 .. a - 1 /\ q + 1 \in Nat
        OBVIOUS
      <4>5. n + 1 = a * (q + 1) + 0
        BY <4>2, <4>3
      <4>6. QED
        BY <4>4, <4>5
    <3>2. \E x \in Nat, y \in 0 .. a - 1 : n + 1 = a * x + y
      <4> WITNESS q + 1 \in Nat, 0 \in 0 .. a - 1
      <4> QED
        BY <3>1
    <3>3. QED
      BY <3>2
  <2>3. CASE r # a - 1
    <3>1. n + 1 = a * q + (r + 1) /\ r + 1 \in 0 .. a - 1
      <4>1. a * q \in Int
        OBVIOUS
      <4>2. QED
        BY <2>1, <2>3, <4>1
    <3>2. QED
      BY <3>1
  <2>4. QED
    BY <2>2, <2>3
<1>3. Nat \subseteq S
  <2> HIDE DEF S
  <2> QED
    BY <1>1, <1>2, SetInduction
<1>4. QED
  BY <1>3

(* The padding of the reader and the rounding of the engine agree.          *)
LEMMA PadsAgree == ASSUME NEW v \in Nat, NEW a \in Nat \ {0}
  PROVE a * ((v + a - 1) \div a) = R!align_up(v, a)
<1>1. PICK q \in Nat, r \in 0 .. a - 1 : v = a * q + r
  BY Quotient
<1>0. r = v % a
  BY <1>1, ModUnique
<1>2. CASE r = 0
  <2>1. v + a - 1 = a * q + (a - 1) /\ a - 1 \in 0 .. a - 1
    BY <1>1, <1>2
  <2>2. (v + a - 1) \div a = q
    BY <1>1, <2>1, DivUnique
  <2>3. R!align_up(v, a) = v
    BY <1>0, <1>2 DEF R!align_up
  <2>4. QED
    BY <1>1, <1>2, <2>2, <2>3
<1>3. CASE r # 0
  <2>1. a * (q + 1) = a * q + a
    BY <1>1
  <2>2. v + a - 1 = a * (q + 1) + (r - 1) /\ r - 1 \in 0 .. a - 1 /\ q + 1 \in Nat
    BY <1>1, <1>3, <2>1
  <2>3. (v + a - 1) \div a = q + 1
    BY <2>2, DivUnique
  <2>4. a > 1 /\ v % a # 0
    BY <1>0, <1>1, <1>3
  <2>5. R!align_up(v, a) = v + (a - r)
    BY <1>0, <2>4 DEF R!align_up
  <2>6. QED
    BY <1>1, <2>1, <2>3, <2>5
<1>4. QED
  BY <1>2, <1>3

-----------------------------------------------------------------------------
(* The tables of a stream: of the writer, or of the tool that made what was *)
(* there before.                                                            *)
BeforeInv == before \in Earlier(job)

Typed(e) ==
    /\ e.kind = "cpk" =>
        \A c \in {"TocOffset", "ItocOffset", "ContentOffset", "Align", "EID"} : e.body[c] \in Nat
    /\ e.kind = "toc" => e.body \in Seq(TocRow)
    /\ e.kind = "itoc" => \A t \in DOMAIN e.body : e.body[t] \in Seq(ItocRow)

(* The rows of an ITOC the writer makes are numbers.                        *)
LEMMA RowsAreTyped ==
    ASSUME job \in Jobs, PlanDone, NEW n \in Nat, NEW s, DOMAIN s = 1 .. n,
           \A p \in 1 .. n : s[p] \in Files
    PROVE  itoc_rows(s) \in Seq(ItocRow) /\ Len(itoc_rows(s)) = n /\ DOMAIN itoc_rows(s) = 1 .. n
<1>1. \A i \in Files : files[i].id \in Nat /\ files[i].size \in Nat /\ files[i].extract \in Nat
  BY JobNumbers
<1>2. ASSUME NEW p \in 1 .. n PROVE itoc_rows(s)[p] \in ItocRow
  <2>1. s[p] \in Files
    OBVIOUS
  <2> DEFINE f == files[s[p]]
  <2>2. f.id \in Nat /\ f.size \in Nat /\ f.extract \in Nat
    BY <1>1, <2>1
  <2>3. itoc_rows(s)[p] = [id |-> f.id, size |-> f.size, extract |-> f.extract]
    BY DEF itoc_rows
  <2> HIDE DEF f
  <2>4. QED
    BY <2>2, <2>3 DEF ItocRow, Numbers
<1>3. DOMAIN itoc_rows(s) = 1 .. n
  BY DEF itoc_rows
<1>4. itoc_rows(s) \in [1 .. n -> ItocRow]
  <2>1. itoc_rows(s) = [p \in 1 .. n |-> itoc_rows(s)[p]]
    BY DEF itoc_rows
  <2>2. QED
    BY <1>2, <2>1
<1>5. QED
  BY <1>3, <1>4

(* So are those of every table it writes.                                   *)
LEMMA WriterTables ==
    ASSUME job \in Jobs, PlanDone
    PROVE  /\ toc_rows \in Seq(TocRow) /\ Len(toc_rows) = Len(files)
           /\ \A t \in DOMAIN itoc_body : itoc_body[t] \in Seq(ItocRow)
           /\ header_row.TocOffset \in Nat /\ header_row.ItocOffset \in Nat
           /\ header_row.ContentOffset \in Nat /\ header_row.Align \in Nat \ {0}
           /\ header_row.EID \in Nat
<1>1. /\ Len(files) \in Nat
      /\ \A i \in Files : /\ files[i].id \in Nat /\ files[i].size \in Nat
                          /\ files[i].extract \in Nat
                          /\ files[i].dir \in Strings /\ files[i].name \in Strings
                          /\ files[i].user \in Strings
  BY JobNumbers, JobFacts
<1>2. \A i \in Files : off[i] - IndexBase \in Nat
  <2> SUFFICES ASSUME NEW i \in Files PROVE off[i] - IndexBase \in Nat
    OBVIOUS
  <2>1. PICK a \in Files : order[a] = i
    BY DEF PlanDone
  <2>2. lay.content <= off[i] /\ off[i] \in Nat /\ lay.content = ContentOffset
    BY <2>1 DEF PlanDone
  <2>3. IndexBase <= ContentOffset /\ ContentOffset \in Nat
    BY LayoutFacts DEF PlanDone, IndexBase
  <2>4. QED
    BY <2>2, <2>3 DEF IndexBase
<1>3. toc_rows \in Seq(TocRow) /\ Len(toc_rows) = Len(files)
  <2>1. ASSUME NEW i \in Files PROVE toc_rows[i] \in TocRow
    <3> DEFINE f == files[i]
    <3>1. /\ f.id \in Nat /\ f.size \in Nat /\ f.extract \in Nat
          /\ f.dir \in Strings /\ f.name \in Strings /\ f.user \in Strings
      BY <1>1
    <3>2. off[i] - IndexBase \in Nat
      BY <1>2
    <3>3. toc_rows[i] = [dir |-> f.dir, name |-> f.name, user |-> f.user, size |-> f.size,
                         extract |-> f.extract, id |-> f.id, offset |-> off[i] - IndexBase]
      BY DEF toc_rows
    <3> HIDE DEF f
    <3>4. QED
      BY <3>1, <3>2, <3>3 DEF TocRow, Numbers
  <2>2. toc_rows = [i \in 1 .. Len(files) |-> toc_rows[i]]
    BY DEF toc_rows, Files
  <2>3. toc_rows \in [1 .. Len(files) -> TocRow]
    BY <2>1, <2>2 DEF Files
  <2>4. QED
    BY <1>1, <2>3
<1>4. ASSUME NEW t \in DOMAIN itoc_body PROVE itoc_body[t] \in Seq(ItocRow)
  <2>1. CASE job.direct
    <3>1. itoc_body[t] = itoc_rows(order)
      BY <2>1 DEF itoc_body
    <3>2. DOMAIN order = 1 .. Len(files) /\ \A p \in 1 .. Len(files) : order[p] \in Files
      BY DEF PlanDone, Files
    <3>3. QED
      BY <1>1, <3>1, <3>2, RowsAreTyped
  <2>2. CASE ~job.direct
    <3>1. PICK P \in SUBSET (1 .. Len(files)) : itoc_body[t] = itoc_rows(Kept(order, P))
      <4>1. LowPositions \in SUBSET (1 .. Len(files)) /\ Files \ LowPositions \in SUBSET (1 .. Len(files))
        BY DEF LowPositions, Files
      <4>2. \/ itoc_body[t] = itoc_rows(Kept(order, LowPositions))
            \/ itoc_body[t] = itoc_rows(Kept(order, Files \ LowPositions))
        BY <2>2 DEF itoc_body
      <4>3. QED
        BY <4>1, <4>2
    <3>2. /\ Cardinality(P) \in Nat /\ DOMAIN Kept(order, P) = 1 .. Cardinality(P)
          /\ \A n \in 1 .. Cardinality(P) : Nth(P, n) \in P /\ Kept(order, P)[n] = order[Nth(P, n)]
      BY <1>1, KeptFacts
    <3>3. \A n \in 1 .. Cardinality(P) : Kept(order, P)[n] \in Files
      BY <3>2 DEF PlanDone, Files
    <3>4. QED
      BY <3>1, <3>2, <3>3, RowsAreTyped
  <2>3. QED
    BY <2>1, <2>2
<1>5. /\ lay.toc \in Nat /\ lay.itoc \in Nat /\ lay.content \in Nat
      /\ alignment \in Nat \ {0}
  <2>1. TocEnd \in Nat /\ ContentOffset \in Nat
    BY LayoutFacts DEF PlanDone
  <2>2. QED
    BY <2>1 DEF PlanDone, ValidAlignment, PowersOfTwo, IndexBase
<1>6. QED
  BY <1>3, <1>4, <1>5 DEF header_row

(* Whoever made the archive, its tables are parsed tables.                  *)
LEMMA StreamTyped ==
    ASSUME WriterInv, BeforeInv, NEW e \in stream.ext
    PROVE  Typed(e)
<1>1. job \in Jobs
  BY DEF WriterInv, PlanInv, PlanTypes
<1>2. CASE old
  <2>1. stream = before
    BY <1>2 DEF stream
  <2>2. QED
    BY <1>1, <2>1, EarlierAssumption DEF BeforeInv, Typed
<1>3. CASE ~old
  <2>1. stream.ext = out
    BY <1>3 DEF stream
  <2>2. PlanDone /\ Content(e)
    BY <2>1 DEF WriterInv, DoneInv, ContentInv
  <2>3. /\ e.kind = "cpk" => e.body = header_row
        /\ e.kind = "toc" => e.body = toc_rows
        /\ e.kind = "itoc" => e.body = itoc_body
    BY <2>2 DEF Content, Extent
  <2>4. QED
    BY <1>1, <2>2, <2>3, WriterTables DEF Typed
<1>4. QED
  BY <1>2, <1>3

(* The chunk the reader takes is one that is in the stream.                 *)
LEMMA ChunkFacts ==
    ASSUME WriterInv, BeforeInv, NEW at, NEW kind, R!ChunksAt(at, kind) # {}
    PROVE  \E e \in stream.ext :
            /\ e.at = at /\ e.kind = kind /\ e.at + e.len <= stream.len
            /\ Typed(e) /\ R!ChunkBody(at, kind) = e.body
<1> DEFINE C == R!ChunksAt(at, kind)
           e == CHOOSE x \in C : TRUE
<1>1. e \in C
  OBVIOUS
<1>2. R!ChunkBody(at, kind) = e.body
  BY DEF R!ChunkBody
<1> HIDE DEF e
<1>3. e \in stream.ext /\ e.at = at /\ e.kind = kind /\ e.at + e.len <= stream.len
  BY <1>1 DEF R!ChunksAt
<1>4. QED
  BY <1>2, <1>3, StreamTyped

(* The rows of an ITOC before they are sorted.                              *)
ItocSource(md, body) == CHOOSE t \in R!ItocTables(md, body) : TRUE

(* The rows of an ITOC come from its outer table, or from DataL and DataH.  *)
LEMMA ItocSourceFacts ==
    ASSUME NEW md, NEW body, \A t \in DOMAIN body : body[t] \in Seq(ItocRow),
           R!ItocTables(md, body) # {}
    PROVE  /\ ItocSource(md, body) \in Seq(ItocRow)
           /\ md.EID # 0 => /\ "rows" \in DOMAIN body /\ body.rows \in Seq(ItocRow)
                            /\ ItocSource(md, body) = body.rows
           /\ md.EID = 0 => /\ {"DataL", "DataH"} \subseteq DOMAIN body
                            /\ body.DataL \in Seq(ItocRow) /\ body.DataH \in Seq(ItocRow)
                            /\ ItocSource(md, body) = body.DataL \o body.DataH
<1>1. CASE md.EID # 0
  <2>1. "rows" \in DOMAIN body /\ R!ItocTables(md, body) = {body.rows}
    BY <1>1 DEF R!ItocTables
  <2>2. ItocSource(md, body) = body.rows
    BY <2>1 DEF ItocSource
  <2>3. QED
    BY <1>1, <2>1, <2>2
<1>2. CASE md.EID = 0
  <2>1. {"DataL", "DataH"} \subseteq DOMAIN body /\ R!ItocTables(md, body) = {body.DataL \o body.DataH}
    BY <1>2 DEF R!ItocTables
  <2>2. ItocSource(md, body) = body.DataL \o body.DataH
    BY <2>1 DEF ItocSource
  <2>3. body.DataL \in Seq(ItocRow) /\ body.DataH \in Seq(ItocRow)
    BY <2>1
  <2>4. QED
    BY <1>2, <2>1, <2>2, <2>3
<1>3. QED
  BY <1>1, <1>2

(* The fields of an entry of a listing, without the definition of CpkFile.  *)
LEMMA CpkFileFields ==
    ASSUME NEW d, NEW f, NEW u, NEW o, NEW s, NEW x, NEW i
    PROVE  LET c == R!CpkFile(d, f, u, o, s, x, i) IN
           /\ c.dir = d /\ c.name = f /\ c.user = u /\ c.offset = o /\ c.size = s /\ c.id = i
           /\ c.extract = IF x = 0 THEN s ELSE x
BY DEF R!CpkFile

(* What get_files makes of an ITOC it accepts: the rows in strict order of  *)
(* their ids, at the offsets the padded sizes before them come to.          *)
LEMMA ItocListing ==
    ASSUME NEW md, NEW body, \A t \in DOMAIN body : body[t] \in Seq(ItocRow),
           R!itoc_entries(md, body).ok
    PROVE  LET rows0 == ItocSource(md, body)
               rows == R!SortById(rows0)
               a == IF md.Align = 0 THEN 1 ELSE md.Align
               n == Len(rows0)
               fs == R!itoc_entries(md, body).files
           IN  /\ R!ItocTables(md, body) # {}
               /\ n \in Nat /\ rows0 \in Seq(ItocRow) /\ DOMAIN rows0 = 1 .. n
               /\ DOMAIN rows = 1 .. n /\ Len(rows) = n
               /\ \A i \in 1 .. n : rows[i].id \in Nat /\ rows[i].size \in Nat
               /\ InIdOrder(rows, n) /\ Among(rows, rows0, n) /\ Among(rows0, rows, n)
               /\ \A p, q \in 1 .. n : p # q => rows0[p].id # rows0[q].id
               /\ DOMAIN fs = 1 .. n /\ Len(fs) = n
               /\ \A j \in 1 .. n :
                    /\ fs[j].id = rows[j].id /\ fs[j].size = rows[j].size
                    /\ fs[j].extract = LET x == R!OrElse(rows[j].extract, rows[j].size)
                                       IN  IF x = 0 THEN rows[j].size ELSE x
                    /\ fs[j].offset = md.ContentOffset + Sums(R!padded_sizes(rows, a))[j - 1]
<1> DEFINE rows0 == ItocSource(md, body)
           rows == R!SortById(rows0)
           a == IF md.Align = 0 THEN 1 ELSE md.Align
           n == Len(rows0)
           fs == R!materialize_itoc_rows(rows, md.ContentOffset, a)
<1>1. /\ R!ItocTables(md, body) # {}
      /\ \A j \in DOMAIN rows : R!ValidItocRow(rows[j])
      /\ \A j \in 2 .. Len(rows) : rows[j - 1].id # rows[j].id
      /\ R!itoc_entries(md, body).files = fs
  BY DEF R!itoc_entries, R!Failed, R!Listing, ItocSource
<1>2. rows0 \in Seq(ItocRow)
  BY <1>1, ItocSourceFacts
<1> HIDE DEF rows0
<1>3. n \in Nat /\ DOMAIN rows0 = 1 .. n /\ \A p \in 1 .. n : rows0[p] \in ItocRow
  BY <1>2
<1>4. \A p \in 1 .. n : rows0[p].id \in Int
  BY <1>3 DEF ItocRow, Numbers
<1>5. /\ DOMAIN rows = 1 .. n /\ Len(rows) = n
      /\ \A i, j \in 1 .. n : i < j => rows[i].id <= rows[j].id
      /\ Among(rows, rows0, n) /\ Among(rows0, rows, n)
      /\ (\A p, q \in 1 .. n : p # q => rows0[p].id # rows0[q].id)
            <=> (\A i, j \in 1 .. n : i # j => rows[i].id # rows[j].id)
  <2> HIDE DEF n
  <2> QED
    BY <1>3, <1>4, SortedRows
<1> HIDE DEF rows
<1>7. \A i \in 1 .. n : rows[i].id \in Nat /\ rows[i].size \in Nat
  <2> SUFFICES ASSUME NEW i \in 1 .. n PROVE rows[i].id \in Nat /\ rows[i].size \in Nat
    OBVIOUS
  <2>1. R!ValidItocRow(rows[i])
    BY <1>1, <1>5
  <2>2. QED
    BY <2>1 DEF R!ValidItocRow
<1>8. ASSUME NEW i \in 1 .. n, NEW j \in 1 .. n, i < j PROVE rows[i].id < rows[j].id
  <2>1. i + 1 \in 1 .. n /\ i + 1 \in 2 .. Len(rows) /\ (i + 1) - 1 = i /\ i + 1 <= j
    BY <1>3, <1>8, <1>5
  <2>2. rows[i].id # rows[i + 1].id
    BY <1>1, <2>1
  <2>3. rows[i].id <= rows[i + 1].id
    BY <1>5, <2>1
  <2>4. i + 1 = j \/ i + 1 < j
    BY <2>1
  <2>5. rows[i + 1].id <= rows[j].id
    BY <1>7, <1>5, <2>1, <2>4
  <2>6. QED
    BY <1>7, <2>1, <2>2, <2>3, <2>5, SMTT(30)
<1>9. InIdOrder(rows, n)
  BY <1>7, <1>8 DEF InIdOrder
<1>10. \A p, q \in 1 .. n : p # q => rows0[p].id # rows0[q].id
  <2>1. \A i, j \in 1 .. n : i # j => rows[i].id # rows[j].id
    <3> SUFFICES ASSUME NEW i \in 1 .. n, NEW j \in 1 .. n, i < j
                 PROVE  rows[i].id # rows[j].id
      OBVIOUS
    <3>1. rows[i].id < rows[j].id /\ rows[i].id \in Nat
      BY <1>7, <1>8
    <3>2. QED
      BY <3>1
  <2>2. QED
    BY <1>5, <2>1
<1>11. DOMAIN fs = 1 .. n /\ Len(fs) = n
  BY <1>3, <1>5 DEF R!materialize_itoc_rows
<1>12. ASSUME NEW j \in 1 .. n
       PROVE  /\ fs[j].id = rows[j].id /\ fs[j].size = rows[j].size
              /\ fs[j].extract = LET x == R!OrElse(rows[j].extract, rows[j].size)
                                 IN  IF x = 0 THEN rows[j].size ELSE x
              /\ fs[j].offset = md.ContentOffset + Sums(R!padded_sizes(rows, a))[j - 1]
  <2>1. fs[j] = R!CpkFile("", R!ItocName, "", md.ContentOffset + R!relative_offset(rows, a, j),
                rows[j].size, R!OrElse(rows[j].extract, rows[j].size), rows[j].id)
    BY <1>5 DEF R!materialize_itoc_rows
  <2>2. R!relative_offset(rows, a, j) = Sums(R!padded_sizes(rows, a))[j - 1]
    BY SameOperators DEF R!relative_offset
  <2> DEFINE o == Sums(R!padded_sizes(rows, a))[j - 1]
             x == R!OrElse(rows[j].extract, rows[j].size)
             r == rows[j]
  <2> HIDE DEF fs, a, o, x, r
  <2>3. fs[j] = R!CpkFile("", R!ItocName, "", md.ContentOffset + o, r.size, x, r.id)
    BY <2>1, <2>2, ZenonT(30) DEF o, x, r
  <2> DEFINE c == md.ContentOffset + o
             f == R!CpkFile("", R!ItocName, "", c, r.size, x, r.id)
  <2> HIDE DEF c
  <2>4. f.id = r.id /\ f.size = r.size /\ f.offset = c
        /\ f.extract = IF x = 0 THEN r.size ELSE x
    <3>1. \A d, g : R!CpkFile(d, g, d, c, r.size, x, r.id).id = r.id
      BY CpkFileFields
    <3>2. \A d, g : R!CpkFile(d, g, d, c, r.size, x, r.id).size = r.size
      BY CpkFileFields
    <3>3. \A d, g : R!CpkFile(d, g, d, c, r.size, x, r.id).offset = c
      BY CpkFileFields
    <3>4. \A d, g : R!CpkFile(d, g, d, c, r.size, x, r.id).extract = IF x = 0 THEN r.size ELSE x
      BY CpkFileFields
    <3>5. QED
      BY <3>1, <3>2, <3>3, <3>4, ZenonT(30)
  <2>6. fs[j] = f
    BY <2>3, ZenonT(30) DEF c
  <2> HIDE DEF f
  <2>5. QED
    BY <2>4, <2>6 DEF r, o, c, x
<1>13. QED
  <2> HIDE DEF fs, a, n
  <2>1. /\ n \in Nat /\ rows0 \in Seq(ItocRow) /\ DOMAIN rows0 = 1 .. n
        /\ DOMAIN rows = 1 .. n /\ Len(rows) = n
        /\ DOMAIN fs = 1 .. n /\ Len(fs) = n
    BY <1>2, <1>3, <1>5, <1>11
  <2>2. QED
    BY <1>1, <1>5, <1>7, <1>9, <1>10, <1>12, <2>1 DEF fs, a, n, rows, rows0

(* What is known of a call and of the reader after it.                      *)
ArchiveInv == WriterInv /\ ListInv /\ BeforeInv

(* The invariant of a call and of the reader after it.                      *)
LEMMA InitArchive == ArchiveInit => ArchiveInv
<1> SUFFICES ASSUME ArchiveInit PROVE ArchiveInv
  OBVIOUS
<1>1. Init /\ R!Init /\ before \in Earlier(job)
  BY DEF ArchiveInit
<1>2. ~Stopped
  <2>1. job.entry \in {"directory", "files"}
    BY <1>1, JobFacts DEF Init
  <2>2. QED
    BY <1>1, <2>1 DEF Init, Stopped
<1>3. QED
  BY <1>1, <1>2, InitWriter DEF ArchiveInv, BeforeInv, ListInv, R!Init

(* Each step keeps it: the writer's, because no listing is made before it   *)
(* stops; the reader's, because nothing changes after.                      *)
LEMMA NextArchive == ArchiveInv /\ [ArchiveNext]_allVars => ArchiveInv'
<1> SUFFICES ASSUME ArchiveInv, [ArchiveNext]_allVars PROVE ArchiveInv'
  OBVIOUS
<1>1. [Next]_vars
  BY WriterStep
<1>2. WriterInv'
  BY <1>1, NextWriter DEF ArchiveInv
<1>3. job' = job /\ before' = before
  <2>1. job' = job
    BY <1>1 DEF vars, Next, Step, PackDirectory, Create, Validate, Layout, PlanFile, BuildHeader,
       WriteHeader, WriteToc, WriteItoc, PadToContent, CopyPayload, CheckCopied, Finish,
       SourceChanges, Interrupted
  <2>2. before' = before
    BY DEF ArchiveNext, ReadBack, allVars
  <2>3. QED
    BY <2>1, <2>2
<1>4. BeforeInv'
  BY <1>3 DEF ArchiveInv, BeforeInv
<1>5. QED
  BY <1>2, <1>4, NextList DEF ArchiveInv

(* The rows of a TOC it accepts, at the offsets they give from 0x800.        *)
LEMMA TocListing ==
    ASSUME NEW rows, rows \in Seq(TocRow), R!toc_entries(rows).ok
    PROVE  LET fs == R!toc_entries(rows).files
               n == Len(rows)
           IN  /\ DOMAIN fs = 1 .. n /\ Len(fs) = n
               /\ \A j \in 1 .. n : R!ValidTocRow(rows[j])
               /\ fs = [j \in 1 .. n |->
                        R!CpkFile(rows[j].dir, rows[j].name, rows[j].user,
                                  R!TocFileBase + rows[j].offset, rows[j].size,
                                  R!OrElse(rows[j].extract, rows[j].size), R!ShortId(rows[j].id))]
<1>1. DOMAIN rows = 1 .. Len(rows) /\ Len(rows) \in Nat
  OBVIOUS
<1>2. \A j \in DOMAIN rows : R!ValidTocRow(rows[j])
  BY DEF R!toc_entries, R!Failed, R!Listing
<1>3. R!toc_entries(rows).files = [j \in DOMAIN rows |->
            R!CpkFile(rows[j].dir, rows[j].name, rows[j].user,
                      R!TocFileBase + rows[j].offset, rows[j].size,
                      R!OrElse(rows[j].extract, rows[j].size), R!ShortId(rows[j].id))]
  BY <1>2 DEF R!toc_entries, R!Listing
<1>4. QED
  BY <1>1, <1>2, <1>3

(* A listing comes from the index the header names.                         *)
LEMMA ListedIndex ==
    ASSUME ArchiveInv, metadata # <<>>, R!ReadIndex(Header).ok
    PROVE  /\ metadata[1] = Header
           /\ Header.TocOffset # 0 =>
                LET toc == R!ChunkBody(Header.TocOffset, "toc") IN
                /\ toc \in Seq(TocRow) /\ R!toc_entries(toc).ok
                /\ listed = R!toc_entries(toc).files
           /\ Header.TocOffset = 0 =>
                LET itoc == R!ChunkBody(Header.ItocOffset, "itoc") IN
                /\ Header.ItocOffset # 0
                /\ \A t \in DOMAIN itoc : itoc[t] \in Seq(ItocRow)
                /\ R!itoc_entries(Header, itoc).ok
                /\ listed = R!itoc_entries(Header, itoc).files
<1>1. metadata = <<Header>> /\ listed = R!ReadIndex(Header).files
  BY ZenonT(30) DEF ArchiveInv, ListInv
<1>2. CASE Header.TocOffset # 0
  <2> DEFINE toc == R!ChunkBody(Header.TocOffset, "toc")
  <2>1. R!ReadIndex(Header) = R!read_toc(Header)
    BY <1>2 DEF R!ReadIndex
  <2>2. R!ChunksAt(Header.TocOffset, "toc") # {}
    BY <2>1 DEF R!read_toc, R!Failed
  <2>3. R!ReadIndex(Header) = R!toc_entries(toc)
    BY <2>1, <2>2 DEF R!read_toc
  <2>4. toc \in Seq(TocRow)
    BY <2>2, ChunkFacts DEF ArchiveInv, Typed
  <2>5. QED
    BY <1>1, <1>2, <2>3, <2>4
<1>3. CASE Header.TocOffset = 0
  <2> DEFINE itoc == R!ChunkBody(Header.ItocOffset, "itoc")
  <2>1. R!ReadIndex(Header) = R!read_itoc(Header) /\ Header.ItocOffset # 0
    BY <1>3 DEF R!ReadIndex, R!Failed
  <2>2. R!ChunksAt(Header.ItocOffset, "itoc") # {}
    BY <2>1 DEF R!read_itoc, R!Failed
  <2>3. R!ReadIndex(Header) = R!itoc_entries(Header, itoc)
    BY <2>1, <2>2 DEF R!read_itoc, R!Failed
  <2>4. \A t \in DOMAIN itoc : itoc[t] \in Seq(ItocRow)
    BY <2>2, ChunkFacts DEF ArchiveInv, Typed
  <2>5. QED
    BY <1>1, <1>3, <2>1, <2>3, <2>4
<1>4. QED
  BY <1>2, <1>3

(* Every row becomes one entry: the sort and the two loops keep the number  *)
(* of rows.                                                                 *)
LEMMA InvNothingDropped == ArchiveInv => NothingDropped
<1> SUFFICES ASSUME ArchiveInv, result = "listed"
             PROVE  LET md == metadata[1]
                        toc == R!ChunkBody(md.TocOffset, "toc")
                        itoc == R!ChunkBody(md.ItocOffset, "itoc")
                    IN  /\ md.TocOffset # 0 \/ md.ItocOffset # 0
                        /\ Len(listed) =
                            IF md.TocOffset # 0 THEN Len(toc)
                            ELSE IF md.EID # 0 THEN Len(itoc.rows)
                            ELSE Len(itoc.DataL) + Len(itoc.DataH)
  BY DEF NothingDropped, R!NothingDropped
<1>1. metadata # <<>> /\ R!ReadIndex(Header).ok
  BY DEF ArchiveInv, ListInv
<1>2. metadata[1] = Header
  BY <1>1, ListedIndex
<1>3. CASE Header.TocOffset # 0
  <2> DEFINE toc == R!ChunkBody(Header.TocOffset, "toc")
  <2>1. toc \in Seq(TocRow) /\ R!toc_entries(toc).ok /\ listed = R!toc_entries(toc).files
    BY <1>1, <1>3, ListedIndex
  <2> HIDE DEF toc
  <2>2. Len(listed) = Len(toc)
    BY <2>1, TocListing
  <2>3. QED
    BY <1>2, <1>3, <2>2 DEF toc
<1>4. CASE Header.TocOffset = 0
  <2> DEFINE itoc == R!ChunkBody(Header.ItocOffset, "itoc")
             rows0 == ItocSource(Header, itoc)
  <2>1. /\ Header.ItocOffset # 0
        /\ \A t \in DOMAIN itoc : itoc[t] \in Seq(ItocRow)
        /\ R!itoc_entries(Header, itoc).ok /\ listed = R!itoc_entries(Header, itoc).files
    BY <1>1, <1>4, ListedIndex
  <2> HIDE DEF itoc
  <2>2. Len(listed) = Len(rows0) /\ R!ItocTables(Header, itoc) # {}
    BY <2>1, ItocListing
  <2>3. /\ Header.EID # 0 => rows0 = itoc.rows
        /\ Header.EID = 0 => /\ itoc.DataL \in Seq(ItocRow) /\ itoc.DataH \in Seq(ItocRow)
                             /\ rows0 = itoc.DataL \o itoc.DataH
    BY <2>1, <2>2, ItocSourceFacts
  <2> HIDE DEF rows0
  <2>4. Len(rows0) = IF Header.EID # 0 THEN Len(itoc.rows) ELSE Len(itoc.DataL) + Len(itoc.DataH)
    <3>1. CASE Header.EID # 0
      BY <2>3, <3>1
    <3>2. CASE Header.EID = 0
      <4> DEFINE low == itoc.DataL
                 high == itoc.DataH
      <4>1. low \in Seq(ItocRow) /\ high \in Seq(ItocRow) /\ rows0 = low \o high
        BY <2>3, <3>2
      <4> HIDE DEF low, high
      <4>2. Len(rows0) = Len(low) + Len(high)
        BY <4>1, ConcatProperties
      <4>3. QED
        BY <3>2, <4>2 DEF low, high
    <3>3. QED
      BY <3>1, <3>2
  <2>5. QED
    BY <1>2, <1>4, <2>1, <2>2, <2>4 DEF itoc
<1>5. QED
  BY <1>3, <1>4

(* For every archive, of the writer or of another tool, whole or cut off:   *)
(* get_files lists every row of the index the header names, or fails.       *)
THEOREM EveryRowIsListed == ArchiveSpec => []NothingDropped
<1>1. QED
  BY InitArchive, NextArchive, InvNothingDropped, PTL DEF ArchiveSpec

-----------------------------------------------------------------------------
(* The lookup of the engine.                                                *)

(* Where an id is, or would go, in a table in order of the ids.             *)
LEMMA CountBelow ==
    ASSUME NEW n \in Nat, NEW t, DOMAIN t = 1 .. n, InIdOrder(t, n), NEW x \in Int
    PROVE  LET c == R!InsertionIndex(t, x) IN
           c \in 0 .. n /\ \A p \in 1 .. n : t[p].id < x <=> p <= c
<1> DEFINE T == {m \in 0 .. n : \A p \in 1 .. n : p > m => ~(t[p].id < x)}
           S == {p \in 1 .. n : t[p].id < x}
<1>1. /\ \A i \in 1 .. n : t[i].id \in Int
      /\ \A i, j \in 1 .. n : i < j => t[i].id < t[j].id
  BY DEF InIdOrder
<1>2. PICK m \in T : \A l \in T : m <= l
  <2>1. n \in T /\ T \in SUBSET Nat
    OBVIOUS
  <2> HIDE DEF T
  <2>2. QED
    BY <2>1, LeastNatural
<1>3. m \in 0 .. n /\ \A p \in 1 .. n : p > m => ~(t[p].id < x)
  OBVIOUS
<1>4. ASSUME NEW p \in 1 .. n, p <= m PROVE t[p].id < x
  <2>1. m - 1 \in 0 .. n /\ m - 1 \notin T /\ m \in 1 .. n
    BY <1>2, <1>3, <1>4
  <2>2. PICK l \in 1 .. n : l > m - 1 /\ t[l].id < x
    BY <2>1
  <2>3. l = m
    BY <1>3, <2>1, <2>2
  <2>4. t[m].id < x /\ (p = m \/ t[p].id < t[m].id)
    BY <1>1, <1>4, <2>1, <2>2, <2>3
  <2>5. QED
    BY <1>1, <2>1, <2>4
<1>5. S = 1 .. m
  <2> HIDE DEF T
  <2>1. \A p \in 1 .. n : p \in S <=> p \in 1 .. m
    BY <1>3, <1>4
  <2>2. 1 .. m \subseteq 1 .. n
    BY <1>3
  <2> QED
    BY <2>1, <2>2
<1>6. Cardinality(S) = m
  <2> HIDE DEF S, T
  <2>1. 1 \in Int /\ m \in Int /\ m >= 0
    BY <1>3
  <2>2. Cardinality(1 .. m) = IF 1 > m THEN 0 ELSE m - 1 + 1
    BY <2>1, FS_Interval
  <2>3. QED
    BY <1>5, <2>1, <2>2
<1>7. R!InsertionIndex(t, x) = m
  BY <1>6, SameOperators DEF R!InsertionIndex
<1>8. QED
  <2> HIDE DEF T
  <2>1. \A p \in 1 .. n : t[p].id < x <=> p <= m
    BY <1>3, <1>4
  <2>2. QED
    BY <1>3, <1>7, <2>1

(* From one id of a listing to the next: the table that has the first gains *)
(* a row, the other none.                                                   *)
LEMMA Advance ==
    ASSUME NEW n \in Nat, NEW t, DOMAIN t = 1 .. n, InIdOrder(t, n),
           NEW x \in Int, NEW y \in Int, x < y,
           \A p \in 1 .. n : ~(x < t[p].id /\ t[p].id < y)
    PROVE  /\ (\A p \in 1 .. n : t[p].id # x) => R!InsertionIndex(t, y) = R!InsertionIndex(t, x)
           /\ \A p \in 1 .. n : t[p].id = x =>
                R!InsertionIndex(t, x) = p - 1 /\ R!InsertionIndex(t, y) = p
<1> DEFINE c == R!InsertionIndex(t, x)
           d == R!InsertionIndex(t, y)
<1>1. c \in 0 .. n /\ \A p \in 1 .. n : t[p].id < x <=> p <= c
  BY CountBelow
<1>2. d \in 0 .. n /\ \A p \in 1 .. n : t[p].id < y <=> p <= d
  BY CountBelow
<1> HIDE DEF c, d
<1>3. /\ \A i \in 1 .. n : t[i].id \in Int
      /\ \A i, j \in 1 .. n : i < j => t[i].id < t[j].id
  BY DEF InIdOrder
<1>4. ASSUME \A p \in 1 .. n : t[p].id # x PROVE d = c
  <2>1. \A p \in 1 .. n : p <= c <=> p <= d
    <3> SUFFICES ASSUME NEW p \in 1 .. n PROVE t[p].id < x <=> t[p].id < y
      BY <1>1, <1>2
    <3>1. t[p].id \in Int /\ t[p].id # x /\ ~(x < t[p].id /\ t[p].id < y)
      BY <1>3, <1>4
    <3>2. QED
      BY <3>1
  <2>2. ~(c < d)
    <3> SUFFICES ASSUME c < d PROVE FALSE
      OBVIOUS
    <3>1. d \in 1 .. n /\ ~(d <= c)
      BY <1>1, <1>2
    <3>2. QED
      BY <2>1, <3>1
  <2>3. ~(d < c)
    <3> SUFFICES ASSUME d < c PROVE FALSE
      OBVIOUS
    <3>1. c \in 1 .. n /\ ~(c <= d)
      BY <1>1, <1>2
    <3>2. QED
      BY <2>1, <3>1
  <2>4. QED
    BY <1>1, <1>2, <2>2, <2>3
<1>5. ASSUME NEW p \in 1 .. n, t[p].id = x PROVE c = p - 1 /\ d = p
  <2>1. ~(p <= c) /\ p <= d
    BY <1>1, <1>2, <1>5
  <2>2. p - 1 <= c
    <3>1. CASE p = 1
      BY <1>1, <3>1
    <3>2. CASE p # 1
      <4>1. p - 1 \in 1 .. n /\ p - 1 < p
        BY <3>2
      <4>2. t[p - 1].id < x
        BY <1>3, <1>5, <4>1
      <4>3. QED
        BY <1>1, <4>1, <4>2
    <3>3. QED
      BY <3>1, <3>2
  <2>3. ~(p < d)
    <3> SUFFICES ASSUME p < d PROVE FALSE
      OBVIOUS
    <3>1. d \in 1 .. n /\ t[d].id < y /\ x < t[d].id
      <4>1. d \in 1 .. n
        BY <1>2
      <4>2. t[d].id < y
        BY <1>2, <4>1
      <4>3. t[p].id < t[d].id
        BY <1>3, <4>1
      <4>4. QED
        BY <1>5, <4>1, <4>2, <4>3
    <3>2. QED
      BY <3>1
  <2>4. QED
    BY <1>1, <1>2, <2>1, <2>2, <2>3
<1>6. QED
  BY <1>4, <1>5 DEF c, d

(* The running sums of the padded sizes, by the reader and by the engine.   *)
Sized(t, n) == \A p \in 1 .. n : t[p].size \in Nat

(* A padded size is a number.                                               *)
LEMMA PadIsNat == ASSUME NEW v \in Nat, NEW a \in Nat \ {0} PROVE R!align_up(v, a) \in Nat
<1>1. v % a \in 0 .. a - 1
  OBVIOUS
<1>2. QED
  BY <1>1 DEF R!align_up

(* The reader pads a size as the engine does, so the running sums agree.    *)
LEMMA PaddedSums ==
    ASSUME NEW n \in Nat, NEW t, DOMAIN t = 1 .. n, Sized(t, n), NEW a \in Nat \ {0}
    PROVE  /\ R!AlignedSizes(t, a) = R!padded_sizes(t, a)
           /\ Sums(R!padded_sizes(t, a))[0] = 0
           /\ \A p \in 0 .. n : Sums(R!padded_sizes(t, a))[p] \in Nat
           /\ \A p \in 1 .. n : Sums(R!padded_sizes(t, a))[p] =
                Sums(R!padded_sizes(t, a))[p - 1] + R!align_up(t[p].size, a)
<1> DEFINE h == R!padded_sizes(t, a)
<1>1. \A p \in 1 .. n : t[p].size \in Nat
  BY DEF Sized
<1>2. h = [p \in 1 .. n |-> R!align_up(t[p].size, a)]
  BY DEF R!padded_sizes
<1>3. R!AlignedSizes(t, a) = [p \in 1 .. n |-> a * ((t[p].size + a - 1) \div a)]
  BY DEF R!AlignedSizes
<1>4. \A p \in 1 .. n : a * ((t[p].size + a - 1) \div a) = R!align_up(t[p].size, a)
  BY <1>1, PadsAgree
<1>5. R!AlignedSizes(t, a) = h
  BY <1>2, <1>3, <1>4
<1>6. \A p \in 1 .. n : R!align_up(t[p].size, a) \in Nat
  BY <1>1, PadIsNat
<1>7. Len(h) = n /\ \A p \in 1 .. n : h[p] = R!align_up(t[p].size, a) /\ h[p] \in Nat
  BY <1>2, <1>6
<1> HIDE DEF h
<1>8. /\ Sums(h)[0] = 0
      /\ \A p \in 1 .. n : Sums(h)[p] = Sums(h)[p - 1] + h[p]
      /\ \A p \in 0 .. n : Sums(h)[p] \in Nat
  BY <1>7, SumsFacts
<1>9. QED
  BY <1>5, <1>7, <1>8 DEF h

(* The prefix sums of two tables are those of their merge by id.            *)
From(s, n, t, m) == \A i \in 1 .. n : \E j \in 1 .. m : s[i] = t[j]
Merge(s, n, low, l, high, h) ==
    /\ From(low, l, s, n) /\ From(high, h, s, n)
    /\ \A j \in 1 .. n : \/ \E p \in 1 .. l : s[j] = low[p]
                         \/ \E q \in 1 .. h : s[j] = high[q]
    /\ \A p \in 1 .. l : \A q \in 1 .. h : low[p].id # high[q].id

(* A table that can be searched by id, with sizes.                          *)
IdTable(t, n) == DOMAIN t = 1 .. n /\ InIdOrder(t, n) /\ Sized(t, n)

(* No id of a table lies between two neighbours of the merge.               *)
LEMMA MergeStep ==
    ASSUME NEW n \in Nat, NEW s, DOMAIN s = 1 .. n, InIdOrder(s, n),
           NEW l \in Nat, NEW t, DOMAIN t = 1 .. l, InIdOrder(t, l), From(t, l, s, n),
           NEW m \in 1 .. n - 1
    PROVE  \A p \in 1 .. l : ~(s[m].id < t[p].id /\ t[p].id < s[m + 1].id)
<1> SUFFICES ASSUME NEW p \in 1 .. l, s[m].id < t[p].id, t[p].id < s[m + 1].id PROVE FALSE
  OBVIOUS
<1>1. PICK j \in 1 .. n : t[p] = s[j]
  BY DEF From
<1>2. m \in 1 .. n /\ m + 1 \in 1 .. n
  OBVIOUS
<1>3. s[m].id \in Int /\ s[m + 1].id \in Int /\ s[j].id \in Int
  BY <1>2 DEF InIdOrder
<1>4. CASE j < m
  <2>1. s[j].id < s[m].id
    BY <1>2, <1>4 DEF InIdOrder
  <2>2. QED
    BY <1>1, <1>3, <2>1
<1>5. CASE j = m
  BY <1>1, <1>3, <1>5
<1>6. CASE j = m + 1
  BY <1>1, <1>3, <1>6
<1>7. CASE m + 1 < j
  <2>1. s[m + 1].id < s[j].id
    BY <1>2, <1>7 DEF InIdOrder
  <2>2. QED
    BY <1>1, <1>3, <2>1
<1>8. QED
  BY <1>4, <1>5, <1>6, <1>7

(* One step in one of the two tables.                                       *)
LEMMA PrefixStep ==
    ASSUME NEW n \in Nat, NEW s, IdTable(s, n),
           NEW l \in Nat, NEW t, IdTable(t, l), From(t, l, s, n), NEW a \in Nat \ {0}, NEW m \in 1 .. n - 1
    PROVE  /\ R!PrefixBytes(t, s[m].id, a) \in Nat
           /\ (\A p \in 1 .. l : t[p].id # s[m].id) =>
                R!PrefixBytes(t, s[m + 1].id, a) = R!PrefixBytes(t, s[m].id, a)
           /\ \A p \in 1 .. l : t[p] = s[m] =>
                R!PrefixBytes(t, s[m + 1].id, a) =
                    R!PrefixBytes(t, s[m].id, a) + R!align_up(s[m].size, a)
<1> DEFINE x == s[m].id
           y == s[m + 1].id
           Q(i) == Sums(R!padded_sizes(t, a))[i]
<1>0. DOMAIN t = 1 .. l /\ InIdOrder(t, l) /\ Sized(t, l)
  BY DEF IdTable
<1>s. DOMAIN s = 1 .. n /\ InIdOrder(s, n)
  BY DEF IdTable
<1>1. x \in Int /\ y \in Int /\ x < y
  <2>1. m \in 1 .. n /\ m + 1 \in 1 .. n /\ m < m + 1
    OBVIOUS
  <2>2. QED
    BY <1>s, <2>1 DEF InIdOrder
<1>2. \A p \in 1 .. l : ~(x < t[p].id /\ t[p].id < y)
  BY <1>0, <1>s, MergeStep
<1>3. /\ \A p \in 0 .. l : Q(p) \in Nat
      /\ \A p \in 1 .. l : Q(p) = Q(p - 1) + R!align_up(t[p].size, a)
  BY <1>0, PaddedSums, ZenonT(30)
<1>4. \A i : R!PrefixBytes(t, i, a) = Q(R!InsertionIndex(t, i))
  BY <1>0, PaddedSums, SameOperators DEF R!PrefixBytes
<1> HIDE DEF x, y, Q
<1>5. R!InsertionIndex(t, x) \in 0 .. l
  BY <1>0, <1>1, CountBelow
<1>6. /\ (\A p \in 1 .. l : t[p].id # x) => R!InsertionIndex(t, y) = R!InsertionIndex(t, x)
      /\ \A p \in 1 .. l : t[p].id = x =>
            R!InsertionIndex(t, x) = p - 1 /\ R!InsertionIndex(t, y) = p
  <2>1. DOMAIN t = 1 .. l /\ InIdOrder(t, l)
    BY <1>0
  <2>2. QED
    BY <1>1, <1>2, <2>1, Advance, SMTT(30)
<1>7. (\A p \in 1 .. l : t[p].id # x) => R!PrefixBytes(t, y, a) = R!PrefixBytes(t, x, a)
  BY <1>4, <1>6
<1>8. ASSUME NEW p \in 1 .. l, t[p] = s[m]
      PROVE  R!PrefixBytes(t, y, a) = R!PrefixBytes(t, x, a) + R!align_up(s[m].size, a)
  <2>1. R!InsertionIndex(t, x) = p - 1 /\ R!InsertionIndex(t, y) = p
    BY <1>6, <1>8 DEF x
  <2>2. R!PrefixBytes(t, y, a) = Q(p) /\ R!PrefixBytes(t, x, a) = Q(p - 1)
    BY <1>4, <2>1
  <2>3. QED
    BY <1>3, <1>8, <2>2
<1>9. R!PrefixBytes(t, x, a) \in Nat
  BY <1>3, <1>4, <1>5
<1>10. QED
  BY <1>7, <1>8, <1>9 DEF x, y

(* Before the first id of a listing there is nothing in either table.       *)
LEMMA PrefixStart ==
    ASSUME NEW n \in Nat \ {0}, NEW s, InIdOrder(s, n),
           NEW l \in Nat, NEW t, IdTable(t, l), From(t, l, s, n), NEW a \in Nat \ {0}
    PROVE  R!PrefixBytes(t, s[1].id, a) = 0
<1> DEFINE x == s[1].id
           c == R!InsertionIndex(t, x)
<1>0. DOMAIN t = 1 .. l /\ InIdOrder(t, l) /\ Sized(t, l)
  BY DEF IdTable
<1>1. 1 \in 1 .. n /\ x \in Int
  BY DEF InIdOrder
<1>2. c \in 0 .. l /\ \A p \in 1 .. l : t[p].id < x <=> p <= c
  BY <1>0, <1>1, CountBelow
<1> HIDE DEF c
<1>3. \A p \in 1 .. l : ~(t[p].id < x)
  <2> SUFFICES ASSUME NEW p \in 1 .. l, t[p].id < x PROVE FALSE
    OBVIOUS
  <2>1. PICK j \in 1 .. n : t[p] = s[j]
    BY DEF From
  <2>2. s[j].id \in Int /\ (j = 1 \/ x < s[j].id)
    BY <1>1 DEF InIdOrder
  <2>3. QED
    BY <1>1, <2>1, <2>2
<1>4. c = 0
  <2> SUFFICES ASSUME c # 0 PROVE FALSE
    OBVIOUS
  <2>1. 1 \in 1 .. l /\ 1 <= c
    BY <1>2
  <2>2. t[1].id < x
    BY <1>2, <2>1
  <2>3. QED
    BY <1>3, <2>1, <2>2
<1>5. R!PrefixBytes(t, x, a) = Sums(R!padded_sizes(t, a))[0]
  BY <1>0, <1>4, PaddedSums, SameOperators DEF R!PrefixBytes, c
<1>6. QED
  BY <1>0, <1>5, PaddedSums

(* Two tables, merged by id: the bytes before the m-th row of the merge are *)
(* those before its insertion index in the one table and in the other.  By  *)
(* induction on m: the m-th row is in one of the tables, where it moves the *)
(* insertion index by one, and the other index stays (MergeStep).           *)
LEMMA MergedSums ==
    ASSUME NEW n \in Nat, NEW s, IdTable(s, n), NEW l \in Nat, NEW low, IdTable(low, l),
           NEW h \in Nat, NEW high, IdTable(high, h),
           Merge(s, n, low, l, high, h), NEW a \in Nat \ {0}
    PROVE  \A j \in 1 .. n :
             Sums(R!padded_sizes(s, a))[j - 1] =
                R!PrefixBytes(low, s[j].id, a) + R!PrefixBytes(high, s[j].id, a)
<1> DEFINE Q(i) == Sums(R!padded_sizes(s, a))[i]
           L(j) == R!PrefixBytes(low, s[j].id, a)
           H(j) == R!PrefixBytes(high, s[j].id, a)
           S == {m \in 0 .. n : m >= 1 => Q(m - 1) = L(m) + H(m)}
<1>0. From(low, l, s, n) /\ From(high, h, s, n)
  BY DEF Merge
<1>1. /\ \A j \in 1 .. n : \/ \E p \in 1 .. l : s[j] = low[p]
                           \/ \E q \in 1 .. h : s[j] = high[q]
      /\ \A p \in 1 .. l : \A q \in 1 .. h : low[p].id # high[q].id
  BY DEF Merge
<1>2. /\ Q(0) = 0
      /\ \A p \in 1 .. n : Q(p) = Q(p - 1) + R!align_up(s[p].size, a)
  <2>1. DOMAIN s = 1 .. n /\ Sized(s, n)
    BY DEF IdTable
  <2> HIDE DEF S
  <2>2. QED
    BY <2>1, PaddedSums, SMTT(30)
<1>3. 0 \in S
  OBVIOUS
<1>4. ASSUME NEW m \in 0 .. n - 1, m \in S PROVE m + 1 \in S
  <2>1. CASE m = 0
    <3>1. n \in Nat \ {0} /\ m + 1 = 1 /\ 1 \in 0 .. n
      BY <2>1
    <3>2. L(1) = 0 /\ H(1) = 0
      <4>1. InIdOrder(s, n)
        BY DEF IdTable
      <4>2. QED
        BY <1>0, <3>1, <4>1, PrefixStart
    <3>3. Q(0) = L(1) + H(1)
      BY <1>2, <3>2
    <3> HIDE DEF Q, L, H
    <3>4. QED
      BY <3>1, <3>3
  <2>2. CASE m # 0
    <3>1. m \in 1 .. n - 1 /\ m \in 1 .. n /\ m + 1 \in 0 .. n /\ (m + 1) - 1 = m
      BY <2>2
    <3>2. Q(m - 1) = L(m) + H(m)
      BY <1>4, <3>1
    <3>3. Q(m) = Q(m - 1) + R!align_up(s[m].size, a)
      BY <1>2, <3>1
    <3>4. /\ L(m) \in Nat
          /\ (\A p \in 1 .. l : low[p].id # s[m].id) => L(m + 1) = L(m)
          /\ \A p \in 1 .. l : low[p] = s[m] => L(m + 1) = L(m) + R!align_up(s[m].size, a)
      <4> HIDE DEF S
      <4> QED
        BY <1>0, <3>1, PrefixStep
    <3>5. /\ H(m) \in Nat
          /\ (\A p \in 1 .. h : high[p].id # s[m].id) => H(m + 1) = H(m)
          /\ \A p \in 1 .. h : high[p] = s[m] => H(m + 1) = H(m) + R!align_up(s[m].size, a)
      <4> HIDE DEF S
      <4> QED
        BY <1>0, <3>1, PrefixStep
    <3>6. R!align_up(s[m].size, a) \in Nat
      BY <3>1, PadIsNat DEF IdTable, Sized
    <3> HIDE DEF Q, L, H
    <3>7. CASE \E p \in 1 .. l : s[m] = low[p]
      <4>1. PICK p \in 1 .. l : s[m] = low[p]
        BY <3>7
      <4>2. \A q \in 1 .. h : high[q].id # s[m].id
        BY <1>1, <4>1
      <4>3. L(m + 1) = L(m) + R!align_up(s[m].size, a) /\ H(m + 1) = H(m)
        BY <3>4, <3>5, <4>1, <4>2
      <4>4. Q(m) = L(m + 1) + H(m + 1)
        BY <3>2, <3>3, <3>4, <3>5, <3>6, <4>3
      <4>5. QED
        BY <3>1, <4>4
    <3>8. CASE \E q \in 1 .. h : s[m] = high[q]
      <4>1. PICK q \in 1 .. h : s[m] = high[q]
        BY <3>8
      <4>2. \A p \in 1 .. l : low[p].id # s[m].id
        BY <1>1, <4>1
      <4>3. H(m + 1) = H(m) + R!align_up(s[m].size, a) /\ L(m + 1) = L(m)
        BY <3>4, <3>5, <4>1, <4>2
      <4>4. Q(m) = L(m + 1) + H(m + 1)
        BY <3>2, <3>3, <3>4, <3>5, <3>6, <4>3
      <4>5. QED
        BY <3>1, <4>4
    <3>9. QED
      BY <1>1, <3>1, <3>7, <3>8
  <2>3. QED
    BY <2>1, <2>2
<1>5. 0 .. n \subseteq S
  <2> HIDE DEF S
  <2> QED
    BY <1>3, <1>4, UpTo
<1>6. QED
  <2> HIDE DEF Q, L, H
  <2>1. \A j \in 1 .. n : Q(j - 1) = L(j) + H(j)
    BY <1>5
  <2>2. QED
    BY <2>1 DEF Q, L, H

(* An empty table adds nothing.                                             *)
LEMMA EmptyPrefix ==
    ASSUME NEW x \in Int, NEW a \in Nat \ {0}
    PROVE  IdTable(<<>>, 0) /\ R!PrefixBytes(<<>>, x, a) = 0
<1> DEFINE t == <<>>
<1>1. DOMAIN t = 1 .. 0 /\ InIdOrder(t, 0) /\ Sized(t, 0)
  BY DEF InIdOrder, Sized
<1> HIDE DEF t
<1>2. R!InsertionIndex(t, x) \in 0 .. 0
  BY <1>1, CountBelow
<1>3. R!AlignedSizes(t, a) = R!padded_sizes(t, a) /\ Sums(R!padded_sizes(t, a))[0] = 0
  BY <1>1, PaddedSums
<1>4. R!PrefixBytes(t, x, a) = Sums(R!padded_sizes(t, a))[0]
  BY <1>2, <1>3, SameOperators DEF R!PrefixBytes
<1>5. QED
  BY <1>1, <1>3, <1>4 DEF t, IdTable

(* The prefix of a table is a number of bytes.                              *)
LEMMA PrefixNat ==
    ASSUME NEW l \in Nat, NEW t, IdTable(t, l), NEW x \in Int, NEW a \in Nat \ {0}
    PROVE  R!PrefixBytes(t, x, a) \in Nat
<1>1. DOMAIN t = 1 .. l /\ InIdOrder(t, l) /\ Sized(t, l)
  BY DEF IdTable
<1>2. R!InsertionIndex(t, x) \in 0 .. l
  BY <1>1, CountBelow
<1>3. /\ R!AlignedSizes(t, a) = R!padded_sizes(t, a)
      /\ \A p \in 0 .. l : Sums(R!padded_sizes(t, a))[p] \in Nat
  BY <1>1, PaddedSums
<1>4. QED
  BY <1>2, <1>3, SameOperators DEF R!PrefixBytes

(* The tables of an ITOC get_files accepts merge into its listing.          *)
LEMMA TablesMerge ==
    ASSUME NEW n \in Nat, NEW rows, IdTable(rows, n),
           NEW low \in Seq(ItocRow), NEW high \in Seq(ItocRow),
           R!Ascending(low), R!Ascending(high),
           n = Len(low \o high),
           Among(rows, low \o high, n), Among(low \o high, rows, n),
           \A p, q \in 1 .. n : p # q => (low \o high)[p].id # (low \o high)[q].id
    PROVE  /\ IdTable(low, Len(low)) /\ IdTable(high, Len(high))
           /\ Merge(rows, n, low, Len(low), high, Len(high))
<1> DEFINE both == low \o high
           l == Len(low)
           h == Len(high)
<1>1. l \in Nat /\ h \in Nat /\ DOMAIN low = 1 .. l /\ DOMAIN high = 1 .. h
  OBVIOUS
<1>2. /\ n = l + h
      /\ \A p \in 1 .. l : p \in 1 .. n /\ both[p] = low[p]
      /\ \A q \in 1 .. h : l + q \in 1 .. n /\ both[l + q] = high[q]
      /\ \A p \in 1 .. n : \/ p \in 1 .. l /\ both[p] = low[p]
                           \/ p - l \in 1 .. h /\ both[p] = high[p - l]
  <2>1. Len(both) = l + h
        /\ \A i \in 1 .. l + h : both[i] = IF i <= l THEN low[i] ELSE high[i - l]
    BY ConcatProperties
  <2> HIDE DEF both, l, h
  <2>2. n = l + h
    BY <2>1 DEF both
  <2>3. ASSUME NEW p \in 1 .. l PROVE p \in 1 .. n /\ both[p] = low[p]
    BY <1>1, <2>1, <2>2
  <2>4. ASSUME NEW q \in 1 .. h PROVE l + q \in 1 .. n /\ both[l + q] = high[q]
    <3>1. l + q \in 1 .. l + h /\ ~(l + q <= l) /\ (l + q) - l = q
      BY <1>1
    <3>2. QED
      BY <2>1, <2>2, <3>1
  <2>5. ASSUME NEW p \in 1 .. n
        PROVE  \/ p \in 1 .. l /\ both[p] = low[p]
               \/ p - l \in 1 .. h /\ both[p] = high[p - l]
    BY <1>1, <2>1, <2>2
  <2>6. QED
    BY <2>2, <2>3, <2>4, <2>5
<1> HIDE DEF both, l, h
<1>3. \A i \in 1 .. n : rows[i].id \in Int /\ rows[i].size \in Nat
  BY DEF IdTable, InIdOrder, Sized
<1>a. Among(rows, both, n)
  BY DEF both
<1>b. Among(both, rows, n)
  BY DEF both
<1>4. \A p, q \in 1 .. n : p # q => both[p].id # both[q].id
  BY DEF both
<1>5. ASSUME NEW p \in 1 .. n PROVE both[p].id \in Int /\ both[p].size \in Nat
  <2>1. PICK j \in 1 .. n : both[p] = rows[j]
    BY <1>b DEF Among
  <2>2. QED
    BY <1>3, <2>1
<1>6. IdTable(low, l)
  <2>1. \A p \in 1 .. l : low[p].id \in Int /\ low[p].size \in Nat
    BY <1>2, <1>5
  <2>2. QED
    BY <1>1, <2>1 DEF IdTable, InIdOrder, Sized, R!Ascending
<1>7. IdTable(high, h)
  <2>1. \A q \in 1 .. h : high[q].id \in Int /\ high[q].size \in Nat
    BY <1>2, <1>5
  <2>2. QED
    BY <1>1, <2>1 DEF IdTable, InIdOrder, Sized, R!Ascending
<1>8. From(low, l, rows, n)
  <2> SUFFICES ASSUME NEW p \in 1 .. l PROVE \E j \in 1 .. n : low[p] = rows[j]
    BY DEF From
  <2>1. p \in 1 .. n /\ both[p] = low[p]
    BY <1>2
  <2>2. PICK j \in 1 .. n : both[p] = rows[j]
    BY <1>b, <2>1 DEF Among
  <2>3. QED
    BY <2>1, <2>2
<1>9. From(high, h, rows, n)
  <2> SUFFICES ASSUME NEW q \in 1 .. h PROVE \E j \in 1 .. n : high[q] = rows[j]
    BY DEF From
  <2> DEFINE i == l + q
  <2>1. i \in 1 .. n /\ both[i] = high[q]
    BY <1>2
  <2> HIDE DEF i
  <2>2. PICK j \in 1 .. n : both[i] = rows[j]
    BY <1>b, <2>1 DEF Among
  <2>3. QED
    BY <2>1, <2>2
<1>10. ASSUME NEW j \in 1 .. n
       PROVE  \/ \E p \in 1 .. l : rows[j] = low[p]
              \/ \E q \in 1 .. h : rows[j] = high[q]
  <2>1. PICK p \in 1 .. n : rows[j] = both[p]
    BY <1>a DEF Among
  <2>2. \/ p \in 1 .. l /\ both[p] = low[p]
        \/ p - l \in 1 .. h /\ both[p] = high[p - l]
    BY <1>2
  <2>3. QED
    BY <2>1, <2>2
<1>11. ASSUME NEW p \in 1 .. l, NEW q \in 1 .. h PROVE low[p].id # high[q].id
  <2>1. p \in 1 .. n /\ l + q \in 1 .. n /\ p # l + q /\ both[p] = low[p] /\ both[l + q] = high[q]
    BY <1>1, <1>2
  <2>2. QED
    BY <1>4, <2>1
<1>12. Merge(rows, n, low, l, high, h)
  BY <1>8, <1>9, <1>10, <1>11 DEF Merge
<1>13. QED
  BY <1>6, <1>7, <1>12 DEF l, h

(* The offset the reader gives the j-th row is that of the engine's lookup  *)
(* of its id.                                                               *)
LEMMA LookupAgrees ==
    ASSUME NEW md, NEW body, \A t \in DOMAIN body : body[t] \in Seq(ItocRow),
           R!itoc_entries(md, body).ok, R!Searchable(body),
           md.ContentOffset \in Nat, md.Align \in Nat \ {0}
    PROVE  \A j \in DOMAIN R!itoc_entries(md, body).files :
             R!itoc_entries(md, body).files[j].offset =
                R!engine_offset(md, body, R!itoc_entries(md, body).files[j].id)
<1> DEFINE rows0 == ItocSource(md, body)
           rows == R!SortById(rows0)
           n == Len(rows0)
           a == md.Align
           fs == R!itoc_entries(md, body).files
           low == IF md.EID # 0 THEN body.rows ELSE body.DataL
           high == IF md.EID # 0 THEN <<>> ELSE body.DataH
<1>1. /\ R!ItocTables(md, body) # {} /\ n \in Nat /\ rows0 \in Seq(ItocRow)
      /\ DOMAIN rows = 1 .. n
      /\ \A i \in 1 .. n : rows[i].id \in Nat /\ rows[i].size \in Nat
      /\ InIdOrder(rows, n) /\ Among(rows, rows0, n) /\ Among(rows0, rows, n)
      /\ \A p, q \in 1 .. n : p # q => rows0[p].id # rows0[q].id
      /\ DOMAIN fs = 1 .. n
      /\ \A j \in 1 .. n :
            /\ fs[j].id = rows[j].id
            /\ fs[j].offset = md.ContentOffset + Sums(R!padded_sizes(rows, a))[j - 1]
  BY ItocListing
<1> HIDE DEF fs
<1>2. /\ low \in Seq(ItocRow) /\ high \in Seq(ItocRow) /\ rows0 = low \o high
      /\ R!Ascending(low) /\ R!Ascending(high)
  <2>1. CASE md.EID # 0
    <3>1. "rows" \in DOMAIN body /\ body.rows \in Seq(ItocRow) /\ rows0 = body.rows
      BY <1>1, <2>1, ItocSourceFacts
    <3>2. low = body.rows /\ high = <<>>
      BY <2>1
    <3>3. body.rows \o <<>> = body.rows /\ <<>> \in Seq(ItocRow)
      BY <3>1, ConcatEmptySeq
    <3>4. R!Ascending(low)
      BY <3>1, <3>2 DEF R!Searchable
    <3>5. R!Ascending(high)
      BY <3>2 DEF R!Ascending
    <3>6. QED
      BY <3>1, <3>2, <3>3, <3>4, <3>5
  <2>2. CASE md.EID = 0
    <3>1. /\ {"DataL", "DataH"} \subseteq DOMAIN body
          /\ body.DataL \in Seq(ItocRow) /\ body.DataH \in Seq(ItocRow)
          /\ rows0 = body.DataL \o body.DataH
      <4>1. R!ItocTables(md, body) # {}
        BY <1>1
      <4>2. QED
        BY <2>2, <4>1, ItocSourceFacts
    <3>2. low = body.DataL /\ high = body.DataH
      BY <2>2
    <3>3. R!Ascending(low) /\ R!Ascending(high)
      BY <3>1, <3>2 DEF R!Searchable
    <3>4. QED
      BY <3>1, <3>2, <3>3
  <2>3. QED
    BY <2>1, <2>2
<1>3. IdTable(rows, n)
  BY <1>1 DEF IdTable, Sized
<1>o. \A j \in 1 .. n :
        /\ fs[j].id = rows[j].id /\ rows[j].id \in Int
        /\ fs[j].offset = md.ContentOffset + Sums(R!padded_sizes(rows, a))[j - 1]
  BY <1>1
<1> DEFINE l == Len(low)
           h == Len(high)
<1> HIDE DEF rows, n, a, low, high, l, h
<1>4. l \in Nat /\ h \in Nat /\ a \in Nat \ {0} /\ n \in Nat
  BY <1>1, <1>2 DEF a, l, h
<1>5. IdTable(low, l) /\ IdTable(high, h) /\ Merge(rows, n, low, l, high, h)
  <2> HIDE DEF rows0
  <2>1. n = Len(low \o high)
    BY <1>2 DEF n
  <2>2. /\ Among(rows, low \o high, n) /\ Among(low \o high, rows, n)
        /\ \A p, q \in 1 .. n : p # q => (low \o high)[p].id # (low \o high)[q].id
    BY <1>1, <1>2
  <2>3. QED
    BY <1>2, <1>3, <1>4, <2>1, <2>2, TablesMerge DEF l, h
<1>6. \A j \in 1 .. n : Sums(R!padded_sizes(rows, a))[j - 1] =
            R!PrefixBytes(low, rows[j].id, a) + R!PrefixBytes(high, rows[j].id, a)
  BY <1>3, <1>4, <1>5, MergedSums
<1>8. ASSUME NEW x \in Int
      PROVE  R!engine_offset(md, body, x) =
                md.ContentOffset + (R!PrefixBytes(low, x, a) + R!PrefixBytes(high, x, a))
  <2> DEFINE P == R!PrefixBytes(low, x, a)
             Q == R!PrefixBytes(high, x, a)
  <2>1. P \in Nat /\ Q \in Nat
    BY <1>4, <1>5, PrefixNat
  <2> HIDE DEF P, Q
  <2>2. CASE md.EID # 0
    <3>1. R!engine_offset(md, body, x) = md.ContentOffset + P
      BY <2>2 DEF R!engine_offset, P, low, a
    <3>2. Q = 0
      BY <1>4, <2>2, EmptyPrefix DEF Q, high
    <3>3. QED
      BY <2>1, <3>1, <3>2 DEF P, Q
  <2>3. CASE md.EID = 0
    <3>1. R!engine_offset(md, body, x) = md.ContentOffset + P + Q
      BY <2>3 DEF R!engine_offset, P, Q, low, high, a
    <3>2. QED
      BY <2>1, <3>1 DEF P, Q
  <2>4. QED
    BY <2>2, <2>3
<1>7. ASSUME NEW j \in 1 .. n PROVE fs[j].offset = R!engine_offset(md, body, fs[j].id)
  <2>1. fs[j].id = rows[j].id /\ rows[j].id \in Int
    BY <1>o
  <2>2. QED
    BY <1>6, <1>8, <2>1, <1>o
<1>9. QED
  BY <1>1, <1>7 DEF fs, n

(* The numbers of a header, whoever wrote it.                               *)
LEMMA HeaderNumbers ==
    ASSUME ArchiveInv, metadata # <<>>
    PROVE  \A c \in {"TocOffset", "ItocOffset", "ContentOffset", "Align", "EID"} : Header[c] \in Nat
<1>1. R!ChunksAt(0, "cpk") # {}
  BY ZenonT(30) DEF ArchiveInv, ListInv
<1>2. PICK e \in stream.ext : e.kind = "cpk" /\ Typed(e) /\ R!ChunkBody(0, "cpk") = e.body
  BY <1>1, ChunkFacts DEF ArchiveInv
<1>3. QED
  BY <1>2 DEF Typed, Header

(* The listing of an ITOC, of this writer or of another tool, is the        *)
(* engine's.                                                                *)
LEMMA InvEngineLookup == ArchiveInv => ListingIsEngineLookup
<1> DEFINE itoc == R!ChunkBody(Header.ItocOffset, "itoc")
           fs == R!itoc_entries(Header, itoc).files
           rows0 == ItocSource(Header, itoc)
           rows == R!SortById(rows0)
           n == Len(rows0)
<1> SUFFICES ASSUME ArchiveInv, result = "listed", metadata[1].TocOffset = 0
             PROVE  LET md == metadata[1]
                        body == R!ChunkBody(md.ItocOffset, "itoc")
                    IN  /\ \A i, j \in DOMAIN listed : i < j => listed[i].id < listed[j].id
                        /\ R!Searchable(body) /\ md.Align # 0 =>
                            \A j \in DOMAIN listed :
                                listed[j].offset = R!engine_offset(md, body, listed[j].id)
  BY DEF ListingIsEngineLookup, R!ListingIsEngineLookup
<1>1. metadata # <<>> /\ R!ReadIndex(Header).ok
  BY DEF ArchiveInv, ListInv
<1>2. metadata[1] = Header
  BY <1>1, ListedIndex
<1>3. /\ \A t \in DOMAIN itoc : itoc[t] \in Seq(ItocRow)
      /\ R!itoc_entries(Header, itoc).ok /\ listed = fs
  BY <1>1, <1>2, ListedIndex
<1>4. Header.ContentOffset \in Nat /\ Header.Align \in Nat
  BY <1>1, HeaderNumbers
<1> HIDE DEF itoc
<1>5. /\ n \in Nat /\ DOMAIN fs = 1 .. n /\ InIdOrder(rows, n)
      /\ \A j \in 1 .. n : fs[j].id = rows[j].id
  BY <1>3, ItocListing
<1> HIDE DEF fs, rows0, rows, n
<1>6. \A i, j \in DOMAIN listed : i < j => listed[i].id < listed[j].id
  BY <1>3, <1>5 DEF InIdOrder
<1>7. ASSUME R!Searchable(itoc), Header.Align # 0
      PROVE  \A j \in DOMAIN listed : listed[j].offset = R!engine_offset(Header, itoc, listed[j].id)
  <2>1. Header.Align \in Nat \ {0}
    BY <1>4, <1>7
  <2>2. \A j \in DOMAIN R!itoc_entries(Header, itoc).files :
             R!itoc_entries(Header, itoc).files[j].offset =
                R!engine_offset(Header, itoc, R!itoc_entries(Header, itoc).files[j].id)
    BY <1>3, <1>4, <1>7, <2>1, LookupAgrees
  <2>3. QED
    BY <1>3, <2>2 DEF fs
<1>8. QED
  BY <1>2, <1>6, <1>7 DEF itoc

(* For every ITOC, of the writer or of another tool: the merge by id is the *)
(* engine's search in the two tables, whatever the rows, the sizes and the  *)
(* alignment.                                                               *)
THEOREM MergeIsEngineLookup == ArchiveSpec => []ListingIsEngineLookup
<1>1. QED
  BY InitArchive, NextArchive, InvEngineLookup, PTL DEF ArchiveSpec

-----------------------------------------------------------------------------
(* Payloads.  Unless a source ran over its place, a place the stream has    *)
(* been past holds its payload, whole.                                      *)
Whole(i) == \E e \in out : IsPayload(e, i) /\ e.len = files[i].size
DataInv ==
    out # {} /\ ~Overrun =>
        \A i \in Files : files[i].size > 0 /\ off[i] + files[i].size <= pos => Whole(i)

(* Where the plan puts the payloads.                                        *)
LEMMA PlanOffsets ==
    ASSUME job \in Jobs, PlanDone
    PROVE  /\ lay.content \in Nat /\ cursor \in Nat /\ IndexBase <= lay.content
           /\ has_toc(job.mode) => IndexBase + toc_chunk_len <= lay.content
           /\ \A i \in Files :
                /\ off[i] \in Nat /\ files[i].size \in Nat
                /\ lay.content <= off[i] /\ off[i] + files[i].size <= cursor
<1>1. /\ ContentOffset \in Nat /\ TocEnd \in Nat /\ ItocEnd \in Nat /\ toc_chunk_len \in Nat
      /\ IndexBase <= TocEnd /\ TocEnd <= ItocEnd /\ ItocEnd <= ContentOffset
      /\ has_toc(job.mode) => IndexBase + toc_chunk_len <= TocEnd
  BY LayoutFacts DEF PlanDone
<1>2. lay.content \in Nat /\ IndexBase <= lay.content
      /\ (has_toc(job.mode) => IndexBase + toc_chunk_len <= lay.content)
  BY <1>1 DEF PlanDone, IndexBase
<1>3. ASSUME NEW i \in Files
      PROVE  /\ off[i] \in Nat /\ files[i].size \in Nat
             /\ lay.content <= off[i] /\ off[i] + files[i].size <= cursor
  <2>1. PICK a \in Files : order[a] = i
    BY DEF PlanDone
  <2>2. QED
    BY <2>1, JobFacts DEF PlanDone
<1>4. cursor \in Nat
  <2>1. Len(files) \in Nat
    BY JobFacts
  <2>2. CASE Len(files) = 0
    BY <1>2, <2>2 DEF PlanDone, Chained
  <2>3. CASE Len(files) # 0
    <3>1. Len(files) \in Files
      BY <2>1, <2>3 DEF Files
    <3> DEFINE i == order[Len(files)]
    <3>2. i \in Files /\ cursor = align_up(off[i] + files[i].size, alignment)
      BY <2>3, <3>1 DEF PlanDone, Chained
    <3>3. off[i] + files[i].size \in Nat /\ alignment \in PowersOfTwo
      BY <1>3, <3>2, SMTT(30) DEF PlanDone, ValidAlignment
    <3>4. QED
      BY <3>2, <3>3, AlignUp
  <2>4. QED
    BY <2>2, <2>3
<1>5. QED
  BY <1>2, <1>3, <1>4

(* A step that neither writes a payload nor moves the plan keeps DataInv.   *)
LEMMA SameData ==
    ASSUME DataInv, PlanSame, out' = out, pos' = pos
    PROVE  DataInv'
BY DEF DataInv, PlanSame, Whole, IsPayload, Overrun, files, Files

(* Nothing is past its place before the first payload is written.           *)
LEMMA EarlyData ==
    ASSUME job \in Jobs, PlanDone, PlanSame, pos' \in Nat, pos' <= lay.content
    PROVE  DataInv'
<1> SUFFICES ASSUME NEW i \in Files, files[i].size > 0, off[i] + files[i].size <= pos'
             PROVE  FALSE
  BY DEF DataInv, PlanSame, files, Files
<1>1. /\ off[i] \in Nat /\ files[i].size \in Nat /\ lay.content \in Nat
      /\ lay.content <= off[i]
  BY PlanOffsets
<1>2. QED
  BY <1>1

(* A payload is written: it is whole, or the call fails with a source that  *)
(* overran its place, or the next planned place is still ahead of the       *)
(* stream.                                                                  *)
LEMMA CopyData ==
    ASSUME WriterInv, WriterInv', DataInv, CopyPayload
    PROVE  DataInv'
<1> DEFINE n == order[k]
           at == off[n]
           body == [file |-> n, form |-> Form(files[n])]
           x == Extent(at, Copied(n), "data", body)
<1>1. /\ PlanSame /\ pc = "payload" /\ k <= Len(files) /\ avail' = avail
      /\ files' = files /\ Files' = Files
  BY DEF CopyPayload, planVars, PlanSame, files, Files
<1>2. job \in Jobs /\ PlanDone /\ Len(files) \in Nat
  BY <1>1, WritingIsDone, JobFacts DEF WriterInv, PlanInv, PlanTypes, Writing
<1>3. k \in Files /\ n \in Files
  <2>1. k \in 1 .. Len(files) + 1
    BY <1>1 DEF WriterInv, OutInv, PosInv
  <2>2. k \in Files
    BY <1>1, <1>2, <2>1 DEF Files
  <2>3. QED
    BY <1>2, <2>2 DEF PlanDone
<1>4. \A i \in Files : off[i] \in Nat /\ files[i].size \in Nat
  BY <1>2, PlanOffsets
<1>5. \A a \in Files : \A b \in Files : a < b =>
        off[order[a]] + files[order[a]].size <= off[order[b]]
  <2>1. \A a, b \in Files : a < b => b \in a + 1 .. Len(files)
    BY <1>2 DEF Files
  <2>2. QED
    BY <1>2, <2>1 DEF PlanDone
<1>6. pos \in Nat /\ \A e \in out : e.len \in Nat
  BY DEF WriterInv, OutInv, Tiles
<1>7. out \subseteq out'
  BY DEF CopyPayload, write_at
<1>8. ASSUME NEW a \in Files, a < k PROVE Whole(order[a])'
  <2>1. a \in 1 .. k - 1
    BY <1>3, <1>8 DEF Files
  <2>2. PICK e \in out : IsPayload(e, order[a]) /\ e.len = files[order[a]].size
    BY <1>1, <2>1 DEF WriterInv, OutInv, PosInv, Written
  <2>3. e \in out' /\ IsPayload(e, order[a])' /\ e.len = files[order[a]].size
    BY <1>1, <1>7, <2>2 DEF IsPayload, PlanSame
  <2>4. order'[a] = order[a]
    BY <1>1 DEF PlanSame
  <2>5. QED
    BY <1>1, <2>3, <2>4 DEF Whole
<1> SUFFICES ASSUME ~Overrun', NEW i \in Files, files[i].size > 0, off[i] + files[i].size <= pos'
             PROVE  Whole(i)'
  BY <1>1 DEF DataInv, PlanSame
<1>9. PICK a \in Files : order[a] = i
  BY <1>2 DEF PlanDone
<1>10. CASE a < k
  <2>1. order'[a] = i
    BY <1>1, <1>9 DEF PlanSame
  <2>2. QED
    BY <1>8, <1>9, <1>10, <1>1 DEF Whole, IsPayload, PlanSame
<1>11. CASE a = k \/ k < a
  <2>1. at <= off[i] /\ at \in Nat /\ off[i] \in Nat /\ files[i].size \in Nat
    <3>1. n \in Files /\ i \in Files
      BY <1>3
    <3>2. files[n].size \in Nat /\ at \in Nat
      BY <1>4, <3>1
    <3>3. QED
      BY <1>3, <1>4, <1>5, <1>9, <1>11, <3>1, <3>2
  <2>2. pos \in Nat /\ pos <= at /\ pos' \in Nat
    <3>1. pc \in Writing /\ k \in 1 .. Len(files) + 1 /\ pos <= Target(k)
      BY <1>1 DEF WriterInv, OutInv, PosInv, Writing
    <3>2. Target(k) = at
      BY <1>1 DEF Target
    <3>3. pos' \in Nat
      BY DEF WriterInv, OutInv, Tiles
    <3>4. QED
      BY <1>6, <3>1, <3>2, <3>3
  <2>3. write_at(at, "data", Copied(n), body)
    <3>1. ~(pos > at)
      BY <2>1, <2>2
    <3>2. pos' # at
      BY <2>1, <2>2
    <3>3. QED
      BY <3>1, <3>2 DEF CopyPayload
  <2>4. x \in out' /\ pos' = at + Copied(n)
    BY <2>3 DEF write_at
  <2>5. x.kind = "data" /\ x.body.file = n /\ x.at = at /\ x.len = Copied(n)
    BY DEF Extent
  <2> HIDE DEF x, at
  <2>6. Copied(n) \in Int
    BY <1>2, <1>3, JobFacts, SMTT(30) DEF Copied, WriterInv, OutInv, OutTypes
  <2>7. Copied(n) <= files[n].size
    BY <1>1, <1>3, <1>4, <2>4, <2>5, <2>6, SMTT(30) DEF Overrun
  <2>8. a = k
    <3> SUFFICES ASSUME k < a PROVE FALSE
      BY <1>11
    <3>1. at + files[n].size <= off[i]
      BY <1>3, <1>5, <1>9 DEF at
    <3>2. files[n].size \in Nat
      BY <1>3, <1>4
    <3>3. QED
      BY <2>1, <2>4, <2>6, <2>7, <3>1, <3>2
  <2>9. i = n /\ at = off[i]
    BY <1>9, <2>8 DEF at
  <2>10. Copied(n) = files[n].size
    <3>1. files[n].size \in Nat
      BY <1>3, <1>4
    <3>2. QED
      BY <2>1, <2>4, <2>6, <2>7, <2>9, <3>1
  <2>11. \E e \in out' : e.kind = "data" /\ e.body.file = i /\ e.at = off'[i]
                         /\ e.len = files'[i].size
    <3>1. off' = off
      BY <1>1 DEF PlanSame
    <3>2. x.kind = "data" /\ x.body.file = i /\ x.at = off'[i] /\ x.len = files'[i].size
      BY <1>1, <2>5, <2>9, <2>10, <3>1
    <3>3. QED
      BY <2>4, <3>2
  <2>12. QED
    BY <2>11 DEF Whole, IsPayload
<1>12. QED
  BY <1>2, <1>3, <1>10, <1>11 DEF Files

(* Whatever the sources do and whenever the process stops.                  *)
LEMMA NextData ==
    ASSUME WriterInv, WriterInv', DataInv, [Next]_vars
    PROVE  DataInv'
<1>1. CASE UNCHANGED vars \/ SourceChanges \/ Interrupted \/ CheckCopied
  <2>1. PlanSame /\ out' = out /\ pos' = pos
    BY <1>1 DEF vars, outVars, planVars, SourceChanges, Interrupted, CheckCopied, PlanSame
  <2>2. QED
    BY <2>1, SameData
<1>2. CASE PackDirectory \/ Create \/ Validate \/ Layout \/ PlanFile \/ BuildHeader
  <2>1. out' = out /\ pc \in {"directory", "files", "validate", "layout", "plan"}
    BY <1>2 DEF PackDirectory, Create, Validate, Layout, PlanFile, BuildHeader
  <2>2. QED
    BY <2>1 DEF WriterInv, OutInv, PosInv, DataInv
<1>3. CASE WriteHeader \/ WriteToc \/ WriteItoc \/ PadToContent
  <2>1. /\ PlanSame /\ pc \in Writing /\ pc' \in {"toc", "itoc", "content", "payload"}
        /\ pc' = "payload" =>
            pc = "content" /\ pos' = (IF pos < lay.content THEN lay.content ELSE pos)
    BY <1>3 DEF WriteHeader, WriteToc, WriteItoc, PadToContent, planVars, Goto, PlanSame, Writing
  <2>2. job \in Jobs /\ PlanDone
    BY <2>1, WritingIsDone DEF WriterInv, PlanInv, PlanTypes
  <2>3. /\ lay.content \in Nat /\ IndexBase <= lay.content
        /\ has_toc(job.mode) => IndexBase + toc_chunk_len <= lay.content
    BY <2>2, PlanOffsets
  <2>4. pos \in Nat /\ pos' \in Nat
    BY DEF WriterInv, OutInv, Tiles
  <2>5. job' = job /\ lay' = lay /\ toc_chunk_len' = toc_chunk_len
    BY <2>1 DEF PlanSame, toc_chunk_len, files
  <2>6. pos' <= lay.content
    <3>1. CASE pc' = "toc"
      BY <2>3, <3>1 DEF WriterInv, OutInv, PosInv
    <3>2. CASE pc' = "itoc"
      BY <2>3, <2>5, <3>2 DEF WriterInv, OutInv, PosInv
    <3>3. CASE pc' = "content"
      BY <2>5, <3>3 DEF WriterInv, OutInv, PosInv
    <3>4. CASE pc' = "payload"
      <4>1. pos <= lay.content
        BY <2>1, <3>4 DEF WriterInv, OutInv, PosInv
      <4>2. QED
        BY <2>1, <2>3, <2>4, <3>4, <4>1
    <3>5. QED
      BY <2>1, <3>1, <3>2, <3>3, <3>4
  <2>7. QED
    BY <2>1, <2>2, <2>4, <2>6, EarlyData
<1>4. CASE CopyPayload
  BY <1>4, CopyData
<1>5. CASE Finish
  <2>1. PlanSame /\ pc \in Writing /\ pc' = "ok"
    BY <1>5 DEF Finish, planVars, Goto, PlanSame, Writing
  <2>2. PlanDone'
    BY <2>1, WritingIsDone, SamePlanDone DEF WriterInv
  <2>3. Written(Len(files))'
    BY <2>1 DEF WriterInv, OutInv, PosInv
  <2>4. ASSUME NEW i \in Files' PROVE Whole(i)'
    <3>1. PICK a \in Files' : order'[a] = i
      BY <2>2 DEF PlanDone
    <3>2. QED
      BY <2>3, <3>1 DEF Written, Whole, Files
  <2>5. QED
    BY <2>4 DEF DataInv
<1>6. QED
  BY <1>1, <1>2, <1>3, <1>4, <1>5 DEF Next, Step

-----------------------------------------------------------------------------
(* The chunks of an archive that is complete so far: the header, then each  *)
(* index of the mode.                                                       *)
HeaderExtent == Extent(0, header_chunk_len, "cpk", header_row)
TocExtent == Extent(lay.toc, toc_chunk_len, "toc", toc_rows)
ItocExtent == Extent(lay.itoc, itoc_chunk_len, "itoc", itoc_body)

AfterHeader == {"toc", "itoc", "content", "payload", "copied", "ok"}

ChunksInv ==
    /\ pc \notin {"directory", "files", "failed", "killed"} => ~old
    /\ pc = "ok" => lost = 0
    /\ pc \in AfterHeader => HeaderExtent \in out
    /\ pc \in AfterHeader \ {"toc"} /\ has_toc(job.mode) => TocExtent \in out
    /\ pc \in AfterHeader \ {"toc", "itoc"} /\ has_itoc(job.mode) => ItocExtent \in out

(* The tables to be written follow from the plan alone.                     *)
LEMMA SameExtents ==
    ASSUME PlanSame
    PROVE  /\ job' = job /\ HeaderExtent' = HeaderExtent /\ TocExtent' = TocExtent
           /\ ItocExtent' = ItocExtent
<1>1. /\ UNCHANGED <<job, order, lay, off>> /\ files' = files /\ Files' = Files
      /\ alignment' = alignment /\ toc_chunk_len' = toc_chunk_len
      /\ itoc_chunk_len' = itoc_chunk_len /\ header_chunk_len' = header_chunk_len
  BY DEF PlanSame, files, Files, alignment, toc_chunk_len, itoc_chunk_len, header_chunk_len
<1>2. header_row' = header_row
  BY <1>1 DEF header_row
<1>3. toc_rows' = toc_rows
  BY <1>1 DEF toc_rows
<1>4. LowPositions' = LowPositions
  BY <1>1 DEF LowPositions
<1>5. itoc_body' = itoc_body
  BY <1>1, <1>4 DEF itoc_body, itoc_rows
<1>6. QED
  BY <1>1, <1>2, <1>3, <1>5 DEF HeaderExtent, TocExtent, ItocExtent

(* They are written in the order of the labels and stay.                    *)
LEMMA NextChunks ==
    ASSUME WriterInv, ChunksInv, [Next]_vars
    PROVE  ChunksInv'
<1>1. CASE UNCHANGED vars \/ SourceChanges
  <2>1. PlanSame /\ UNCHANGED <<out, pc, old, lost>>
    BY <1>1 DEF vars, outVars, planVars, SourceChanges, PlanSame
  <2>2. QED
    BY <2>1, SameExtents DEF ChunksInv
<1>2. CASE pc' \in {"failed", "killed"}
  BY <1>2 DEF ChunksInv, AfterHeader
<1>3. CASE pc' \notin {"failed", "killed"} /\ (PackDirectory \/ Create)
  BY <1>3 DEF PackDirectory, Create, Goto, Fail, ChunksInv, AfterHeader
<1>4. CASE pc' \notin {"failed", "killed"} /\ (Validate \/ Layout \/ PlanFile \/ BuildHeader)
  <2>1. /\ pc \in {"validate", "layout", "plan"} /\ pc' \in {"layout", "plan", "header"}
        /\ old' = old
    BY <1>4 DEF Validate, Layout, PlanFile, BuildHeader, Goto, Fail
  <2>2. QED
    BY <2>1 DEF ChunksInv, AfterHeader
<1>5. CASE WriteHeader
  <2>1. PlanSame /\ pc = "header" /\ pc' = "toc" /\ old' = old /\ HeaderExtent \in out'
    BY <1>5 DEF WriteHeader, planVars, PlanSame, Goto, HeaderExtent
  <2>2. QED
    BY <2>1, SameExtents DEF ChunksInv, AfterHeader
<1>6. CASE WriteToc
  <2>1. PlanSame /\ pc = "toc" /\ pc' = "itoc" /\ old' = old /\ out \subseteq out'
    BY <1>6 DEF WriteToc, write_at, planVars, PlanSame, Goto
  <2>2. has_toc(job.mode) => TocExtent \in out'
    BY <1>6 DEF WriteToc, write_at, TocExtent
  <2>3. QED
    BY <2>1, <2>2, SameExtents DEF ChunksInv, AfterHeader
<1>7. CASE WriteItoc
  <2>1. PlanSame /\ pc = "itoc" /\ pc' = "content" /\ old' = old /\ out \subseteq out'
    BY <1>7 DEF WriteItoc, write_at, planVars, PlanSame, Goto
  <2>2. has_itoc(job.mode) => ItocExtent \in out'
    BY <1>7 DEF WriteItoc, write_at, ItocExtent
  <2>3. QED
    BY <2>1, <2>2, SameExtents DEF ChunksInv, AfterHeader
<1>8. CASE /\ pc' \notin {"failed", "killed"}
           /\ PadToContent \/ CopyPayload \/ CheckCopied \/ Finish
  <2>1. /\ PlanSame /\ pc \in {"content", "payload", "copied"} /\ old' = old /\ lost' = lost
        /\ pc' \in {"payload", "copied", "ok"} /\ out \subseteq out'
    BY <1>8 DEF PadToContent, CopyPayload, CheckCopied, Finish, write_at, planVars, PlanSame,
       Goto, Fail
  <2>2. lost = 0
    BY <2>1 DEF WriterInv, OutInv, LostInv, Stopped
  <2>3. QED
    BY <2>1, <2>2, SameExtents DEF ChunksInv, AfterHeader
<1>9. CASE Interrupted
  BY <1>2, <1>9 DEF Interrupted
<1>10. QED
  BY <1>1, <1>2, <1>3, <1>4, <1>5, <1>6, <1>7, <1>8, <1>9 DEF Next, Step

(* All that is known of the archive, of the file and of what is read from   *)
(* it.                                                                      *)
FileInv == ArchiveInv /\ DataInv /\ ChunksInv

(* The invariant that also knows what is in the file.                       *)
LEMMA InitFile == ArchiveInit => FileInv
<1> SUFFICES ASSUME ArchiveInit PROVE FileInv
  OBVIOUS
<1>1. ArchiveInv /\ Init /\ out = {} /\ pc = job.entry
  BY InitArchive DEF ArchiveInit, Init
<1>2. pc \in {"directory", "files"}
  BY <1>1, JobFacts DEF Init
<1>3. QED
  BY <1>1, <1>2 DEF FileInv, DataInv, ChunksInv, AfterHeader

(* Each step keeps it.                                                      *)
LEMMA NextFile == FileInv /\ [ArchiveNext]_allVars => FileInv'
<1> SUFFICES ASSUME FileInv, [ArchiveNext]_allVars PROVE FileInv'
  OBVIOUS
<1>1. ArchiveInv' /\ [Next]_vars
  BY NextArchive, WriterStep DEF FileInv
<1>2. QED
  BY <1>1, NextData, NextChunks DEF FileInv, ArchiveInv

-----------------------------------------------------------------------------
(* The ITOC of the writer.  Its rows, in one table or in two, come back in  *)
(* physical order.                                                          *)

(* Rows that are a rearrangement of rows in strict order of ids are those   *)
(* once they are sorted.                                                    *)
Rearranges(f, n) ==
    /\ f \in [1 .. n -> 1 .. n]
    /\ \A p, q \in 1 .. n : p # q => f[p] # f[q]
    /\ \A i \in 1 .. n : \E p \in 1 .. n : f[p] = i
RowsFrom(rows, t, f, n) == DOMAIN rows = 1 .. n /\ \A p \in 1 .. n : rows[p] = t[f[p]]

(* Rows that rearrange a table in the order of ids are sorted back into it. *)
LEMMA SortedBack ==
    ASSUME NEW n \in Nat, NEW t, InIdOrder(t, n), NEW f, Rearranges(f, n),
           NEW rows, RowsFrom(rows, t, f, n)
    PROVE  /\ DOMAIN R!SortById(rows) = 1 .. n /\ Len(R!SortById(rows)) = n
           /\ \A i \in 1 .. n : R!SortById(rows)[i] = t[i]
<1> DEFINE s == R!SortById(rows)
<1>1. DOMAIN rows = 1 .. n /\ \A p \in 1 .. n : rows[p].id \in Int
  BY DEF RowsFrom, Rearranges, InIdOrder
<1>2. /\ DOMAIN s = 1 .. n /\ Len(s) = n
      /\ \A i, j \in 1 .. n : i < j => s[i].id <= s[j].id
      /\ Among(s, rows, n) /\ Among(rows, s, n)
      /\ (\A p, q \in 1 .. n : p # q => rows[p].id # rows[q].id)
            <=> (\A i, j \in 1 .. n : i # j => s[i].id # s[j].id)
  BY <1>1, SortedRows
<1> HIDE DEF s
<1>3. ASSUME NEW p \in 1 .. n, NEW q \in 1 .. n, p # q PROVE rows[p].id # rows[q].id
  <2>1. PICK x \in 1 .. n, y \in 1 .. n : x # y /\ rows[p] = t[x] /\ rows[q] = t[y]
    <3>1. f[p] \in 1 .. n /\ f[q] \in 1 .. n /\ f[p] # f[q]
      BY <1>3 DEF Rearranges
    <3>2. rows[p] = t[f[p]] /\ rows[q] = t[f[q]]
      BY DEF RowsFrom
    <3>3. QED
      BY <3>1, <3>2
  <2>2. t[x].id \in Int /\ t[y].id \in Int
    BY DEF InIdOrder
  <2>3. x < y \/ y < x
    BY <2>1
  <2>4. t[x].id < t[y].id \/ t[y].id < t[x].id
    BY <2>3 DEF InIdOrder
  <2>5. t[x].id # t[y].id
    BY <2>2, <2>4
  <2>6. QED
    BY <2>1, <2>5
<1>4. \A i, j \in 1 .. n : i # j => s[i].id # s[j].id
  <2>1. \A p, q \in 1 .. n : p # q => rows[p].id # rows[q].id
    BY <1>3
  <2>2. QED
    BY <1>2, <2>1
<1>5. ASSUME NEW i \in 1 .. n PROVE s[i].id \in Int
  <2>1. PICK p \in 1 .. n : s[i] = rows[p]
    BY <1>2 DEF Among
  <2>2. QED
    BY <1>1, <2>1
<1>6. ASSUME NEW i \in 1 .. n, NEW j \in 1 .. n, i < j PROVE s[i].id < s[j].id
  <2>1. s[i].id <= s[j].id
    BY <1>2, <1>6
  <2>2. i # j
    BY <1>6
  <2>3. s[i].id # s[j].id
    BY <1>4, <2>2
  <2>4. s[i].id \in Int /\ s[j].id \in Int
    BY <1>5
  <2>5. QED
    BY <2>1, <2>3, <2>4
<1>7. InIdOrder(s, n)
  BY <1>5, <1>6 DEF InIdOrder
<1>8. Among(s, t, n)
  <2> SUFFICES ASSUME NEW i \in 1 .. n PROVE \E j \in 1 .. n : s[i] = t[j]
    BY DEF Among
  <2>1. PICK p \in 1 .. n : s[i] = rows[p]
    BY <1>2 DEF Among
  <2>2. f[p] \in 1 .. n /\ rows[p] = t[f[p]]
    BY DEF Rearranges, RowsFrom
  <2>3. QED
    BY <2>1, <2>2
<1>9. Among(t, s, n)
  <2> SUFFICES ASSUME NEW i \in 1 .. n PROVE \E j \in 1 .. n : t[i] = s[j]
    BY DEF Among
  <2>1. PICK p \in 1 .. n : f[p] = i
    BY DEF Rearranges
  <2>2. PICK j \in 1 .. n : rows[p] = s[j]
    BY <1>2 DEF Among
  <2>3. rows[p] = t[i]
    BY <2>1 DEF RowsFrom
  <2>4. QED
    BY <2>2, <2>3
<1>10. \A i \in 1 .. n : s[i] = t[i]
  BY <1>7, <1>8, <1>9, SameRowsInOrder
<1>11. QED
  BY <1>2, <1>10 DEF s

(* The physical order of an ITOC is the order of ids, and its rows sorted   *)
(* by id are the files in physical order.                                   *)
LEMMA OrderRows ==
    ASSUME job \in Jobs, PlanDone, has_itoc(job.mode)
    PROVE  LET t == itoc_rows(order)
               n == Len(files)
           IN  /\ n \in Nat /\ DOMAIN t = 1 .. n /\ Len(t) = n /\ InIdOrder(t, n)
               /\ \A j \in 1 .. n :
                    /\ order[j] \in Files
                    /\ t[j].id = files[order[j]].id /\ t[j].size = files[order[j]].size
                    /\ t[j].extract = files[order[j]].extract
                    /\ R!ValidItocRow(t[j])
<1> DEFINE t == itoc_rows(order)
           n == Len(files)
<1>1. n \in Nat /\ Files = 1 .. n
  BY JobFacts DEF Files
<1>2. order \in [1 .. n -> Files] /\ DOMAIN order = 1 .. n
  BY <1>1 DEF PlanDone
<1>3. DOMAIN t = 1 .. n /\ Len(t) = n
  BY <1>1, <1>2 DEF itoc_rows
<1>4. ASSUME NEW j \in 1 .. n
      PROVE  /\ t[j].id = files[order[j]].id /\ t[j].size = files[order[j]].size
             /\ t[j].extract = files[order[j]].extract
  BY <1>2 DEF itoc_rows
<1>5. ASSUME NEW i \in Files
      PROVE  /\ files[i].id \in 0 .. U32Max /\ files[i].size \in 0 .. U32Max
             /\ files[i].extract \in 0 .. U32Max
  <2>1. /\ files[i].id \in Nat /\ files[i].size \in Nat /\ files[i].extract \in Nat
        /\ files[i].id <= U32Max /\ U32Max \in Nat
    BY JobNumbers
  <2>2. files[i].size <= U32Max /\ files[i].extract <= U32Max
    BY DEF PlanDone, SizesFit
  <2>3. QED
    BY <2>1, <2>2
<1>6. \A a, b \in 1 .. n : a < b => files[order[a]].id < files[order[b]].id
  BY <1>1 DEF PlanDone, Accepted
<1> HIDE DEF t, n
<1>7. ASSUME NEW j \in 1 .. n
      PROVE  /\ order[j] \in Files /\ t[j].id \in 0 .. U32Max /\ t[j].size \in 0 .. U32Max
             /\ t[j].extract \in 0 .. U32Max
  <2>1. order[j] \in Files
    BY <1>2
  <2>2. QED
    BY <1>4, <1>5, <2>1
<1>8. U32Max \in Nat
  BY WriterAssumption
<1>9. ASSUME NEW j \in 1 .. n PROVE R!ValidItocRow(t[j])
  <2>1. R!OrElse(t[j].extract, t[j].size) = t[j].extract
    BY <1>7, <1>8 DEF R!OrElse
  <2>2. QED
    BY <1>7, <1>8, <2>1 DEF R!ValidItocRow
<1>10. InIdOrder(t, n)
  <2>1. ASSUME NEW a \in 1 .. n, NEW b \in 1 .. n, a < b PROVE t[a].id < t[b].id
    <3>1. t[a].id = files[order[a]].id /\ t[b].id = files[order[b]].id
      BY <1>4
    <3>2. QED
      BY <1>6, <2>1, <3>1
  <2>2. \A j \in 1 .. n : t[j].id \in Int
    BY <1>7, <1>8
  <2>3. QED
    BY <2>1, <2>2 DEF InIdOrder
<1>11. QED
  BY <1>1, <1>3, <1>4, <1>7, <1>9, <1>10 DEF t, n

(* The rows of the two tables, one after the other: a rearrangement.        *)
LEMMA SplitRows ==
    ASSUME job \in Jobs, PlanDone, has_itoc(job.mode)
    PROVE  LET low == itoc_rows(Kept(order, LowPositions))
               high == itoc_rows(Kept(order, Files \ LowPositions))
               n == Len(files)
           IN  /\ \E f : Rearranges(f, n) /\ RowsFrom(low \o high, itoc_rows(order), f, n)
               /\ R!Ascending(low) /\ R!Ascending(high)
<1> DEFINE t == itoc_rows(order)
           n == Len(files)
           P == LowPositions
           Q == (1 .. n) \ P
           low == itoc_rows(Kept(order, P))
           high == itoc_rows(Kept(order, Q))
           l == Cardinality(P)
           h == Cardinality(Q)
           f == [p \in 1 .. n |-> SplitAt(P, n, p)]
<1>1. /\ n \in Nat /\ DOMAIN t = 1 .. n /\ InIdOrder(t, n)
      /\ \A j \in 1 .. n : order[j] \in Files
  BY OrderRows
<1>2. Files = 1 .. n /\ P \in SUBSET (1 .. n) /\ Q \in SUBSET (1 .. n)
  BY DEF Files, LowPositions
<1>3. \A j \in 1 .. n : t[j] = [id |-> files[order[j]].id, size |-> files[order[j]].size,
                                extract |-> files[order[j]].extract]
  BY <1>1 DEF itoc_rows
<1> HIDE DEF t, P, Q, n
<1>4. /\ l \in Nat /\ DOMAIN Kept(order, P) = 1 .. l
      /\ \A m \in 1 .. l : Nth(P, m) \in P /\ Kept(order, P)[m] = order[Nth(P, m)]
      /\ \A m, q \in 1 .. l : m < q => Nth(P, m) < Nth(P, q)
  BY <1>1, <1>2, KeptFacts
<1>5. /\ h \in Nat /\ DOMAIN Kept(order, Q) = 1 .. h
      /\ \A m \in 1 .. h : Nth(Q, m) \in Q /\ Kept(order, Q)[m] = order[Nth(Q, m)]
      /\ \A m, q \in 1 .. h : m < q => Nth(Q, m) < Nth(Q, q)
  BY <1>1, <1>2, KeptFacts
<1>6. /\ low \in Seq(ItocRow) /\ Len(low) = l /\ DOMAIN low = 1 .. l
      /\ \A m \in 1 .. l : low[m] = t[Nth(P, m)]
  <2> HIDE DEF l
  <2>1. \A m \in 1 .. l : Kept(order, P)[m] \in Files
    BY <1>1, <1>2, <1>4
  <2>2. low \in Seq(ItocRow) /\ Len(low) = l /\ DOMAIN low = 1 .. l
    BY <1>4, <2>1, RowsAreTyped
  <2>3. ASSUME NEW m \in 1 .. l PROVE low[m] = t[Nth(P, m)]
    <3>1. Nth(P, m) \in 1 .. n /\ Kept(order, P)[m] = order[Nth(P, m)]
      BY <1>2, <1>4
    <3>2. low[m] = [id |-> files[Kept(order, P)[m]].id, size |-> files[Kept(order, P)[m]].size,
                    extract |-> files[Kept(order, P)[m]].extract]
      BY <1>4 DEF itoc_rows
    <3>3. QED
      BY <1>3, <3>1, <3>2
  <2>4. QED
    BY <2>2, <2>3
<1>7. /\ high \in Seq(ItocRow) /\ Len(high) = h /\ DOMAIN high = 1 .. h
      /\ \A m \in 1 .. h : high[m] = t[Nth(Q, m)]
  <2> HIDE DEF h
  <2>1. \A m \in 1 .. h : Kept(order, Q)[m] \in Files
    BY <1>1, <1>2, <1>5
  <2>2. high \in Seq(ItocRow) /\ Len(high) = h /\ DOMAIN high = 1 .. h
    BY <1>5, <2>1, RowsAreTyped
  <2>3. ASSUME NEW m \in 1 .. h PROVE high[m] = t[Nth(Q, m)]
    <3>1. Nth(Q, m) \in 1 .. n /\ Kept(order, Q)[m] = order[Nth(Q, m)]
      BY <1>2, <1>5
    <3>2. high[m] = [id |-> files[Kept(order, Q)[m]].id, size |-> files[Kept(order, Q)[m]].size,
                     extract |-> files[Kept(order, Q)[m]].extract]
      BY <1>5 DEF itoc_rows
    <3>3. QED
      BY <1>3, <3>1, <3>2
  <2>4. QED
    BY <2>2, <2>3
<1>8. /\ l + h = n
      /\ \A p \in 1 .. n : SplitAt(P, n, p) \in 1 .. n
      /\ \A p, q \in 1 .. n : p # q => SplitAt(P, n, p) # SplitAt(P, n, q)
      /\ \A i \in 1 .. n : \E p \in 1 .. n : SplitAt(P, n, p) = i
  BY <1>1, <1>2, Split DEF Q
<1>9. Rearranges(f, n)
  BY <1>8 DEF Rearranges
<1> HIDE DEF low, high
<1>10. RowsFrom(low \o high, t, f, n)
  <2>1. low \o high \in Seq(ItocRow) /\ Len(low \o high) = l + h
    BY <1>6, <1>7, ConcatProperties
  <2>2. DOMAIN (low \o high) = 1 .. n
    BY <1>8, <2>1
  <2>3. ASSUME NEW p \in 1 .. n PROVE (low \o high)[p] = t[f[p]]
    <3>1. CASE p <= l
      <4>1. p \in 1 .. l
        BY <1>4, <3>1
      <4>2. (low \o high)[p] = low[p]
        BY <1>6, <1>7, <4>1, ConcatProperties
      <4>3. f[p] = Nth(P, p)
        BY <3>1 DEF SplitAt
      <4>4. QED
        BY <1>6, <4>1, <4>2, <4>3
    <3>2. CASE ~(p <= l)
      <4> DEFINE q == p - l
      <4>1. q \in 1 .. h /\ p = l + q
        <5> HIDE DEF l, h
        <5>1. QED
          BY <1>1, <1>4, <1>5, <1>8, <3>2
      <4>2. f[p] = Nth(Q, q)
        BY <3>2 DEF SplitAt, Q
      <4> HIDE DEF q
      <4>3. (low \o high)[p] = high[q]
        <5>1. p \in Len(low) + 1 .. Len(low) + Len(high) /\ p - Len(low) = q
          <6> HIDE DEF l, h
          <6>1. l \in Nat /\ h \in Nat /\ q \in 1 .. h /\ p = l + q /\ Len(low) = l /\ Len(high) = h
            BY <1>4, <1>5, <1>6, <1>7, <4>1
          <6>2. QED
            BY <6>1
        <5>2. p \in 1 .. Len(low) + Len(high) /\ ~(p <= Len(low))
          <6>1. Len(low) \in Nat /\ Len(high) \in Nat
            BY <1>4, <1>5, <1>6, <1>7
          <6>2. QED
            BY <5>1, <6>1
        <5>3. low \in Seq(ItocRow) /\ high \in Seq(ItocRow)
          BY <1>6, <1>7
        <5>4. (low \o high)[p] = IF p <= Len(low) THEN low[p] ELSE high[p - Len(low)]
          BY <5>2, <5>3, ConcatProperties
        <5>5. QED
          BY <5>1, <5>2, <5>4
      <4>4. QED
        BY <1>7, <4>1, <4>2, <4>3
    <3>3. QED
      BY <3>1, <3>2
  <2>4. QED
    BY <2>2, <2>3 DEF RowsFrom
<1>11. R!Ascending(low)
  <2> SUFFICES ASSUME NEW i \in 1 .. l, NEW j \in 1 .. l, i < j PROVE low[i].id < low[j].id
    BY <1>6 DEF R!Ascending
  <2>1. Nth(P, i) < Nth(P, j) /\ Nth(P, i) \in P /\ Nth(P, j) \in P
    BY <1>4
  <2>2. Nth(P, i) \in 1 .. n /\ Nth(P, j) \in 1 .. n
    BY <1>2, <2>1
  <2>3. QED
    BY <1>1, <1>6, <2>1, <2>2 DEF InIdOrder
<1>12. R!Ascending(high)
  <2> SUFFICES ASSUME NEW i \in 1 .. h, NEW j \in 1 .. h, i < j PROVE high[i].id < high[j].id
    BY <1>7 DEF R!Ascending
  <2>1. Nth(Q, i) < Nth(Q, j) /\ Nth(Q, i) \in Q /\ Nth(Q, j) \in Q
    BY <1>5
  <2>2. Nth(Q, i) \in 1 .. n /\ Nth(Q, j) \in 1 .. n
    BY <1>2, <2>1
  <2>3. QED
    BY <1>1, <1>7, <2>1, <2>2 DEF InIdOrder
<1>13. QED
  BY <1>2, <1>9, <1>10, <1>11, <1>12 DEF low, high, P, Q, n, t

(* Rounding a sum up, when the first number needs no rounding.              *)
LEMMA RoundSum ==
    ASSUME NEW a \in PowersOfTwo, NEW q \in Nat, NEW s \in Nat
    PROVE  /\ align_up(a * q + s, a) = a * q + R!align_up(s, a)
           /\ \E p \in Nat : align_up(a * q + s, a) = a * p
<1> DEFINE w == s + a - 1
<1>0. a \in Nat \ {0}
  BY DEF PowersOfTwo
<1>1. w \in Nat
  BY <1>0
<1> HIDE DEF w
<1>2. PICK u \in Nat, r \in 0 .. a - 1 : w = a * u + r
  BY <1>0, <1>1, Quotient
<1>3. w \div a = u
  BY <1>0, <1>2, DivUnique
<1>4. q + u \in Nat /\ a * (q + u) = a * q + a * u /\ a * q \in Nat /\ a * u \in Nat
  BY <1>0
<1>5. (a * q + s) + a - 1 = a * (q + u) + r
  BY <1>0, <1>2, <1>4 DEF w
<1>6. ((a * q + s) + a - 1) \div a = q + u
  BY <1>0, <1>4, <1>5, DivUnique
<1>7. align_up(a * q + s, a) = a * (q + u)
  <2>1. a * q + s \in Nat
    BY <1>4
  <2>2. QED
    BY <1>6, <2>1, AlignUpIsMultiple
<1>8. R!align_up(s, a) = a * u
  BY <1>0, <1>3, PadsAgree DEF w
<1>9. QED
  BY <1>4, <1>7, <1>8

(* The offsets the writer chains are those the padded sizes come to, its    *)
(* cursor is their sum, and none is too large for the reader.               *)
LEMMA SumsAreOffsets ==
    ASSUME job \in Jobs, PlanDone, NEW rows, DOMAIN rows = 1 .. Len(files),
           Len(rows) = Len(files),
           \A j \in 1 .. Len(files) : rows[j].size = files[order[j]].size
    PROVE  /\ \A j \in 1 .. Len(files) :
                lay.content + Sums(R!padded_sizes(rows, alignment))[j - 1] = off[order[j]]
           /\ R!OffsetsFit(rows, lay.content, alignment)
<1> DEFINE n == Len(files)
           a == alignment
           h == R!padded_sizes(rows, a)
           at == [m \in 0 .. n |-> IF m < n THEN off[order[m + 1]] ELSE cursor]
           T == {m \in 0 .. n :
                    \E q \in Nat : at[m] = a * q /\ at[m] = lay.content + Sums(h)[m]}
<1>1. /\ n \in Nat /\ Files = 1 .. n /\ a \in Nat \ {0} /\ a \in PowersOfTwo
      /\ \A j \in 1 .. n : order[j] \in Files /\ files[order[j]].size \in Nat
  <2>1. n \in Nat /\ Files = 1 .. n /\ \A i \in Files : files[i].size \in Nat
    BY JobFacts DEF Files
  <2>2. a \in PowersOfTwo
    BY DEF PlanDone, ValidAlignment
  <2>3. a \in Nat \ {0}
    BY <2>2 DEF PowersOfTwo
  <2>4. \A j \in Files : order[j] \in Files
    BY DEF PlanDone
  <2>5. QED
    BY <2>1, <2>2, <2>3, <2>4
<1>2. lay.content \in Nat /\ \E q \in Nat : lay.content = a * q
  <2>1. ItocEnd \in Nat /\ lay.content = align_up(ItocEnd, alignment)
    BY LayoutFacts DEF PlanDone, ContentOffset
  <2>2. a * 0 + ItocEnd = ItocEnd
    BY <1>1, <2>1
  <2>3. \E p \in Nat : align_up(a * 0 + ItocEnd, a) = a * p
    BY <1>1, <2>1, RoundSum
  <2>4. lay.content \in Nat
    BY PlanOffsets
  <2>5. QED
    BY <2>1, <2>2, <2>3, <2>4
<1>3. /\ at[0] = lay.content
      /\ \A m \in 0 .. n - 1 : at[m + 1] = align_up(at[m] + files[order[m + 1]].size, a)
      /\ \A m \in 0 .. n : at[m] <= cursor
      /\ \A j \in 1 .. n : at[j - 1] = off[order[j]]
      /\ cursor \in Nat /\ cursor <= U64Max
  <2>1. /\ cursor = IF n = 0 THEN lay.content ELSE align_up(off[order[n]] + files[order[n]].size, a)
        /\ n > 0 => off[order[1]] = lay.content
        /\ \A j \in 1 .. n - 1 : off[order[j + 1]] = align_up(off[order[j]] + files[order[j]].size, a)
        /\ cursor <= U64Max
    BY DEF PlanDone, Chained, InLimits
  <2>2. \A j \in 1 .. n : off[order[j]] \in Nat /\ off[order[j]] + files[order[j]].size <= cursor
    BY <1>1 DEF PlanDone
  <2>3. cursor \in Nat
    BY PlanOffsets
  <2> HIDE DEF n, a
  <2>4. at[0] = lay.content
    BY <1>1, <2>1
  <2>5. ASSUME NEW m \in 0 .. n - 1
        PROVE  at[m + 1] = align_up(at[m] + files[order[m + 1]].size, a)
    <3>1. at[m] = off[order[m + 1]] /\ m + 1 \in 1 .. n /\ m + 1 \in 0 .. n
      BY <1>1
    <3>2. CASE m + 1 < n
      <4>1. m + 1 \in 1 .. n - 1 /\ at[m + 1] = off[order[(m + 1) + 1]]
        BY <1>1, <3>1, <3>2
      <4>2. QED
        BY <2>1, <3>1, <4>1
    <3>3. CASE m + 1 = n
      <4>1. at[m + 1] = cursor /\ n # 0
        BY <1>1, <3>1, <3>3
      <4>2. QED
        BY <2>1, <3>1, <3>3, <4>1
    <3>4. QED
      BY <1>1, <3>2, <3>3
  <2>6. ASSUME NEW m \in 0 .. n PROVE at[m] <= cursor
    <3>1. CASE m < n
      <4>1. m + 1 \in 1 .. n /\ at[m] = off[order[m + 1]]
        BY <1>1, <3>1
      <4> DEFINE x == off[order[m + 1]]
                 y == files[order[m + 1]].size
      <4>2. x \in Nat /\ y \in Nat /\ x + y <= cursor
        BY <1>1, <2>2, <4>1
      <4>3. at[m] = x
        BY <4>1
      <4> HIDE DEF x, y
      <4>4. QED
        BY <2>3, <4>2, <4>3
    <3>2. CASE ~(m < n)
      BY <2>3, <3>2
    <3>3. QED
      BY <3>1, <3>2
  <2>7. ASSUME NEW j \in 1 .. n PROVE at[j - 1] = off[order[j]]
    <3>1. j - 1 \in 0 .. n /\ j - 1 < n /\ (j - 1) + 1 = j
      BY <1>1
    <3>2. at[j - 1] = off[order[(j - 1) + 1]]
      BY <3>1
    <3>3. QED
      BY <3>1, <3>2
  <2>8. QED
    BY <2>1, <2>3, <2>4, <2>5, <2>6, <2>7
<1>4. DOMAIN h = 1 .. n /\ Len(h) = n /\ \A j \in 1 .. n : h[j] = R!align_up(rows[j].size, a)
  BY <1>1 DEF R!padded_sizes
<1> HIDE DEF h, n, a, at
<1>5. \A j \in 1 .. n : h[j] \in Nat
  <2> SUFFICES ASSUME NEW j \in 1 .. n PROVE h[j] \in Nat
    OBVIOUS
  <2>1. rows[j].size \in Nat
    BY <1>1 DEF n
  <2>2. QED
    BY <1>1, <1>4, <2>1, PadIsNat
<1>6. /\ Sums(h)[0] = 0
      /\ \A m \in 1 .. n : Sums(h)[m] = Sums(h)[m - 1] + h[m]
      /\ \A m \in 0 .. n : Sums(h)[m] \in Nat
  BY <1>1, <1>4, <1>5, SumsFacts, ZenonT(30)
<1>7. 0 \in T
  <2>1. at[0] = lay.content + Sums(h)[0]
    BY <1>2, <1>3, <1>6
  <2>2. 0 \in 0 .. n
    BY <1>1
  <2>3. QED
    BY <1>2, <1>3, <2>1, <2>2
<1>8. ASSUME NEW m \in 0 .. n - 1, m \in T PROVE m + 1 \in T
  <2> DEFINE j == m + 1
             s == files[order[j]].size
  <2>1. j \in 1 .. n /\ j - 1 = m /\ m \in 0 .. n /\ j \in 0 .. n
    BY <1>1
  <2>2. PICK q \in Nat : at[m] = a * q /\ at[m] = lay.content + Sums(h)[m]
    BY <1>8
  <2>3. at[j] = align_up(a * q + s, a)
    BY <1>3, <2>2
  <2> HIDE DEF j
  <2>4. s \in Nat /\ rows[j].size = s
    BY <1>1, <2>1 DEF n
  <2> HIDE DEF s
  <2>5. /\ align_up(a * q + s, a) = a * q + R!align_up(s, a)
        /\ \E p \in Nat : align_up(a * q + s, a) = a * p
    BY <1>1, <2>4, RoundSum
  <2>6. h[j] = R!align_up(s, a) /\ Sums(h)[j] = Sums(h)[m] + h[j]
    BY <1>4, <1>6, <2>1, <2>4
  <2>7. Sums(h)[m] \in Nat /\ h[j] \in Nat
    BY <1>5, <1>6, <2>1
  <2>8. a * q + h[j] = lay.content + Sums(h)[j]
    BY <1>2, <2>2, <2>6, <2>7
  <2>9. at[j] = lay.content + Sums(h)[j] /\ \E p \in Nat : at[j] = a * p
    BY <2>3, <2>5, <2>6, <2>8
  <2>10. QED
    BY <2>1, <2>9 DEF j
<1>9. 0 .. n \subseteq T
  <2> HIDE DEF T
  <2> QED
    BY <1>1, <1>7, <1>8, UpTo
<1>10. \A m \in 0 .. n : lay.content + Sums(h)[m] = at[m]
  BY <1>9
<1>11. ASSUME NEW j \in 1 .. n
       PROVE  /\ lay.content + Sums(h)[j - 1] = off[order[j]]
              /\ lay.content + R!relative_offset(rows, a, j) <= U64Max
              /\ R!relative_offset(rows, a, j + 1) <= U64Max
  <2>1. j - 1 \in 0 .. n /\ j \in 0 .. n /\ (j + 1) - 1 = j
    BY <1>1
  <2>2. lay.content + Sums(h)[j - 1] = off[order[j]] /\ off[order[j]] <= U64Max
    <3>1. lay.content + Sums(h)[j - 1] = at[j - 1] /\ at[j - 1] = off[order[j]]
      BY <1>3, <1>10, <2>1
    <3>2. at[j - 1] \in Nat
      BY <1>2, <1>6, <2>1, <3>1
    <3>3. at[j - 1] <= cursor /\ cursor \in Nat /\ cursor <= U64Max /\ U64Max \in Nat
      BY <1>3, <2>1, WriterAssumption
    <3>4. QED
      BY <3>1, <3>2, <3>3
  <2>3. Sums(h)[j] <= U64Max
    <3>1. lay.content + Sums(h)[j] = at[j] /\ Sums(h)[j] \in Nat
      BY <1>6, <1>10, <2>1
    <3>2. at[j] <= cursor /\ cursor \in Nat /\ cursor <= U64Max /\ U64Max \in Nat
      BY <1>3, <2>1, WriterAssumption
    <3>3. QED
      BY <1>2, <3>1, <3>2
  <2>4. /\ R!relative_offset(rows, a, j) = Sums(h)[j - 1]
        /\ R!relative_offset(rows, a, j + 1) = Sums(h)[j]
    BY <2>1, SameOperators DEF R!relative_offset, h
  <2>5. QED
    BY <2>2, <2>3, <2>4
<1>12. R!OffsetsFit(rows, lay.content, a)
  <2>1. DOMAIN rows = 1 .. n
    BY DEF n
  <2>2. QED
    BY <1>11, <2>1 DEF R!OffsetsFit
<1>13. QED
  BY <1>11, <1>12 DEF h, n, a

(* The reader accepts the ITOC of the writer, and sees the files in         *)
(* physical order.                                                          *)
LEMMA WriterItoc ==
    ASSUME job \in Jobs, PlanDone, has_itoc(job.mode)
    PROVE  LET rows == R!SortById(ItocSource(header_row, itoc_body))
               n == Len(files)
           IN  /\ R!itoc_entries(header_row, itoc_body).ok
               /\ R!Searchable(itoc_body)
               /\ DOMAIN rows = 1 .. n /\ Len(rows) = n
               /\ \A i \in 1 .. n : rows[i] = itoc_rows(order)[i]
<1> DEFINE rows0 == ItocSource(header_row, itoc_body)
           rows == R!SortById(rows0)
           n == Len(files)
           t == itoc_rows(order)
           low == itoc_rows(Kept(order, LowPositions))
           high == itoc_rows(Kept(order, Files \ LowPositions))
<1>1. /\ n \in Nat /\ DOMAIN t = 1 .. n /\ Len(t) = n /\ InIdOrder(t, n)
      /\ \A j \in 1 .. n : R!ValidItocRow(t[j])
  BY OrderRows
<1>2. header_row.EID = IF job.direct THEN 1 ELSE 0
  BY DEF header_row
<1>3. /\ R!ItocTables(header_row, itoc_body) # {}
      /\ R!Searchable(itoc_body)
      /\ \E f : Rearranges(f, n) /\ RowsFrom(rows0, t, f, n)
  <2>1. CASE job.direct
    <3>1. itoc_body = [rows |-> t]
      BY <2>1 DEF itoc_body
    <3> HIDE DEF t
    <3>2. DOMAIN itoc_body = {"rows"} /\ itoc_body.rows = t
      BY <3>1
    <3>3. R!ItocTables(header_row, itoc_body) = {t}
      BY <1>2, <2>1, <3>2 DEF R!ItocTables
    <3>4. rows0 = t
      BY <3>3 DEF ItocSource
    <3>5. R!Ascending(t)
      BY <1>1 DEF R!Ascending, InIdOrder
    <3>6. R!Searchable(itoc_body)
      BY <3>2, <3>5 DEF R!Searchable
    <3> DEFINE f == [p \in 1 .. n |-> p]
    <3>7. Rearranges(f, n)
      BY DEF Rearranges
    <3>8. RowsFrom(rows0, t, f, n)
      BY <1>1, <3>4 DEF RowsFrom
    <3>9. QED
      BY <3>3, <3>6, <3>7, <3>8
  <2>2. CASE ~job.direct
    <3>1. itoc_body = [DataL |-> low, DataH |-> high]
      BY <2>2 DEF itoc_body
    <3>2. /\ \E f : Rearranges(f, n) /\ RowsFrom(low \o high, t, f, n)
          /\ R!Ascending(low) /\ R!Ascending(high)
      BY SplitRows
    <3> HIDE DEF t, low, high
    <3>3. DOMAIN itoc_body = {"DataL", "DataH"} /\ itoc_body.DataL = low /\ itoc_body.DataH = high
      BY <3>1
    <3>4. R!ItocTables(header_row, itoc_body) = {low \o high}
      BY <1>2, <2>2, <3>3 DEF R!ItocTables
    <3>5. rows0 = low \o high
      BY <3>4 DEF ItocSource
    <3>6. R!Searchable(itoc_body)
      BY <3>2, <3>3 DEF R!Searchable
    <3>7. QED
      BY <3>2, <3>4, <3>5, <3>6
  <2>3. QED
    BY <2>1, <2>2
<1> HIDE DEF rows0, t, n
<1>4. PICK f : Rearranges(f, n) /\ RowsFrom(rows0, t, f, n)
  BY <1>3
<1>5. DOMAIN rows = 1 .. n /\ Len(rows) = n /\ \A i \in 1 .. n : rows[i] = t[i]
  BY <1>1, <1>4, SortedBack
<1> HIDE DEF rows
<1>6. \A j \in DOMAIN rows : R!ValidItocRow(rows[j])
  BY <1>1, <1>5
<1>7. ASSUME NEW j \in 2 .. Len(rows) PROVE rows[j - 1].id # rows[j].id
  <2>1. j - 1 \in 1 .. n /\ j \in 1 .. n /\ j - 1 < j
    BY <1>1, <1>5
  <2>2. t[j - 1].id < t[j].id /\ t[j - 1].id \in Int /\ t[j].id \in Int
    BY <1>1, <2>1 DEF InIdOrder
  <2>3. rows[j - 1] = t[j - 1] /\ rows[j] = t[j]
    BY <1>5, <2>1
  <2>4. QED
    BY <2>2, <2>3
<1>8. /\ header_row.Align = alignment /\ alignment # 0
      /\ header_row.ContentOffset = lay.content
  BY DEF header_row, PlanDone, ValidAlignment, PowersOfTwo
<1>9. R!OffsetsFit(rows, lay.content, alignment)
  <2>1. \A j \in 1 .. n : rows[j].size = files[order[j]].size
    <3> SUFFICES ASSUME NEW j \in 1 .. n PROVE rows[j].size = files[order[j]].size
      OBVIOUS
    <3>1. t[j].size = files[order[j]].size
      BY OrderRows DEF t, n
    <3>2. QED
      BY <1>5, <3>1
  <2>2. QED
    BY <1>5, <2>1, SumsAreOffsets DEF n
<1>10. R!itoc_entries(header_row, itoc_body).ok
  BY <1>3, <1>6, <1>7, <1>8, <1>9 DEF R!itoc_entries, R!Listing, rows, rows0, ItocSource
<1>11. QED
  BY <1>3, <1>5, <1>10 DEF rows, rows0, t, n

(* What get_files makes of the ITOC of the writer.                          *)
LEMMA WriterItocFiles ==
    ASSUME job \in Jobs, PlanDone, has_itoc(job.mode)
    PROVE  LET fs == R!itoc_entries(header_row, itoc_body).files
               n == Len(files)
           IN  /\ DOMAIN fs = 1 .. n /\ Len(fs) = n
               /\ \A j \in 1 .. n :
                    /\ fs[j].id = files[order[j]].id
                    /\ fs[j].size = files[order[j]].size
                    /\ fs[j].extract = IF files[order[j]].extract = 0 THEN files[order[j]].size
                                       ELSE files[order[j]].extract
                    /\ fs[j].offset = off[order[j]]
                    /\ fs[j].offset = R!engine_offset(header_row, itoc_body, fs[j].id)
<1> DEFINE rows0 == ItocSource(header_row, itoc_body)
           rows == R!SortById(rows0)
           fs == R!itoc_entries(header_row, itoc_body).files
           n == Len(files)
           t == itoc_rows(order)
<1>1. /\ R!itoc_entries(header_row, itoc_body).ok /\ R!Searchable(itoc_body)
      /\ DOMAIN rows = 1 .. n /\ Len(rows) = n
      /\ \A i \in 1 .. n : rows[i] = t[i]
  BY WriterItoc
<1>2. /\ n \in Nat
      /\ \A j \in 1 .. n :
            /\ order[j] \in Files
            /\ t[j].id = files[order[j]].id /\ t[j].size = files[order[j]].size
            /\ t[j].extract = files[order[j]].extract
  BY OrderRows
<1>3. /\ \A b \in DOMAIN itoc_body : itoc_body[b] \in Seq(ItocRow)
      /\ header_row.ContentOffset = lay.content /\ header_row.Align = alignment
  BY WriterTables DEF header_row
<1>4. alignment \in Nat \ {0} /\ lay.content \in Nat
  <2>1. alignment \in Nat \ {0}
    BY DEF PlanDone, ValidAlignment, PowersOfTwo
  <2>2. QED
    BY <2>1, PlanOffsets
<1>5. /\ Len(rows0) = Len(rows)
      /\ DOMAIN fs = 1 .. Len(rows0) /\ Len(fs) = Len(rows0)
      /\ \A j \in 1 .. Len(rows0) :
            /\ fs[j].id = rows[j].id /\ fs[j].size = rows[j].size
            /\ fs[j].extract = LET x == R!OrElse(rows[j].extract, rows[j].size)
                               IN  IF x = 0 THEN rows[j].size ELSE x
            /\ fs[j].offset = header_row.ContentOffset
                    + Sums(R!padded_sizes(rows, IF header_row.Align = 0 THEN 1
                                                ELSE header_row.Align))[j - 1]
  BY <1>1, <1>3, ItocListing
<1> HIDE DEF fs, rows, rows0, t, n
<1>6. \A j \in 1 .. n : rows[j].size = files[order[j]].size
  BY <1>1, <1>2
<1>7. \A j \in 1 .. n : lay.content + Sums(R!padded_sizes(rows, alignment))[j - 1] = off[order[j]]
  BY <1>1, <1>6, SumsAreOffsets DEF n
<1>8. \A j \in DOMAIN fs : fs[j].offset = R!engine_offset(header_row, itoc_body, fs[j].id)
  <2>1. header_row.ContentOffset \in Nat /\ header_row.Align \in Nat \ {0}
    BY <1>3, <1>4
  <2>2. QED
    BY <1>1, <1>3, <2>1, LookupAgrees DEF fs
<1>9. Len(rows0) = n /\ DOMAIN fs = 1 .. n /\ Len(fs) = n
  BY <1>1, <1>5
<1>10. ASSUME NEW j \in 1 .. n
       PROVE  /\ fs[j].id = files[order[j]].id
              /\ fs[j].size = files[order[j]].size
              /\ fs[j].extract = IF files[order[j]].extract = 0 THEN files[order[j]].size
                                 ELSE files[order[j]].extract
              /\ fs[j].offset = off[order[j]]
  <2>1. rows[j] = t[j] /\ order[j] \in Files
    BY <1>1, <1>2
  <2>2. /\ fs[j].id = rows[j].id /\ fs[j].size = rows[j].size
        /\ fs[j].extract = LET x == R!OrElse(rows[j].extract, rows[j].size)
                           IN  IF x = 0 THEN rows[j].size ELSE x
    BY <1>5, <1>9
  <2>3. fs[j].offset = lay.content + Sums(R!padded_sizes(rows, alignment))[j - 1]
    BY <1>3, <1>4, <1>5, <1>9
  <2>4. files[order[j]].extract \in Nat
    BY <2>1, JobNumbers
  <2>5. R!OrElse(files[order[j]].extract, files[order[j]].size) = files[order[j]].extract
    BY <2>4 DEF R!OrElse
  <2>6. /\ rows[j].id = files[order[j]].id /\ rows[j].size = files[order[j]].size
        /\ rows[j].extract = files[order[j]].extract
    BY <1>2, <2>1
  <2>7. fs[j].extract = IF files[order[j]].extract = 0 THEN files[order[j]].size
                        ELSE files[order[j]].extract
    BY <2>2, <2>5, <2>6
  <2>8. QED
    BY <1>7, <2>2, <2>3, <2>6, <2>7
<1>11. QED
  BY <1>8, <1>9, <1>10 DEF fs, n

(* What get_files makes of the TOC of the writer.                           *)
LEMMA WriterTocFiles ==
    ASSUME job \in Jobs, PlanDone, has_toc(job.mode)
    PROVE  LET fs == R!toc_entries(toc_rows).files
               n == Len(files)
           IN  /\ R!toc_entries(toc_rows).ok <=> ~Nameless
               /\ R!toc_entries(toc_rows).ok =>
                    /\ DOMAIN fs = 1 .. n /\ Len(fs) = n
                    /\ \A j \in 1 .. n :
                        /\ fs[j].id = files[j].id
                        /\ fs[j].size = files[j].size
                        /\ fs[j].extract = IF files[j].extract = 0 THEN files[j].size
                                           ELSE files[j].extract
                        /\ fs[j].dir = files[j].dir /\ fs[j].name = files[j].name
                        /\ fs[j].user = files[j].user
                        /\ fs[j].offset = off[j]
<1> DEFINE fs == R!toc_entries(toc_rows).files
           n == Len(files)
<1>1. n \in Nat /\ Files = 1 .. n /\ DOMAIN toc_rows = 1 .. n
      /\ toc_rows \in Seq(TocRow) /\ Len(toc_rows) = n
  BY JobFacts, WriterTables DEF Files, toc_rows
<1>2. ASSUME NEW j \in 1 .. n
      PROVE  /\ files[j].extract \in 0 .. U32Max /\ files[j].size \in 0 .. U32Max
             /\ U32Max \in Nat /\ off[j] \in Nat /\ off[j] - IndexBase \in Nat
             /\ off[j] <= U64Max /\ R!ShortId(files[j].id) = files[j].id
  <2>1. j \in Files
    BY <1>1
  <2>2. /\ files[j].size \in Nat /\ files[j].extract \in Nat /\ U32Max \in Nat
    BY <2>1, JobNumbers
  <2>3. files[j].size <= U32Max /\ files[j].extract <= U32Max
    BY <2>1 DEF PlanDone, SizesFit
  <2>4. /\ lay.content \in Nat /\ IndexBase <= lay.content
        /\ off[j] \in Nat /\ lay.content <= off[j]
    BY <2>1, PlanOffsets
  <2>5. off[j] <= U64Max
    <3>1. PICK p \in Files : order[p] = j
      BY <2>1 DEF PlanDone
    <3>2. off[j] + files[j].size <= cursor /\ cursor <= U64Max
      BY <3>1 DEF PlanDone, InLimits
    <3>3. cursor \in Nat /\ U64Max \in Nat
      BY PlanOffsets, WriterAssumption
    <3>4. QED
      BY <2>2, <2>4, <3>2, <3>3
  <2>6. files[j].id \in Nat /\ files[j].id <= U32Max
    BY <2>1, JobNumbers
  <2>7. R!ShortId(files[j].id) = files[j].id
    BY <2>2, <2>6 DEF R!ShortId
  <2>8. QED
    BY <2>2, <2>3, <2>4, <2>5, <2>7 DEF IndexBase
<1>3. ASSUME NEW j \in 1 .. n
      PROVE  /\ toc_rows[j].dir = files[j].dir /\ toc_rows[j].name = files[j].name
             /\ toc_rows[j].user = files[j].user /\ toc_rows[j].size = files[j].size
             /\ toc_rows[j].extract = files[j].extract /\ toc_rows[j].id = files[j].id
             /\ toc_rows[j].offset = off[j] - IndexBase
  BY <1>1 DEF toc_rows
<1>4. ASSUME NEW j \in 1 .. n
      PROVE  /\ R!ValidTocRow(toc_rows[j]) <=> files[j].name # ""
             /\ R!OrElse(toc_rows[j].extract, toc_rows[j].size) = files[j].extract
             /\ R!TocFileBase + toc_rows[j].offset = off[j]
             /\ R!ShortId(toc_rows[j].id) = files[j].id
  <2>1. R!OrElse(toc_rows[j].extract, toc_rows[j].size) = files[j].extract
    BY <1>2, <1>3 DEF R!OrElse
  <2>2. toc_rows[j].offset \in Nat /\ R!TocFileBase + toc_rows[j].offset = off[j]
    BY <1>2, <1>3 DEF R!TocFileBase, IndexBase
  <2>3. toc_rows[j].size \in 0 .. U32Max /\ files[j].extract \in 0 .. U32Max /\ U32Max \in Nat
    BY <1>2, <1>3
  <2>4. toc_rows[j].name = files[j].name
    BY <1>3
  <2>5. /\ toc_rows[j].size # -1 /\ toc_rows[j].offset # -1
        /\ toc_rows[j].size <= U32Max /\ files[j].extract <= U32Max
        /\ R!TocFileBase + toc_rows[j].offset <= U64Max
    BY <1>2, <2>2, <2>3
  <2>6. R!ValidTocRow(toc_rows[j]) <=> toc_rows[j].name # ""
    BY <2>1, <2>5, ZenonT(30) DEF R!ValidTocRow
  <2>7. R!ShortId(toc_rows[j].id) = files[j].id
    BY <1>2, <1>3
  <2>8. QED
    BY <2>1, <2>2, <2>4, <2>6, <2>7, ZenonT(30)
<1>5. R!toc_entries(toc_rows).ok <=> \A j \in 1 .. n : R!ValidTocRow(toc_rows[j])
  BY <1>1 DEF R!toc_entries, R!Failed, R!Listing
<1>6. R!toc_entries(toc_rows).ok <=> ~Nameless
  BY <1>1, <1>4, <1>5, ZenonT(30) DEF Nameless
<1>7. ASSUME R!toc_entries(toc_rows).ok
      PROVE  /\ DOMAIN fs = 1 .. n /\ Len(fs) = n
             /\ \A j \in 1 .. n :
                    fs[j] = R!CpkFile(toc_rows[j].dir, toc_rows[j].name, toc_rows[j].user,
                                      R!TocFileBase + toc_rows[j].offset, toc_rows[j].size,
                                      R!OrElse(toc_rows[j].extract, toc_rows[j].size),
                                      R!ShortId(toc_rows[j].id))
  <2>1. /\ DOMAIN fs = 1 .. n /\ Len(fs) = n
        /\ fs = [j \in 1 .. n |->
                    R!CpkFile(toc_rows[j].dir, toc_rows[j].name, toc_rows[j].user,
                              R!TocFileBase + toc_rows[j].offset, toc_rows[j].size,
                              R!OrElse(toc_rows[j].extract, toc_rows[j].size),
                              R!ShortId(toc_rows[j].id))]
    BY <1>1, <1>7, TocListing
  <2> HIDE DEF fs
  <2>2. QED
    BY <2>1
<1> HIDE DEF fs, n
<1>8. ASSUME R!toc_entries(toc_rows).ok, NEW j \in 1 .. n
      PROVE  /\ fs[j].id = files[j].id
             /\ fs[j].size = files[j].size
             /\ fs[j].extract = IF files[j].extract = 0 THEN files[j].size ELSE files[j].extract
             /\ fs[j].dir = files[j].dir /\ fs[j].name = files[j].name
             /\ fs[j].user = files[j].user
             /\ fs[j].offset = off[j]
  <2> DEFINE f == files[j]
             o == off[j]
             r == toc_rows[j]
  <2>1. fs[j] = R!CpkFile(f.dir, f.name, f.user, o, f.size, f.extract, f.id)
    <3>1. fs[j] = R!CpkFile(r.dir, r.name, r.user, R!TocFileBase + r.offset, r.size,
                            R!OrElse(r.extract, r.size), R!ShortId(r.id))
      BY <1>7, <1>8
    <3>2. r.dir = f.dir /\ r.name = f.name /\ r.user = f.user /\ r.size = f.size
      BY <1>3
    <3>3. R!TocFileBase + r.offset = o /\ R!OrElse(r.extract, r.size) = f.extract
          /\ R!ShortId(r.id) = f.id
      BY <1>4
    <3> HIDE DEF f, o, r
    <3>4. QED
      BY <3>1, <3>2, <3>3
  <2> HIDE DEF f, o
  <2>2. LET c == R!CpkFile(f.dir, f.name, f.user, o, f.size, f.extract, f.id) IN
        /\ c.dir = f.dir /\ c.name = f.name /\ c.user = f.user /\ c.offset = o /\ c.size = f.size
        /\ c.id = f.id /\ c.extract = IF f.extract = 0 THEN f.size ELSE f.extract
    BY DEF R!CpkFile
  <2>3. QED
    BY <2>1, <2>2 DEF f, o
<1>9. QED
  BY <1>6, <1>7, <1>8 DEF fs, n

-----------------------------------------------------------------------------
(* What is read from the archive of a call: complete, or cut off anywhere.  *)
Index == IF has_toc(job.mode) THEN R!toc_entries(toc_rows)
         ELSE R!itoc_entries(header_row, itoc_body)

(* In a file of this writer the reader finds the tables this writer wrote.  *)
LEMMA NewTable ==
    ASSUME FileInv, ~old, NEW at, NEW kind, R!ChunksAt(at, kind) # {}
    PROVE  /\ job \in Jobs /\ PlanDone
           /\ kind = "cpk" => R!ChunkBody(at, kind) = header_row
           /\ kind = "toc" => R!ChunkBody(at, kind) = toc_rows
           /\ kind = "itoc" => R!ChunkBody(at, kind) = itoc_body
<1>1. PICK e \in stream.ext : e.kind = kind /\ R!ChunkBody(at, kind) = e.body
  BY ChunkFacts DEF FileInv, ArchiveInv
<1>2. e \in out
  BY <1>1 DEF stream
<1>3. job \in Jobs /\ PlanDone /\ Content(e)
  BY <1>2 DEF FileInv, ArchiveInv, WriterInv, DoneInv, ContentInv, PlanInv, PlanTypes
<1>4. QED
  BY <1>1, <1>3 DEF Content, Extent

(* The index the header names is that of the mode.                          *)
LEMMA ModeOfHeader ==
    ASSUME job \in Jobs, PlanDone
    PROVE  /\ has_toc(job.mode) \/ has_itoc(job.mode)
           /\ header_row.TocOffset = lay.toc /\ header_row.ItocOffset = lay.itoc
           /\ header_row.ContentOffset = lay.content
           /\ header_row.TocOffset # 0 <=> has_toc(job.mode)
           /\ has_itoc(job.mode) =>
                /\ header_row.ItocOffset # 0
                /\ header_row.ContentOffset # 0 /\ ~(header_row.ContentOffset > U32Max)
<1>1. has_toc(job.mode) \/ has_itoc(job.mode)
  BY JobFacts DEF has_toc, has_itoc
<1>2. /\ header_row.TocOffset = lay.toc /\ header_row.ItocOffset = lay.itoc
      /\ header_row.ContentOffset = lay.content
  BY DEF header_row
<1>3. header_row.TocOffset # 0 <=> has_toc(job.mode)
  BY <1>2 DEF PlanDone, IndexBase
<1>4. ASSUME has_itoc(job.mode)
      PROVE  /\ header_row.ItocOffset # 0
             /\ header_row.ContentOffset # 0 /\ ~(header_row.ContentOffset > U32Max)
  <2>1. /\ ContentOffset \in Nat /\ TocEnd \in Nat /\ ItocEnd \in Nat
        /\ IndexBase <= TocEnd /\ TocEnd <= ItocEnd /\ ItocEnd <= ContentOffset
    BY LayoutFacts DEF PlanDone
  <2>2. lay.itoc = TocEnd /\ lay.content = ContentOffset /\ ContentOffset <= U32Max
    BY <1>4 DEF PlanDone, InLimits
  <2>3. U32Max \in Nat
    BY WriterAssumption
  <2>4. QED
    BY <1>2, <2>1, <2>2, <2>3 DEF IndexBase
<1>5. QED
  BY <1>1, <1>2, <1>3, <1>4

(* The reader knows the header the call wrote, and either the index, whole, *)
(* or none.                                                                 *)
LEMMA NewIndex ==
    ASSUME FileInv, ~old, metadata # <<>>
    PROVE  /\ job \in Jobs /\ PlanDone /\ Header = header_row
           /\ R!ReadIndex(Header).ok => R!ReadIndex(Header) = Index
           /\ pc = "ok" => R!ReadIndex(Header) = Index
<1>1. R!ChunksAt(0, "cpk") # {}
  BY ZenonT(30) DEF FileInv, ArchiveInv, ListInv
<1>2. job \in Jobs /\ PlanDone /\ Header = header_row
  BY <1>1, NewTable DEF Header
<1>3. /\ has_toc(job.mode) \/ has_itoc(job.mode)
      /\ header_row.TocOffset = lay.toc /\ header_row.ItocOffset = lay.itoc
      /\ header_row.TocOffset # 0 <=> has_toc(job.mode)
      /\ has_itoc(job.mode) =>
           /\ header_row.ItocOffset # 0
           /\ header_row.ContentOffset # 0 /\ ~(header_row.ContentOffset > U32Max)
  BY <1>2, ModeOfHeader
<1>4. pc = "ok" => stream.ext = out /\ stream.len = pos /\ pos \in Nat
  BY DEF stream, FileInv, ArchiveInv, WriterInv, OutInv, Tiles, ChunksInv, FileLength
<1>5. CASE has_toc(job.mode)
  <2>1. R!ReadIndex(Header) = R!read_toc(header_row)
    BY <1>2, <1>3, <1>5 DEF R!ReadIndex
  <2>2. R!ChunksAt(lay.toc, "toc") # {} => R!ReadIndex(Header) = Index
    BY <1>3, <1>5, <2>1, NewTable DEF R!read_toc, Index
  <2>3. R!ChunksAt(lay.toc, "toc") = {} => ~R!ReadIndex(Header).ok
    BY <1>3, <2>1 DEF R!read_toc, R!Failed
  <2>4. pc = "ok" => R!ChunksAt(lay.toc, "toc") # {}
    <3> SUFFICES ASSUME pc = "ok" PROVE TocExtent \in R!ChunksAt(lay.toc, "toc")
      OBVIOUS
    <3>1. TocExtent \in out
      BY <1>5 DEF FileInv, ChunksInv, AfterHeader
    <3>2. TocExtent.at + TocExtent.len <= pos
      BY <3>1 DEF FileInv, ArchiveInv, WriterInv, OutInv, Tiles
    <3>3. TocExtent.at = lay.toc /\ TocExtent.kind = "toc"
      BY DEF TocExtent, Extent
    <3>4. QED
      BY <1>4, <3>1, <3>2, <3>3 DEF R!ChunksAt
  <2>5. QED
    BY <1>2, <2>2, <2>3, <2>4
<1>6. CASE ~has_toc(job.mode)
  <2>1. has_itoc(job.mode) /\ R!ReadIndex(Header) = R!read_itoc(header_row)
    BY <1>2, <1>3, <1>6 DEF R!ReadIndex
  <2>2. R!ChunksAt(lay.itoc, "itoc") # {} => R!ReadIndex(Header) = Index
    BY <1>3, <1>6, <2>1, NewTable DEF R!read_itoc, Index
  <2>3. R!ChunksAt(lay.itoc, "itoc") = {} => ~R!ReadIndex(Header).ok
    BY <1>3, <2>1 DEF R!read_itoc, R!Failed
  <2>4. pc = "ok" => R!ChunksAt(lay.itoc, "itoc") # {}
    <3> SUFFICES ASSUME pc = "ok" PROVE ItocExtent \in R!ChunksAt(lay.itoc, "itoc")
      OBVIOUS
    <3>1. ItocExtent \in out
      BY <2>1 DEF FileInv, ChunksInv, AfterHeader
    <3>2. ItocExtent.at + ItocExtent.len <= pos
      BY <3>1 DEF FileInv, ArchiveInv, WriterInv, OutInv, Tiles
    <3>3. ItocExtent.at = lay.itoc /\ ItocExtent.kind = "itoc"
      BY DEF ItocExtent, Extent
    <3>4. QED
      BY <1>4, <3>1, <3>2, <3>3 DEF R!ChunksAt
  <2>5. QED
    BY <1>2, <2>2, <2>3, <2>4
<1>7. QED
  BY <1>5, <1>6

(* Every entry listed is a file of the call, at the offset of the plan.     *)
LEMMA NewEntries ==
    ASSUME job \in Jobs, PlanDone, Index.ok
    PROVE  /\ Len(Index.files) = Len(files)
           /\ \A j \in DOMAIN Index.files :
                LET c == Index.files[j]
                    i == FileOf(j)
                IN  /\ i \in Files
                    /\ c.id = files[i].id /\ c.size = files[i].size
                    /\ c.extract = IF files[i].extract = 0 THEN files[i].size
                                   ELSE files[i].extract
                    /\ c.offset = off[i]
                    /\ has_toc(job.mode) =>
                        i = j /\ c.dir = files[i].dir /\ c.name = files[i].name
                        /\ c.user = files[i].user
<1> DEFINE fs == Index.files
           n == Len(files)
<1>1. Files = 1 .. n /\ order \in [Files -> Files]
  BY DEF Files, PlanDone
<1>2. CASE has_toc(job.mode)
  <2>1. Index = R!toc_entries(toc_rows) /\ \A j : FileOf(j) = j
    BY <1>2 DEF Index, FileOf
  <2>2. QED
    BY <1>1, <1>2, <2>1, WriterTocFiles
<1>3. CASE ~has_toc(job.mode)
  <2>1. Index = R!itoc_entries(header_row, itoc_body) /\ \A j : FileOf(j) = order[j]
    BY <1>3 DEF Index, FileOf
  <2>2. has_itoc(job.mode)
    BY <1>3, ModeOfHeader
  <2>3. QED
    BY <1>1, <1>3, <2>1, <2>2, WriterItocFiles
<1>4. QED
  BY <1>2, <1>3

(* An entry comes from an index the reader accepted.                        *)
LEMMA Listed ==
    ASSUME FileInv, NEW j \in DOMAIN listed
    PROVE  metadata # <<>> /\ R!ReadIndex(Header).ok /\ listed = R!ReadIndex(Header).files
<1>1. listed # <<>>
  OBVIOUS
<1>2. QED
  BY <1>1, ZenonT(30) DEF FileInv, ArchiveInv, ListInv

(* The listing after an Ok.                                                 *)
LEMMA InvListing == FileInv => ListingIsInput
<1> SUFFICES ASSUME FileInv, pc = "ok", metadata # <<>>
             PROVE  /\ result = "get_files failed" <=> Nameless
                    /\ ~Nameless => Len(listed) = Len(files)
                    /\ \A j \in DOMAIN listed :
                        LET f == files[FileOf(j)] IN
                        /\ listed[j].id = f.id /\ listed[j].size = f.size
                        /\ listed[j].extract = IF f.extract = 0 THEN f.size ELSE f.extract
                        /\ has_toc(job.mode) => /\ listed[j].dir = f.dir
                                                /\ listed[j].name = f.name
                                                /\ listed[j].user = f.user
                        /\ R!Readable(listed[j])
  BY ZenonT(30) DEF ListingIsInput
<1>1. ~old
  BY DEF FileInv, ChunksInv
<1>2. job \in Jobs /\ PlanDone /\ R!ReadIndex(Header) = Index
  BY <1>1, NewIndex
<1>3. /\ Index.ok => listed = Index.files /\ result # "get_files failed"
      /\ ~Index.ok => listed = <<>> /\ result = "get_files failed"
  BY <1>2, ZenonT(30) DEF FileInv, ArchiveInv, ListInv
<1>4. Index.ok <=> ~Nameless
  <2>1. CASE has_toc(job.mode)
    BY <1>2, <2>1, WriterTocFiles DEF Index
  <2>2. CASE ~has_toc(job.mode)
    <3>1. has_itoc(job.mode)
      BY <1>2, <2>2, ModeOfHeader
    <3>2. QED
      BY <1>2, <2>2, <3>1, WriterItoc, ZenonT(30) DEF Index, Nameless
  <2>3. QED
    BY <2>1, <2>2
<1>5. stream.len = pos /\ pos = cursor
  <2>1. pos \in Nat /\ lost = 0 /\ pos = lay.size
    BY DEF FileInv, ArchiveInv, WriterInv, OutInv, Tiles, PosInv, ChunksInv
  <2>2. QED
    BY <1>1, <1>2, <2>1 DEF stream, FileLength, PlanDone
<1>6. ASSUME NEW j \in DOMAIN listed
      PROVE  LET f == files[FileOf(j)] IN
             /\ listed[j].id = f.id /\ listed[j].size = f.size
             /\ listed[j].extract = IF f.extract = 0 THEN f.size ELSE f.extract
             /\ has_toc(job.mode) => /\ listed[j].dir = f.dir
                                     /\ listed[j].name = f.name
                                     /\ listed[j].user = f.user
             /\ R!Readable(listed[j])
  <2> DEFINE i == FileOf(j)
  <2>1. Index.ok /\ listed = Index.files
    BY <1>2, Listed
  <2>2. /\ i \in Files
        /\ listed[j].id = files[i].id /\ listed[j].size = files[i].size
        /\ listed[j].extract = IF files[i].extract = 0 THEN files[i].size ELSE files[i].extract
        /\ listed[j].offset = off[i]
        /\ has_toc(job.mode) => /\ listed[j].dir = files[i].dir
                                /\ listed[j].name = files[i].name
                                /\ listed[j].user = files[i].user
    BY <1>2, <2>1, NewEntries
  <2> HIDE DEF i
  <2>3. off[i] + files[i].size <= cursor
    BY <1>2, <2>2, PlanOffsets
  <2>4. R!Readable(listed[j])
    BY <1>5, <2>2, <2>3 DEF R!Readable
  <2>5. QED
    BY <2>2, <2>4 DEF i
<1>7. ~Nameless => Len(listed) = Len(files)
  BY <1>2, <1>3, <1>4, NewEntries, ZenonT(30)
<1>8. QED
  BY <1>3, <1>4, <1>6, <1>7, ZenonT(30)

(* For every call and every list of files: the listing of an archive after  *)
(* Ok is the list that was packed, and every entry of it can be read.       *)
THEOREM ListingIsWhatWasPacked == ArchiveSpec => []ListingIsInput
<1>1. QED
  BY InitFile, NextFile, InvListing, PTL DEF ArchiveSpec

(* The offsets after an Ok.                                                 *)
LEMMA InvIndexes == FileInv => IndexesAgree
<1> SUFFICES ASSUME FileInv, pc = "ok"
             PROVE  /\ has_toc(job.mode) =>
                        \A j \in DOMAIN listed : listed[j].offset = off[j]
                    /\ has_itoc(job.mode) =>
                        LET itoc == R!read_itoc(header_row) IN
                        /\ itoc.ok
                        /\ \A j \in DOMAIN itoc.files :
                            /\ itoc.files[j].offset = off[order[j]]
                            /\ itoc.files[j].offset =
                                R!engine_offset(header_row, itoc_body, itoc.files[j].id)
  BY DEF IndexesAgree
<1>1. ~old /\ lost = 0 /\ pc \in Writing
  BY DEF FileInv, ChunksInv, Writing
<1>2. job \in Jobs /\ PlanDone
  BY <1>1, WritingIsDone DEF FileInv, ArchiveInv, WriterInv, PlanInv, PlanTypes
<1>3. ASSUME has_toc(job.mode), NEW j \in DOMAIN listed
      PROVE  listed[j].offset = off[j]
  <2>1. metadata # <<>>
    BY <1>3, Listed
  <2>2. R!ReadIndex(Header).ok /\ listed = R!ReadIndex(Header).files
    BY <1>3, Listed
  <2>3. R!ReadIndex(Header) = Index
    BY <1>1, <2>1, NewIndex
  <2>4. FileOf(j) = j
    BY <1>3 DEF FileOf
  <2>5. QED
    BY <1>2, <1>3, <2>2, <2>3, <2>4, NewEntries
<1>4. ASSUME has_itoc(job.mode)
      PROVE  LET itoc == R!read_itoc(header_row) IN
             /\ itoc.ok
             /\ \A j \in DOMAIN itoc.files :
                    /\ itoc.files[j].offset = off[order[j]]
                    /\ itoc.files[j].offset =
                            R!engine_offset(header_row, itoc_body, itoc.files[j].id)
  <2>1. ItocExtent \in R!ChunksAt(lay.itoc, "itoc")
    <3>1. ItocExtent \in out
      BY <1>4 DEF FileInv, ChunksInv, AfterHeader
    <3>2. ItocExtent.at + ItocExtent.len <= pos /\ pos \in Nat
      BY <3>1 DEF FileInv, ArchiveInv, WriterInv, OutInv, Tiles
    <3>3. ItocExtent.at = lay.itoc /\ ItocExtent.kind = "itoc"
      BY DEF ItocExtent, Extent
    <3>4. stream.ext = out /\ stream.len = pos
      BY <1>1, <3>2 DEF stream, FileLength
    <3>5. QED
      BY <3>1, <3>2, <3>3, <3>4 DEF R!ChunksAt
  <2>2. /\ header_row.ItocOffset = lay.itoc
        /\ header_row.ContentOffset # 0 /\ ~(header_row.ContentOffset > U32Max)
    BY <1>2, <1>4, ModeOfHeader
  <2>3. R!ChunkBody(lay.itoc, "itoc") = itoc_body
    BY <1>1, <2>1, NewTable
  <2>4. R!read_itoc(header_row) = R!itoc_entries(header_row, itoc_body)
    BY <2>1, <2>2, <2>3 DEF R!read_itoc
  <2>5. QED
    BY <1>2, <1>4, <2>4, WriterItoc, WriterItocFiles
<1>5. QED
  BY <1>3, <1>4

(* For every call: the writer, the reader and the engine place every        *)
(* payload alike.                                                           *)
THEOREM ThreeWaysToPlaceAPayload == ArchiveSpec => []IndexesAgree
<1>1. QED
  BY InitFile, NextFile, InvIndexes, PTL DEF ArchiveSpec

(* The bytes of an entry, whenever the writer stopped.                      *)
LEMMA InvEntries == FileInv => EntryIsItsPayload
<1> SUFFICES ASSUME FileInv, ~old, ~Overrun, NEW j \in DOMAIN listed,
                    R!Readable(listed[j]), listed[j].size > 0
             PROVE  \E e \in out :
                        /\ R!Sources(listed[j].offset, listed[j].size) = {e}
                        /\ e.kind = "data" /\ e.body.file = FileOf(j) /\ e.at = listed[j].offset
  BY DEF EntryIsItsPayload
<1>1. metadata # <<>>
  BY Listed
<1>2. R!ReadIndex(Header).ok /\ listed = R!ReadIndex(Header).files
  BY Listed
<1>3. job \in Jobs /\ PlanDone /\ Index.ok /\ listed = Index.files
  BY <1>1, <1>2, NewIndex
<1> DEFINE i == FileOf(j)
           at == listed[j].offset
           size == listed[j].size
<1>4. i \in Files /\ size = files[i].size /\ at = off[i]
  BY <1>3, NewEntries
<1> HIDE DEF i
<1>5. at \in Nat /\ size \in Nat
  BY <1>3, <1>4, PlanOffsets
<1>6. stream.ext = out /\ at + size <= pos
  <2>1. pos \in Nat /\ lost \in 0 .. pos /\ stream.ext = out /\ stream.len = pos - lost
    BY DEF FileInv, ArchiveInv, WriterInv, OutInv, Tiles, LostInv, stream, FileLength
  <2>2. at + size <= stream.len
    BY <1>5 DEF R!Readable
  <2> HIDE DEF at, size
  <2>3. QED
    BY <1>5, <2>1, <2>2
<1>7. out # {}
  <2>1. R!ChunksAt(0, "cpk") # {}
    BY <1>1, ZenonT(30) DEF FileInv, ArchiveInv, ListInv
  <2>2. QED
    BY <1>6, <2>1 DEF R!ChunksAt
<1>8. PICK e \in out : IsPayload(e, i) /\ e.len = files[i].size
  <2>1. Whole(i)
    BY <1>4, <1>6, <1>7 DEF FileInv, DataInv
  <2>2. QED
    BY <2>1 DEF Whole
<1>9. e.kind = "data" /\ e.body.file = i /\ e.at = at /\ e.len = size
  BY <1>4, <1>8 DEF IsPayload
<1> HIDE DEF at
<1>10. size > 0 /\ \A d \in out : d.at \in Nat /\ d.len \in Nat
  BY DEF FileInv, ArchiveInv, WriterInv, OutInv, Tiles
<1> HIDE DEF size
<1>11. e \in R!Sources(at, size)
  BY <1>5, <1>6, <1>9, <1>10 DEF R!Sources
<1>12. ASSUME NEW d \in R!Sources(at, size) PROVE d = e
  <2>1. d \in out /\ d.len > 0 /\ d.at < at + size /\ at < d.at + d.len
    BY <1>6 DEF R!Sources
  <2>2. d # e => \/ d.at + d.len <= e.at \/ e.at + e.len <= d.at
    BY <2>1 DEF FileInv, ArchiveInv, WriterInv, OutInv, Tiles
  <2>3. d.at \in Nat /\ d.len \in Nat
    BY <1>10, <2>1
  <2>4. QED
    BY <1>5, <1>9, <2>1, <2>2, <2>3
<1>13. R!Sources(at, size) = {e}
  BY <1>11, <1>12
<1>14. QED
  BY <1>9, <1>13 DEF at, size, i

(* For every call, however it ends and whatever the sources did but grow    *)
(* while they were copied: an entry that can be read is its own payload.    *)
THEOREM EntriesAreWholeOrUnreadable == ArchiveSpec => []EntryIsItsPayload
<1>1. QED
  BY InitFile, NextFile, InvEntries, PTL DEF ArchiveSpec
=============================================================================
