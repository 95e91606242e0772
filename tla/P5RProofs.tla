----------------------------- MODULE P5RProofs -----------------------------
(* Proofs about P5R for every size of the registers, every entry and every  *)
(* target whose loop is compiled.                                           *)
EXTENDS P5R, SequenceTheorems, TLAPS

(* The bytes after the first n of those to decrypt.                         *)
Partly(b, n) ==
    [k \in DOMAIN b |->
        IF Offset < k /\ k <= Offset + n THEN Xor(b[k], b[k + Count]) ELSE b[k]]

(* What the entry is after c calls.                                         *)
After(c) == IF c % 2 = 0 THEN original ELSE Documented(original)

(* The inductive invariant.                                                 *)
TypeInv ==
    /\ target \in Targets /\ at \in {"idle", "loop"} /\ calls \in Nat /\ i \in Nat
    /\ original \in Seq(Byte) /\ before \in Seq(Byte) /\ input \in Seq(Byte)
LoopInv ==
    at = "loop" =>
        /\ Len(before) >= Offset + 2 * Count /\ i * Lane <= Count
        /\ input = Partly(before, i * Lane) /\ before = After(calls)
IInv == TypeInv /\ LoopInv /\ TwiceIsNone /\ CallIsDocumented

-----------------------------------------------------------------------------
(* Xor stays within bytes and undoes itself.                                *)
LEMMA XorIsByte ==
    ASSUME NEW a \in Byte, NEW b \in Byte
    PROVE  Xor(a, b) \in Byte /\ Xor(Xor(a, b), b) = a
BY DEF Xor, Byte

(* A function over the positions of an entry is an entry of its length.     *)
LEMMA SameLength ==
    ASSUME NEW b \in Seq(Byte), NEW f \in [DOMAIN b -> Byte]
    PROVE  f \in Seq(Byte) /\ Len(f) = Len(b) /\ DOMAIN f = DOMAIN b
<1>1. DOMAIN b = 1 .. Len(b) /\ Len(b) \in Nat
  BY LenProperties
<1>2. f \in Seq(Byte)
  BY <1>1, SeqDef
<1>3. DOMAIN f = 1 .. Len(f) /\ Len(f) \in Nat
  BY <1>2, LenProperties
<1>4. QED
  BY <1>1, <1>2, <1>3

(* An entry decrypted in part is an entry of its length.                    *)
LEMMA PartlyIsEntry ==
    ASSUME NEW b \in Seq(Byte), Len(b) >= Offset + 2 * Count, NEW n \in 0 .. Count
    PROVE  /\ Partly(b, n) \in Seq(Byte)
           /\ Len(Partly(b, n)) = Len(b) /\ DOMAIN Partly(b, n) = DOMAIN b
<1>1. DOMAIN b = 1 .. Len(b) /\ Len(b) \in Nat
  BY LenProperties
<1>2. ASSUME NEW k \in DOMAIN b
      PROVE  (IF Offset < k /\ k <= Offset + n THEN Xor(b[k], b[k + Count]) ELSE b[k]) \in Byte
  <2>1. b[k] \in Byte
    BY <1>1, ElementOfSeq
  <2>2. CASE Offset < k /\ k <= Offset + n
    <3>1. k + Count \in 1 .. Len(b)
      BY <1>1, <2>2, SizeAssumption
    <3>2. b[k + Count] \in Byte
      BY <3>1, ElementOfSeq
    <3>3. QED
      BY <2>1, <2>2, <3>2, XorIsByte
  <2>3. QED
    BY <2>1, <2>2
<1>3. Partly(b, n) \in [DOMAIN b -> Byte]
  BY <1>2 DEF Partly
<1>4. QED
  BY <1>3, SameLength

(* The documented bytes are those decrypted to the end, if there are enough. *)
LEMMA DocumentedIsAll ==
    ASSUME NEW b \in Seq(Byte)
    PROVE  /\ Len(b) >= Offset + 2 * Count => Documented(b) = Partly(b, Count)
           /\ Len(b) < Offset + 2 * Count => Documented(b) = b
<1>1. DOMAIN b = 1 .. Len(b) /\ Len(b) \in Nat
  BY LenProperties
<1>2. b = [k \in DOMAIN b |-> b[k]]
  BY <1>1, LenProperties
<1>3. QED
  BY <1>1, <1>2, SizeAssumption DEF Documented, Partly

(* What is documented undoes itself.                                        *)
LEMMA DocumentedTwice ==
    ASSUME NEW b \in Seq(Byte)
    PROVE  Documented(b) \in Seq(Byte) /\ Documented(Documented(b)) = b
<1>1. CASE Len(b) < Offset + 2 * Count
  BY <1>1, DocumentedIsAll
<1>2. CASE Len(b) >= Offset + 2 * Count
  <2> DEFINE p == Partly(b, Count)
  <2>1. DOMAIN b = 1 .. Len(b) /\ Len(b) \in Nat
    BY LenProperties
  <2>2. p \in Seq(Byte) /\ Len(p) = Len(b) /\ DOMAIN p = DOMAIN b
    BY <1>2, SizeAssumption, PartlyIsEntry
  <2>3. Documented(b) = p /\ Documented(p) = Partly(p, Count)
    BY <1>2, <2>2, DocumentedIsAll
  <2>4. ASSUME NEW k \in DOMAIN b
        PROVE  Partly(p, Count)[k] = b[k]
    <3>1. CASE Offset < k /\ k <= Offset + Count
      <4>1. k \in 1 .. Len(b) /\ k + Count \in 1 .. Len(b) /\ k + Count > Offset + Count
        BY <1>2, <2>1, <3>1, SizeAssumption
      <4>2. p[k] = Xor(b[k], b[k + Count]) /\ p[k + Count] = b[k + Count]
        BY <2>1, <3>1, <4>1, SizeAssumption DEF Partly
      <4>3. Partly(p, Count)[k] = Xor(p[k], p[k + Count])
        BY <2>2, <3>1 DEF Partly
      <4>4. b[k] \in Byte /\ b[k + Count] \in Byte
        BY <4>1, ElementOfSeq
      <4>5. QED
        BY <4>2, <4>3, <4>4, XorIsByte
    <3>2. CASE ~(Offset < k /\ k <= Offset + Count)
      BY <2>2, <3>2 DEF Partly
    <3>3. QED
      BY <3>1, <3>2
  <2>5. Partly(p, Count) \in Seq(Byte) /\ Len(Partly(p, Count)) = Len(b)
    BY <1>2, <2>2, SizeAssumption, PartlyIsEntry
  <2> HIDE DEF p
  <2>6. Partly(p, Count) = b
    BY <2>1, <2>4, <2>5, SeqEqual
  <2>7. QED
    BY <2>2, <2>3, <2>6
<1>3. QED
  BY <1>1, <1>2, LenProperties, SizeAssumption

-----------------------------------------------------------------------------
(* Lanes do not overlap, and the last one ends where the bytes do.          *)
LEMMA LaneFits ==
    ASSUME NEW w \in Nat \ {0}, NEW n \in Nat, NEW j \in Nat, j * w < n * w
    PROVE  (j + 1) * w = j * w + w /\ j * w + w <= n * w /\ j * w \in Nat
<1>1. j < n
  <2>1. SUFFICES ASSUME j >= n PROVE FALSE
    OBVIOUS
  <2>2. PICK d \in Nat : j = n + d
    BY <2>1
  <2>3. j * w = n * w + d * w /\ d * w >= 0
    BY <2>2
  <2>4. n * w \in Int /\ d * w \in Int
    OBVIOUS
  <2>5. QED
    BY <2>3, <2>4
<1>2. PICK d \in Nat : n = j + 1 + d
  BY <1>1
<1>3. n * w = j * w + w + d * w /\ d * w >= 0 /\ (j + 1) * w = j * w + w
  BY <1>2
<1>4. j * w \in Nat /\ d * w \in Nat
  OBVIOUS
<1>5. QED
  BY <1>3, <1>4

(* The width of the loop of a target divides the bytes to decrypt.          *)
LEMMA LaneIsWidth ==
    ASSUME target \in Targets
    PROVE  Lane \in Nat \ {0} /\ \E n \in Nat : Count = n * Lane
<1>1. Loop(target) \in Loops
  BY DEF Loop, Loops
<1>2. QED
  BY <1>1, SizeAssumption DEF Lane

(* The next lane of a compiled loop is within the bytes to decrypt.         *)
LEMMA NextLane ==
    ASSUME TypeInv, Compiled(target), i * Lane < Lanes
    PROVE  /\ (i + 1) * Lane = i * Lane + Lane /\ i * Lane + Lane <= Count
           /\ i * Lane \in 0 .. Count /\ i * Lane + Lane \in 0 .. Count
<1>1. Lanes = Count /\ i \in Nat /\ target \in Targets
  BY DEF Lanes, TypeInv
<1>2. PICK n \in Nat : Count = n * Lane
  BY <1>1, LaneIsWidth
<1>3. Lane \in Nat \ {0}
  BY <1>1, LaneIsWidth
<1> HIDE DEF Lane
<1>4. /\ (i + 1) * Lane = i * Lane + Lane /\ i * Lane + Lane <= n * Lane
      /\ i * Lane \in Nat
  BY <1>1, <1>2, <1>3, LaneFits
<1>5. QED
  BY <1>1, <1>2, <1>3, <1>4, SizeAssumption

-----------------------------------------------------------------------------
(* Initially, nothing has been called.                                      *)
LEMMA InitIInv == Init => IInv
<1>1. SUFFICES ASSUME Init PROVE IInv
  OBVIOUS
<1>2. original \in Seq(Byte)
  BY <1>1, SizeAssumption DEF Init
<1>3. QED
  BY <1>1, <1>2 DEF Init, IInv, TypeInv, LoopInv, TwiceIsNone, CallIsDocumented

(* A call of an entry that is too short changes nothing; otherwise no byte  *)
(* is decrypted yet.                                                        *)
LEMMA CallIInv == IInv /\ Call => IInv'
<1>1. SUFFICES ASSUME IInv, Call PROVE IInv'
  OBVIOUS
<1>2. /\ before' = input /\ input' = input /\ original' = original /\ target' = target
      /\ input = After(calls) /\ input \in Seq(Byte) /\ original \in Seq(Byte)
      /\ calls \in Nat /\ i' = 0
  BY <1>1 DEF Call, IInv, TypeInv, TwiceIsNone, After
<1>3. Len(input) \in Nat /\ DOMAIN input = 1 .. Len(input) /\ 0 * Lane' = 0
  BY <1>2, <1>1, LenProperties, LaneIsWidth DEF IInv, TypeInv, Call, Lane
<1>4. CASE TooShort /\ calls' = calls + 1 /\ UNCHANGED at
  <2>1. Documented(input) = input
    BY <1>2, <1>4, DocumentedIsAll DEF TooShort
  <2>2. After(calls + 1) = input
    <3>1. CASE calls % 2 = 0
      BY <1>2, <2>1, <3>1 DEF After
    <3>2. CASE calls % 2 # 0
      <4>1. (calls + 1) % 2 = 0
        BY <1>2, <3>2
      <4>2. input = Documented(original)
        BY <1>2, <3>2 DEF After
      <4>3. Documented(input) = original
        BY <1>2, <4>2, DocumentedTwice
      <4>4. QED
        BY <2>1, <4>1, <4>3 DEF After
    <3>3. QED
      BY <3>1, <3>2
  <2>3. at' = "idle" /\ calls' \in Nat
    BY <1>1, <1>2, <1>4 DEF Call
  <2>4. TypeInv'
    BY <1>1, <1>2, <2>3 DEF IInv, TypeInv
  <2>5. LoopInv'
    BY <2>3 DEF LoopInv
  <2>6. TwiceIsNone'
    BY <1>2, <1>4, <2>2 DEF TwiceIsNone, After, Documented
  <2>7. CallIsDocumented'
    BY <1>2, <2>1 DEF CallIsDocumented, Documented
  <2>8. QED
    BY <2>4, <2>5, <2>6, <2>7 DEF IInv
<1>5. CASE ~TooShort /\ at' = "loop" /\ UNCHANGED calls
  <2>1. Len(input) >= Offset + 2 * Count
    BY <1>3, <1>5, SizeAssumption DEF TooShort
  <2>2. Partly(input, 0) = input
    <3>1. Partly(input, 0) \in Seq(Byte) /\ Len(Partly(input, 0)) = Len(input)
      BY <1>2, <2>1, SizeAssumption, PartlyIsEntry
    <3>2. \A k \in 1 .. Len(input) : Partly(input, 0)[k] = input[k]
      BY <1>3, SizeAssumption DEF Partly
    <3>3. QED
      BY <1>2, <3>1, <3>2, SeqEqual
  <2>3. TypeInv'
    BY <1>1, <1>2, <1>5 DEF IInv, TypeInv
  <2>4. LoopInv'
    <3>1. i' * Lane' = 0
      BY <1>2, <1>3
    <3>2. (After(calls))' = After(calls)
      BY <1>2, <1>5 DEF After, Documented
    <3>3. i' * Lane' <= Count
      BY <3>1, SizeAssumption
    <3>4. (Partly(before, i * Lane))' = Partly(input, 0)
      BY <1>2, <3>1 DEF Partly
    <3>5. QED
      BY <1>2, <2>1, <2>2, <3>2, <3>3, <3>4 DEF LoopInv
  <2>5. TwiceIsNone' /\ CallIsDocumented'
    BY <1>5 DEF TwiceIsNone, CallIsDocumented
  <2>6. QED
    BY <2>3, <2>4, <2>5 DEF IInv
<1>6. QED
  BY <1>1, <1>4, <1>5 DEF Call

(* A lane reads bytes no lane before it has changed.                        *)
LEMMA StepIInv ==
    ASSUME \A t \in Targets : Compiled(t)
    PROVE  IInv /\ Step => IInv'
<1>1. SUFFICES ASSUME IInv, Step PROVE IInv'
  OBVIOUS
<1> DEFINE m == i * Lane
           w == Lane
<1>2. TypeInv /\ Compiled(target) /\ at = "loop" /\ i * Lane < Lanes
  BY <1>1 DEF IInv, Step, TypeInv
<1>3. (i + 1) * Lane = m + w /\ m + w <= Count /\ m \in 0 .. Count /\ m + w \in 0 .. Count
  BY <1>2, NextLane
<1>4. /\ before \in Seq(Byte) /\ Len(before) >= Offset + 2 * Count
      /\ input = Partly(before, m) /\ before = After(calls)
  BY <1>1, <1>2 DEF IInv, LoopInv, TypeInv
<1>5. /\ DOMAIN before = 1 .. Len(before) /\ Len(before) \in Nat
      /\ DOMAIN input = DOMAIN before
  BY <1>3, <1>4, PartlyIsEntry, LenProperties
<1>6. w \in Nat \ {0}
  BY <1>2, LaneIsWidth DEF TypeInv
<1>7. input' = Partly(before, m + w)
  <2>1. input' = [k \in DOMAIN before |->
                    IF Offset + m < k /\ k <= Offset + (m + w)
                    THEN Xor(input[k], input[k + Count]) ELSE input[k]]
    BY <1>1, <1>3, <1>5 DEF Step, InLane
  <2> HIDE DEF m, w
  <2>2. ASSUME NEW k \in DOMAIN before
        PROVE  (IF Offset + m < k /\ k <= Offset + (m + w)
                THEN Xor(input[k], input[k + Count]) ELSE input[k])
               = (IF Offset < k /\ k <= Offset + (m + w)
                  THEN Xor(before[k], before[k + Count]) ELSE before[k])
    <3>1. k \in Nat /\ Offset \in Nat /\ Count \in Nat
      BY <1>5, SizeAssumption
    <3>2. CASE Offset + m < k /\ k <= Offset + (m + w)
      <4>1. k + Count \in DOMAIN before
        BY <1>3, <1>4, <1>5, <3>1, <3>2
      <4>2. ~(k <= Offset + m) /\ ~(k + Count <= Offset + m)
        BY <1>3, <3>1, <3>2
      <4>3. input[k] = before[k] /\ input[k + Count] = before[k + Count]
        BY <1>4, <4>1, <4>2 DEF Partly
      <4>4. Offset < k
        BY <1>3, <3>1, <3>2
      <4>5. QED
        BY <3>2, <4>3, <4>4
    <3>3. CASE ~(Offset + m < k /\ k <= Offset + (m + w))
      <4>1. (Offset < k /\ k <= Offset + (m + w)) <=> (Offset < k /\ k <= Offset + m)
        BY <1>3, <1>6, <3>1, <3>3
      <4>2. input[k] = IF Offset < k /\ k <= Offset + m
                       THEN Xor(before[k], before[k + Count]) ELSE before[k]
        BY <1>4 DEF Partly
      <4>3. QED
        BY <3>3, <4>1, <4>2
    <3>4. QED
      BY <3>2, <3>3
  <2>3. QED
    BY <2>1, <2>2 DEF Partly
<1>8. input' \in Seq(Byte)
  BY <1>3, <1>4, <1>7, PartlyIsEntry
<1>9. /\ target' = target /\ original' = original /\ before' = before /\ at' = at
      /\ calls' = calls /\ i' = i + 1 /\ Lane' = Lane
  BY <1>1 DEF Step, Lane
<1>10. TypeInv'
  BY <1>2, <1>8, <1>9 DEF TypeInv
<1>11. LoopInv'
  BY <1>3, <1>4, <1>7, <1>9 DEF LoopInv, After, Documented, Partly
<1>12. TwiceIsNone' /\ CallIsDocumented'
  BY <1>2, <1>9 DEF TwiceIsNone, CallIsDocumented
<1>13. QED
  BY <1>10, <1>11, <1>12 DEF IInv

(* When the lanes are done, every byte to decrypt has been.                 *)
LEMMA ReturnIInv ==
    ASSUME \A t \in Targets : Compiled(t)
    PROVE  IInv /\ Return => IInv'
<1>1. SUFFICES ASSUME IInv, Return PROVE IInv'
  OBVIOUS
<1>2. /\ at = "loop" /\ i * Lane >= Lanes /\ Lanes = Count /\ i \in Nat
      /\ target \in Targets /\ calls \in Nat
      /\ original \in Seq(Byte) /\ before \in Seq(Byte)
  BY <1>1 DEF IInv, Return, TypeInv, Lanes
<1>3. /\ Len(before) >= Offset + 2 * Count /\ i * Lane <= Count
      /\ input = Partly(before, i * Lane) /\ before = After(calls)
  BY <1>1, <1>2 DEF IInv, LoopInv
<1>4. Lane \in Nat \ {0}
  BY <1>2, LaneIsWidth
<1>5. i * Lane \in Nat
  <2> HIDE DEF Lane
  <2>1. QED
    BY <1>2, <1>4
<1>6. i * Lane = Count
  BY <1>2, <1>3, <1>5, SizeAssumption
<1>7. input = Documented(before)
  BY <1>2, <1>3, <1>6, DocumentedIsAll
<1>8. input = After(calls + 1)
  <2>1. CASE calls % 2 = 0
    BY <1>2, <1>3, <1>7, <2>1 DEF After
  <2>2. CASE calls % 2 # 0
    <3>1. (calls + 1) % 2 = 0 /\ before = Documented(original)
      BY <1>2, <1>3, <2>2 DEF After
    <3>2. QED
      BY <1>2, <1>7, <3>1, DocumentedTwice DEF After
  <2>3. QED
    BY <2>1, <2>2
<1>9. /\ target' = target /\ original' = original /\ before' = before /\ input' = input
      /\ i' = i /\ at' = "idle" /\ calls' = calls + 1
  BY <1>1 DEF Return
<1>10. TypeInv'
  BY <1>1, <1>2, <1>9 DEF IInv, TypeInv
<1>11. LoopInv' /\ TwiceIsNone' /\ CallIsDocumented'
  BY <1>7, <1>8, <1>9 DEF LoopInv, TwiceIsNone, CallIsDocumented, After, Documented
<1>12. QED
  BY <1>10, <1>11 DEF IInv

(* The invariant holds of every reachable state.                            *)
THEOREM P5RInvariant ==
    ASSUME \A t \in Targets : Compiled(t)
    PROVE  Spec => []IInv
<1>1. Init => IInv
  BY InitIInv
<1>2. IInv /\ [Next]_vars => IInv'
  <2>1. SUFFICES ASSUME IInv, [Next]_vars PROVE IInv'
    OBVIOUS
  <2>2. CASE Call
    BY <2>1, <2>2, CallIInv
  <2>3. CASE Step
    BY <2>1, <2>3, StepIInv
  <2>4. CASE Return
    BY <2>1, <2>4, ReturnIInv
  <2>5. CASE UNCHANGED vars
    BY <2>1, <2>5 DEF vars, IInv, TypeInv, LoopInv, TwiceIsNone, CallIsDocumented,
        After, Partly, Documented, Lane
  <2>6. QED
    BY <2>1, <2>2, <2>3, <2>4, <2>5 DEF Next
<1>3. QED
  BY <1>1, <1>2, PTL DEF Spec

(* On every target with a compiled loop, whatever its registers, each call  *)
(* leaves what the module's doc says, and two of them nothing.              *)
THEOREM P5RSafe ==
    ASSUME \A t \in Targets : Compiled(t)
    PROVE  Spec => [](CallIsDocumented /\ TwiceIsNone)
<1>1. IInv => CallIsDocumented /\ TwiceIsNone
  BY DEF IInv
<1>2. QED
  BY <1>1, P5RInvariant, PTL

(* No loop reads beyond the end of an entry.                                *)
THEOREM P5RInBounds ==
    ASSUME \A t \in Targets : Compiled(t)
    PROVE  Spec => []LanesInBounds
<1>1. IInv => LanesInBounds
  <2>1. SUFFICES ASSUME IInv, at = "loop", i * Lane < Lanes
                 PROVE  Offset + (i + 1) * Lane + Count <= Len(input)
    BY DEF LanesInBounds
  <2>2. TypeInv /\ Compiled(target)
    BY <2>1 DEF IInv, TypeInv
  <2>3. (i + 1) * Lane \in 0 .. Count /\ i * Lane \in 0 .. Count
    BY <2>1, <2>2, NextLane
  <2>4. /\ before \in Seq(Byte) /\ Len(before) >= Offset + 2 * Count
        /\ input = Partly(before, i * Lane)
    BY <2>1 DEF IInv, TypeInv, LoopInv
  <2>5. Len(input) = Len(before) /\ Len(before) \in Nat
    BY <2>3, <2>4, PartlyIsEntry, LenProperties
  <2>6. QED
    BY <2>3, <2>4, <2>5, SizeAssumption
<1>2. QED
  BY <1>1, P5RInvariant, PTL
=============================================================================
