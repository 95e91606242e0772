-------------------------------- MODULE P5R --------------------------------
(***************************************************************************)
(* P5RDecryptor::decrypt_in_place of cpk/encrypt/p5r.rs: the reader calls  *)
(* it to decrypt an entry, the writer to encrypt one.  It has a loop for   *)
(* every width of register; which one runs, and whether its body is part   *)
(* of the build at all, depends on the target.  A byte is the set of its   *)
(* bits; the byte at offset o is element o + 1.                            *)
(***************************************************************************)
EXTENDS Integers, Sequences

CONSTANTS
    Bits,       \* of a byte
    Offset,     \* ENCRYPTED_DATA_OFFSET, 0x20
    Count,      \* NUM_BYTES_TO_DECRYPT, 0x400
    Width,      \* the bytes of a register, by loop: 32, 16, 16 and 8
    Targets,    \* [arch, features] the library is built for
    Inputs,     \* what entries hold
    MaxCalls    \* bound: calls on one entry

Loops == {"avx2", "sse3", "neon", "u64"}
Byte == SUBSET Bits

(* The sizes, of which Count is a multiple of every width.                  *)
ASSUME SizeAssumption ==
    /\ Offset \in Nat /\ Count \in Nat \ {0}
    /\ Width \in [Loops -> Nat \ {0}]
    /\ \A l \in Loops : \E n \in 1 .. Count : Count = n * Width[l]
    /\ Inputs \subseteq Seq(Byte) /\ MaxCalls \in Nat

VARIABLES
    target,     \* what the library is built for
    original,   \* the entry before any call
    before,     \* the entry before the call
    input,      \* the entry
    i,          \* lanes done of the call
    at,         \* "idle" or "loop"
    calls       \* calls that returned

vars == <<target, original, before, input, i, at, calls>>

Xor(a, b) == (a \ b) \cup (b \ a)

(* The loop decrypt_in_place calls, and whether its body is compiled: those *)
(* of x86_64 for that architecture only, the one for any other among them.  *)
Loop(t) ==
    IF t.arch = "x86_64" THEN
        IF "avx2" \in t.features THEN "avx2" ELSE IF "sse3" \in t.features THEN "sse3" ELSE "u64"
    ELSE IF t.arch = "aarch64" /\ "neon" \in t.features THEN "neon" ELSE "u64"
Compiled(t) == t.arch = "x86_64" \/ Loop(t) = "neon"

Lane == Width[Loop(target)]
Lanes == IF Compiled(target) THEN Count ELSE 0      \* bytes the loop covers

Init ==
    /\ target \in Targets /\ original \in Inputs
    /\ before = original /\ input = original
    /\ i = 0 /\ at = "idle" /\ calls = 0

(* Mutant: an entry is long enough when it has the bytes to decrypt.        *)
TooShort_OneBlock == Len(input) < Offset + Count

TooShort == Len(input) < Offset + 2 * Count
Call ==
    /\ at = "idle" /\ calls < MaxCalls
    /\ before' = input
    /\ \/ TooShort /\ calls' = calls + 1 /\ UNCHANGED at
       \/ ~TooShort /\ at' = "loop" /\ UNCHANGED calls
    /\ i' = 0
    /\ UNCHANGED <<target, original, input>>

InLane(k) == Offset + i * Lane < k /\ k <= Offset + (i + 1) * Lane

(* Mutant: the other operand is the lane that follows.                      *)
Step_NextLane ==
    /\ at = "loop" /\ i * Lane < Lanes
    /\ input' = [k \in DOMAIN input |->
                    IF InLane(k) THEN Xor(input[k], input[k + Lane]) ELSE input[k]]
    /\ i' = i + 1
    /\ UNCHANGED <<target, original, before, at, calls>>

(* One lane: loaded, combined with the one Count bytes after it, stored.    *)
Step ==
    /\ at = "loop" /\ i * Lane < Lanes
    /\ input' = [k \in DOMAIN input |->
                    IF InLane(k) THEN Xor(input[k], input[k + Count]) ELSE input[k]]
    /\ i' = i + 1
    /\ UNCHANGED <<target, original, before, at, calls>>

Return ==
    /\ at = "loop" /\ i * Lane >= Lanes
    /\ at' = "idle" /\ calls' = calls + 1
    /\ UNCHANGED <<target, original, before, input, i>>

Next == Call \/ Step \/ Return

Spec == Init /\ [][Next]_vars

-----------------------------------------------------------------------------
(* What the module's doc says of an entry: the bytes from Offset on are     *)
(* combined with those Count after them, if there are that many.            *)
Documented(b) ==
    [k \in DOMAIN b |->
        IF Len(b) >= Offset + 2 * Count /\ Offset < k /\ k <= Offset + Count
        THEN Xor(b[k], b[k + Count]) ELSE b[k]]

(* A call leaves the documented bytes, whatever loop the target runs: the   *)
(* lanes neither leave a byte out nor see one that is already changed.      *)
CallIsDocumented == at = "idle" /\ calls > 0 => input = Documented(before)

(* What the writer encrypts the reader decrypts: two calls, of this build   *)
(* or of one for another target, are none.                                  *)
TwiceIsNone == at = "idle" => input = IF calls % 2 = 0 THEN original ELSE Documented(original)

(* No lane is loaded from beyond the end of the entry.                      *)
LanesInBounds ==
    at = "loop" /\ i * Lane < Lanes => Offset + (i + 1) * Lane + Count <= Len(input)
=============================================================================
