------------------------------ MODULE Allocator ------------------------------
(***************************************************************************)
(* What FreeList promises its client, without bitmap, lock and search: a   *)
(* node is either a run of whole blocks of the slab that no other node     *)
(* has, or memory of its own, and it stays what it is until its holder     *)
(* gives it back.                                                          *)
(***************************************************************************)
EXTENDS Integers

CONSTANTS
    Slots,          \* the client's places for a node it holds
    Sizes,          \* the sizes, in bytes, the client asks for
    Blocks,         \* how many blocks can be given out
    BlockBytes      \* bytes of a block

VARIABLE held       \* by slot: the kind of memory, its first block, its size

Nothing == [kind |-> "none", start |-> 0, size |-> 0]
OfSlab(start, n) == [kind |-> "managed", start |-> start, size |-> n]
OfItsOwn(n) == [kind |-> "unmanaged", start |-> 0, size |-> n]

(* The blocks of a node: as few as its bytes lie in.                        *)
Run(h) ==
    IF h.kind = "managed"
    THEN h.start .. h.start + ((h.size + BlockBytes - 1) \div BlockBytes) - 1
    ELSE {}

Init == held = [s \in Slots |-> Nothing]

(* Any run will do that is blank: the step is stated of the node it gives.  *)
Give(s) ==
    /\ held[s].kind = "none"
    /\ LET new == held'[s] IN
        /\ new.size \in Sizes
        /\ new = OfItsOwn(new.size) \/ new = OfSlab(new.start, new.size)
        /\ Run(new) \subseteq 0 .. Blocks - 1
        /\ \A t \in Slots : Run(held[t]) \cap Run(new) = {}
        /\ held' = [held EXCEPT ![s] = new]

TakeBack(s) ==
    /\ held[s].kind # "none"
    /\ held' = [held EXCEPT ![s] = Nothing]

Next == \E s \in Slots : Give(s) \/ TakeBack(s)

Spec == Init /\ [][Next]_held
=============================================================================
