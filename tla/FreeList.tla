------------------------------ MODULE FreeList ------------------------------
(***************************************************************************)
(* The slab allocator of cpk/free_list.rs: one 64 MB slab cut into 256 KB  *)
(* blocks, a bitmap `used` with one bit per block, a spin lock, and nodes  *)
(* that either own a run of blocks of the slab (managed) or memory of      *)
(* their own (unmanaged).  A node is returned by allocate and gives its    *)
(* blocks back when it is dropped.                                         *)
(*                                                                         *)
(* FreeList is neither Send nor Sync, so one thread makes the calls; the   *)
(* client may hold several nodes at a time.  A call is modelled by its     *)
(* steps: entering, taking the lock, each probe of the search, the result. *)
(***************************************************************************)
EXTENDS Integers

CONSTANTS
    Slots,      \* the client's places for a node it holds
    Sizes       \* the sizes, in bytes, the client asks for

ASSUME SizesAssumption == Sizes \subseteq Nat

BlockBytes == 262144        \* 1 << BLOCK_SHIFT
LimitBlocks == 255          \* the literal of bit_bounds_check and of the search
WindowBits == 64            \* len.min(64) in check_occupation: one u64 of bits
AccBits == 64               \* width of the accumulator `res`

VARIABLES
    used,       \* the blocks whose bit is set
    lock,       \* the AtomicBool
    node,       \* what each slot of the client holds
    call        \* the call in progress: its step, slot, size and probe position

vars == <<used, lock, node, call>>

-----------------------------------------------------------------------------
(* Block arithmetic and the byte-wise walks over the bitmap.               *)

least(a, b) == IF a <= b THEN a ELSE b

block_size(size) == (size + BlockBytes - 1) \div BlockBytes

bit_bounds_check(start, len) == len = 0 \/ start + len > LimitBlocks

(* A walk over len bits from start: the bits of the first byte when start   *)
(* is inside it, then whole bytes, then the low bits of a last byte.        *)
HeadLen(start, len) == IF start % 8 = 0 THEN 0 ELSE least(len, 8 - (start % 8))
BodyByte(start) == (start \div 8) + (IF start % 8 = 0 THEN 0 ELSE 1)
BodyLen(start, len) == (len - HeadLen(start, len)) \div 8
TailLen(start, len) == (len - HeadLen(start, len)) % 8
TailByte(start, len) == BodyByte(start) + BodyLen(start, len)

HeadBits(start, len) ==
    LET first == 8 * (start \div 8) + (start % 8)
    IN  first .. first + HeadLen(start, len) - 1
BodyBits(start, len) ==
    8 * BodyByte(start) .. 8 * TailByte(start, len) - 1
TailBits(start, len) ==
    8 * TailByte(start, len) .. 8 * TailByte(start, len) + TailLen(start, len) - 1

WalkBits(start, len) ==
    HeadBits(start, len) \cup BodyBits(start, len) \cup TailBits(start, len)

(* Where the bit of block b ends up in `res` once check_occupation has      *)
(* shifted it past every byte read later.  The first shift after the head   *)
(* is by the head's length, every other one by 8, the last by the tail's.   *)
AccPosition(start, len, b) ==
    LET body == BodyLen(start, len)
        tail == TailLen(start, len)
    IN  IF b < 8 * BodyByte(start)
        THEN (b % 8) + tail +
             (IF body = 0 THEN 0 ELSE HeadLen(start, len) + 8 * (body - 1))
        ELSE IF b < 8 * TailByte(start, len)
        THEN (b % 8) + tail + 8 * (TailByte(start, len) - 1 - (b \div 8))
        ELSE b % 8

(* Mutant: only the first byte of the window is examined.                   *)
check_occupation_FirstByte(start, len) ==
    /\ ~bit_bounds_check(start, len)
    /\ WalkBits(start, least(len, 8)) \cap used # {}

(* check_occupation(start, len) # 0: some examined block is used, and its   *)
(* bit has not been shifted out of the accumulator.                         *)
check_occupation(start, len) ==
    /\ ~bit_bounds_check(start, len)
    /\ LET seen == least(len, WindowBits)
       IN  \E b \in WalkBits(start, seen) \cap used :
                AccPosition(start, seen, b) < AccBits

bit_on(start, len) ==
    IF bit_bounds_check(start, len) THEN used ELSE used \cup WalkBits(start, len)

(* Mutant: the bits of the last, incomplete byte stay set.                  *)
bit_off_NoTail(start, len) ==
    IF bit_bounds_check(start, len) THEN used
    ELSE used \ (HeadBits(start, len) \cup BodyBits(start, len))

bit_off(start, len) ==
    IF bit_bounds_check(start, len) THEN used ELSE used \ WalkBits(start, len)

-----------------------------------------------------------------------------
(* Nodes and calls.                                                        *)

NoNode == [kind |-> "none", start |-> 0, size |-> 0]
Managed(start, size) == [kind |-> "managed", start |-> start, size |-> size]
Unmanaged(size) == [kind |-> "unmanaged", start |-> 0, size |-> size]

Idle == [at |-> "idle"]
Entering(s, n) == [at |-> "acquire", slot |-> s, size |-> n]
Probing(s, n, p) == [at |-> "probe", slot |-> s, size |-> n, start |-> p]
Dropping(s) == [at |-> "drop", slot |-> s]

(* The blocks of the slab a node's memory lies in.                          *)
BlocksOf(nd) ==
    IF nd.kind = "managed" THEN nd.start .. nd.start + block_size(nd.size) - 1
    ELSE {}

Init ==
    /\ used = {}
    /\ lock = FALSE
    /\ node = [s \in Slots |-> NoNode]
    /\ call = Idle

(* allocate is entered.                                                     *)
Allocate(s, n) ==
    /\ call = Idle
    /\ node[s].kind = "none"
    /\ call' = Entering(s, n)
    /\ UNCHANGED <<used, lock, node>>

(* acquire: the spin loop ends once the flag is found clear.                *)
Acquire ==
    /\ call.at = "acquire"
    /\ ~lock
    /\ lock' = TRUE
    /\ call' = Probing(call.slot, call.size, 0)
    /\ UNCHANGED <<used, node>>

(* Mutants: the search skips a window; the search stays where it is.        *)
ProbeNext_Skips ==
    /\ call.at = "probe"
    /\ check_occupation(call.start, block_size(call.size))
    /\ call' = Probing(call.slot, call.size, call.start + 2 * block_size(call.size))
    /\ UNCHANGED <<used, lock, node>>
ProbeNext_Stays ==
    /\ call.at = "probe"
    /\ check_occupation(call.start, block_size(call.size))
    /\ UNCHANGED vars

(* One turn of the loop of get_free_block_index: the window at start is     *)
(* occupied, try the next one.                                              *)
ProbeNext ==
    /\ call.at = "probe"
    /\ check_occupation(call.start, block_size(call.size))
    /\ call' = Probing(call.slot, call.size, call.start + block_size(call.size))
    /\ UNCHANGED <<used, lock, node>>

(* Mutant: the node keeps its size in blocks instead of bytes.              *)
AllocateManaged_InBlocks ==
    /\ call.at = "probe"
    /\ ~check_occupation(call.start, block_size(call.size))
    /\ call.start + block_size(call.size) <= LimitBlocks
    /\ used' = bit_on(call.start, block_size(call.size))
    /\ lock' = FALSE
    /\ node' = [node EXCEPT ![call.slot] = Managed(call.start, block_size(call.size))]
    /\ call' = Idle

(* The loop ended inside the slab: mark the blocks and return a node.       *)
AllocateManaged ==
    /\ call.at = "probe"
    /\ ~check_occupation(call.start, block_size(call.size))
    /\ call.start + block_size(call.size) <= LimitBlocks
    /\ used' = bit_on(call.start, block_size(call.size))
    /\ lock' = FALSE
    /\ node' = [node EXCEPT ![call.slot] = Managed(call.start, call.size)]
    /\ call' = Idle

(* The loop ended past the slab: the node gets memory of its own.           *)
AllocateUnmanaged ==
    /\ call.at = "probe"
    /\ ~check_occupation(call.start, block_size(call.size))
    /\ call.start + block_size(call.size) > LimitBlocks
    /\ lock' = FALSE
    /\ node' = [node EXCEPT ![call.slot] = Unmanaged(call.size)]
    /\ call' = Idle
    /\ UNCHANGED used

(* A node is dropped: an unmanaged one frees its memory, a managed one      *)
(* calls deallocate, which takes the lock, clears the bits and releases it. *)
DropUnmanaged(s) ==
    /\ call = Idle
    /\ node[s].kind = "unmanaged"
    /\ node' = [node EXCEPT ![s] = NoNode]
    /\ UNCHANGED <<used, lock, call>>

DropManaged(s) ==
    /\ call = Idle
    /\ node[s].kind = "managed"
    /\ call' = Dropping(s)
    /\ UNCHANGED <<used, lock, node>>

Deallocate ==
    /\ call.at = "drop"
    /\ ~lock
    /\ used' = bit_off(node[call.slot].start, block_size(node[call.slot].size))
    /\ node' = [node EXCEPT ![call.slot] = NoNode]
    /\ call' = Idle
    /\ UNCHANGED lock

(* The code inside a call, as opposed to the client's decision to make one. *)
Progress == Acquire \/ ProbeNext \/ AllocateManaged \/ AllocateUnmanaged \/ Deallocate

Next ==
    \/ \E s \in Slots, n \in Sizes : Allocate(s, n)
    \/ \E s \in Slots : DropUnmanaged(s) \/ DropManaged(s)
    \/ Progress

Spec == Init /\ [][Next]_vars
FairSpec == Spec /\ WF_vars(Progress)

-----------------------------------------------------------------------------
(* Properties.                                                             *)

Nodes ==
    {NoNode} \cup [kind : {"managed"}, start : 0 .. LimitBlocks, size : Sizes]
             \cup [kind : {"unmanaged"}, start : {0}, size : Sizes]
Calls ==
    {Idle} \cup [at : {"acquire"}, slot : Slots, size : Sizes]
           \cup [at : {"probe"}, slot : Slots, size : Sizes, start : Nat]
           \cup [at : {"drop"}, slot : Slots]

(* Type correctness: only blocks 0..254 are ever marked (block 255 exists   *)
(* in the bitmap and is never handed out), nodes lie in the slab.           *)
TypeOK ==
    /\ used \subseteq 0 .. LimitBlocks - 1
    /\ lock \in BOOLEAN
    /\ node \in [Slots -> Nodes]
    /\ call \in Calls

(* No two nodes the client holds share a block of the slab: what is written *)
(* through one slice is never seen through another (as_mut_slice).          *)
LiveNodesDisjoint ==
    \A s, t \in Slots : s # t => BlocksOf(node[s]) \cap BlocksOf(node[t]) = {}

(* The bitmap is exactly the blocks of the nodes held: bit_on marks every   *)
(* block of a node, bit_off clears every one of them and no other, whatever *)
(* the alignment of the run inside its bytes.  Nothing leaks.               *)
UsedIsHeld == used = UNION {BlocksOf(node[s]) : s \in Slots}

(* Memory of its own is given out only when no window at a multiple of the  *)
(* request is entirely free: the search never skips one.                    *)
FallsBackOnlyWhenFull ==
    [][AllocateUnmanaged =>
         LET len == block_size(call.size)
         IN  \A k \in 0 .. LimitBlocks \div len :
                k * len + len <= LimitBlocks =>
                    (k * len .. k * len + len - 1) \cap used # {}]_vars

(* Every request fits the 64-bit window of check_occupation (16 MB).        *)
RequestsFitWindow == \A n \in Sizes : block_size(n) <= WindowBits

(* A window accepted by the search is blank: none of its blocks is in use   *)
(* when AllocateManaged hands it out (test comment: "Basic search for a     *)
(* blank allocation").                                                      *)
SearchFindsBlank ==
    [][AllocateManaged =>
         (call.start .. call.start + block_size(call.size) - 1) \cap used = {}]_vars

(* The client sees an allocator: whatever the steps of a call, a node gets  *)
(* a run of blocks nobody has, of the length asked for, or memory of its    *)
(* own, and it keeps that until it is dropped.                              *)
Client == INSTANCE Allocator WITH Blocks <- LimitBlocks, held <- node
IsAllocator == Client!Spec

(* Every call returns: the search ends and the lock is always free again.   *)
CallsReturn == call # Idle ~> call = Idle

=============================================================================
