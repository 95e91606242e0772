--------------------------- MODULE FreeListProofs ---------------------------
(* Proofs about FreeList for every set of slots and every set of requests.  *)
EXTENDS FreeList, TLAPS

-----------------------------------------------------------------------------
(* Lemmas on the byte-wise walk.                                            *)

(* start >> 3 and start & 7 split a bit index into its byte and its bit.     *)
LEMMA DivMod8 ==
    ASSUME NEW n \in Nat
    PROVE  n \div 8 \in Nat /\ n % 8 \in 0 .. 7 /\ n = 8 * (n \div 8) + (n % 8)
OBVIOUS

(* The head, body and tail of a walk are consecutive and have len bits.      *)
LEMMA WalkParts ==
    ASSUME NEW start \in Nat, NEW len \in Nat
    PROVE  /\ HeadLen(start, len) \in 0 .. len
           /\ BodyByte(start) \in Nat
           /\ BodyLen(start, len) \in Nat
           /\ TailLen(start, len) \in 0 .. 7
           /\ TailByte(start, len) = BodyByte(start) + BodyLen(start, len)
           /\ 8 * (start \div 8) + (start % 8) = start
           /\ start % 8 \in 0 .. 7
           /\ len - HeadLen(start, len)
                = 8 * BodyLen(start, len) + TailLen(start, len)
           /\ HeadLen(start, len) < len
                => start + HeadLen(start, len) = 8 * BodyByte(start)
           /\ HeadLen(start, len) = len
                => BodyLen(start, len) = 0 /\ TailLen(start, len) = 0
           /\ start + HeadLen(start, len) <= 8 * BodyByte(start)
<1>1. /\ start = 8 * (start \div 8) + (start % 8)
      /\ start % 8 \in 0 .. 7
      /\ start \div 8 \in Nat
  OBVIOUS
<1>2. HeadLen(start, len) \in 0 .. len
  BY <1>1 DEF HeadLen, least
<1> DEFINE rest == len - HeadLen(start, len)
<1>3. rest \in Nat
  BY <1>2
<1>4. rest \div 8 \in Nat /\ rest % 8 \in 0 .. 7 /\ rest = 8 * (rest \div 8) + (rest % 8)
  BY <1>3, DivMod8
<1>5. QED
  BY <1>1, <1>2, <1>4 DEF HeadLen, least, BodyByte, BodyLen, TailLen, TailByte

(* bit_on, bit_off and check_occupation touch exactly the blocks             *)
(* start .. start + len - 1, whatever the position of start in its byte.      *)
LEMMA WalkIsRun ==
    ASSUME NEW start \in Nat, NEW len \in Nat
    PROVE  WalkBits(start, len) = start .. start + len - 1
<1> DEFINE h == HeadLen(start, len)
           b == BodyByte(start)
           m == BodyLen(start, len)
           t == TailLen(start, len)
<1>1. /\ h \in 0 .. len /\ b \in Nat /\ m \in Nat /\ t \in 0 .. 7
      /\ len - h = 8 * m + t
      /\ h < len => start + h = 8 * b
      /\ h = len => m = 0 /\ t = 0
      /\ start + h <= 8 * b
  BY WalkParts
<1>2. HeadBits(start, len) = start .. start + h - 1
  BY WalkParts DEF HeadBits
<1>3. BodyBits(start, len) = 8 * b .. 8 * (b + m) - 1
  BY DEF BodyBits, TailByte
<1>4. TailBits(start, len) = 8 * (b + m) .. 8 * (b + m) + t - 1
  BY DEF TailBits, TailByte
<1> HIDE DEF h, b, m, t
<1>5. (start .. start + h - 1) \cup (8 * b .. 8 * (b + m) - 1)
        \cup (8 * (b + m) .. 8 * (b + m) + t - 1) = start .. start + len - 1
  BY <1>1
<1>6. QED
  BY <1>2, <1>3, <1>4, <1>5 DEF WalkBits

(* The accumulator of check_occupation is wide enough for the window: no     *)
(* examined bit is shifted out.  With a longer window one could be.          *)
LEMMA AccHolds ==
    ASSUME NEW start \in Nat, NEW len \in 0 .. WindowBits,
           NEW blk \in start .. start + len - 1
    PROVE  AccPosition(start, len, blk) < AccBits
<1> DEFINE h == HeadLen(start, len)
           b == BodyByte(start)
           m == BodyLen(start, len)
           t == TailLen(start, len)
           r == blk % 8
           q == blk \div 8
<1>1. /\ h \in 0 .. len /\ b \in Nat /\ m \in Nat /\ t \in 0 .. 7
      /\ len - h = 8 * m + t
      /\ h < len => start + h = 8 * b
  BY WalkParts DEF WindowBits
<1>2. /\ r \in 0 .. 7 /\ q \in Nat /\ blk = 8 * q + r
      /\ blk \in Nat
  BY DEF WindowBits
<1>3. AccPosition(start, len, blk) =
        IF blk < 8 * b THEN r + t + (IF m = 0 THEN 0 ELSE h + 8 * (m - 1))
        ELSE IF blk < 8 * (b + m) THEN r + t + 8 * (b + m - 1 - q)
        ELSE r
  BY <1>1, <1>2 DEF AccPosition, TailByte
<1>4. len <= 64
  BY DEF WindowBits
<1> HIDE DEF h, b, m, t, r, q
<1>5. CASE blk < 8 * b
  BY <1>1, <1>2, <1>3, <1>4, <1>5 DEF AccBits
<1>6. CASE ~(blk < 8 * b) /\ blk < 8 * (b + m)
  BY <1>1, <1>2, <1>3, <1>4, <1>6 DEF AccBits
<1>7. CASE ~(blk < 8 * b) /\ ~(blk < 8 * (b + m))
  BY <1>1, <1>2, <1>3, <1>4, <1>7 DEF AccBits
<1>8. QED
  BY <1>5, <1>6, <1>7

(* block_size of a size is a number of blocks.                              *)
LEMMA BlockSizeNat ==
    ASSUME NEW n \in Nat
    PROVE  block_size(n) \in Nat
BY DEF block_size, BlockBytes

-----------------------------------------------------------------------------
(* The invariant and its proof.                                             *)

(* A window the search accepts has none of its blocks in use: the 64 bits   *)
(* examined are the whole window when the request fits in it.               *)
LEMMA AcceptedIsBlank ==
    ASSUME NEW start \in Nat, NEW len \in 0 .. WindowBits,
           start + len <= LimitBlocks, ~check_occupation(start, len)
    PROVE  (start .. start + len - 1) \cap used = {}
<1>1. CASE len = 0
  BY <1>1
<1>2. CASE len # 0
  <2>1. len \in Nat /\ ~bit_bounds_check(start, len) /\ least(len, WindowBits) = len
    BY <1>2 DEF bit_bounds_check, LimitBlocks, WindowBits, least
  <2>2. \A b \in WalkBits(start, len) \cap used : ~(AccPosition(start, len, b) < AccBits)
    BY <2>1 DEF check_occupation
  <2>3. WalkBits(start, len) = start .. start + len - 1
    BY <2>1, WalkIsRun
  <2>4. \A b \in start .. start + len - 1 : AccPosition(start, len, b) < AccBits
    BY AccHolds
  <2>5. QED
    BY <2>2, <2>3, <2>4
<1>3. QED
  BY <1>1, <1>2

(* Marking and clearing the blocks of a node changes exactly those bits.    *)
LEMMA BitsOfNode ==
    ASSUME NEW start \in Nat, NEW len \in Nat, start + len <= LimitBlocks
    PROVE  /\ bit_on(start, len) = used \cup (start .. start + len - 1)
           /\ bit_off(start, len) = used \ (start .. start + len - 1)
<1>1. CASE len = 0
  BY <1>1 DEF bit_on, bit_off, bit_bounds_check
<1>2. CASE len # 0
  <2>1. ~bit_bounds_check(start, len)
    BY <1>2 DEF bit_bounds_check, LimitBlocks
  <2>2. QED
    BY <2>1, WalkIsRun DEF bit_on, bit_off
<1>3. QED
  BY <1>1, <1>2

(* Every managed node lies in the blocks the bitmap can mark.               *)
NodesFit ==
    \A s \in Slots : node[s].kind = "managed" =>
        node[s].start + block_size(node[s].size) <= LimitBlocks

(* A drop in progress is of a managed node.                                 *)
DropsManaged == call.at = "drop" => node[call.slot].kind = "managed"

(* The slot of an allocation in progress is empty.                          *)
FillsEmpty == call.at \in {"acquire", "probe"} => node[call.slot].kind = "none"

IInv == TypeOK /\ NodesFit /\ DropsManaged /\ FillsEmpty /\ UsedIsHeld /\ LiveNodesDisjoint

(* FreeList::new gives a state that satisfies the invariant.                *)
LEMMA InitIInv == Init => IInv
<1> SUFFICES ASSUME Init PROVE IInv
  OBVIOUS
<1>1. TypeOK
  BY DEF Init, TypeOK, Nodes, Calls
<1>2. \A s \in Slots : node[s].kind = "none" /\ BlocksOf(node[s]) = {}
  BY ZenonT(30) DEF Init, NoNode, BlocksOf
<1>3. call.at = "idle"
  BY DEF Init, Idle
<1>4. QED
  BY <1>1, <1>2, <1>3 DEF Init, IInv, NodesFit, DropsManaged, FillsEmpty, UsedIsHeld, LiveNodesDisjoint

(* What TypeOK says of the fields of a node and of a call.                  *)
LEMMA Typing ==
    ASSUME TypeOK
    PROVE  /\ \A s \in Slots :
                /\ node[s].kind \in {"none", "managed", "unmanaged"}
                /\ node[s].start \in 0 .. LimitBlocks
                /\ node[s].kind # "none" => node[s].size \in Sizes
                /\ node[s].size \in Nat
           /\ call.at \in {"idle", "acquire", "probe", "drop"}
           /\ call.at = "idle" <=> call = Idle
           /\ call.at # "idle" => call.slot \in Slots
           /\ call.at \in {"acquire", "probe"} => call.size \in Sizes
           /\ call.at = "probe" => call.start \in Nat
<1>1. ASSUME NEW nd \in Nodes
      PROVE  /\ nd.kind \in {"none", "managed", "unmanaged"}
             /\ nd.start \in 0 .. LimitBlocks
             /\ nd.kind # "none" => nd.size \in Sizes
             /\ nd.size \in Nat
  <2>1. CASE nd = NoNode
    BY <2>1 DEF NoNode, LimitBlocks
  <2>2. CASE nd \in [kind : {"managed"}, start : 0 .. LimitBlocks, size : Sizes]
    BY <2>2, SizesAssumption
  <2>3. CASE nd \in [kind : {"unmanaged"}, start : {0}, size : Sizes]
    <3>1. nd.kind = "unmanaged" /\ nd.start = 0 /\ nd.size \in Sizes
      BY <2>3
    <3>2. nd.start \in 0 .. LimitBlocks
      BY <3>1 DEF LimitBlocks
    <3>3. nd.size \in Nat
      BY <3>1, SizesAssumption
    <3>4. QED
      BY <3>1, <3>2, <3>3
  <2>4. QED
    BY <2>1, <2>2, <2>3 DEF Nodes
<1>2. ASSUME NEW c \in Calls
      PROVE  /\ c.at \in {"idle", "acquire", "probe", "drop"}
             /\ c.at = "idle" <=> c = Idle
             /\ c.at # "idle" => c.slot \in Slots
             /\ c.at \in {"acquire", "probe"} => c.size \in Sizes
             /\ c.at = "probe" => c.start \in Nat
  <2>1. CASE c = Idle
    BY <2>1 DEF Idle
  <2>2. CASE c \in [at : {"acquire"}, slot : Slots, size : Sizes]
    BY <2>2 DEF Idle
  <2>3. CASE c \in [at : {"probe"}, slot : Slots, size : Sizes, start : Nat]
    BY <2>3 DEF Idle
  <2>4. CASE c \in [at : {"drop"}, slot : Slots]
    BY <2>4 DEF Idle
  <2>5. QED
    BY <2>1, <2>2, <2>3, <2>4 DEF Calls
<1>3. QED
  BY <1>1, <1>2 DEF TypeOK

(* Steps that leave the bitmap and the nodes alone.                         *)
LEMMA CallSteps ==
    ASSUME IInv,
           \/ \E s \in Slots, n \in Sizes : Allocate(s, n)
           \/ \E s \in Slots : DropManaged(s)
           \/ Acquire \/ ProbeNext
    PROVE  IInv'
<1>1. UNCHANGED <<used, node>>
  BY DEF Allocate, DropManaged, Acquire, ProbeNext
<1>2. lock' \in BOOLEAN
  BY DEF Allocate, DropManaged, Acquire, ProbeNext, IInv, TypeOK
<1>3. /\ call' \in Calls
      /\ call'.at = "drop" => node[call'.slot].kind = "managed"
      /\ call'.at \in {"acquire", "probe"} => node[call'.slot].kind = "none"
  <2>1. CASE \E s \in Slots, n \in Sizes : Allocate(s, n)
    BY <2>1 DEF Allocate, Entering, Calls
  <2>2. CASE \E s \in Slots : DropManaged(s)
    BY <2>2 DEF DropManaged, Dropping, Calls
  <2>3. CASE Acquire
    BY <2>3, Typing DEF Acquire, Probing, Calls, IInv, FillsEmpty
  <2>4. CASE ProbeNext
    <3>1. block_size(call.size) \in Nat
      BY <2>4, Typing, BlockSizeNat, SizesAssumption DEF ProbeNext, IInv
    <3>2. call' = Probing(call.slot, call.size, call.start + block_size(call.size))
      BY <2>4 DEF ProbeNext
    <3>3. /\ call.slot \in Slots /\ call.size \in Sizes
          /\ call.start + block_size(call.size) \in Nat /\ node[call.slot].kind = "none"
      BY <2>4, <3>1, Typing DEF ProbeNext, IInv, FillsEmpty
    <3>4. QED
      BY <3>2, <3>3 DEF Probing, Calls
  <2>5. QED
    BY <2>1, <2>2, <2>3, <2>4
<1>4. QED
  BY <1>1, <1>2, <1>3 DEF IInv, TypeOK, NodesFit, DropsManaged, FillsEmpty,
     UsedIsHeld, LiveNodesDisjoint

(* A node without blocks appears or goes: the bitmap is untouched.          *)
LEMMA UnmanagedSteps ==
    ASSUME IInv, AllocateUnmanaged \/ \E s \in Slots : DropUnmanaged(s)
    PROVE  IInv'
<1>1. PICK s \in Slots, nd \in Nodes :
        /\ node[s].kind # "managed" /\ nd.kind # "managed"
        /\ node' = [node EXCEPT ![s] = nd]
  <2>1. CASE AllocateUnmanaged
    <3>1. /\ call.slot \in Slots /\ node[call.slot].kind # "managed"
          /\ Unmanaged(call.size) \in Nodes /\ Unmanaged(call.size).kind # "managed"
      BY <2>1, Typing DEF AllocateUnmanaged, IInv, FillsEmpty, Nodes, Unmanaged
    <3>2. QED
      BY <2>1, <3>1 DEF AllocateUnmanaged
  <2>2. CASE \E s \in Slots : DropUnmanaged(s)
    BY <2>2 DEF DropUnmanaged, Nodes, NoNode
  <2>3. QED
    BY <2>1, <2>2
<1>2. used' = used /\ call' = Idle /\ lock' \in BOOLEAN
  BY DEF AllocateUnmanaged, DropUnmanaged, IInv, TypeOK
<1>3. node' \in [Slots -> Nodes]
  BY <1>1 DEF IInv, TypeOK
<1>4. \A t \in Slots : BlocksOf(node'[t]) = BlocksOf(node[t])
  BY <1>1 DEF BlocksOf, IInv, TypeOK
<1>5. \A t \in Slots : node'[t].kind = "managed" => node'[t] = node[t]
  BY <1>1 DEF IInv, TypeOK
<1>6. QED
  BY <1>2, <1>3, <1>4, <1>5 DEF IInv, TypeOK, Calls, Idle, NodesFit, DropsManaged, FillsEmpty,
     UsedIsHeld, LiveNodesDisjoint

(* deallocate clears the blocks of the node dropped and no other: the other *)
(* nodes are disjoint from it.                                              *)
LEMMA DeallocateStep ==
    ASSUME IInv, Deallocate
    PROVE  IInv'
<1> DEFINE s == call.slot
           start == node[s].start
           len == block_size(node[s].size)
<1>1. /\ s \in Slots /\ node[s].kind = "managed"
      /\ start \in Nat /\ len \in Nat /\ start + len <= LimitBlocks
  BY Typing, BlockSizeNat, SMTT(30) DEF IInv, DropsManaged, NodesFit, Deallocate, LimitBlocks
<1>2. used' = used \ BlocksOf(node[s])
  BY <1>1, BitsOfNode DEF Deallocate, BlocksOf
<1>3. node' = [node EXCEPT ![s] = NoNode] /\ call' = Idle /\ lock' = lock
  BY DEF Deallocate
<1>4. node' \in [Slots -> Nodes]
  BY <1>3 DEF Nodes, IInv, TypeOK
<1>5. /\ BlocksOf(node'[s]) = {}
      /\ \A t \in Slots \ {s} : node'[t] = node[t]
  BY <1>1, <1>3 DEF BlocksOf, NoNode, IInv, TypeOK
<1>6. NodesFit'
  BY <1>1, <1>3, <1>5 DEF NodesFit, NoNode, IInv, TypeOK
<1>7. used' = UNION {BlocksOf(node'[t]) : t \in Slots}
  BY <1>1, <1>2, <1>5 DEF IInv, UsedIsHeld, LiveNodesDisjoint
<1>8. LiveNodesDisjoint'
  BY <1>5 DEF IInv, LiveNodesDisjoint
<1>9. QED
  BY <1>2, <1>3, <1>4, <1>6, <1>7, <1>8 DEF IInv, TypeOK, Calls, Idle, DropsManaged,
     FillsEmpty, UsedIsHeld

(* allocate hands out a window that was blank, and marks all of it.         *)
LEMMA AllocateStep ==
    ASSUME RequestsFitWindow, IInv, AllocateManaged
    PROVE  IInv'
<1> DEFINE s == call.slot
           start == call.start
           len == block_size(call.size)
           nd == Managed(start, call.size)
<1>1. /\ s \in Slots /\ node[s].kind = "none" /\ call.size \in Sizes
      /\ start \in Nat /\ len \in Nat /\ start + len <= LimitBlocks
  BY Typing, BlockSizeNat, SizesAssumption DEF IInv, FillsEmpty, AllocateManaged
<1>2. (start .. start + len - 1) \cap used = {}
  <2>1. len \in 0 .. WindowBits
    BY <1>1 DEF RequestsFitWindow, WindowBits
  <2>2. QED
    BY <1>1, <2>1, AcceptedIsBlank DEF AllocateManaged
<1>3. used' = used \cup (start .. start + len - 1)
  BY <1>1, BitsOfNode DEF AllocateManaged
<1>4. node' = [node EXCEPT ![s] = nd] /\ call' = Idle /\ lock' = FALSE
  BY DEF AllocateManaged
<1>5. nd \in Nodes /\ nd.kind = "managed" /\ nd.start = start /\ nd.size = call.size
  BY <1>1 DEF Nodes, Managed, LimitBlocks
<1>6. BlocksOf(nd) = start .. start + len - 1 /\ BlocksOf(node[s]) = {}
  BY <1>1, <1>5 DEF BlocksOf
<1> HIDE DEF nd
<1>7. node' \in [Slots -> Nodes] /\ node'[s] = nd /\ \A t \in Slots \ {s} : node'[t] = node[t]
  BY <1>1, <1>4, <1>5 DEF IInv, TypeOK
<1>8. used' = UNION {BlocksOf(node'[t]) : t \in Slots}
  BY <1>1, <1>3, <1>6, <1>7 DEF IInv, UsedIsHeld
<1>9. \A t \in Slots \ {s} : BlocksOf(node'[t]) \cap BlocksOf(nd) = {}
  BY <1>2, <1>6, <1>7 DEF IInv, UsedIsHeld
<1>10. LiveNodesDisjoint'
  BY <1>7, <1>9 DEF IInv, LiveNodesDisjoint
<1>11. used' \subseteq 0 .. LimitBlocks - 1
  <2>1. used \subseteq 0 .. LimitBlocks - 1
    BY DEF IInv, TypeOK
  <2>2. (start .. start + len - 1) \subseteq 0 .. LimitBlocks - 1
    BY <1>1 DEF LimitBlocks
  <2>3. QED
    BY <1>3, <2>1, <2>2
<1>12. NodesFit'
  BY <1>1, <1>5, <1>7 DEF IInv, NodesFit
<1>13. QED
  BY <1>4, <1>7, <1>8, <1>10, <1>11, <1>12 DEF IInv, TypeOK, Calls, Idle, DropsManaged,
     FillsEmpty, UsedIsHeld

(* Every step preserves the invariant when requests fit the window.         *)
LEMMA NextIInv ==
    ASSUME RequestsFitWindow, IInv, [Next]_vars
    PROVE  IInv'
<1>1. CASE UNCHANGED vars
  BY <1>1 DEF vars, IInv, TypeOK, NodesFit, DropsManaged, FillsEmpty, UsedIsHeld, LiveNodesDisjoint
<1>2. CASE Next
  BY <1>2, CallSteps, UnmanagedSteps, DeallocateStep, AllocateStep DEF Next, Progress
<1>3. QED
  BY <1>1, <1>2

(* For every set of slots and of requests of at most 64 blocks, the nodes   *)
(* the client holds never share a block and the bitmap is exact.            *)
THEOREM FreeListSafe ==
    ASSUME RequestsFitWindow
    PROVE  Spec => [](TypeOK /\ LiveNodesDisjoint /\ UsedIsHeld)
<1>1. Init => IInv
  BY InitIInv
<1>2. IInv /\ [Next]_vars => IInv'
  BY NextIInv
<1>3. IInv => TypeOK /\ LiveNodesDisjoint /\ UsedIsHeld
  BY DEF IInv
<1>4. QED
  BY <1>1, <1>2, <1>3, PTL DEF Spec

(* A window the search accepts is blank whenever requests fit the window.   *)
THEOREM SearchIsSound ==
    ASSUME RequestsFitWindow
    PROVE  Spec => SearchFindsBlank
<1> DEFINE Blank == AllocateManaged =>
             (call.start .. call.start + block_size(call.size) - 1) \cap used = {}
<1>1. ASSUME IInv, [Next]_vars
      PROVE  [Blank]_vars
  <2>1. SUFFICES ASSUME AllocateManaged
                 PROVE  (call.start .. call.start + block_size(call.size) - 1) \cap used = {}
    OBVIOUS
  <2>2. /\ call.start \in Nat /\ block_size(call.size) \in 0 .. WindowBits
        /\ call.start + block_size(call.size) <= LimitBlocks
    <3>1. call.start \in Nat /\ call.size \in Sizes /\ call.size \in Nat
      BY <1>1, <2>1, Typing, SizesAssumption DEF IInv, AllocateManaged
    <3>2. block_size(call.size) \in 0 .. WindowBits
      BY <3>1, BlockSizeNat DEF RequestsFitWindow, WindowBits
    <3>3. QED
      BY <2>1, <3>1, <3>2 DEF AllocateManaged
  <2>3. QED
    BY <2>1, <2>2, AcceptedIsBlank DEF AllocateManaged
<1>2. Init => IInv
  BY InitIInv
<1>3. IInv /\ [Next]_vars => IInv'
  BY NextIInv
<1>4. QED
  BY <1>1, <1>2, <1>3, PTL DEF Spec, SearchFindsBlank

(* The nodes of an allocator's state are the nodes of FreeList.             *)
LEMMA RunIsBlocks == ASSUME NEW nd PROVE Client!Run(nd) = BlocksOf(nd)
BY DEF Client!Run, BlocksOf, block_size

(* allocate hands out blocks of the slab: a blank run, in one step.         *)
LEMMA ManagedGives ==
    ASSUME RequestsFitWindow, IInv, AllocateManaged
    PROVE  Client!Give(call.slot)
<1> DEFINE s == call.slot
           new == Managed(call.start, call.size)
<1>1. /\ s \in Slots /\ node[s].kind = "none" /\ call.size \in Sizes
      /\ call.start \in Nat /\ block_size(call.size) \in 0 .. WindowBits
      /\ call.start + block_size(call.size) <= LimitBlocks
  <2>1. /\ s \in Slots /\ node[s].kind = "none" /\ call.size \in Sizes
        /\ call.start \in Nat /\ call.size \in Nat
    BY Typing, SizesAssumption DEF IInv, FillsEmpty, AllocateManaged
  <2>2. block_size(call.size) \in 0 .. WindowBits
    BY <2>1, BlockSizeNat DEF RequestsFitWindow, WindowBits
  <2>3. QED
    BY <2>1, <2>2 DEF AllocateManaged
<1>2. BlocksOf(new) = call.start .. call.start + block_size(call.size) - 1
  BY DEF BlocksOf, Managed
<1>3. BlocksOf(new) \cap used = {}
  BY <1>1, <1>2, AcceptedIsBlank DEF AllocateManaged
<1>4. BlocksOf(new) \subseteq 0 .. LimitBlocks - 1
  <2>1. \A a, n \in Nat : a + n <= 255 => (a .. a + n - 1) \subseteq 0 .. 255 - 1
    OBVIOUS
  <2>2. block_size(call.size) \in Nat
    BY <1>1 DEF WindowBits
  <2>3. QED
    BY <1>1, <1>2, <2>1, <2>2, ZenonT(30) DEF LimitBlocks
<1>5. \A t \in Slots : BlocksOf(node[t]) \cap BlocksOf(new) = {}
  BY <1>3 DEF IInv, UsedIsHeld
<1>6. node' = [node EXCEPT ![s] = new] /\ node'[s] = new
  BY <1>1 DEF AllocateManaged, IInv, TypeOK
<1>7. new.size = call.size /\ new = Client!OfSlab(new.start, new.size)
  BY DEF Managed, Client!OfSlab
<1> HIDE DEF new
<1>8. QED
  BY <1>1, <1>4, <1>5, <1>6, <1>7, RunIsBlocks DEF Client!Give

(* Memory of its own is given as well in one step.                          *)
LEMMA UnmanagedGives ==
    ASSUME IInv, AllocateUnmanaged
    PROVE  Client!Give(call.slot)
<1> DEFINE s == call.slot
           new == Unmanaged(call.size)
<1>1. s \in Slots /\ node[s].kind = "none" /\ call.size \in Sizes
  BY Typing DEF IInv, FillsEmpty, AllocateUnmanaged
<1>2. node' = [node EXCEPT ![s] = new] /\ node'[s] = new
  BY <1>1 DEF AllocateUnmanaged, IInv, TypeOK
<1>3. new.size = call.size /\ new = Client!OfItsOwn(new.size) /\ Client!Run(new) = {}
  BY DEF Unmanaged, Client!OfItsOwn, Client!Run
<1> HIDE DEF new
<1>4. QED
  BY <1>1, <1>2, <1>3 DEF Client!Give

(* Every step of the code gives one node, takes one back, or does nothing   *)
(* the client can see.                                                      *)
LEMMA StepIsAllocators ==
    ASSUME RequestsFitWindow, IInv, [Next]_vars
    PROVE  [Client!Next]_node
<1>1. CASE UNCHANGED vars \/ Acquire \/ ProbeNext \/ (\E s \in Slots : DropManaged(s))
            \/ (\E s \in Slots, n \in Sizes : Allocate(s, n))
  BY <1>1 DEF vars, Acquire, ProbeNext, DropManaged, Allocate
<1>2. CASE AllocateManaged
  BY <1>2, ManagedGives, Typing DEF Client!Next, IInv, AllocateManaged
<1>3. CASE AllocateUnmanaged
  BY <1>3, UnmanagedGives, Typing DEF Client!Next, IInv, AllocateUnmanaged
<1>4. CASE \E s \in Slots : DropUnmanaged(s)
  BY <1>4 DEF DropUnmanaged, Client!Next, Client!TakeBack, NoNode, Client!Nothing
<1>5. CASE Deallocate
  <2>1. call.slot \in Slots /\ node[call.slot].kind = "managed"
    BY <1>5, Typing DEF Deallocate, IInv, DropsManaged
  <2>2. Client!TakeBack(call.slot)
    BY <1>5, <2>1 DEF Deallocate, Client!TakeBack, NoNode, Client!Nothing
  <2>3. QED
    BY <2>1, <2>2 DEF Client!Next
<1>6. QED
  BY <1>1, <1>2, <1>3, <1>4, <1>5 DEF Next, Progress

(* FreeList implements the allocator, for every set of slots and of         *)
(* requests of at most 64 blocks.                                           *)
THEOREM FreeListIsAllocator ==
    ASSUME RequestsFitWindow
    PROVE  Spec => IsAllocator
<1>1. Init => IInv /\ Client!Init
  BY InitIInv DEF Init, NoNode, Client!Init, Client!Nothing
<1>2. IInv /\ [Next]_vars => IInv' /\ [Client!Next]_node
  BY NextIInv, StepIsAllocators
<1>3. QED
  BY <1>1, <1>2, PTL DEF Spec, IsAllocator, Client!Spec

-----------------------------------------------------------------------------
(* The search is complete.                                                  *)

Window(k, len) == k * len .. k * len + len - 1

(* Every window before the one that is probed is in use.                    *)
Searched ==
    call.at = "probe" =>
        LET len == block_size(call.size) IN
        /\ \E m \in Nat : call.start = m * len
        /\ \A k \in Nat : k * len < call.start => Window(k, len) \cap used # {}

(* A window that is refused has a block in use, or is none.                 *)
LEMMA RefusedIsUsed ==
    ASSUME NEW start \in Nat, NEW len \in Nat, check_occupation(start, len)
    PROVE  len > 0 /\ (start .. start + len - 1) \cap used # {}
<1>1. ~bit_bounds_check(start, len)
  BY DEF check_occupation
<1>2. len > 0
  BY <1>1 DEF bit_bounds_check
<1>3. least(len, WindowBits) \in 0 .. len
  BY DEF least, WindowBits
<1>4. PICK b \in used : b \in WalkBits(start, least(len, WindowBits))
  BY DEF check_occupation
<1>5. b \in start .. start + len - 1
  <2>1. PICK seen \in 0 .. len : seen = least(len, WindowBits)
    BY <1>3
  <2>2. WalkBits(start, seen) = start .. start + seen - 1
    BY WalkIsRun
  <2>3. b \in start .. start + seen - 1
    BY <1>4, <2>1, <2>2
  <2>4. QED
    BY <2>1, <2>3
<1>6. QED
  BY <1>2, <1>4, <1>5

(* Multiples of len in order.                                               *)
LEMMA Multiples ==
    ASSUME NEW len \in Nat, NEW m \in Nat, NEW k \in Nat
    PROVE  /\ m * len \in Nat /\ k * len \in Nat
           /\ (m + 1) * len = m * len + len
           /\ k * len < m * len + len => k <= m
           /\ k < m => k * len + len <= m * len
<1>1. m * len \in Nat /\ k * len \in Nat /\ (m + 1) * len = m * len + len
  OBVIOUS
<1>2. ASSUME k < m PROVE k * len + len <= m * len
  <2>1. PICK d \in Nat : m = k + 1 + d
    BY <1>2
  <2>2. m * len = k * len + len + d * len /\ d * len \in Nat
    BY <2>1
  <2>3. QED
    BY <1>1, <2>2
<1>3. ASSUME k * len < m * len + len PROVE k <= m
  <2>1. SUFFICES ASSUME k > m PROVE FALSE
    OBVIOUS
  <2>2. PICK d \in Nat : k = m + 1 + d
    BY <2>1
  <2>3. k * len = m * len + len + d * len /\ d * len \in Nat
    BY <2>2
  <2>4. QED
    BY <1>1, <1>3, <2>3
<1>4. QED
  BY <1>1, <1>2, <1>3

(* The search refuses one window after the other.                           *)
LEMMA ProbeSearched ==
    ASSUME IInv, Searched, ProbeNext
    PROVE  Searched'
<1> DEFINE start == call.start
           len == block_size(call.size)
<1>1. start \in Nat /\ len \in Nat
  BY Typing, BlockSizeNat, SizesAssumption DEF IInv, ProbeNext
<1>2. len > 0 /\ (start .. start + len - 1) \cap used # {}
  BY <1>1, RefusedIsUsed DEF ProbeNext
<1>3. PICK m \in Nat : start = m * len
  BY DEF Searched, ProbeNext
<1>4. \A k \in Nat : k * len < start => Window(k, len) \cap used # {}
  BY DEF Searched, ProbeNext
<1>5. /\ call'.at = "probe" /\ call'.size = call.size /\ call'.start = start + len
      /\ used' = used
  BY DEF ProbeNext, Probing
<1> HIDE DEF start, len
<1>6. start + len = (m + 1) * len
  BY <1>1, <1>3, Multiples
<1>7. ASSUME NEW k \in Nat, k * len < start + len
      PROVE  Window(k, len) \cap used # {}
  <2>1. k <= m
    BY <1>1, <1>3, <1>7, Multiples
  <2>2. CASE k = m
    BY <1>2, <1>3, <2>2 DEF Window
  <2>3. CASE k < m
    <3>1. k * len + len <= start /\ k * len \in Nat
      BY <1>1, <1>3, <2>3, Multiples
    <3>2. k * len < start
      BY <1>1, <1>2, <3>1
    <3>3. QED
      BY <1>4, <3>2
  <2>4. QED
    BY <2>1, <2>2, <2>3
<1>8. \E n \in Nat : start + len = n * len
  BY <1>6
<1>9. block_size(call'.size) = len
  BY <1>5 DEF len
<1>10. QED
  BY <1>5, <1>7, <1>8, <1>9 DEF Searched, Window

(* Every step keeps it: the bitmap does not change during a search.         *)
LEMMA NextSearched ==
    ASSUME IInv, Searched, [Next]_vars
    PROVE  Searched'
<1>1. CASE UNCHANGED vars
  BY <1>1 DEF vars, Searched, Window
<1>2. CASE ProbeNext
  BY <1>2, ProbeSearched
<1>3. CASE Acquire
  <2>1. call'.at = "probe" /\ call'.start = 0 /\ call'.size = call.size
    BY <1>3 DEF Acquire, Probing
  <2>2. block_size(call.size) \in Nat
    BY <1>3, Typing, BlockSizeNat, SizesAssumption DEF IInv, Acquire
  <2>3. 0 = 0 * block_size(call.size)
    BY <2>2
  <2>4. \A k \in Nat : ~(k * block_size(call.size) < 0)
    BY <2>2, Multiples
  <2>5. QED
    BY <2>1, <2>3, <2>4 DEF Searched
<1>4. CASE \/ AllocateManaged \/ AllocateUnmanaged \/ Deallocate
           \/ \E s \in Slots, n \in Sizes : Allocate(s, n)
           \/ \E s \in Slots : DropUnmanaged(s) \/ DropManaged(s)
  <2>1. call'.at # "probe"
    BY <1>4 DEF AllocateManaged, AllocateUnmanaged, Deallocate, Allocate, DropUnmanaged,
       DropManaged, Idle, Entering, Dropping
  <2>2. QED
    BY <2>1 DEF Searched
<1>5. QED
  BY <1>1, <1>2, <1>3, <1>4 DEF Next, Progress

(* Memory outside the slab is given out only when no window is free.        *)
THEOREM SearchIsComplete ==
    ASSUME RequestsFitWindow
    PROVE  Spec => FallsBackOnlyWhenFull
<1> DEFINE Full == AllocateUnmanaged =>
             LET len == block_size(call.size)
             IN  \A k \in 0 .. LimitBlocks \div len :
                    k * len + len <= LimitBlocks =>
                        (k * len .. k * len + len - 1) \cap used # {}
<1>1. ASSUME IInv, Searched, [Next]_vars
      PROVE  [Full]_vars
  <2>1. SUFFICES ASSUME AllocateUnmanaged PROVE Full
    OBVIOUS
  <2> DEFINE len == block_size(call.size)
  <2>2. call.start \in Nat /\ len \in Nat /\ call.start + len > LimitBlocks
    BY <1>1, <2>1, Typing, BlockSizeNat, SizesAssumption DEF IInv, AllocateUnmanaged
  <2>3. PICK m \in Nat : call.start = m * len
    BY <1>1, <2>1 DEF Searched, AllocateUnmanaged
  <2>4. \A k \in Nat : k * len < call.start => Window(k, len) \cap used # {}
    BY <1>1, <2>1 DEF Searched, AllocateUnmanaged
  <2> HIDE DEF len
  <2>5. len > 0
    <3>1. ASSUME len = 0 PROVE FALSE
      BY <2>2, <2>3, <3>1 DEF LimitBlocks
    <3>2. QED
      BY <2>2, <3>1
  <2>6. ASSUME NEW k \in Nat, k * len + len <= LimitBlocks
        PROVE  Window(k, len) \cap used # {}
    <3>1. k * len \in Nat /\ k * len < call.start
      BY <2>2, <2>6, Multiples DEF LimitBlocks
    <3>2. QED
      BY <2>4, <3>1
  <2>7. \A k \in 0 .. LimitBlocks \div len : k \in Nat
    BY <2>2, <2>5 DEF LimitBlocks
  <2>8. QED
    BY <2>6, <2>7 DEF len, Window
<1>2. Init => IInv /\ Searched
  BY InitIInv DEF Init, Idle, Searched
<1>3. IInv /\ Searched /\ [Next]_vars => IInv' /\ Searched'
  BY NextIInv, NextSearched
<1>4. QED
  BY <1>1, <1>2, <1>3, PTL DEF Spec, FallsBackOnlyWhenFull
=============================================================================
