----------------------------- MODULE MCFreeList -----------------------------
(* Instances of FreeList for TLC.  The block count, the window and the      *)
(* block size are those of the code; only the client is bounded.            *)
EXTENDS FreeList

(* Requests the 64-bit window covers: nothing, a run that lies inside a     *)
(* byte or across two and ends inside a block, and the largest one; four of *)
(* the largest exceed the slab.                                             *)
SmallSizes == {0, 2 * BlockBytes + 1, 64 * BlockBytes}

(* One request the window covers and one it does not: at the second probe    *)
(* of the large one, only 64 of its 100 blocks are examined.                 *)
LargeSizes == {30 * BlockBytes, 80 * BlockBytes, 100 * BlockBytes}
=============================================================================
