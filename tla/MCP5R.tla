------------------------------- MODULE MCP5R -------------------------------
(* Instances of P5R for TLC: registers of four, two and one bytes of a bit, *)
(* and entries one byte too short, just long enough and longer.             *)
EXTENDS P5R

MCWidth == [avx2 |-> 4, sse3 |-> 2, neon |-> 2, u64 |-> 1]
MCInputs == UNION {[1 .. n -> SUBSET {0}] : n \in {8, 9, 10}}

For(arch, features) == [arch |-> arch, features |-> features]
MCTargets ==
    {For("x86_64", {"avx2", "sse3"}), For("x86_64", {"sse3"}), For("x86_64", {}),
     For("aarch64", {"neon"})}
OtherTargets == {For("x86", {}), For("aarch64", {})}
=============================================================================
