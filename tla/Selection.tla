------------------------------ MODULE Selection ------------------------------
(* Elements of a set or of a sequence in the order of their numbers: what   *)
(* a loop over a Vec that keeps some of its elements, one that adds them    *)
(* up, and a sort by a key come to.                                         *)
EXTENDS Integers, Sequences, FiniteSets

(* The n-th of S in a strict order, given as a set of pairs.                *)
RankIn(S, R, x) == Cardinality({y \in S : <<y, x>> \in R})
NthIn(S, R, n) == CHOOSE x \in S : RankIn(S, R, x) = n - 1

(* The n-th smallest of a set of numbers.                                   *)
Nth(S, n) == CHOOSE i \in S : Cardinality({h \in S : h < i}) = n - 1

(* The elements of s at the positions in P, in their order.                 *)
Kept(s, P) == [n \in 1 .. Cardinality(P) |-> s[Nth(P, n)]]

(* What lies between the separators of a sequence, before the first of them *)
(* and after the last (str::split).                                         *)
Pieces(s, sep) ==
    LET at == {k \in 1 .. Len(s) : s[k] = sep}
        ends == [n \in 0 .. Cardinality(at) + 1 |->
                    IF n = 0 THEN 0 ELSE IF n <= Cardinality(at) THEN Nth(at, n) ELSE Len(s) + 1]
    IN  [n \in 1 .. Cardinality(at) + 1 |-> SubSeq(s, ends[n - 1] + 1, ends[n] - 1)]

(* The running sums of a sequence of numbers: Sums(h)[n] adds the first n.  *)
Sums(h) ==
    LET sum[n \in 0 .. Len(h)] == IF n = 0 THEN 0 ELSE sum[n - 1] + h[n]
    IN  sum

(* Their sum.                                                               *)
Total(h) == Sums(h)[Len(h)]
=============================================================================
