------------------------------ MODULE Ordering ------------------------------
(* ORDER BY over a finite set of rows. The library's SetToSortSeq computes    *)
(* the same sequence through SortSeq, which is built into TLC and which the   *)
(* proof system does not know.                                                *)
EXTENDS Integers, FiniteSets

\* The members of S in a strict total order: row i has i - 1 rows before it.
SortedBy(S, before(_, _)) ==
    [i \in 1 .. Cardinality(S) |->
        CHOOSE x \in S : Cardinality({y \in S : before(y, x)}) = i - 1]
=============================================================================
