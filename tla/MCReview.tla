------------------------------ MODULE MCReview ------------------------------
(* Instances of Review.  Facts "a", "b" and "c"; values 1 and 2.            *)
EXTENDS Review, TLC

CONSTANTS p1, p2, q1, q2, s1, s2, t1, t2

P(f, v) == [fact |-> f, value |-> v]

(* One run of the current policy, whose two proposals contradict each other. *)
OneRun == (p1 :> 1) @@ (p2 :> 1)
OneRunGroups == (p1 :> 1) @@ (p2 :> 1)
OneRunPayloads == (p1 :> P("a", 1)) @@ (p2 :> P("a", 2))
OneRunRank == 1 :> 1
OneRunSelections == {{p1}, {p2}}

(* Two runs of the older policy share the group of fact "a".                *)
Shared == (p1 :> 1) @@ (p2 :> 1) @@ (q1 :> 2) @@ (q2 :> 2)
SharedGroups == [p \in {p1, p2, q1, q2} |-> 1]
SharedPayloads == (p1 :> P("a", 1)) @@ (p2 :> P("a", 2)) @@ (q1 :> P("a", 1))
                  @@ (q2 :> P("a", 2))
SharedSelections == {{p1}, {q1}, {p1, q1}}

(* Two such runs share two groups, which the workers write in the other     *)
(* order than reviews lock them.                                            *)
Crossed == (p1 :> 1) @@ (p2 :> 1) @@ (q1 :> 2) @@ (q2 :> 2)
           @@ (s1 :> 1) @@ (s2 :> 1) @@ (t1 :> 2) @@ (t2 :> 2)
CrossedGroups == (p1 :> 1) @@ (p2 :> 1) @@ (q1 :> 1) @@ (q2 :> 1)
                 @@ (s1 :> 2) @@ (s2 :> 2) @@ (t1 :> 2) @@ (t2 :> 2)
CrossedPayloads == (p1 :> P("a", 1)) @@ (p2 :> P("a", 2)) @@ (q1 :> P("a", 1))
                   @@ (q2 :> P("a", 2)) @@ (s1 :> P("b", 1)) @@ (s2 :> P("b", 2))
                   @@ (t1 :> P("b", 1)) @@ (t2 :> P("b", 2))
CrossedRank == (1 :> 2) @@ (2 :> 1)
CrossedSelections == {{p1, s1}}

Values == {P("a", 1), P("c", 2)}
OneValue == {P("c", 2)}
Symmetric == Permutations(Calls) \cup Permutations(Keys)
=============================================================================
