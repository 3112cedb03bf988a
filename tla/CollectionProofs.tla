-------------------------- MODULE CollectionProofs --------------------------
(***************************************************************************)
(* What the proofs need of finite collections, for every size: induction   *)
(* over naturals and over finite sets (in terms of sets, since the provers *)
(* cannot instantiate the library's rules, which take an operator), sums   *)
(* over a set as the library's MapThenSumSet computes them, and sorting.   *)
(***************************************************************************)
EXTENDS Ordering, Sequences, FiniteSetsExt, FiniteSetTheorems, NaturalsInduction,
        WellFoundedInduction, TLAPS

(* ------------------------------- induction ------------------------------- *)
(* A set of naturals has a least element.                                   *)
LEMMA LeastNatural ==
  ASSUME NEW T, T \subseteq Nat, T # {}
  PROVE  \E x \in T : \A y \in T : x <= y
<1>1. PICK R : R = OpToRel(<, Nat)
  BY Zenon
<1>2. IsWellFoundedOn(R, Nat)
  BY <1>1, NatLessThanWellFounded, Zenon
<1>3. PICK x \in T : \A y \in T : <<y, x>> \notin R
  BY <1>2, WFMin
<1>4. \A a, b \in Nat : a < b => <<a, b>> \in R
  BY <1>1 DEF OpToRel
<1>5. ASSUME NEW y \in T PROVE x <= y
  <2>1. x \in Nat /\ y \in Nat
    OBVIOUS
  <2>2. ~(y < x)
    BY <2>1, <1>3, <1>4, Zenon
  <2>3. QED
    BY <2>1, <2>2
<1>6. QED
  BY <1>5

(* A set of naturals has a least element, which Min names.                  *)
LEMMA MinOfNaturals ==
  ASSUME NEW S, S \subseteq Nat, S # {}
  PROVE  Min(S) \in S /\ \A y \in S : Min(S) <= y
<1>1. PICK x \in S : \A y \in S : x <= y
  BY LeastNatural
<1> QED BY <1>1, Zenon DEF Min

(* A bounded one has a greatest element, which Max names.                   *)
LEMMA MaxOfNaturals ==
  ASSUME NEW n \in Nat, NEW S, S \subseteq 0 .. n, S # {}
  PROVE  Max(S) \in S /\ \A y \in S : Max(S) >= y
<1>1. PICK T : T = {n - x : x \in S}
  OBVIOUS
<1>2. ASSUME NEW x \in S PROVE x \in Int /\ n - x \in Nat /\ n - x \in T
  <2>1. x \in 0 .. n
    BY <1>2
  <2> QED BY <1>1, <1>2, <2>1
<1>3. T \subseteq Nat
  <2>1. ASSUME NEW t \in T PROVE t \in Nat
    <3>1. PICK x \in S : t = n - x
      BY <1>1, <2>1
    <3> QED BY <1>2, <3>1
  <2> QED BY <2>1
<1>4. T # {}
  BY <1>2
<1>5. PICK t \in T : \A y \in T : t <= y
  BY <1>3, <1>4, LeastNatural
<1>6. PICK m \in S : t = n - m
  BY <1>1
<1>7. ASSUME NEW y \in S PROVE m >= y
  <2>1. n - m <= n - y
    BY <1>2, <1>5, <1>6, <1>7
  <2>2. m \in Int /\ y \in Int
    BY <1>2, <1>7
  <2> QED BY <2>1, <2>2
<1> QED BY <1>6, <1>7, Zenon DEF Max

(* A set of naturals with zero and the successor of each member has all.   *)
LEMMA NaturalSteps ==
  ASSUME NEW Q, 0 \in Q, \A n \in Nat : n \in Q => n + 1 \in Q
  PROVE  \A n \in Nat : n \in Q
<1>1. SUFFICES ASSUME NEW m \in Nat, m \notin Q PROVE FALSE
  OBVIOUS
<1>2. Nat \ Q \subseteq Nat /\ Nat \ Q # {}
  BY <1>1
<1>3. PICK x \in Nat \ Q : \A y \in Nat \ Q : x <= y
  BY <1>2, LeastNatural
<1>4. x # 0 /\ x - 1 \in Nat /\ (x - 1) + 1 = x
  BY <1>3
<1>5. x - 1 \in Q
  BY <1>3, <1>4
<1> QED BY <1>3, <1>4, <1>5

(* Induction over the subsets of a finite set, for a set of them: it holds *)
(* of the empty one, and of one whenever it holds of it without a member.  *)
LEMMA SubsetSteps ==
  ASSUME NEW D, IsFiniteSet(D), NEW Q,
         {} \in Q,
         \A T \in SUBSET D : T # {} /\ (\A x \in T : T \ {x} \in Q) => T \in Q
  PROVE  \A T \in SUBSET D : T \in Q
<1>1. PICK N : N = {n \in Nat : \A T \in SUBSET D : Cardinality(T) = n => T \in Q}
  OBVIOUS
<1>2. \A T \in SUBSET D : IsFiniteSet(T) /\ Cardinality(T) \in Nat
  BY FS_Subset, FS_CardinalityType
<1>3. 0 \in N
  BY <1>1, <1>2, FS_EmptySet
<1>4. ASSUME NEW n \in Nat, n \in N PROVE n + 1 \in N
  <2>1. SUFFICES ASSUME NEW T \in SUBSET D, Cardinality(T) = n + 1 PROVE T \in Q
    BY <1>1
  <2>2. T # {}
    BY <2>1, FS_EmptySet
  <2>3. ASSUME NEW x \in T PROVE T \ {x} \in Q
    <3>1. Cardinality(T \ {x}) = n
      BY <1>2, <2>1, FS_RemoveElement
    <3> QED BY <1>1, <1>4, <3>1
  <2> QED BY <2>2, <2>3
<1>5. \A n \in Nat : n \in N
  BY <1>3, <1>4, NaturalSteps
<1> QED BY <1>1, <1>2, <1>5

(* --------------------------------- sums ---------------------------------- *)
(* The function that MapThenSumSet is the last value of.                    *)
IsSum(g, F, S) ==
  g = [s \in SUBSET S |-> IF s = {} THEN 0
                          ELSE F[CHOOSE x \in s : TRUE] + g[s \ {CHOOSE x \in s : TRUE}]]

(* It exists, for every finite set, and takes integer values.              *)
LEMMA SumExists ==
  ASSUME NEW D, IsFiniteSet(D), NEW F \in [D -> Int]
  PROVE  \E g \in [SUBSET D -> Int] : IsSum(g, F, D)
<1>1. \A T \in SUBSET D : IsFiniteSet(T) /\ Cardinality(T) \in Nat /\ Cardinality(T) <= Cardinality(D)
  BY FS_Subset, FS_CardinalityType
<1> DEFINE pick(s) == CHOOSE x \in s : TRUE
           upto(n) == {T \in SUBSET D : Cardinality(T) <= n}
<1>2. \A s : s # {} => pick(s) \in s
  OBVIOUS
<1> HIDE DEF pick
<1>3. PICK N : N = {n \in Nat : \E g \in [upto(n) -> Int] : \A T \in upto(n) :
                        g[T] = IF T = {} THEN 0 ELSE F[pick(T)] + g[T \ {pick(T)}]}
  OBVIOUS
<1>4. ASSUME NEW n \in Nat, NEW T \in SUBSET D, T # {}, Cardinality(T) <= n + 1
      PROVE  pick(T) \in T /\ T \ {pick(T)} \in SUBSET D /\ Cardinality(T \ {pick(T)}) <= n
  <2>1. pick(T) \in T
    BY <1>2, <1>4
  <2>2. Cardinality(T \ {pick(T)}) = Cardinality(T) - 1
    BY <1>1, <2>1, FS_RemoveElement
  <2> QED BY <1>1, <1>4, <2>1, <2>2
<1>5. 0 \in N
  <2>1. \A T \in upto(0) : T = {}
    BY <1>1, FS_EmptySet
  <2>2. PICK g : g = [T \in upto(0) |-> 0]
    OBVIOUS
  <2>3. g \in [upto(0) -> Int] /\ \A T \in upto(0) : g[T] = 0
    BY <2>2
  <2> QED BY <1>3, <2>1, <2>3
<1>6. ASSUME NEW n \in Nat, n \in N PROVE n + 1 \in N
  <2>1. PICK g \in [upto(n) -> Int] : \A T \in upto(n) :
                 g[T] = IF T = {} THEN 0 ELSE F[pick(T)] + g[T \ {pick(T)}]
    BY <1>3, <1>6
  <2>2. PICK h : h = [T \in upto(n + 1) |-> IF T \in upto(n) THEN g[T]
                                            ELSE F[pick(T)] + g[T \ {pick(T)}]]
    OBVIOUS
  <2>3. ASSUME NEW T \in upto(n + 1)
        PROVE  h[T] \in Int /\ h[T] = IF T = {} THEN 0 ELSE F[pick(T)] + h[T \ {pick(T)}]
    <3>1. T \in SUBSET D /\ Cardinality(T) <= n + 1
      OBVIOUS
    <3>2. CASE T = {}
      <4>1. T \in upto(n)
        BY <3>2, FS_EmptySet
      <4> QED BY <2>1, <2>2, <3>2, <4>1
    <3>3. CASE T # {}
      <4>1. /\ pick(T) \in T /\ F[pick(T)] \in Int
            /\ T \ {pick(T)} \in upto(n) /\ T \ {pick(T)} \in upto(n + 1)
        BY <1>1, <1>4, <3>1, <3>3
      <4>2. h[T \ {pick(T)}] = g[T \ {pick(T)}] /\ g[T \ {pick(T)}] \in Int
        BY <2>1, <2>2, <4>1
      <4>3. CASE T \in upto(n)
        BY <2>1, <2>2, <3>3, <4>2, <4>3
      <4>4. CASE T \notin upto(n)
        BY <2>2, <3>3, <4>1, <4>2, <4>4
      <4> QED BY <4>3, <4>4
    <3> QED BY <3>2, <3>3
  <2>4. h \in [upto(n + 1) -> Int]
    <3>1. PICK U : U = upto(n + 1)
      OBVIOUS
    <3>2. h = [T \in U |-> h[T]]
      BY <2>2, <3>1
    <3>3. \A T \in U : h[T] \in Int
      BY <2>3, <3>1
    <3>4. h \in [U -> Int]
      BY <3>2, <3>3
    <3> QED BY <3>1, <3>4
  <2>5. \A T \in upto(n + 1) : h[T] = IF T = {} THEN 0 ELSE F[pick(T)] + h[T \ {pick(T)}]
    BY <2>3
  <2> HIDE DEF upto
  <2>6. n + 1 \in Nat
    OBVIOUS
  <2> QED BY <1>3, <2>4, <2>5, <2>6, Zenon
<1>7. Cardinality(D) \in N
  BY <1>1, <1>5, <1>6, NaturalSteps
<1>8. upto(Cardinality(D)) = SUBSET D
  BY <1>1
<1>9. PICK g \in [SUBSET D -> Int] : \A T \in SUBSET D :
               g[T] = IF T = {} THEN 0 ELSE F[pick(T)] + g[T \ {pick(T)}]
  BY <1>3, <1>7, <1>8
<1>10. g = [s \in SUBSET D |-> IF s = {} THEN 0 ELSE F[pick(s)] + g[s \ {pick(s)}]]
  BY <1>9
<1> QED BY <1>9, <1>10 DEF IsSum, pick

(* Two of them agree on the sets that both speak of.                       *)
LEMMA SumUnique ==
  ASSUME NEW D, IsFiniteSet(D), NEW F, NEW g, IsSum(g, F, D),
         NEW E \in SUBSET D, NEW h, IsSum(h, F, E)
  PROVE  h[E] = g[E]
<1> DEFINE pick(s) == CHOOSE x \in s : TRUE
<1>1. \A s : s # {} => pick(s) \in s
  OBVIOUS
<1>2. /\ \A T \in SUBSET D : g[T] = IF T = {} THEN 0 ELSE F[pick(T)] + g[T \ {pick(T)}]
      /\ \A T \in SUBSET E : h[T] = IF T = {} THEN 0 ELSE F[pick(T)] + h[T \ {pick(T)}]
  BY DEF IsSum
<1> HIDE DEF pick
<1>3. PICK Q : Q = {T \in SUBSET E : h[T] = g[T]}
  OBVIOUS
<1>4. {} \in Q
  BY <1>2, <1>3
<1>5. ASSUME NEW T \in SUBSET E, T # {}, \A x \in T : T \ {x} \in Q PROVE T \in Q
  <2>1. T \in SUBSET D /\ T \ {pick(T)} \in Q
    BY <1>1, <1>5
  <2> QED BY <1>2, <1>3, <1>5, <2>1
<1>6. IsFiniteSet(E)
  BY FS_Subset
<1>7. \A T \in SUBSET E : T \in Q
  BY <1>4, <1>5, <1>6, SubsetSteps
<1> QED BY <1>3, <1>7

\* Any member may be the one that is taken out first.
TakesAny(g, F, D) ==
  /\ g[{}] = 0
  /\ \A T \in SUBSET D : \A x \in T : g[T] = F[x] + g[T \ {x}]

(* The order in which members are taken does not matter.                    *)
LEMMA SumAnyOrder ==
  ASSUME NEW D, IsFiniteSet(D), NEW F \in [D -> Int],
         NEW g \in [SUBSET D -> Int], IsSum(g, F, D)
  PROVE  TakesAny(g, F, D)
<1> DEFINE pick(s) == CHOOSE x \in s : TRUE
<1>1. \A s : s # {} => pick(s) \in s
  OBVIOUS
<1>2. \A T \in SUBSET D : g[T] = IF T = {} THEN 0 ELSE F[pick(T)] + g[T \ {pick(T)}]
  BY DEF IsSum
<1> HIDE DEF pick
<1>3. PICK Q : Q = {T \in SUBSET D : \A x \in T : g[T] = F[x] + g[T \ {x}]}
  OBVIOUS
<1>4. {} \in Q
  BY <1>3
<1>5. ASSUME NEW T \in SUBSET D, T # {}, \A x \in T : T \ {x} \in Q PROVE T \in Q
  <2>1. SUFFICES ASSUME NEW x \in T PROVE g[T] = F[x] + g[T \ {x}]
    BY <1>3
  <2>2. PICK c : c = pick(T)
    OBVIOUS
  <2>3. c \in T /\ g[T] = F[c] + g[T \ {c}]
    BY <1>1, <1>2, <1>5, <2>2
  <2>4. CASE x = c
    BY <2>3, <2>4
  <2>5. CASE x # c
    <3>1. /\ x \in T \ {c} /\ c \in T \ {x} /\ T \ {c} \in Q /\ T \ {x} \in Q
      BY <1>5, <2>3, <2>5
    <3>2. /\ g[T \ {c}] = F[x] + g[(T \ {c}) \ {x}]
          /\ g[T \ {x}] = F[c] + g[(T \ {x}) \ {c}]
      BY <1>3, <3>1
    <3>3. PICK R \in SUBSET D : R = (T \ {c}) \ {x} /\ R = (T \ {x}) \ {c}
      OBVIOUS
    <3>4. F[x] \in Int /\ F[c] \in Int /\ g[R] \in Int
      BY <2>1, <2>3
    <3>5. g[T \ {c}] = F[x] + g[R] /\ g[T \ {x}] = F[c] + g[R]
      BY <3>2, <3>3
    <3> QED BY <2>3, <3>4, <3>5
  <2> QED BY <2>4, <2>5
<1>6. \A T \in SUBSET D : T \in Q
  BY <1>4, <1>5, SubsetSteps
<1> QED BY <1>2, <1>3, <1>6 DEF TakesAny

(* The sum of F over S, as MapThenSumSet computes it.                       *)
Total(F, S) == (CHOOSE h : IsSum(h, F, S))[S]

(* Members may be taken out of a sum in any order.                          *)
LEMMA IntegerTotals ==
  ASSUME NEW D, IsFiniteSet(D), NEW F \in [D -> Int]
  PROVE  /\ Total(F, {}) = 0
         /\ \A T \in SUBSET D : Total(F, T) \in Int
         /\ \A T \in SUBSET D : \A x \in T : Total(F, T) = F[x] + Total(F, T \ {x})
         /\ \A T \in SUBSET D : \E h : IsSum(h, F, T)
<1>1. PICK g \in [SUBSET D -> Int] : IsSum(g, F, D)
  BY SumExists
<1>2. ASSUME NEW T \in SUBSET D PROVE g[T] = Total(F, T) /\ \E h : IsSum(h, F, T)
  <2>1. IsFiniteSet(T)
    BY FS_Subset
  <2>2. PICK e : e = [x \in T |-> F[x]]
    OBVIOUS
  <2>3. e \in [T -> Int]
    BY <2>2
  <2>4. PICK k \in [SUBSET T -> Int] : IsSum(k, e, T)
    BY <2>1, <2>3, SumExists
  <2>5. IsSum(k, F, T)
    <3> DEFINE pick(s) == CHOOSE x \in s : TRUE
    <3>1. \A s \in SUBSET T : s # {} => pick(s) \in T
      OBVIOUS
    <3>2. k = [s \in SUBSET T |-> IF s = {} THEN 0 ELSE e[pick(s)] + k[s \ {pick(s)}]]
      BY <2>4 DEF IsSum
    <3> HIDE DEF pick
    <3>3. \A s \in SUBSET T : s # {} => e[pick(s)] = F[pick(s)]
      BY <2>2, <3>1
    <3>4. \A s \in SUBSET T : k[s] = IF s = {} THEN 0 ELSE F[pick(s)] + k[s \ {pick(s)}]
      BY <3>2, <3>3
    <3>5. k = [s \in SUBSET T |-> IF s = {} THEN 0 ELSE F[pick(s)] + k[s \ {pick(s)}]]
      BY <3>2, <3>4
    <3> QED BY <3>5 DEF IsSum, pick
  <2>6. PICK h : h = CHOOSE i : IsSum(i, F, T)
    OBVIOUS
  <2>7. IsSum(h, F, T)
    BY <2>5, <2>6, Zenon
  <2>8. h[T] = g[T]
    BY <1>1, <2>7, SumUnique
  <2> QED BY <2>5, <2>6, <2>8 DEF Total
<1>3. g[{}] = 0 /\ \A T \in SUBSET D : \A x \in T : g[T] = F[x] + g[T \ {x}]
  <2>1. TakesAny(g, F, D)
    BY <1>1, SumAnyOrder
  <2> QED BY <2>1 DEF TakesAny
<1>4. {} \in SUBSET D /\ \A T \in SUBSET D : \A x \in T : T \ {x} \in SUBSET D
  OBVIOUS
<1>5. \A T \in SUBSET D : g[T] \in Int
  OBVIOUS
<1> QED BY <1>2, <1>3, <1>4, <1>5, Zenon

(* A sum of naturals is natural.                                            *)
LEMMA TotalFacts ==
  ASSUME NEW D, IsFiniteSet(D), NEW F \in [D -> Nat]
  PROVE  /\ Total(F, {}) = 0
         /\ \A T \in SUBSET D : Total(F, T) \in Nat
         /\ \A T \in SUBSET D : \A x \in T : Total(F, T) = F[x] + Total(F, T \ {x})
         /\ \A T \in SUBSET D : \E h : IsSum(h, F, T)
<1>1. F \in [D -> Int]
  OBVIOUS
<1>2. /\ Total(F, {}) = 0
      /\ \A T \in SUBSET D : \A x \in T : Total(F, T) = F[x] + Total(F, T \ {x})
      /\ \A T \in SUBSET D : \E h : IsSum(h, F, T)
  BY <1>1, IntegerTotals
<1>3. PICK Q : Q = {T \in SUBSET D : Total(F, T) \in Nat}
  OBVIOUS
<1>4. {} \in Q
  BY <1>2, <1>3
<1>5. ASSUME NEW T \in SUBSET D, T # {}, \A x \in T : T \ {x} \in Q PROVE T \in Q
  <2>1. PICK x \in T : TRUE
    BY <1>5
  <2>2. Total(F, T \ {x}) \in Nat /\ F[x] \in Nat
    BY <1>3, <1>5
  <2>3. Total(F, T) = F[x] + Total(F, T \ {x})
    BY <1>2
  <2> QED BY <1>3, <2>2, <2>3
<1>6. \A T \in SUBSET D : T \in Q
  BY <1>4, <1>5, SubsetSteps
<1> QED BY <1>2, <1>3, <1>6

\* G is F under other names: e[x] for x, each its own.
Renames(e, E, D, F, G) ==
  /\ e \in [E -> D] /\ \A x, y \in E : e[x] = e[y] => x = y
  /\ G = [x \in E |-> F[e[x]]]
Image(e, T) == {e[x] : x \in T}

(* A sum does not depend on the names of what is summed.                    *)
LEMMA TotalRenamed ==
  ASSUME NEW D, IsFiniteSet(D), NEW F \in [D -> Int],
         NEW E, IsFiniteSet(E), NEW e, NEW G, Renames(e, E, D, F, G), NEW T \in SUBSET E
  PROVE  Total(G, T) = Total(F, Image(e, T))
<1>0. /\ e \in [E -> D] /\ \A x, y \in E : e[x] = e[y] => x = y
      /\ G = [x \in E |-> F[e[x]]]
  BY DEF Renames
<1>1. G \in [E -> Int]
  BY <1>0
<1>2. /\ Total(G, {}) = 0
      /\ \A R \in SUBSET E : \A x \in R : Total(G, R) = G[x] + Total(G, R \ {x})
  BY <1>1, IntegerTotals
<1>3. /\ Total(F, {}) = 0
      /\ \A R \in SUBSET D : \A x \in R : Total(F, R) = F[x] + Total(F, R \ {x})
  BY IntegerTotals
<1>4. PICK Q : Q = {R \in SUBSET E : Total(G, R) = Total(F, {e[x] : x \in R})}
  OBVIOUS
<1>5. {} \in Q
  <2>1. {e[x] : x \in {}} = {}
    OBVIOUS
  <2> QED BY <1>2, <1>3, <1>4, <2>1
<1>6. ASSUME NEW R \in SUBSET E, R # {}, \A x \in R : R \ {x} \in Q PROVE R \in Q
  <2>1. PICK y \in R : TRUE
    BY <1>6
  <2>2. PICK J : J = {e[x] : x \in R}
    OBVIOUS
  <2>3. J \in SUBSET D /\ e[y] \in J
    BY <1>0, <2>2
  <2>4. {e[x] : x \in R \ {y}} = J \ {e[y]}
    BY <1>0, <2>2
  <2>5. Total(G, R \ {y}) = Total(F, J \ {e[y]})
    BY <1>4, <1>6, <2>4
  <2>6. Total(F, J) = F[e[y]] + Total(F, J \ {e[y]})
    BY <1>3, <2>3
  <2>7. Total(G, R) = G[y] + Total(G, R \ {y}) /\ G[y] = F[e[y]]
    BY <1>0, <1>2
  <2>8. Total(G, R) = Total(F, J)
    BY <2>5, <2>6, <2>7
  <2> QED BY <1>4, <2>2, <2>8
<1>7. \A R \in SUBSET E : R \in Q
  BY <1>5, <1>6, SubsetSteps
<1> QED BY <1>4, <1>7 DEF Image

LEMMA TotalTakes ==
  ASSUME NEW D, IsFiniteSet(D), NEW F \in [D -> Nat], NEW T \in SUBSET D, NEW x \in T
  PROVE  Total(F, T) = F[x] + Total(F, T \ {x})
BY TotalFacts

(* Whatever function satisfies the recursion has the sum as its last value. *)
LEMMA TotalIs ==
  ASSUME NEW D, IsFiniteSet(D), NEW F, NEW T \in SUBSET D,
         NEW h, IsSum(h, F, T)
  PROVE  h[T] = Total(F, T)
<1>1. PICK k : k = CHOOSE g : IsSum(g, F, T)
  OBVIOUS
<1>2. IsSum(k, F, T)
  BY <1>1, Zenon
<1>3. IsFiniteSet(T) /\ T \in SUBSET T
  BY FS_Subset
<1>4. h[T] = k[T]
  BY <1>2, <1>3, SumUnique
<1> QED BY <1>1, <1>4 DEF Total

(* A larger set has the larger sum, and so has the larger function.         *)
LEMMA TotalGrows ==
  ASSUME NEW D, IsFiniteSet(D), NEW F \in [D -> Nat], NEW E \in [D -> Nat],
         NEW T \in SUBSET D, NEW U \in SUBSET T, \A x \in U : E[x] <= F[x]
  PROVE  Total(E, U) <= Total(F, T)
<1>0. /\ Total(E, {}) = 0 /\ Total(F, {}) = 0
      /\ \A R \in SUBSET D : Total(E, R) \in Nat /\ Total(F, R) \in Nat
      /\ \A R \in SUBSET D : \A x \in R : /\ Total(E, R) = E[x] + Total(E, R \ {x})
                                       /\ Total(F, R) = F[x] + Total(F, R \ {x})
  BY TotalFacts
<1>1. PICK Q : Q = {R \in SUBSET D : \A V \in SUBSET R :
                       (\A x \in V : E[x] <= F[x]) => Total(E, V) <= Total(F, R)}
  OBVIOUS
<1>2. {} \in Q
  <2>1. \A V \in SUBSET {} : V = {}
    OBVIOUS
  <2>2. Total(E, {}) <= Total(F, {})
    BY <1>0
  <2> QED BY <1>1, <2>1, <2>2
<1>3. ASSUME NEW R \in SUBSET D, R # {}, \A x \in R : R \ {x} \in Q PROVE R \in Q
  <2>1. SUFFICES ASSUME NEW V \in SUBSET R, \A x \in V : E[x] <= F[x]
                 PROVE  Total(E, V) <= Total(F, R)
    BY <1>1
  <2>2. CASE V = {}
    BY <1>0, <2>2
  <2>3. CASE V # {}
    <3>1. PICK x \in V : TRUE
      BY <2>3
    <3>2. Total(E, V) = E[x] + Total(E, V \ {x}) /\ Total(F, R) = F[x] + Total(F, R \ {x})
      BY <1>0
    <3>3. Total(E, V \ {x}) <= Total(F, R \ {x})
      <4>1. R \ {x} \in Q /\ V \ {x} \in SUBSET (R \ {x})
        BY <1>3
      <4> QED BY <1>1, <2>1, <4>1
    <3>4. /\ E[x] \in Nat /\ F[x] \in Nat /\ E[x] <= F[x]
          /\ Total(E, V \ {x}) \in Nat /\ Total(F, R \ {x}) \in Nat
      BY <1>0, <2>1
    <3> QED BY <3>2, <3>3, <3>4
  <2> QED BY <2>2, <2>3
<1>4. \A R \in SUBSET D : R \in Q
  BY <1>2, <1>3, SubsetSteps
<1> QED BY <1>1, <1>4

(* -------------------------------- sorting -------------------------------- *)
\* R orders S strictly and totally.
OrdersStrictly(R, S) ==
  /\ \A x \in S : <<x, x>> \notin R
  /\ \A x, y \in S : x = y \/ <<x, y>> \in R \/ <<y, x>> \in R
  /\ \A x, y, z \in S : <<x, y>> \in R /\ <<y, z>> \in R => <<x, z>> \in R

\* Who is before each member.
Before(R, S) == [x \in S |-> {y \in S : <<y, x>> \in R}]

\* Place i is taken by a member with i - 1 before it.
PlacedBy(s, B, S) ==
  /\ s = [i \in 1 .. Cardinality(S) |-> s[i]]
  /\ \A i \in 1 .. Cardinality(S) : \A x \in S :
       Cardinality(B[x]) = i - 1 => s[i] \in S /\ Cardinality(B[s[i]]) = i - 1

\* All of S, in order.
ListsInOrder(s, S, R) ==
  /\ s \in [1 .. Cardinality(S) -> S]
  /\ \A x \in S : \E i \in 1 .. Cardinality(S) : s[i] = x
  /\ \A i, j \in 1 .. Cardinality(S) : i < j => <<s[i], s[j]>> \in R

(* A sequence that puts each member of S after as many as are before it is   *)
(* all of S in order.                                                        *)
LEMMA RanksOrder ==
  ASSUME NEW S, IsFiniteSet(S), NEW R, OrdersStrictly(R, S),
         NEW B, B = Before(R, S), NEW s, PlacedBy(s, B, S)
  PROVE  ListsInOrder(s, S, R)
<1>1. PICK n \in Nat : n = Cardinality(S)
  BY FS_CardinalityType
<1>3. \A x \in S : B[x] = {y \in S : <<y, x>> \in R} /\ B[x] \in SUBSET S
  BY DEF Before
<1>4. PICK rank : rank = [x \in S |-> Cardinality(B[x])]
  OBVIOUS
<1>5. ASSUME NEW x \in S PROVE IsFiniteSet(B[x]) /\ rank[x] = Cardinality(B[x]) /\ rank[x] \in 0 .. n - 1
  <2>1. B[x] \in SUBSET (S \ {x})
    <3>1. x \notin B[x]
      BY <1>3 DEF OrdersStrictly
    <3>2. B[x] \in SUBSET S
      BY <1>3
    <3> QED BY <3>1, <3>2
  <2>2. IsFiniteSet(S \ {x}) /\ Cardinality(S \ {x}) = n - 1
    BY <1>1, FS_RemoveElement
  <2>3. IsFiniteSet(B[x]) /\ Cardinality(B[x]) <= n - 1 /\ Cardinality(B[x]) \in Nat
    BY <2>1, <2>2, FS_Subset, FS_CardinalityType
  <2>4. rank[x] = Cardinality(B[x])
    BY <1>4
  <2> QED BY <2>3, <2>4, <1>1
<1>6. ASSUME NEW x \in S, NEW y \in S, <<x, y>> \in R PROVE rank[x] < rank[y]
  <2>1. B[x] \in SUBSET B[y] /\ x \in B[y] /\ x \notin B[x]
    <3>1. B[x] = {z \in S : <<z, x>> \in R} /\ B[y] = {z \in S : <<z, y>> \in R}
      BY <1>3
    <3> QED BY <1>6, <3>1 DEF OrdersStrictly
  <2>2. IsFiniteSet(B[y]) /\ rank[x] \in Nat /\ rank[y] \in Nat
    BY <1>1, <1>5
  <2>3. Cardinality(B[x]) <= Cardinality(B[y]) /\ Cardinality(B[x]) # Cardinality(B[y])
    BY <2>1, <2>2, FS_Subset
  <2> QED BY <1>5, <2>2, <2>3
<1>7. \A x, y \in S : rank[x] = rank[y] => x = y
  <2>1. \A x \in S : rank[x] \in Int
    BY <1>1, <1>5
  <2>2. SUFFICES ASSUME NEW x \in S, NEW y \in S, rank[x] = rank[y], x # y PROVE FALSE
    OBVIOUS
  <2>3. <<x, y>> \in R \/ <<y, x>> \in R
    BY <2>2 DEF OrdersStrictly
  <2>4. rank[x] < rank[y] \/ rank[y] < rank[x]
    BY <1>6, <2>3
  <2> QED BY <2>1, <2>2, <2>4
<1>8. rank \in Surjection(S, 0 .. n - 1)
  <2>1. rank \in [S -> 0 .. n - 1]
    BY <1>4, <1>5
  <2>2. rank \in Injection(S, 0 .. n - 1)
    BY <1>7, <2>1 DEF Injection, IsInjective
  <2>3. IsFiniteSet(0 .. n - 1) /\ Cardinality(0 .. n - 1) = n
    <3>1. 0 \in Int /\ n - 1 \in Int /\ (n - 1) - 0 + 1 = n /\ (0 > n - 1 => n = 0)
      BY <1>1
    <3>2. /\ IsFiniteSet(0 .. n - 1)
          /\ Cardinality(0 .. n - 1) = IF 0 > n - 1 THEN 0 ELSE (n - 1) - 0 + 1
      BY <3>1, FS_Interval
    <3> QED BY <3>1, <3>2
  <2> QED BY <1>1, <2>2, <2>3, FS_Injection
<1>9. ASSUME NEW i \in 1 .. n PROVE s[i] \in S /\ rank[s[i]] = i - 1
  <2>1. i - 1 \in 0 .. n - 1
    BY <1>1
  <2>2. PICK x \in S : rank[x] = i - 1
    BY <1>8, <2>1 DEF Surjection
  <2>3. Cardinality(B[x]) = i - 1
    BY <1>5, <2>2
  <2>4. s[i] \in S /\ Cardinality(B[s[i]]) = i - 1
    BY <1>1, <2>3 DEF PlacedBy
  <2> QED BY <1>5, <2>4
<1>10. s \in [1 .. n -> S]
  <2>1. s = [i \in 1 .. n |-> s[i]]
    BY <1>1 DEF PlacedBy
  <2> QED BY <1>9, <2>1
<1>11. ASSUME NEW x \in S PROVE \E i \in 1 .. n : s[i] = x
  <2>1. rank[x] + 1 \in 1 .. n /\ (rank[x] + 1) - 1 = rank[x]
    BY <1>1, <1>5
  <2>2. s[rank[x] + 1] \in S /\ rank[s[rank[x] + 1]] = rank[x]
    BY <1>9, <2>1
  <2>3. s[rank[x] + 1] = x
    BY <1>7, <2>2
  <2> QED BY <2>1, <2>3
<1>12. ASSUME NEW i \in 1 .. n, NEW j \in 1 .. n, i < j PROVE <<s[i], s[j]>> \in R
  <2>1. s[i] \in S /\ s[j] \in S /\ rank[s[i]] = i - 1 /\ rank[s[j]] = j - 1
    BY <1>9
  <2>2. rank[s[i]] < rank[s[j]]
    BY <1>1, <1>12, <2>1
  <2>3. s[i] # s[j] /\ <<s[j], s[i]>> \notin R
    BY <1>1, <1>6, <1>12, <2>1, <2>2
  <2> QED BY <2>1, <2>3 DEF OrdersStrictly
<1> QED BY <1>1, <1>10, <1>11, <1>12 DEF ListsInOrder
=============================================================================
