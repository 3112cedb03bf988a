------------------------------ MODULE Isotonic ------------------------------
(***************************************************************************)
(* isotonic.py: the calibration map fitted to (score, outcome) samples by  *)
(* pooling adjacent violators, the artifact it is stored in, the checks    *)
(* that guard its use, prediction, and evaluation on held-out samples.     *)
(*                                                                         *)
(* Scores are numbers in order; a ratio is a multiple of 1/Quant rounded   *)
(* half to even, as _ratio12 does with twelve places.                      *)
(***************************************************************************)
EXTENDS Integers, Sequences, FiniteSets, FiniteSetsExt, SequencesExt

CONSTANTS
  SampleScores,          \* the canonical scores that occur
  MaxSamples,      \* bound: samples given to fit or to evaluate
  MinN,            \* _MIN_N: samples below which nothing is fitted
  MinClass,        \* _MIN_CLASS: samples each outcome must have
  Quant,           \* places of a probability, 10^12 in the code
  Bins             \* bins of the evaluation, 10 in the code

ASSUME IsotonicAssumption ==
  /\ SampleScores \subseteq Nat
  /\ MinN \in Nat /\ MinClass \in Nat \ {0} /\ Quant \in Nat \ {0} /\ Bins \in Nat \ {0}

VARIABLES samples, artifact, evaluation

isotonicVars == <<samples, artifact, evaluation>>

Unfitted == [status |-> "none"]

IsotonicInit ==
  /\ samples = [s \in SampleScores |-> [count |-> 0, positive |-> 0]]
  /\ artifact = Unfitted
  /\ evaluation = Unfitted

Total(field) == MapThenSumSet(LAMBDA s : samples[s][field], SampleScores)

\* _parse_samples admits one more pair; _aggregate only keeps, for each
\* score, how many there were and how many were positive.
Sample(score, outcome) ==
  /\ artifact = Unfitted
  /\ Total("count") < MaxSamples
  /\ samples' = [samples EXCEPT ![score].count = @ + 1, ![score].positive = @ + outcome]
  /\ UNCHANGED <<artifact, evaluation>>

-----------------------------------------------------------------------------
(* fit.                                                                    *)

Support(n, positive) == n >= MinN /\ positive >= MinClass /\ n - positive >= MinClass

\* One group per score, in score order.
Aggregate ==
  LET seen == {s \in SampleScores : samples[s].count > 0}
      ordered == SetToSortSeq(seen, LAMBDA a, b : a < b)
  IN [i \in DOMAIN ordered |->
       [lower |-> ordered[i], upper |-> ordered[i],
        count |-> samples[ordered[i]].count, positive |-> samples[ordered[i]].positive]]

ShouldMerge(left, right) == left.positive * right.count >= right.positive * left.count

Merge(left, right) ==
  [lower |-> left.lower, upper |-> right.upper,
   count |-> left.count + right.count, positive |-> left.positive + right.positive]

\* Pushed, a group swallows its left neighbours for as long as they are not
\* strictly below it.  The blocks it swallows are the longest such suffix.
Pushed(stack, group) ==
  LET merged(k) == FoldRight(Merge, SubSeq(stack, k + 1, Len(stack)), group)
      stops(k) == k = 0 \/ ~ShouldMerge(stack[k], merged(k))
      kept == Max({k \in 0 .. Len(stack) : stops(k)})
  IN Append(SubSeq(stack, 1, kept), merged(kept))

Pool(groups) == FoldLeft(Pushed, <<>>, groups)

Fit ==
  /\ artifact = Unfitted
  /\ artifact' =
       LET n == Total("count")
           positive == Total("positive")
           enough == Support(n, positive)
       IN [status |-> IF enough THEN "fitted" ELSE "insufficient_data",
           n |-> n, positive |-> positive,
           blocks |-> IF enough THEN Pool(Aggregate) ELSE <<>>]
  /\ UNCHANGED <<samples, evaluation>>

-----------------------------------------------------------------------------
(* What guards the use of an artifact, and its use.                        *)

BlockSum(blocks, field) == FoldLeft(LAMBDA acc, b : acc + b[field], 0, blocks)

BlockValid(b) == b.lower <= b.upper /\ b.count >= 1 /\ b.positive \in 0 .. b.count

\* _validate_artifact: totals that agree, and strictly rising blocks.
ArtifactValid(a) ==
  LET enough == Support(a.n, a.positive) IN
  /\ \A i \in DOMAIN a.blocks : BlockValid(a.blocks[i])
  /\ a.status = "insufficient_data" => a.blocks = <<>> /\ ~enough
  /\ a.status = "fitted" =>
       /\ a.blocks # <<>> /\ enough
       /\ BlockSum(a.blocks, "count") = a.n
       /\ BlockSum(a.blocks, "positive") = a.positive
       /\ \A i \in 1 .. Len(a.blocks) - 1 :
            /\ a.blocks[i].upper < a.blocks[i + 1].lower
            /\ ~ShouldMerge(a.blocks[i], a.blocks[i + 1])

\* numerator/denominator in units of 1/Quant, rounded half to even.
Ratio(numerator, denominator) ==
  LET whole == (numerator * Quant) \div denominator
      rest == (numerator * Quant) % denominator
  IN IF 2 * rest > denominator \/ (2 * rest = denominator /\ whole % 2 = 1)
     THEN whole + 1 ELSE whole

\* The block that starts below the score.
BisectLeftMutant(blocks, score) ==
  LET below == {i \in DOMAIN blocks : blocks[i].lower < score}
      at == blocks[IF below = {} THEN 1 ELSE Max(below)]
  IN Ratio(at.positive, at.count)

\* The rightmost block that starts at or below the score, else the first.
LeftStep(blocks, score) ==
  LET below == {i \in DOMAIN blocks : blocks[i].lower <= score}
      at == blocks[IF below = {} THEN 1 ELSE Max(below)]
  IN Ratio(at.positive, at.count)

\* A probability of one belongs to the last bin.
BinIndex(p) == Min({Bins - 1, (p * Bins) \div Quant})

\* The calibration error of held-out samples, summed over the bins before the
\* division by n: |sum of probabilities - positives| in units of 1/Quant.
BinError(blocks, held, bin) ==
  LET inBin == {s \in SampleScores : BinIndex(LeftStep(blocks, s)) = bin}
      predicted == MapThenSumSet(LAMBDA s : held[s].count * LeftStep(blocks, s), inBin)
      observed == MapThenSumSet(LAMBDA s : held[s].positive * Quant, inBin)
  IN IF predicted >= observed THEN predicted - observed ELSE observed - predicted

CalibrationError(blocks, held) ==
  MapThenSumSet(LAMBDA bin : BinError(blocks, held, bin), 0 .. Bins - 1)

\* evaluate(artifact, samples), here on the samples of the fit.
EvaluateFit ==
  /\ artifact # Unfitted /\ evaluation = Unfitted
  /\ evaluation' =
       IF ~ArtifactValid(artifact) THEN [status |-> "invalid_artifact"]
       ELSE IF artifact.status = "insufficient_data"
            THEN [status |-> "insufficient_calibration"]
       ELSE [status |-> "evaluated", error |-> CalibrationError(artifact.blocks, samples)]
  /\ UNCHANGED <<samples, artifact>>

IsotonicNext ==
  \/ \E score \in SampleScores, outcome \in {0, 1} : Sample(score, outcome)
  \/ Fit
  \/ EvaluateFit

IsotonicSpec == IsotonicInit /\ [][IsotonicNext]_isotonicVars

-----------------------------------------------------------------------------
(* The reference: isotonic regression by its max-min formula.              *)

\* The pooled rate of the groups from i to j, as a pair.
RateOf(groups, i, j) ==
  [positive |-> BlockSum(SubSeq(groups, i, j), "positive"),
   count |-> BlockSum(SubSeq(groups, i, j), "count")]

AtMost(a, b) == a.positive * b.count <= b.positive * a.count

\* The least-squares monotone fit at group k: over the groups i at or below
\* k, the largest of the smallest rates from i to a j at or above k.
MaxMin(groups, k) ==
  LET ends(i) == {RateOf(groups, i, j) : j \in k .. Len(groups)}
      lowest(i) == CHOOSE r \in ends(i) : \A q \in ends(i) : AtMost(r, q)
      lows == {lowest(i) : i \in 1 .. k}
  IN CHOOSE r \in lows : \A q \in lows : AtMost(q, r)

\* Pooling adjacent violators computes the isotonic regression of the samples
\* (_pool against its mathematical definition), and the artifact it writes
\* passes the strict checks every later use of it makes (_validate_artifact).
PoolIsIsotonic ==
  artifact # Unfitted =>
    /\ ArtifactValid(artifact)
    /\ artifact.status = "fitted" =>
         \A k \in DOMAIN Aggregate :
           LET r == MaxMin(Aggregate, k) IN
           LeftStep(artifact.blocks, Aggregate[k].lower) = Ratio(r.positive, r.count)

\* A map evaluated on the samples it was fitted to is calibrated, bin by bin,
\* up to the rounding of each probability: a block never straddles bins, and
\* a sample is predicted by the block that pooled it (_left_step, _bin_index).
CalibratedOnItself ==
  evaluation.status = "evaluated" => 2 * evaluation.error <= artifact.n

\* The map that is fitted is the right one and is applied as it was fitted: the
\* two above together.
CalibrationIsSound == PoolIsIsotonic /\ CalibratedOnItself

=============================================================================
