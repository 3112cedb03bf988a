----------------------------- MODULE Validation -----------------------------
(***************************************************************************)
(* Extracted values between the model's answer and a reviewer's decision.   *)
(* The normalize stage rewrites every raw proposal (or carries it forward   *)
(* with the reason it could not), the validate stage collects each row's    *)
(* own findings and then, over the whole batch, marks duplicates, broken    *)
(* accounting identities and conflicts, and settles review priorities.  A   *)
(* review request later normalises and validates the PERSISTED rows again,  *)
(* in a subset it believes sufficient.  A magnitude is a mantissa and a     *)
(* decimal scale, as in the payload contract; entity, period and unit are   *)
(* the same for every row.                                                  *)
(***************************************************************************)
EXTENDS Ordering, Sequences, FiniteSetsExt

CONSTANTS
    Raws,           \* the raw proposals a batch is drawn from, a sequence
    MaxBatch,       \* bound: proposals in one batch
    MaxScale,       \* SCALE_MAX, the largest plausible declared exponent
    Decimals,       \* bound: the most decimals a declared exponent moves a number to
    NoScale         \* a payload that declares no scale

VARIABLES
    batch,          \* indices into Raws, the proposals of one run
    normalized,     \* state.normalized: the rows after the normalize stage
    drafts,         \* the validated proposals, one per row
    conflicts,      \* the conflict groups: [members, reasons]
    selected,       \* the row a review request decides, 0 before one
    reviewed        \* that request's findings on its rows

valVars == <<batch, normalized, drafts, conflicts, selected, reviewed>>

Rows == DOMAIN batch
Abs(x) == IF x < 0 THEN -x ELSE x

Pow10[n \in Nat] == IF n = 0 THEN 1 ELSE 10 * Pow10[n - 1]

\* A number as it was written: its mantissa, and the exponent its own text
\* spelled, 0 if none. A declared exponent is any integer.
Numbers == [m : Int, suffix : Nat]
Raw ==
    [kind : STRING, metric : STRING, dim : STRING, sign : STRING, currency : STRING,
     qualifier : STRING, note : STRING, broken : BOOLEAN, carried : {{}},
     nums : [1..1 -> Numbers] \cup [1..2 -> Numbers], scale : Int \cup {NoScale},
     cites : Seq([span : STRING, hash : STRING])]

\* Any exponent above the largest plausible one makes 1 more than 100 percent.
ASSUME ValidationAssumption ==
    /\ MaxBatch \in Nat /\ MaxScale \in Nat /\ MaxScale >= 2 /\ Decimals \in Nat
    /\ NoScale \notin Int
    /\ \A i \in DOMAIN Raws :
          Raws[i] \in Raw /\ (Raws[i].scale # NoScale => Raws[i].scale >= -Decimals)

-----------------------------------------------------------------------------
(* Normalisation: payload.py.                                               *)

EffectiveScale(num, hint) == IF num.suffix # 0 THEN num.suffix
                             ELSE IF hint = NoScale THEN 0 ELSE hint

ScaleBlocked(scale) == scale # NoScale /\ scale \notin 0..MaxScale

\* The declared exponent, unless it is implausible.
Hint(p) == IF ScaleBlocked(p.scale) THEN NoScale ELSE p.scale

\* The ontology's metrics among those a batch names; it has no other name of one.
Known(p) == p.metric \in {"arr", "rpo", "crpo", "sub_gm"}

\* A ratio_pct metric, a margin: its unit is percent. Every other is in money.
Percent(p) == p.metric = "sub_gm"

SignOf(m) == IF m > 0 THEN "positive" ELSE IF m < 0 THEN "negative" ELSE "zero"

\* Every field restated against the smallest exponent, a left shift; an
\* inverted range that is wholly negative is put in order.
Reconciled(nums, hint) ==
    LET eff == [k \in DOMAIN nums |-> EffectiveScale(nums[k], hint)]
        common == Min({eff[k] : k \in DOMAIN nums})
        plain == [k \in DOMAIN nums |-> nums[k].m * Pow10[eff[k] - common]]
        inverted == 2 \in DOMAIN nums /\ plain[2] < plain[1] /\ plain[1] < 0
    IN [scale |-> common,
        nums |-> IF inverted THEN <<plain[2], plain[1]>> ELSE plain]

\* normalize_payload and _stage_normalize: the payload changed, the findings
\* the normaliser did not abort on in `carried`; a payload it cannot read is
\* carried forward as it is.
Normalized(p) ==
    IF p.broken THEN [p EXCEPT !.carried = {"rejected"}]
    ELSE LET r == Reconciled(p.nums, Hint(p))
             sign == SignOf(r.nums[1])
         IN [p EXCEPT
                !.nums = [k \in DOMAIN r.nums |->
                             [m |-> r.nums[k], suffix |-> 0]],
                !.scale = IF ScaleBlocked(p.scale) THEN @ ELSE r.scale,
                !.sign = sign,
                !.dim = IF @ = "mistyped" THEN "none" ELSE @,
                !.carried = @ \cup {b \in {"scale", "sign", "dimension", "currency"} :
                    \/ b = "scale" /\ ScaleBlocked(p.scale)
                    \/ b = "sign" /\ p.sign \notin {"none", sign}
                    \/ b = "dimension" /\ p.dim = "mistyped"
                    \/ b = "currency" /\ p.currency = "none" /\ ~Percent(p)}]

-----------------------------------------------------------------------------
(* What two rows must agree on, and what each is worth.                     *)

\* An absent exponent shifts nothing.
Shift(p) == IF p.scale = NoScale THEN 0 ELSE p.scale

\* A plain decimal: the text of a rejected row may still spell an exponent.
Plain(num) == num.suffix = 0

\* _magnitude: one amount, however it was written, in units of 10^(-Decimals).
\* The declared exponent counts also when it is implausible.
Magnitude(p, k) == p.nums[k].m * Pow10[Shift(p) + Decimals]
Value(p) == Magnitude(p, 1)

\* canonical_magnitude: a text that is no decimal stands for itself.
Fingerprint(p) == [k \in DOMAIN p.nums |->
    IF Plain(p.nums[k]) THEN <<0, Magnitude(p, k)>>
    ELSE <<p.nums[k].suffix, p.nums[k].m>>]

\* comparability_key_for: scale is notation and not identity.
Identity(p) == <<p.kind, p.metric, p.currency, p.dim, p.qualifier, p.note>>

\* conflict_key_for: the ontology's key keeps only the qualifier that decides
\* comparability; _comparability has none without that qualifier or the metric.
Comparable(p) == Known(p) /\ p.qualifier # "none"
ConflictKey(p) == IF ~Comparable(p) THEN Identity(p)
                  ELSE <<p.kind, p.metric, p.currency, p.dim, p.qualifier>>

\* relatively_equal with tolerance 0.005.
RelativelyEqual(a, b) == 200 * Abs(a - b) <= Max({Abs(a), Abs(b)})

-----------------------------------------------------------------------------
(* The accounting identities, over the rows the normaliser did not impugn.  *)

\* A withheld row left in competes with its clean siblings.
SeatedMutant(ps) == {}

\* NON_MAGNITUDE_NORMALIZER_BLOCKERS say nothing about the number.
Withheld(ps) == {i \in DOMAIN ps : ps[i].carried \ {"dimension", "currency"} # {}}

\* _facts: only a reported KPI whose value is a plain decimal.
Facts(ps) == {i \in DOMAIN ps : ps[i].kind = "kpi" /\ Plain(ps[i].nums[1])}

\* A cRPO row's horizon marks what it is and not which slice it covers.
RpoSlice(p) == <<p.currency, IF p.dim = "horizon" THEN "none" ELSE p.dim>>

\* _sole: the single fact for a metric, else nothing.
Soles(ps, among, metric) ==
    LET found == {i \in among : ps[i].metric = metric}
    IN IF Cardinality(found) = 1 THEN found ELSE {}

\* _check_rpo_balance, by size: a backlog is never a negative quantity.
RpoBroken(ps, facts) ==
    LET slice(i) == {j \in facts : RpoSlice(ps[j]) = RpoSlice(ps[i])}
    IN {i \in facts :
          \E r \in Soles(ps, slice(i), "rpo"), c \in Soles(ps, slice(i), "crpo") :
             /\ i \in {r, c}
             /\ Abs(Value(ps[c])) > Abs(Value(ps[r]))
             /\ ~RelativelyEqual(Abs(Value(ps[c])), Abs(Value(ps[r])))}

\* slice_of, and whether the segments of one slice miss its one total.
SegmentSlice(p) == <<p.metric, p.currency>>
SegmentTotal(ps, parts) == MapThenSumSet(LAMBDA i : Value(ps[i]), parts)
SegmentsMiss(ps, group) ==
    LET totals == {i \in group : ps[i].dim = "none"}
        parts == group \ totals
        dims == {ps[i].dim : i \in parts}
    IN /\ Cardinality(totals) = 1
       /\ Cardinality(parts) > 1
       /\ "horizon" \notin dims
       /\ Cardinality(dims) = Cardinality(parts)
       /\ \E t \in totals :
             ~RelativelyEqual(SegmentTotal(ps, parts), Value(ps[t]))

\* _check_segment_sums: signed, and silent where a segment was withheld.
SegmentsBroken(ps, facts, withheld) ==
    {i \in facts :
        /\ \A j \in withheld \cap Facts(ps) :
              ps[j].dim = "none" \/ SegmentSlice(ps[j]) # SegmentSlice(ps[i])
        /\ SegmentsMiss(ps, {j \in facts : SegmentSlice(ps[j]) = SegmentSlice(ps[i])})}

\* _check_gross_profit: revenue less the size of the cost.
GrossProfitBroken(ps, facts) ==
    LET slice(i) == {j \in facts : /\ ps[j].currency = ps[i].currency
                                   /\ ps[j].dim = ps[i].dim}
    IN {i \in facts :
          \E r \in Soles(ps, slice(i), "revenue"), c \in Soles(ps, slice(i), "cogs"),
             p \in Soles(ps, slice(i), "gross_profit") :
             /\ i \in {r, c, p}
             /\ ~RelativelyEqual(Value(ps[p]), Value(ps[r]) - Abs(Value(ps[c])))}

\* identity_errors, keyed by row.
IdentityErrors(ps, i) ==
    LET facts == Facts(ps) \ Withheld(ps)
    IN {b \in {"crpo_exceeds_rpo", "segments", "gross_profit"} :
           \/ b = "crpo_exceeds_rpo" /\ i \in RpoBroken(ps, facts)
           \/ b = "segments" /\ i \in SegmentsBroken(ps, facts, Withheld(ps))
           \/ b = "gross_profit" /\ i \in GrossProfitBroken(ps, facts)}

-----------------------------------------------------------------------------
(* One row's own findings, and its citations.  A citation is [span, hash]:  *)
(* the pinned spans are "s1" and "s2" and each one's own name is its hash;  *)
(* "none" asserts no hash.                                                  *)

PinnedSpans == {"s1", "s2"}

\* _claimed_span_hashes: the last assertion about a span wins.
Claimed(p, span) ==
    LET said == {k \in DOMAIN p.cites : p.cites[k].span = span /\ p.cites[k].hash # "none"}
    IN IF said = {} THEN "none" ELSE p.cites[Max(said)].hash

\* citation_status_for, the grade of one evidence row.
Grade(c) == IF c.span \notin PinnedSpans THEN "invalid"
            ELSE IF c.hash = "none" THEN "partial"
            ELSE IF c.hash = c.span THEN "verified" ELSE "invalid"

\* citation_errors.
CitationErrors(p) ==
    LET spans == {p.cites[k].span : k \in DOMAIN p.cites}
    IN {b \in {"unpinned", "mismatch", "unverified"} :
           \/ b = "unpinned" /\ spans \ PinnedSpans # {}
           \/ b = "mismatch" /\ \E s \in spans \cap PinnedSpans :
                                   Claimed(p, s) \notin {"none", s}
           \/ b = "unverified" /\ \A s \in spans \cap PinnedSpans : Claimed(p, s) # s}

\* validate_payload_item: a payload is of a shape the contract knows or not.
SchemaErrors(p) == {b \in {"flawed"} : p.broken}

\* range_errors.
RangeErrors(p) ==
    {b \in {"scale", "range", "decimal"} :
        \/ b = "scale" /\ ScaleBlocked(p.scale)
        \/ b = "range" /\ 2 \in DOMAIN p.nums /\ p.nums[2].m < p.nums[1].m
                       /\ Plain(p.nums[1]) /\ Plain(p.nums[2])
        \/ b = "decimal" /\ \E k \in DOMAIN p.nums : ~Plain(p.nums[k])}

\* Guidance may have a label of its own; a reported KPI must be one the ontology
\* has, and is checked no further against it otherwise.
UnknownKpi(p) == p.kind = "kpi" /\ ~Known(p)

\* check_definitions: money needs its currency, and a percentage takes none.
DefinitionErrors(p) ==
    {b \in {"unknown", "currency", "unit"} :
        \/ b = "unknown" /\ UnknownKpi(p)
        \/ b = "currency" /\ Known(p) /\ ~Percent(p) /\ p.currency = "none"
        \/ b = "unit" /\ Percent(p) /\ p.currency # "none"}

\* _percent_errors, on the scaled magnitude.
PercentErrors(p) ==
    {b \in {"exponent", "implausible", "margin"} : Percent(p) /\
        \/ b = "exponent" /\ Shift(p) # 0
        \/ \E k \in DOMAIN p.nums : Plain(p.nums[k]) /\
              \/ b = "implausible" /\ \/ Magnitude(p, k) < -100 * Pow10[Decimals]
                                      \/ Magnitude(p, k) > 500 * Pow10[Decimals]
              \/ b = "margin" /\ Magnitude(p, k) > 100 * Pow10[Decimals]}

\* _metric_rule_errors: the horizon of a cRPO.
MetricRuleErrors(p) == {b \in {"timing"} : p.metric = "crpo" /\ p.dim # "horizon"}

\* accounting_errors: also the qualifier that a metric of the ontology requires.
AccountingErrors(p) ==
    PercentErrors(p) \cup MetricRuleErrors(p)
        \cup {b \in {"unknown", "qualifier"} :
                \/ b = "unknown" /\ UnknownKpi(p)
                \/ b = "qualifier" /\ Known(p) /\ p.qualifier = "none"}

\* The rules over one payload, and the comparability key it has or lacks.
RuleErrors(p) == SchemaErrors(p) \cup AccountingErrors(p) \cup RangeErrors(p)
                    \cup DefinitionErrors(p)
                    \cup {b \in {"comparability"} : ~Comparable(p)}

-----------------------------------------------------------------------------
(* validate_proposals over normalised rows.                                 *)

\* duplicate_groups: the same fact with the same content.
Duplicated(ps, i) == \E j \in (DOMAIN ps) \ {i} :
    Identity(ps[i]) = Identity(ps[j]) /\ Fingerprint(ps[i]) = Fingerprint(ps[j])

Findings(ps, i) == ps[i].carried \cup RuleErrors(ps[i]) \cup CitationErrors(ps[i])
                   \cup IdentityErrors(ps, i)
                   \cup (IF Duplicated(ps, i) THEN {"duplicate"} ELSE {})

\* detect_conflicts: every key two rows share is a group, since its members
\* either disagree or say one thing twice.
SharedKeys(ps) ==
    {ConflictKey(ps[i]) : i \in {j \in DOMAIN ps : \E m \in (DOMAIN ps) \ {j} :
                                    ConflictKey(ps[j]) = ConflictKey(ps[m])}}

Group(ps, key) ==
    LET members == {i \in DOMAIN ps : ConflictKey(ps[i]) = key}
        prints == {Fingerprint(ps[i]) : i \in members}
    IN [members |-> members,
        reasons |-> {r \in {"value_disagreement", "duplicate_candidate"} :
              \/ r = "value_disagreement" /\ Cardinality(prints) > 1
              \/ r = "duplicate_candidate" /\ (Cardinality(prints) = 1
                                                \/ \E i \in members : Duplicated(ps, i))}]

Groups(ps) == {Group(ps, key) : key \in SharedKeys(ps)}

\* _apply_review_priority, after every pass over the batch.
Priority(ps, i) == IF Findings(ps, i) # {} \/ \E g \in Groups(ps) : i \in g.members
                   THEN "high" ELSE "normal"

Validated(ps) ==
    [i \in DOMAIN ps |-> [blockers |-> Findings(ps, i), priority |-> Priority(ps, i),
                          grades |-> [k \in DOMAIN ps[i].cites |-> Grade(ps[i].cites[k])]]]

-----------------------------------------------------------------------------
(* The review request: validation.evaluate over relevant persisted rows.    *)

\* relevant_rows: the selected row's metric family, its own group, and every
\* KPI whose metric nobody knows.
Families == {{"rpo", "crpo"}, {"revenue", "cogs", "gross_profit"}}
\* The other side of an identity is left behind.
SameMetricMutant(sel) ==
    {i \in Rows : \/ normalized[i].metric = normalized[sel].metric
                  \/ UnknownKpi(normalized[i])
                  \/ \E g \in conflicts : {i, sel} \subseteq g.members}

Relevant(sel) ==
    LET fam == UNION ({{normalized[sel].metric}}
                      \cup {f \in Families : normalized[sel].metric \in f})
    IN {i \in Rows : \/ i = sel \/ normalized[i].metric \in fam
                     \/ UnknownKpi(normalized[i])
                     \/ \E g \in conflicts : {i, sel} \subseteq g.members}

\* A row evaluate refuses outright: its cited edges or asserted hashes do not
\* match the pins, or its payload is not one the contract admits.
SourceRefused(p) == \/ p.broken \/ p.cites = <<>>
              \/ \E k \in DOMAIN p.cites : Grade(p.cites[k]) = "invalid"

\* The persisted payload has lost the normaliser's findings; the verified
\* edges replace its citations.
Persisted(p) == [p EXCEPT !.carried = {},
    !.cites = [k \in DOMAIN p.cites |->
                  [span |-> p.cites[k].span, hash |-> p.cites[k].span]]]

\* The rows a request on `among` compares, in row order.
RowOrder(among) == SortedBy(among, <)
Revalidated(among) ==
    LET order == RowOrder(among)
    IN [rows |-> order,
        ps |-> [k \in DOMAIN order |-> Normalized(Persisted(normalized[order[k]]))]]

\* Findings the persisted normaliser already corrected away are carried.
Retained(i) == drafts[i].blockers \cap {"dimension", "sign"}

EvaluateRow(among, i) ==
    LET r == Revalidated(among)
        k == CHOOSE j \in DOMAIN r.rows : r.rows[j] = i
    IN [blockers |-> Findings(r.ps, k) \cup Retained(i),
        conflict |-> \E g \in Groups(r.ps) : k \in g.members]

-----------------------------------------------------------------------------
ValInit ==
    /\ \E n \in 1..MaxBatch :
          batch \in {b \in [1..n -> DOMAIN Raws] :
                        \A i \in 1..(n - 1) : b[i] <= b[i + 1]}
    /\ normalized = <<>> /\ drafts = <<>> /\ conflicts = {}
    /\ selected = 0 /\ reviewed = <<>>

Normalize ==
    /\ normalized = <<>>
    /\ normalized' = [i \in Rows |-> Normalized(Raws[batch[i]])]
    /\ UNCHANGED <<batch, drafts, conflicts, selected, reviewed>>

Validate ==
    /\ normalized # <<>> /\ drafts = <<>>
    /\ drafts' = Validated(normalized)
    /\ conflicts' = Groups(normalized)
    /\ UNCHANGED <<batch, normalized, selected, reviewed>>

\* A request decides one row; its comparison set must be admissible.
ReviewRow ==
    /\ drafts # <<>> /\ selected = 0
    /\ \E sel \in Rows :
          /\ \A i \in Relevant(sel) : ~SourceRefused(normalized[i])
          /\ selected' = sel
          /\ reviewed' = [i \in Relevant(sel) |-> EvaluateRow(Relevant(sel), i)]
    /\ UNCHANGED <<batch, normalized, drafts, conflicts>>

ValNext == Normalize \/ Validate \/ ReviewRow

ValSpec == ValInit /\ [][ValNext]_valVars

-----------------------------------------------------------------------------
(* Properties.                                                              *)

\* A cRPO larger than the RPO it is part of is blocked on both rows whenever
\* each is the one trustworthy figure of its slice: no rejected sibling, no
\* parenthesised sign and no difference in scale hides it (identity_errors).
ImpossibleBalanceFlagged ==
    drafts # <<>> => \A r, c \in Rows :
        LET clean(m) == {i \in Rows : /\ normalized[i].kind = "kpi"
                                      /\ normalized[i].metric = m
                                      /\ RpoSlice(normalized[i]) = RpoSlice(normalized[r])
                                      /\ normalized[i].carried
                                            \subseteq {"dimension", "currency"}}
        IN (/\ clean("rpo") = {r} /\ clean("crpo") = {c}
            /\ 101 * Abs(Value(normalized[r])) < 100 * Abs(Value(normalized[c])))
           => "crpo_exceeds_rpo" \in drafts[r].blockers \cap drafts[c].blockers

\* A row sorts as ordinary only when nothing was found: no two rows of the
\* batch state one fact, whether they agree or not, and a row without findings
\* has a citation that was really opened (_apply_review_priority runs last).
OrdinaryMeansClean ==
    drafts # <<>> => \A i \in Rows : drafts[i].priority = "normal" =>
        /\ drafts[i].blockers = {}
        /\ \E k \in DOMAIN drafts[i].grades : drafts[i].grades[k] = "verified"
        /\ \A j \in Rows \ {i} : Identity(normalized[j]) # Identity(normalized[i])

\* Two writings of one amount for one fact are a duplicate and never a
\* disagreement; two amounts, or two texts nobody could read, are a
\* disagreement (canonical_magnitude).
DisagreementIsReal ==
    \A g \in conflicts :
        ("value_disagreement" \in g.reasons) <=>
            \E i, j \in g.members :
                \E k \in DOMAIN normalized[i].nums :
                    \/ k \notin DOMAIN normalized[j].nums
                    \/ LET a == normalized[i].nums[k]
                           b == normalized[j].nums[k]
                           d == Shift(normalized[i]) - Shift(normalized[j])
                       IN IF ~Plain(a) \/ ~Plain(b) THEN a # b
                          ELSE IF d >= 0 THEN a.m * Pow10[d] # b.m
                          ELSE a.m # b.m * Pow10[-d]

\* A margin above 100 percent is blocked however the model wrote it, plain, with
\* a word for its magnitude or with a declared exponent; one that an exponent
\* below zero makes small again is blocked for that exponent, and a text that
\* could not be read for that (_percent_errors, scale_blockers).
ImpossibleMarginFlagged ==
    drafts # <<>> => \A i \in Rows :
        LET p == Raws[batch[i]]
        IN  (/\ Percent(p)
             /\ \E k \in DOMAIN p.nums :
                   p.nums[k].m * Pow10[EffectiveScale(p.nums[k], Hint(p))] > 100)
            => \/ "margin" \in drafts[i].blockers
               \/ Shift(p) < 0 /\ {"scale", "exponent"} \subseteq drafts[i].blockers
               \/ p.broken /\ {"rejected", "flawed"} \subseteq drafts[i].blockers

\* No notation hides an impossible balance or margin, a disagreement, or another
\* row for the same fact: the four above together.
NotationHidesNothing ==
    /\ ImpossibleBalanceFlagged /\ ImpossibleMarginFlagged
    /\ OrdinaryMeansClean /\ DisagreementIsReal

\* What the worker found wrong with a row by itself is still there when a
\* reviewer decides, though normalising corrected the sign or dropped the
\* dimension it was about (evaluate's irreversible findings).
FindingsSurviveReview ==
    selected # 0 => \A i \in DOMAIN reviewed :
        drafts[i].blockers \cap {"sign", "dimension", "scale", "currency", "unit", "range",
                                 "timing", "comparability", "exponent", "margin", "unknown",
                                 "qualifier"}
            \subseteq reviewed[i].blockers

\* The rows a review request compares are enough: judging the selected row
\* against all of them changes nothing (relevant_rows).
RelevantRowsSuffice ==
    (selected # 0 /\ \A i \in Rows : ~SourceRefused(normalized[i])) =>
        reviewed[selected] = EvaluateRow(Rows, selected)

\* What a reviewer is judged by is what the worker found, on the rows that
\* matter: the two above together.
ReviewSeesTheFindings == FindingsSurviveReview /\ RelevantRowsSuffice

\* A row the normaliser rejected does not disable an identity for its clean
\* siblings when a reviewer decides either (identity_errors' docstring).
IdentityHoldsAtReview ==
    (selected # 0 /\ "crpo_exceeds_rpo" \in drafts[selected].blockers) =>
        "crpo_exceeds_rpo" \in reviewed[selected].blockers
=============================================================================
