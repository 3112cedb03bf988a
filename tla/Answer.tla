------------------------------- MODULE Answer -------------------------------
(***************************************************************************)
(* One research question through the retrieval library: the items built     *)
(* from a parsed corpus, the plan, the lanes that search concurrently,      *)
(* fusion, the selected context, the claims a model proposes and the        *)
(* verification that decides what each may be rendered as.                  *)
(*                                                                          *)
(* A source is a passage, fact or table row anchored to a span; a text      *)
(* stands for its whitespace-normalised words; an item's id is its place in *)
(* the corpus, so ids are ordered.                                          *)
(***************************************************************************)
EXTENDS Ordering, Sequences, FiniteSetsExt, SequencesExt

CONSTANTS
    Corpus,        \* sequence of sources
    Words,         \* text |-> its set of tokens
    HasDigit,      \* texts with a digit in them
    Scores,        \* per lane, the scores the sources may have (0: no match)
    Filter,        \* [index, asOf], the pins every lane applies
    Filters,       \* column |-> the values it may have, for the filters given
    PlanLanes,     \* lanes the request asked for
    TopK,          \* the request's top_k
    MaxContext,    \* MAX_CONTEXT_ITEMS
    RrfUnit,       \* scores are multiples of 1 / RrfUnit (_RRF_QUANT: 10^12)
    Proposals,     \* claims the model may propose
    MaxClaims,     \* bound: claims in one answer
    NoNumber       \* no numeric tuple

VARIABLES
    score,         \* lane |-> score of each source for this question
    items,         \* ids of the sources that became retrieval items
    rejections,    \* ids of those the builder refused
    laneResult,    \* lane |-> its ranked ids, once the lane has answered
    failedLanes,   \* lanes that raised
    fused,         \* the fused order before truncation
    accepted,      \* the selected context, in order
    claims,        \* the verified claims
    ended          \* "", "succeeded", "abstained" or "failed"

ansVars == <<score, items, rejections, laneResult, failedLanes, fused, accepted, claims, ended>>

Lanes == <<"dense", "lexical", "facts", "tables">>
Unset == <<0>>      \* no id is 0

\* The columns a query may filter on; a corpus pin admits the document versions
\* corpus_version_documents lists for it.
Columns == {"entity", "document", "form", "period", "version"}

\* What a numeric tuple holds.
IsAmount(n) ==
    \/ n = NoNumber
    \/ /\ n = [value |-> n.value, unit |-> n.unit, period |-> n.period, scale |-> n.scale]
       /\ n.value \in Int

\* MIN_TOP_K and MAX_TOP_K bound top_k; scores are fine enough to tell the ranks
\* that it leaves apart.
ASSUME AnswerAssumption ==
    /\ Len(Corpus) \in Nat /\ DOMAIN Corpus = 1 .. Len(Corpus)
    /\ \A s \in DOMAIN Corpus : IsAmount(Corpus[s].number)
    /\ \A c \in Proposals : IsAmount(c.number)
    /\ DOMAIN Filters \subseteq Columns
    /\ PlanLanes \subseteq ToSet(Lanes)
    /\ \A l \in PlanLanes : Scores[l] \subseteq [DOMAIN Corpus -> Int]
    /\ TopK \in 1 .. 100 /\ MaxContext \in Nat /\ MaxClaims \in Nat
    /\ RrfUnit \in Nat /\ RrfUnit >= 160 * 160

-----------------------------------------------------------------------------
(* item_builder.build_items: a candidate whose span is in the corpus and    *)
(* whose text is still the slice of the canonical text becomes an item.     *)

Buildable(s) == Corpus[s].anchored /\ Corpus[s].verified

BuildItems ==
    /\ items = {} /\ rejections = {}
    /\ items' = {s \in DOMAIN Corpus : Buildable(s)}
    /\ rejections' = {s \in DOMAIN Corpus : ~Buildable(s)}
    /\ UNCHANGED <<score, laneResult, failedLanes, fused, accepted, claims, ended>>

-----------------------------------------------------------------------------
(* The lanes.  Each reads over a connection of its own; the order in which  *)
(* they answer is the scheduler's.                                          *)

\* _filter_clauses: the index pin and the cutoff are unconditional, every other
\* filter is applied when it is given.
WithinFilters(e) == /\ e.index = Filter.index
                    /\ e.published <= Filter.asOf
                    /\ \A column \in DOMAIN Filters : e[column] \in Filters[column]
Eligible(s) == WithinFilters(Corpus[s])

KindOf == [dense |-> {"passage", "fact", "table_row"},
           lexical |-> {"passage", "fact", "table_row"},
           facts |-> {"fact"}, tables |-> {"table_row"}]

\* ORDER BY key DESC, id ASC.
BestFirst(S, key) ==
    SortedBy(S, LAMBDA a, b : key[a] > key[b] \/ (key[a] = key[b] /\ a < b))

\* The matches of a lane, the best top_k of them. Every embedded item is at some
\* distance; a text lane returns matches only.
Hits(lane) == {s \in items : /\ Eligible(s)
                             /\ Corpus[s].kind \in KindOf[lane]
                             /\ lane = "dense" \/ score[lane][s] > 0}
Ranked(lane) ==
    LET all == BestFirst(Hits(lane), score[lane])
    IN SubSeq(all, 1, Min({TopK, Len(all)}))

Searching == items \cup rejections # {} /\ fused = Unset /\ ended = ""

FinishLane(lane) ==
    /\ Searching /\ laneResult[lane] = Unset /\ lane \notin failedLanes
    /\ laneResult' = [laneResult EXCEPT ![lane] = Ranked(lane)]
    /\ UNCHANGED <<score, items, rejections, failedLanes, fused, accepted, claims, ended>>

FailLane(lane) ==
    /\ Searching /\ laneResult[lane] = Unset /\ lane \notin failedLanes
    /\ failedLanes' = failedLanes \cup {lane}
    /\ UNCHANGED <<score, items, rejections, laneResult, fused, accepted, claims, ended>>

Collected == \A l \in PlanLanes : laneResult[l] # Unset \/ l \in failedLanes

\* execute_lanes waits for every thread, then fails closed on any error.
LanesFailed ==
    /\ Searching /\ Collected /\ failedLanes # {}
    /\ ended' = "failed"
    /\ UNCHANGED <<score, items, rejections, laneResult, failedLanes, fused, accepted, claims>>

-----------------------------------------------------------------------------
(* fusion.fuse.                                                             *)

RankIn(lane, s) == CHOOSE i \in DOMAIN laneResult[lane] : laneResult[lane][i] = s
LanesOf(s) == {l \in PlanLanes : laneResult[l] # Unset
                                 /\ s \in ToSet(laneResult[l])}
Retrieved == UNION {ToSet(laneResult[l]) : l \in PlanLanes}
BestRank(s) == Min({RankIn(l, s) : l \in LanesOf(s)})

\* _provenance_key.
Provenance(s) == CASE Corpus[s].kind = "fact" -> <<"fact", Corpus[s].evidence>>
                   [] Corpus[s].kind = "table_row" -> <<"table", Corpus[s].evidence>>
                   [] OTHER -> <<"span", Corpus[s].span>>

\* _dedupe: the best rank survives, then the lower id.
Beats(s, t) == \/ BestRank(s) < BestRank(t)
               \/ BestRank(s) = BestRank(t) /\ s < t
Survivors == {s \in Retrieved :
                 \A t \in Retrieved \ {s} : Provenance(t) = Provenance(s) => Beats(s, t)}

\* _rrf_term with k = 60, quantized to the nearest (10^12 leaves no ties), summed
\* over an item's lanes.
RrfTerm(rank) == (2 * RrfUnit + 60 + rank) \div (2 * (60 + rank))
Rrf(s) == MapThenSumSet(LAMBDA l : RrfTerm(RankIn(l, s)), LanesOf(s))

FusedOrder == BestFirst(Survivors, [s \in Survivors |-> Rrf(s)])

\* derive_budgets: fused_top_k is top_k, the context a part of it; the no-op
\* reranker keeps the order.
ContextItems == Max({1, Min({TopK, MaxContext})})

Fuse ==
    /\ Searching /\ Collected /\ failedLanes = {}
    /\ fused' = FusedOrder
    /\ accepted' = SubSeq(FusedOrder, 1, Min({ContextItems, TopK, Len(FusedOrder)}))
    /\ UNCHANGED <<score, items, rejections, laneResult, failedLanes, claims, ended>>

-----------------------------------------------------------------------------
(* verification.py: every edge is derived from the cited evidence.          *)

Evidence(c, k) == Corpus[c.cites[k].item]

\* validate_numeric: five dimensions, value by size and sign apart.
Polarity(v) == IF v > 0 THEN 1 ELSE IF v < 0 THEN -1 ELSE 0
Size(v) == v * Polarity(v)
UnsignedMutant(a, b) == /\ Size(a.value) = Size(b.value)
                        /\ a.unit = b.unit /\ a.period = b.period /\ a.scale = b.scale

NumbersAgree(a, b) == /\ Size(a.value) = Size(b.value)
                      /\ Polarity(a.value) = Polarity(b.value)
                      /\ a.unit = b.unit /\ a.period = b.period /\ a.scale = b.scale

Covered(c, e) == Cardinality(Words[c.text] \cap Words[e.text])

\* MockCitationVerifier.verify.
Edge(c, e) ==
    IF c.number = NoNumber /\ e.number # NoNumber /\ c.text \in HasDigit THEN "irrelevant"
    ELSE IF c.number # NoNumber /\ e.number = NoNumber THEN "irrelevant"
    ELSE IF c.number # NoNumber /\ ~NumbersAgree(c.number, e.number) THEN "contradictory"
    ELSE IF c.text = e.text THEN "entailed"
    ELSE IF 2 * Covered(c, e) >= Cardinality(Words[c.text]) THEN "partial"
    ELSE "irrelevant"

\* classify_claim over the edges of a claim.
Classify(edges) ==
    LET es == ToSet(edges)
    IN IF "contradictory" \in es THEN "contradicted"
       ELSE IF es \cap {"entailed", "partial"} = {} THEN "unsupported"
       ELSE IF es = {"entailed"} THEN "supported" ELSE "partially_supported"

Verified(c) == [claim |-> c,
                status |-> Classify([k \in DOMAIN c.cites |-> Edge(c, Evidence(c, k))])]

-----------------------------------------------------------------------------
(* generation.py: the whole output is admitted or none of it.               *)

\* _claims_from: only selected items, only quotes of their text.
Admissible(c) == \A k \in DOMAIN c.cites :
                    /\ c.cites[k].item \in ToSet(accepted)
                    /\ c.cites[k].quoted

\* should_abstain: nothing is supported, which a contradiction is not.
Abstains(cs) == \A i \in DOMAIN cs : cs[i].status = "unsupported"

\* The model answers, refuses or abstains (no claims).
Generate ==
    /\ fused # Unset /\ ended = ""
    /\ \E n \in 0..MaxClaims : \E answer \in [1..n -> Proposals] :
          LET admitted == IF \A i \in 1..n : Admissible(answer[i]) THEN answer ELSE <<>>
              cs == [i \in DOMAIN admitted |-> Verified(admitted[i])]
          IN /\ claims' = cs
             /\ ended' = IF Abstains(cs) THEN "abstained" ELSE "succeeded"
    /\ UNCHANGED <<score, items, rejections, laneResult, failedLanes, fused, accepted>>

-----------------------------------------------------------------------------
AnsInit ==
    /\ score \in [ToSet(Lanes) -> UNION {Scores[l] : l \in ToSet(Lanes)}]
    /\ \A l \in ToSet(Lanes) : score[l] \in Scores[l]
    /\ items = {} /\ rejections = {}
    /\ laneResult = [l \in ToSet(Lanes) |-> Unset] /\ failedLanes = {}
    /\ fused = Unset /\ accepted = <<>> /\ claims = <<>> /\ ended = ""

AnsNext ==
    \/ BuildItems
    \/ \E lane \in PlanLanes : FinishLane(lane) \/ FailLane(lane)
    \/ LanesFailed \/ Fuse \/ Generate

AnsSpec == AnsInit /\ [][AnsNext]_ansVars

-----------------------------------------------------------------------------
(* Properties.                                                              *)

\* What is rendered as supported is what the pinned evidence says: every item
\* a supported claim cites was selected, belongs to the pinned index, was
\* published by the cutoff, is of an entity, a document, a form, a period and a
\* document version the plan asked for, still matches its source, says the same
\* words and, where a number is asserted, the same number in all five
\* dimensions; and a disagreeing number is shown as contradicted, never abstained
\* away (classify_claim, should_abstain).
AnswerIsGrounded ==
    \A i \in DOMAIN claims :
        LET c == claims[i].claim
            cited == {Evidence(c, k) : k \in DOMAIN c.cites}
        IN /\ claims[i].status = "supported" => \A k \in DOMAIN c.cites :
                LET e == Evidence(c, k)
                IN /\ c.cites[k].item \in ToSet(accepted)
                   /\ e.verified /\ e.index = Filter.index /\ e.published <= Filter.asOf
                   /\ \A column \in DOMAIN Filters : e[column] \in Filters[column]
                   /\ e.text = c.text
                   /\ c.number # NoNumber => e.number = c.number
           /\ (c.number # NoNumber
               /\ \E e \in cited : e.number # NoNumber /\ e.number # c.number)
              => claims[i].status = "contradicted" /\ ended = "succeeded"

\* Fusion loses no evidence and buries none: whatever a lane found is in the
\* fused order once, in person or as the same evidence at a better rank, and an
\* item that beats another in every lane the other appears in stands above it.
FusionIsFair ==
    fused # Unset =>
        /\ \A s \in Retrieved :
              Cardinality({t \in ToSet(fused) : Provenance(t) = Provenance(s)}) = 1
        /\ \A t \in ToSet(fused) : \A s \in Retrieved :
              Provenance(s) = Provenance(t) => BestRank(t) <= BestRank(s)
        /\ \A i, j \in DOMAIN fused :
              (/\ i # j /\ LanesOf(fused[j]) \subseteq LanesOf(fused[i])
               /\ \A l \in LanesOf(fused[j]) : RankIn(l, fused[i]) < RankIn(l, fused[j]))
              => i < j

\* What is shown is grounded and nothing better was buried: the two above
\* together.
AnswerIsSound == AnswerIsGrounded /\ FusionIsFair
=============================================================================
