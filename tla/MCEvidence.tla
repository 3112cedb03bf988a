---------------------------- MODULE MCEvidence -----------------------------
(* Instances of what evidence goes through on its way from a source to an    *)
(* answer: fetched, ingested, parsed, published, validated, calibrated,      *)
(* computed with and cited. They have no state in common, so one run takes   *)
(* them one at a time: `part` names the one that runs, the others keep an    *)
(* initial state.                                                            *)
EXTENDS SourceFetch, Ingestion, ParseFiling, Publication, Validation, Isotonic,
        Calculation, Answer, TLC

CONSTANT Parts   \* the parts a run takes
VARIABLE part

(* Sources: a discovery at the SEC and a vintage read at FRED.               *)
MCFetchKind == <<"discovery", "vintage">>
MCAsOf == <<0, 5>>
MCFirstHost == <<"data.sec", "fred">>
MCAllowedHosts == [discovery |-> {"data.sec", "www.sec"}, vintage |-> {"fred"}]
MCFollowRedirects == [discovery |-> TRUE, vintage |-> FALSE]
MCReleases == <<0, 5, 7>>

(* Ingestion: a filing delivered twice, once with other bytes and once for a *)
(* second registrant, a later one under two parser versions and once         *)
(* unreadable, a snapshot, and bytes no parser accepts.                      *)
MCCalls == {"i1", "i2", "i3", "i4", "i5", "i6", "i7", "i8", "i9"}
MCEntity == [c \in MCCalls |-> IF c = "i9" THEN "bolt" ELSE "acme"]
MCAccession == [c \in MCCalls |-> CASE c \in {"i1", "i2", "i3", "i7", "i9"} -> "a1"
                                    [] c \in {"i4", "i5", "i8"} -> "a2" [] OTHER -> "s1"]
MCBytes == [c \in MCCalls |-> CASE c \in {"i1", "i2", "i6", "i9"} -> "x" [] c = "i3" -> "y"
                                [] c = "i7" -> "junk" [] c = "i8" -> "odd" [] OTHER -> "z"]
MCParser == [c \in MCCalls |-> IF c = "i5" THEN 2 ELSE 1]
MCChannel == [a \in {"a1", "a2", "s1"} |-> IF a = "s1" THEN "snapshot" ELSE "filing"]
MCPublishedAt == [a \in {"a1", "a2", "s1"} |-> IF a = "a2" THEN 2 ELSE 1]
Shown(n, scale) == [format |-> "num-dot-decimal", text |-> "number", dot |-> n,
                    comma |-> 1000 * n, parens |-> FALSE, minus |-> FALSE, scale |-> scale]
MCFactsIn ==
  [p \in 1 .. 2 |->
     [x |-> <<<<"k", Shown(1, 1)>>, <<"k", Shown(10, 0)>>,
              <<"z", [Shown(7, 0) EXCEPT !.text = "dash"]>>>>,
      y |-> <<<<"k", Shown(1, 0)>>, <<"k", [Shown(1, 0) EXCEPT !.parens = TRUE]>>>>,
      z |-> <<<<"k", [Shown(p, 1) EXCEPT !.parens = TRUE, !.minus = TRUE]>>,
              <<"z", [Shown(5, 0) EXCEPT !.format = "fixed-zero"]>>>>,
      odd |-> <<<<"k", [Shown(1, 0) EXCEPT !.format = "fixed-empty"]>>>>,
      junk |-> <<>>]]

(* Documents: prose, tagged prose, tables, ix:headers and company facts.     *)
MCVocabularies ==
  {{"h", "/h", "p", "/p", "text"}, {"h", "/h", "p", "/p", "fact", "/fact", "text"},
   {"table", "/table", "tr", "/tr", "td", "th"},
   {"header", "/header", "context", "unit", "baddate", "fact", "/fact", "text"},
   {"concept", "/concept", "observation"}}

(* Publication: three builders of one index version, one of which does not   *)
(* make it active, one of another, and two corpus versions.                  *)
MCTarget == "b1" :> "x1" @@ "b2" :> "x1" @@ "b3" :> "x2" @@ "b4" :> "x1" @@ "c1" :> "k1" @@ "c2" :> "k2"
MCVersionKind == [v \in {"x1", "x2", "k1", "k2"} |->
                    IF v \in {"x1", "x2"} THEN "index" ELSE "corpus"]

(* Proposals, as the model wrote them: backlogs, segments and margins in     *)
(* several notations, citations of all grades, and one nobody can read.      *)
Opened == <<[span |-> "s1", hash |-> "s1"]>>
Kpi(metric, dim, m, suffix, scale) ==
  [kind |-> "kpi", metric |-> metric, dim |-> dim,
   nums |-> <<[m |-> m, suffix |-> suffix]>>, scale |-> scale, sign |-> "none",
   currency |-> "usd", qualifier |-> "std", note |-> "a", cites |-> Opened,
   broken |-> FALSE, carried |-> {}]
MCRaws == <<
  Kpi("rpo", "none", 5, 2, NoScale),
  [Kpi("rpo", "none", 9, 0, 2) EXCEPT !.sign = "negative"],
  Kpi("crpo", "horizon", 900, 0, NoScale),
  Kpi("crpo", "none", -90, 0, 1),
  Kpi("rpo", "none", -500, 0, 0),
  Kpi("revenue", "none", 10, 2, 1),
  Kpi("revenue", "east", 7, 0, 2),
  Kpi("revenue", "west", 2, 2, 0),
  [Kpi("revenue", "mistyped", 700, 0, 0) EXCEPT !.note = "b"],
  Kpi("revenue", "west", 3, 0, 5),
  Kpi("cogs", "none", -300, 0, 0),
  [Kpi("cogs", "none", -300, 0, 0) EXCEPT !.currency = "none"],
  Kpi("gross_profit", "none", 7, 2, NoScale),
  Kpi("gross_profit", "none", 13, 2, NoScale),
  [Kpi("guidance", "none", -2, 2, NoScale) EXCEPT !.kind = "guidance",
     !.nums = <<[m |-> -2, suffix |-> 2], [m |-> -25, suffix |-> 1]>>],
  [Kpi("arr", "none", 70, 1, NoScale) EXCEPT
     !.cites = <<[span |-> "s1", hash |-> "s2"], [span |-> "s1", hash |-> "s1"]>>],
  [Kpi("arr", "none", 7, 0, 2) EXCEPT !.note = "b",
     !.cites = <<[span |-> "s1", hash |-> "none"]>>],
  [Kpi("arr", "none", 7, 2, 0) EXCEPT !.qualifier = "none", !.currency = "none",
     !.cites = <<[span |-> "s3", hash |-> "none"]>>],
  [Kpi("sub_gm", "none", 15, 1, NoScale) EXCEPT !.currency = "none"],
  Kpi("sub_gm", "none", 6, 0, 2),
  [Kpi("sub_gm", "none", 1200, 0, -1) EXCEPT !.currency = "none"],
  [Kpi("sub_gm", "none", 12, 1, NoScale) EXCEPT !.broken = TRUE],
  [Kpi("rpo", "none", 4, 2, 0) EXCEPT !.broken = TRUE, !.cites = <<>>]>>

(* Models over three nodes; a leaf is worth its id, and one is newer.        *)
MCLeafValues == [n \in BaseIds |-> n]
MCLeafTimes == [n \in BaseIds |-> IF n = 20 THEN 2 ELSE 1]

(* Answers: a corpus of passages, facts and table rows, one of each too new, *)
(* altered, contradicting, stored twice or outside a filter; three rankings  *)
(* per lane. Only facts have a period.                                       *)
Source(kind, span, evidence, text, number) ==
  [kind |-> kind, span |-> span, evidence |-> evidence, text |-> text, number |-> number,
   entity |-> "acme", document |-> 1, version |-> 1, index |-> 1, published |-> 1,
   form |-> "10-K", period |-> IF kind = "fact" THEN "q1" ELSE "none",
   anchored |-> TRUE, verified |-> TRUE]
Usd(value, scale) == [value |-> value, unit |-> "usd", period |-> "q1", scale |-> scale]
Stray(span) == Source("fact", span, 10 + span, "b", Usd(5, 6))
MCCorpus == <<
  Source("passage", 1, 0, "a", NoNumber),
  Source("fact", 1, 11, "b", Usd(5, 6)),
  Source("fact", 2, 11, "b", Usd(5, 6)),
  Source("fact", 3, 12, "b", Usd(-5, 6)),
  [Source("fact", 4, 13, "b", Usd(5, 6)) EXCEPT !.published = 3],
  [Source("table_row", 5, 14, "c", NoNumber) EXCEPT !.verified = FALSE],
  Source("table_row", 6, 15, "c", NoNumber),
  [Stray(7) EXCEPT !.entity = "bolt"], [Stray(8) EXCEPT !.form = "8-K"],
  [Stray(9) EXCEPT !.version = 2], [Stray(10) EXCEPT !.index = 2]>>
MCWords == [a |-> {"x", "y"}, b |-> {"x", "5"}, c |-> {"y", "x", "z"}]
Scored(first) == first \o <<9, 9, 9, 9>>
MCScores ==
  [dense |-> {Scored(<<9, 8, 3, 7, 5, 9, 4>>), Scored(<<3, 4, 5, 6, 7, 8, 9>>),
              Scored(<<4, 4, 9, 2, 9, 3, 8>>)},
   lexical |-> {Scored(<<0, 4, 6, 6, 9, 9, 2>>), Scored(<<5, 3, 2, 0, 9, 0, 1>>),
                [i \in DOMAIN MCCorpus |-> 0]},
   facts |-> {Scored(<<0, 4, 6, 6, 9, 0, 0>>), Scored(<<0, 5, 0, 2, 0, 0, 0>>)},
   tables |-> {<<0, 0, 0, 0, 0, 9, 2, 0, 0, 0, 0>>}]
MCFilter == [index |-> 1, asOf |-> 2]
MCFilters == [entity |-> {"acme"}, form |-> {"10-K", "10-Q"}, version |-> {1}]
Quote(i) == [item |-> i, quoted |-> TRUE]
Says(text, number, cites) == [text |-> text, number |-> number, cites |-> cites]
MCProposals ==
  {Says("b", Usd(5, 6), <<Quote(8)>>), Says("b", Usd(5, 6), <<Quote(9), Quote(10)>>),
   Says("b", Usd(5, 6), <<Quote(3)>>), Says("b", Usd(5, 6), <<Quote(2)>>),
   Says("b", Usd(5, 6), <<Quote(3), Quote(4)>>), Says("b", NoNumber, <<Quote(3)>>),
   Says("b", NoNumber, <<Quote(4)>>), Says("a", NoNumber, <<Quote(1), Quote(7)>>),
   Says("a", NoNumber, <<Quote(1)>>), Says("a", Usd(5, 6), <<Quote(1)>>),
   Says("a", NoNumber, <<Quote(7)>>), Says("c", NoNumber, <<Quote(6)>>),
   Says("b", Usd(5, 3), <<Quote(3)>>), Says("b", Usd(5, 6), <<Quote(5)>>),
   Says("b", Usd(-5, 6), <<Quote(4)>>),
   Says("a", NoNumber, <<[item |-> 1, quoted |-> FALSE]>>)}

EvidenceInit ==
  /\ part \in Parts
  /\ FetchInit /\ IngestInit /\ PublicationInit /\ IsotonicInit
  /\ ParseInit
  /\ part # "parsing" => "concept" \in vocabulary /\ walk.context
  /\ AnsInit
  /\ part # "answer" => score = [l \in DOMAIN score |-> CHOOSE s \in Scores[l] : TRUE]
  /\ IF part = "calculation" THEN CalcInit
     ELSE /\ snapshots = <<[nodes |-> [n \in BaseIds |-> CHOOSE v \in NodesOf(n) : v.kind \in Leaves],
                            groups |-> {}]>>
          /\ modelGraph = Unbuilt /\ outcome = Unevaluated
          /\ substituted = [n \in BaseIds |-> 0]
  /\ IF part = "validation" THEN ValInit
     ELSE /\ batch = <<1>> /\ normalized = <<>> /\ drafts = <<>> /\ conflicts = {}
          /\ selected = 0 /\ reviewed = <<>>

\* Index and corpus versions are in tables of their own and their builders never
\* meet, so a behaviour makes versions of one kind.
OneKindMade == Cardinality({Kind[Target[b]] : b \in {c \in Builders : builder[c].pc # "idle"}}) <= 1

EvidenceNext ==
  /\ UNCHANGED part
  /\ IF part = "sources" THEN FetchNext ELSE UNCHANGED fetchVars
  /\ IF part = "ingestion" THEN IngestNext ELSE UNCHANGED ingestVars
  /\ IF part = "parsing" THEN ParseNext ELSE UNCHANGED parseVars
  /\ IF part = "publication" THEN PublicationNext /\ OneKindMade' ELSE UNCHANGED publishVars
  /\ IF part = "validation" THEN ValNext ELSE UNCHANGED valVars
  /\ IF part = "calibration" THEN IsotonicNext ELSE UNCHANGED isotonicVars
  /\ IF part = "calculation" THEN CalcNext ELSE UNCHANGED calcVars
  /\ IF part = "answer" THEN AnsNext ELSE UNCHANGED ansVars

EvidenceSpec ==
  EvidenceInit /\ [][EvidenceNext]_<<part, fetchVars, ingestVars, parseVars, publishVars,
                                     valVars, isotonicVars, calcVars, ansVars>>
=============================================================================
