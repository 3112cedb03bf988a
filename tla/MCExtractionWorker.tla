------------------------- MODULE MCExtractionWorker -------------------------
(* Two workers on a few jobs; each cfg picks the jobs, the faults and the   *)
(* API calls.                                                               *)
EXTENDS ExtractionWorker, TLC

CONSTANTS extract, ingest, unknown   \* one job of each kind
CONSTANTS w1, w2, l1, l2, l3, l4

OneRun       == {extract}
EveryKind    == {extract, ingest, unknown}
TwoWorkers   == {w1, w2}
TwoLeases    == {l1, l2}
ThreeLeases  == {l1, l2, l3}
FourLeases   == {l1, l2, l3, l4}
MCRank       == [j \in Jobs |-> IF j = extract THEN 1 ELSE 2]
MCKind       == [j \in Jobs |-> CASE j = extract -> "extraction_run"
                                  [] j = ingest  -> "ingestion"
                                  [] j = unknown -> "unsupported"]
MCSymmetry   == Permutations(Leases) \cup Permutations(Workers)
=============================================================================
