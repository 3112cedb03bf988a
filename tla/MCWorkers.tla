----------------------------- MODULE MCWorkers ------------------------------
(* What clients enqueue, one choice per part; every other job stays absent.  *)
(* An extraction next to an ingestion is followed for one attempt of each.   *)
EXTENDS MCExtractionWorker

VARIABLE part

Mixed == {extract, ingest}

WithinPart ==
  /\ \A j \in Jobs \ part : status[j] = "absent"
  /\ part = Mixed => \A j \in Jobs : attempts[j] <= 1

WorkersSpec ==
  /\ part \in {{extract}, {ingest, unknown}, Mixed} /\ WorkerInit
  /\ [][WorkerNext /\ UNCHANGED part /\ WithinPart']_<<part, vars>>
=============================================================================
