----------------------------- MODULE MCFailures -----------------------------
(* What must happen in the end, with processes that die and connections that *)
(* break: the workers of ExtractionWorker finish every job, and the stream   *)
(* of EventStream hands its client every event. The two have no state in     *)
(* common, so one run takes one of them at a time; the fairness is theirs.   *)
EXTENDS MCExtractionWorker, EventStream

VARIABLE part

FailuresInit == part \in {"workers", "stream"} /\ WorkerInit /\ StreamInit

FailuresNext ==
  /\ UNCHANGED part
  /\ IF part = "workers" THEN WorkerNext ELSE UNCHANGED vars
  /\ IF part = "stream" THEN StreamNext ELSE UNCHANGED streamVars

FailuresFairness ==
  /\ \A w \in Workers : /\ WF_vars(part = "workers" /\ WorkerStep(w))
                        /\ WF_vars(part = "workers" /\ Beat(w))
  /\ WF_vars(part = "workers" /\ ClockTick)
  /\ WF_streamVars(part = "stream" /\ Follow)

FailuresSpec ==
  FailuresInit /\ [][FailuresNext]_<<part, vars, streamVars>> /\ FailuresFairness
=============================================================================
