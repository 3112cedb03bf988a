---------------------------- MODULE JobLifecycle ----------------------------
(***************************************************************************)
(* What the job queue promises to the code that uses it, with the lease,   *)
(* the heartbeat and the clock left out: a job is delivered at most        *)
(* MaxAttempts times, to one owner at a time, and ends exactly once.       *)
(* JobQueue.tla is the detailed specification that implements this one.    *)
(***************************************************************************)
EXTENDS Naturals

CONSTANTS Jobs, MaxAttempts

VARIABLES phase,   \* where each job is
          tries    \* how often it has been delivered

lifecycleVars == <<phase, tries>>

Finished == {"succeeded", "failed", "cancelled"}
Phases   == {"absent", "queued", "running"} \cup Finished

Init ==
  /\ phase = [j \in Jobs |-> "absent"]
  /\ tries = [j \in Jobs |-> 0]

Submit(j) ==
  /\ phase[j] = "absent"
  /\ phase'[j] = "queued"
  /\ tries'[j] = tries[j]

Deliver(j) ==
  /\ phase[j] = "queued"
  /\ tries[j] < MaxAttempts
  /\ phase'[j] = "running"
  /\ tries'[j] = tries[j] + 1

Return(j) ==
  /\ phase[j] = "running"
  /\ tries[j] < MaxAttempts
  /\ phase'[j] = "queued"
  /\ tries'[j] = tries[j]

End(j) ==
  /\ phase[j] = "running"
  /\ phase'[j] \in Finished
  /\ tries'[j] = tries[j]

Rest(j) ==
  /\ phase'[j] = phase[j]
  /\ tries'[j] = tries[j]

Move(j) == Submit(j) \/ Deliver(j) \/ Return(j) \/ End(j) \/ Rest(j)

(* One statement of the queue (the reaper's) may move several jobs.        *)
Next ==
  /\ phase' \in [Jobs -> Phases]
  /\ tries' \in [Jobs -> Nat]
  /\ \A j \in Jobs : Move(j)

Spec == Init /\ [][Next]_lifecycleVars
=============================================================================
