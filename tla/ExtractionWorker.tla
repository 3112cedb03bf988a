-------------------------- MODULE ExtractionWorker --------------------------
(***************************************************************************)
(* Worker processes that claim jobs and drive extraction runs, composed    *)
(* with the queue they claim from, the run rows they advance and the API   *)
(* that cancels and reviews the same runs:                                 *)
(*   workers/src/fel_workers/consumer.py        run_worker, LeaseHeartbeat *)
(*   .../extraction/handler.py, workflow.py     the run's stages           *)
(*   .../extraction/persist*.py                 its durable writes         *)
(*   apps/api/app/extraction/runs.py, review.py create, cancel, review     *)
(*   db/migrations/0004_extraction_core.sql     the run guards             *)
(*                                                                         *)
(* A step is one database transaction together with the in-memory checks   *)
(* right before it.  The lease flag and jobs.cancel_requested_at may change *)
(* between such a check and the write; that order is the same as the flag  *)
(* changing right after the write, which is a behaviour of this model too. *)
(*                                                                         *)
(* An extraction job's id is its run's id (runs.py inserts both with one   *)
(* id), so runs are indexed by jobs.                                       *)
(***************************************************************************)
EXTENDS JobQueue, Sequences

CONSTANTS
  Workers,     \* worker processes
  NoClaim,     \* no job held
  Kind,        \* Kind[j] \in JobKinds
  LastStage,   \* the persist stage; stage 1 is the model's, STAGE_ORDER
  Faults,      \* which faults may happen, a subset of FaultKinds
  Api          \* which API calls clients make, a subset of {"cancel","review"}

JobKinds   == {"extraction_run", "ingestion", "unsupported"}
FaultKinds == {"crash",   \* a worker process dies and is restarted
               "beat",    \* a heartbeat connection fails: beating stops
               "pause",   \* a process stands still while the clock runs
               "read",    \* a run status read fails
               "bind"}    \* the payload contradicts its run row

ASSUME WorkerAssumption ==
  /\ Kind \in [Jobs -> JobKinds]
  /\ LastStage \in Nat \ {0, 1}
  /\ Faults \subseteq FaultKinds
  /\ Api \subseteq {"cancel", "review"}

VARIABLES
  pc,          \* where each worker's loop is
  held,        \* the ClaimedJob it works on
  beat,        \* its LeaseHeartbeat thread
  late,        \* a punctual worker that must act before the clock moves on
  stage,       \* the stage its workflow is at
  carry,       \* the stage outputs in its memory: are there proposals?
  ending,      \* how its workflow is about to end
  run,         \* extraction_runs.status
  ckpt,        \* ckpt[j][s]: the succeeded extraction_run_steps row
  persisted,   \* extraction_proposals rows exist for the run
  log          \* the lifecycle events of extraction_run_events, in id order

localVars == <<pc, held, beat, late, stage, carry, ending>>
runVars   == <<run, ckpt, persisted, log>>
vars      == <<queueVars, localVars, runVars>>

Stages    == 1 .. LastStage
Outputs   == {"proposals", "empty"}
NoOutput  == "unset"
RunTerminal == {"succeeded", "failed", "cancelled"}
RunStatuses == {"none", "queued", "running", "waiting_review"} \cup RunTerminal
TerminalEvents == {"run_succeeded", "run_failed", "run_cancelled"}
Events    == {"review_waiting", "review_completed"} \cup TerminalEvents
Labels    == {"idle", "polling", "claimed", "ingest", "binding", "stage",
              "work", "commit", "conclude", "announce", "land", "escaped",
              "failing", "park", "settle"}
BeatStates == {"off", "on", "lost", "dead"}
Endings    == {"ok", "cancelled", "failed", "crashed"}

LocalTypeOK ==
  /\ pc \in [Workers -> Labels]
  /\ held \in [Workers -> ClaimedJob \cup {NoClaim}]
  /\ beat \in [Workers -> BeatStates]
  /\ late \in [Workers -> BOOLEAN]
  /\ stage \in [Workers -> Stages]
  /\ carry \in [Workers -> Outputs \cup {NoOutput}]
  /\ ending \in [Workers -> Endings]

RunTypeOK ==
  /\ run \in [Jobs -> RunStatuses]
  /\ ckpt \in [Jobs -> [Stages -> Outputs \cup {NoOutput}]]
  /\ persisted \in [Jobs -> BOOLEAN]
  /\ log \in [Jobs -> Seq(Events)]

WorkerTypeOK == QueueTypeOK /\ LocalTypeOK /\ RunTypeOK

WorkerInit ==
  /\ QueueInit
  /\ pc = [w \in Workers |-> "idle"]
  /\ held = [w \in Workers |-> NoClaim]
  /\ beat = [w \in Workers |-> "off"]
  /\ late = [w \in Workers |-> FALSE]
  /\ stage = [w \in Workers |-> 1]
  /\ carry = [w \in Workers |-> NoOutput]
  /\ ending = [w \in Workers |-> "ok"]
  /\ run = [j \in Jobs |-> "none"]
  /\ ckpt = [j \in Jobs |-> [s \in Stages |-> NoOutput]]
  /\ persisted = [j \in Jobs |-> FALSE]
  /\ log = [j \in Jobs |-> <<>>]

-----------------------------------------------------------------------------
(* Vocabulary of the worker's steps.                                        *)

Job(w)       == held[w].job
Active(w)    == pc[w] \notin {"idle", "polling"}
LeaseLost(w) == beat[w] = "lost"              \* not lease_check()
RunOver(j)   == run[j] \in RunTerminal        \* 0004 refuses every write
CancelSeen(w) == cancelRequested[Job(w)]      \* is_cancel_requested

(* A step of w that stays in the handler; a punctual worker with no        *)
(* heartbeat thread is no longer late once it has acted.                   *)
Goto(w, label) ==
  /\ pc' = [pc EXCEPT ![w] = label]
  /\ late' = [late EXCEPT ![w] = @ /\ beat[w] = "on"]

(* heartbeat.stop() and the next turn of the claim loop.                    *)
Release(w) ==
  /\ pc' = [pc EXCEPT ![w] = "idle"]
  /\ held' = [held EXCEPT ![w] = NoClaim]
  /\ beat' = [beat EXCEPT ![w] = "off"]
  /\ late' = [late EXCEPT ![w] = FALSE]
  /\ stage' = [stage EXCEPT ![w] = 1]
  /\ carry' = [carry EXCEPT ![w] = NoOutput]
  /\ ending' = [ending EXCEPT ![w] = "ok"]

(* An exception leaves the handler without a run write of its own.          *)
Escape(w) ==
  /\ Goto(w, "escaped")
  /\ UNCHANGED <<held, beat, stage, carry, ending, queueVars, runVars>>

(* The workflow stops at this stage and goes to its closing writes.         *)
Conclude(w, how) ==
  /\ Goto(w, "conclude")
  /\ ending' = [ending EXCEPT ![w] = how]

(* Mutant: the stage loop runs one past its end.                            *)
(* The next stage, or the closing writes after the last one.                *)
Advance(w) ==
  IF stage[w] = LastStage
  THEN Conclude(w, "ok") /\ UNCHANGED stage
  ELSE /\ Goto(w, "stage")
       /\ stage' = [stage EXCEPT ![w] = @ + 1]
       /\ UNCHANGED ending

AppendEvent(j, event) == log' = [log EXCEPT ![j] = Append(@, event)]

EventOf(status0) == CASE status0 = "succeeded" -> "run_succeeded"
                      [] status0 = "failed"    -> "run_failed"
                      [] status0 = "cancelled" -> "run_cancelled"

(* The run status each ending lands on.                                     *)
FinalStatus(how) == CASE how = "ok"        -> "succeeded"
                      [] how = "cancelled" -> "cancelled"
                      [] how \in {"failed", "crashed"} -> "failed"

(* A fenced queue call: refused, and without effect, once the lease is gone. *)
Fenced(w, call) ==
  \/ Live(held[w]) /\ call
  \/ ~Live(held[w]) /\ UNCHANGED queueVars

-----------------------------------------------------------------------------
(* The claim loop.                                                          *)

(* Mutant: a loop that never reaps.                                         *)
PollWithoutReaping(w) ==
  /\ pc[w] = "idle"
  /\ Goto(w, "polling")
  /\ UNCHANGED <<queueVars, held, beat, stage, carry, ending, runVars>>

(* reap_stale at the top of every iteration.                                *)
Poll(w) ==
  /\ pc[w] = "idle"
  /\ Goto(w, "polling")
  /\ ReapStale \/ (~(\E j \in Jobs : Stale(j)) /\ UNCHANGED queueVars)
  /\ UNCHANGED <<held, beat, stage, carry, ending, runVars>>

(* claim_one, or sleep when nothing is due.                                 *)
ClaimNext(w) ==
  /\ pc[w] = "polling"
  /\ \/ \E j \in Jobs, l \in Leases :
          LET h == [job |-> j, lease |-> l, attempts |-> attempts[j] + 1]
          IN  /\ ClaimAs(h)
              /\ held' = [held EXCEPT ![w] = h]
              /\ Goto(w, "claimed")
     \/ /\ ~(\E j \in Jobs : Due(j))
        /\ Goto(w, "idle")
        /\ UNCHANGED <<queueVars, held>>
  /\ UNCHANGED <<beat, stage, carry, ending, runVars>>

(* Unknown kinds and missing capabilities fail the job; a job whose run is *)
(* already terminal is parked; otherwise the heartbeat starts and the      *)
(* handler is called.  An unreadable status counts as not terminal.        *)
Dispatch(w) ==
  /\ pc[w] = "claimed"
  /\ \/ /\ Kind[Job(w)] = "unsupported"
        /\ Goto(w, "failing")
        /\ UNCHANGED beat
     \/ /\ Kind[Job(w)] = "extraction_run"
        /\ RunOver(Job(w))
        /\ Goto(w, "park")
        /\ UNCHANGED beat
     \/ /\ Kind[Job(w)] = "extraction_run"
        /\ ~RunOver(Job(w)) \/ "read" \in Faults
        /\ Goto(w, "binding")
        /\ beat' = [beat EXCEPT ![w] = "on"]
     \/ /\ Kind[Job(w)] = "ingestion"
        /\ Goto(w, "ingest")
        /\ beat' = [beat EXCEPT ![w] = "on"]
  /\ UNCHANGED <<held, stage, carry, ending, queueVars, runVars>>

(* An ingestion handler returns or raises.                                  *)
Ingest(w) ==
  /\ pc[w] = "ingest"
  /\ Goto(w, "settle") \/ Goto(w, "escaped")
  /\ UNCHANGED <<held, beat, stage, carry, ending, queueVars, runVars>>

-----------------------------------------------------------------------------
(* The extraction handler.                                                  *)

(* Mutant: the handler forgets mark_running.                                *)
BindWithoutMarking(w) ==
  /\ pc[w] = "binding"
  /\ ~RunOver(Job(w))
  /\ Goto(w, "stage")
  /\ UNCHANGED <<held, beat, stage, carry, ending, queueVars, runVars>>

(* Bind the payload to its run row and spans, then mark_running.  A run     *)
(* that is over is RunAlreadyTerminal; one that ends between the status     *)
(* read and the write is refused by 0004, an untyped error.                 *)
Bind(w) ==
  /\ pc[w] = "binding"
  /\ \/ "bind" \in Faults /\ Escape(w)
     \/ /\ RunOver(Job(w))
        /\ Goto(w, "park") \/ Goto(w, "escaped")
        /\ UNCHANGED <<held, beat, stage, carry, ending, queueVars, runVars>>
     \/ /\ ~RunOver(Job(w))
        /\ Goto(w, "stage")
        /\ run' = [run EXCEPT ![Job(w)] = IF @ = "queued" THEN "running" ELSE @]
        /\ UNCHANGED <<held, beat, stage, carry, ending, queueVars, ckpt,
                       persisted, log>>

(* Mutant: the handler starts over instead of resuming from the row.        *)
StartStageReworks(w) ==
  /\ pc[w] = "stage"
  /\ \/ LeaseLost(w) /\ Escape(w)
     \/ /\ ~LeaseLost(w)
        /\ \/ CancelSeen(w) /\ Conclude(w, "cancelled")
           \/ ~CancelSeen(w) /\ Conclude(w, "failed")
           \/ /\ ~CancelSeen(w)
              /\ Goto(w, IF RunOver(Job(w)) THEN "escaped" ELSE "work")
              /\ UNCHANGED ending
        /\ UNCHANGED <<stage, carry, held, beat, queueVars, runVars>>

(* _boundary, then load_succeeded: resume from the row or start the stage.  *)
StartStage(w) ==
  LET row == ckpt[Job(w)][stage[w]] IN
  /\ pc[w] = "stage"
  /\ \/ LeaseLost(w) /\ Escape(w)
     \/ /\ ~LeaseLost(w)
        /\ \/ /\ CancelSeen(w)
              /\ Conclude(w, "cancelled")
              /\ UNCHANGED <<stage, carry>>
           \/ /\ ~CancelSeen(w)                 \* the wall-clock cap
              /\ Conclude(w, "failed")
              /\ UNCHANGED <<stage, carry>>
           \/ /\ ~CancelSeen(w)
              /\ row # NoOutput
              /\ carry' = [carry EXCEPT ![w] = row]
              /\ Advance(w)
           \/ /\ ~CancelSeen(w)
              /\ row = NoOutput
              /\ Goto(w, IF RunOver(Job(w)) THEN "escaped" ELSE "work")
              /\ UNCHANGED <<stage, carry, ending>>
        /\ UNCHANGED <<held, beat, queueVars, runVars>>

(* The stage's own work: stage 1 asks the model, the last stage persists    *)
(* proposals and conflicts in one transaction (persist_outputs_atomic).     *)
Work(w) ==
  LET j == Job(w) IN
  /\ pc[w] = "work"
  /\ \/ /\ stage[w] = 1
        /\ \E out \in Outputs : carry' = [carry EXCEPT ![w] = out]
        /\ Goto(w, "commit")
        /\ UNCHANGED <<ending, persisted>>
     \/ /\ stage[w] \in 2 .. (LastStage - 1)
        /\ Goto(w, "commit")
        /\ UNCHANGED <<carry, ending, persisted>>
     \/ /\ stage[w] = LastStage
        /\ Goto(w, IF LeaseLost(w) \/ RunOver(j) THEN "escaped" ELSE "commit")
        /\ persisted' = [persisted EXCEPT ![j] =
             @ \/ (~LeaseLost(w) /\ ~RunOver(j) /\ carry[w] = "proposals")]
        /\ UNCHANGED <<carry, ending>>
     \/ /\ Conclude(w, "failed") \/ Conclude(w, "crashed")
        /\ UNCHANGED <<carry, persisted>>
  /\ UNCHANGED <<held, beat, stage, queueVars, run, ckpt, log>>

(* Mutant: a taken success key is overwritten instead of refused.           *)
CommitStageOverwrites(w) ==
  LET j == Job(w) IN
  /\ pc[w] = "commit"
  /\ \/ LeaseLost(w) /\ Escape(w)
     \/ /\ ~LeaseLost(w) /\ ~RunOver(j)
        /\ ckpt' = [ckpt EXCEPT ![j][stage[w]] = carry[w]]
        /\ Advance(w)
        /\ UNCHANGED <<held, beat, carry, queueVars, run, persisted, log>>

(* _commit_fence and commit_succeeded_atomic: the success key arbitrates;   *)
(* a worker that finds the row taken raises LeaseLost.                      *)
CommitStage(w) ==
  LET j == Job(w) IN
  /\ pc[w] = "commit"
  /\ \/ LeaseLost(w) /\ Escape(w)
     \/ /\ ~LeaseLost(w) /\ CancelSeen(w)
        /\ Conclude(w, "cancelled")
        /\ UNCHANGED <<held, beat, stage, carry, queueVars, runVars>>
     \/ /\ ~LeaseLost(w) /\ ~CancelSeen(w)
        /\ RunOver(j) \/ ckpt[j][stage[w]] # NoOutput
        /\ Escape(w)
     \/ /\ ~LeaseLost(w) /\ ~CancelSeen(w) /\ ~RunOver(j)
        /\ ckpt[j][stage[w]] = NoOutput
        /\ ckpt' = [ckpt EXCEPT ![j][stage[w]] = carry[w]]
        /\ Advance(w)
        /\ UNCHANGED <<held, beat, carry, queueVars, run, persisted, log>>

(* Mutant: the terminal status before its event, which 0004 then refuses.   *)
CloseRunStatusFirst(w) ==
  /\ pc[w] = "conclude"
  /\ ~LeaseLost(w) /\ ~RunOver(Job(w))
  /\ run' = [run EXCEPT ![Job(w)] =
       IF ending[w] = "ok" /\ carry[w] = "proposals"
       THEN "waiting_review" ELSE FinalStatus(ending[w])]
  /\ Goto(w, "announce")
  /\ UNCHANGED <<held, beat, stage, carry, ending, queueVars, ckpt, persisted,
                 log>>

(* The closing writes, first half: waiting_review for proposals, otherwise  *)
(* the terminal event, which 0004 only accepts while the run is open.       *)
CloseRun(w) ==
  LET j == Job(w) IN
  /\ pc[w] = "conclude"
  /\ \/ (LeaseLost(w) \/ RunOver(j)) /\ Escape(w)
     \/ /\ ~LeaseLost(w) /\ ~RunOver(j)
        /\ \/ /\ ending[w] = "ok" /\ carry[w] = "proposals"
              /\ run' = [run EXCEPT ![j] = "waiting_review"]
              /\ Goto(w, "announce")
              /\ UNCHANGED log
           \/ /\ ~(ending[w] = "ok" /\ carry[w] = "proposals")
              /\ AppendEvent(j, EventOf(FinalStatus(ending[w])))
              /\ Goto(w, "land")
              /\ UNCHANGED run
        /\ UNCHANGED <<held, beat, stage, carry, ending, queueVars, ckpt,
                       persisted>>

(* review_waiting follows the waiting_review status.                        *)
AnnounceReview(w) ==
  /\ pc[w] = "announce"
  /\ \/ RunOver(Job(w)) /\ Escape(w)
     \/ /\ ~RunOver(Job(w))
        /\ AppendEvent(Job(w), "review_waiting")
        /\ Goto(w, "settle")
        /\ UNCHANGED <<held, beat, stage, carry, ending, queueVars, run, ckpt,
                       persisted>>

(* set_run_status after the terminal event.  A run that ended meanwhile is  *)
(* RunAlreadyTerminal, or 0004's untyped error when it ended after the      *)
(* status read; the abstention path catches the first and fails again on    *)
(* its event.  An untyped failure is re-raised after its run is failed.     *)
LandRun(w) ==
  LET j == Job(w) IN
  /\ pc[w] = "land"
  /\ \/ /\ RunOver(j)
        /\ Goto(w, "escaped") \/ (ending[w] # "ok" /\ Goto(w, "park"))
        /\ UNCHANGED run
     \/ /\ ~RunOver(j)
        /\ run' = [run EXCEPT ![j] = FinalStatus(ending[w])]
        /\ Goto(w, IF ending[w] = "crashed" THEN "escaped" ELSE "settle")
  /\ UNCHANGED <<held, beat, stage, carry, ending, queueVars, ckpt, persisted,
                 log>>

-----------------------------------------------------------------------------
(* The consumer's epilogue.                                                 *)

(* Any other exception: stop the heartbeat, and unless the lease is known   *)
(* lost decide between parking (the run is over) and a retry.               *)
CatchEscape(w) ==
  /\ pc[w] = "escaped"
  /\ \/ LeaseLost(w) /\ Release(w)
     \/ /\ ~LeaseLost(w)
        /\ \/ /\ Kind[Job(w)] = "extraction_run"
              /\ RunOver(Job(w))
              /\ Goto(w, "park")
           \/ /\ \/ Kind[Job(w)] # "extraction_run"
                 \/ ~RunOver(Job(w))
                 \/ "read" \in Faults
              /\ Goto(w, "failing")
        /\ beat' = [beat EXCEPT ![w] = "off"]
        /\ UNCHANGED <<held, stage, carry, ending>>
  /\ UNCHANGED <<queueVars, runVars>>

FailJob(w) ==
  /\ pc[w] = "failing"
  /\ Fenced(w, Fail(held[w]))
  /\ Release(w)
  /\ UNCHANGED runVars

(* Mutant: every terminal run's job is dead-lettered.                       *)
ParkWriteDeadLettersAll(w) == DeadLetter(held[w])

(* _park_terminal_run_job: the run's status picks the job's terminal write. *)
ParkWrite(w) ==
  \/ run[Job(w)] = "succeeded" /\ Complete(held[w])
  \/ run[Job(w)] = "cancelled" /\ Cancel(held[w])
  \/ run[Job(w)] = "failed" /\ DeadLetter(held[w])

Park(w) ==
  /\ pc[w] = "park"
  /\ IF LeaseLost(w) THEN UNCHANGED queueVars ELSE Fenced(w, ParkWrite(w))
  /\ Release(w)
  /\ UNCHANGED runVars

(* Mutant: a run that waits for review is not taken for a success.          *)
VerdictWriteRetriesReview(w) ==
  \/ ending[w] = "ok" /\ Fail(held[w])
  \/ ending[w] = "cancelled" /\ Cancel(held[w])
  \/ ending[w] = "failed" /\ DeadLetter(held[w])

(* The handler returned: its verdict picks the fenced terminal write.       *)
VerdictWrite(w) ==
  \/ ending[w] = "ok" /\ Complete(held[w])
  \/ ending[w] = "cancelled" /\ Cancel(held[w])
  \/ ending[w] = "failed" /\ DeadLetter(held[w])

Settle(w) ==
  /\ pc[w] = "settle"
  /\ IF LeaseLost(w) THEN UNCHANGED queueVars ELSE Fenced(w, VerdictWrite(w))
  /\ Release(w)
  /\ UNCHANGED runVars

-----------------------------------------------------------------------------
(* The heartbeat thread, on its own connection.                             *)
Beat(w) ==
  /\ beat[w] = "on"
  /\ \/ Heartbeat(held[w]) /\ UNCHANGED beat
     \/ /\ ~Live(held[w])
        /\ beat' = [beat EXCEPT ![w] = "lost"]
        /\ UNCHANGED queueVars
  /\ late' = [late EXCEPT ![w] = FALSE]
  /\ UNCHANGED <<pc, held, stage, carry, ending, runVars>>

(* A connection failure: beating stops, and lease_lost stays unset.         *)
BeatFails(w) ==
  /\ "beat" \in Faults
  /\ beat[w] = "on"
  /\ beat' = [beat EXCEPT ![w] = "dead"]
  /\ late' = [late EXCEPT ![w] = FALSE]
  /\ UNCHANGED <<pc, held, stage, carry, ending, queueVars, runVars>>

(* The process dies; a restarted one begins with an empty memory.           *)
Crash(w) ==
  /\ "crash" \in Faults
  /\ Active(w)
  /\ Release(w)
  /\ UNCHANGED <<queueVars, runVars>>

(* Unless processes may stand still, the clock waits for each of them to    *)
(* beat, or to act when it has no heartbeat thread.                         *)
ClockTick ==
  /\ \A w \in Workers : ~late[w]
  /\ Tick
  /\ late' = [w \in Workers |-> /\ "pause" \notin Faults
                                /\ Active(w)
                                /\ beat[w] \in {"on", "off"}]
  /\ UNCHANGED <<pc, held, beat, stage, carry, ending, runVars>>

-----------------------------------------------------------------------------
(* The API.                                                                 *)

(* runs._enqueue inserts the run and its job in one transaction; platform   *)
(* jobs have no run.                                                        *)
Create(j) ==
  /\ Enqueue(j)
  /\ run' = [run EXCEPT ![j] =
               IF Kind[j] = "extraction_run" THEN "queued" ELSE @]
  /\ UNCHANGED <<ckpt, persisted, log, localVars>>

(* runs.cancel on a queued or running run only leaves a marker.             *)
CancelRequest(j) ==
  /\ "cancel" \in Api
  /\ run[j] \in {"queued", "running"}
  /\ RequestCancel(j)
  /\ UNCHANGED <<runVars, localVars>>

(* Mutant: the API ends the job row too, past its lease.                    *)
CancelWaitingEndsJob(j) ==
  /\ "cancel" \in Api
  /\ run[j] = "waiting_review"
  /\ run' = [run EXCEPT ![j] = "cancelled"]
  /\ AppendEvent(j, "run_cancelled")
  /\ status' = [status EXCEPT ![j] = "cancelled"]
  /\ UNCHANGED <<attempts, lease, sinceBeat, untilDue, error, cancelRequested,
                 issued, ckpt, persisted, localVars>>

(* runs.cancel on a run waiting for review ends it there and then.          *)
CancelWaiting(j) ==
  /\ "cancel" \in Api
  /\ run[j] = "waiting_review"
  /\ run' = [run EXCEPT ![j] = "cancelled"]
  /\ AppendEvent(j, "run_cancelled")
  /\ UNCHANGED <<ckpt, persisted, queueVars, localVars>>

(* review.apply on the run's last open proposals: finish_review.            *)
FinishReview(j) ==
  /\ "review" \in Api
  /\ run[j] = "waiting_review"
  /\ persisted[j]
  /\ run' = [run EXCEPT ![j] = "succeeded"]
  /\ log' = [log EXCEPT ![j] = @ \o <<"review_completed", "run_succeeded">>]
  /\ UNCHANGED <<ckpt, persisted, queueVars, localVars>>

-----------------------------------------------------------------------------
WorkerStep(w) ==
  \/ Poll(w) \/ ClaimNext(w) \/ Dispatch(w) \/ Ingest(w)
  \/ Bind(w) \/ StartStage(w) \/ Work(w) \/ CommitStage(w)
  \/ CloseRun(w) \/ AnnounceReview(w) \/ LandRun(w)
  \/ CatchEscape(w) \/ FailJob(w) \/ Park(w) \/ Settle(w)

WorkerNext ==
  \/ \E w \in Workers : WorkerStep(w) \/ Beat(w) \/ BeatFails(w) \/ Crash(w)
  \/ \E j \in Jobs : \/ Create(j) \/ CancelRequest(j)
                     \/ CancelWaiting(j) \/ FinishReview(j)
  \/ ClockTick

(* The loop, its handlers and the heartbeat thread keep running and the     *)
(* clock keeps going; clients, reviewers and faults owe nothing.            *)
Fairness ==
  /\ \A w \in Workers : WF_vars(WorkerStep(w)) /\ WF_vars(Beat(w))
  /\ WF_vars(ClockTick)

WorkerSpec == WorkerInit /\ [][WorkerNext]_vars
FairWorkerSpec == WorkerSpec /\ Fairness

-----------------------------------------------------------------------------
(* Properties.                                                              *)

Extractions == {j \in Jobs : Kind[j] = "extraction_run"}

(* A job that ends says the same of its run, whatever fails: a cancelled    *)
(* job has a cancelled run, a dead-lettered one a failed run, a succeeded   *)
(* one a run that is no longer the worker's; and a job ends with its run    *)
(* still open only when no attempt is left.  (consumer.py:230-292 and       *)
(* 543-653: parking and the verdict writes.)                                *)
JobMatchesRun ==
  \A j \in Extractions :
    /\ status[j] = "cancelled" => run[j] = "cancelled"
    /\ status[j] = "failed" /\ error[j] = "JOB_DEAD_LETTERED"
         => run[j] = "failed"
    /\ status[j] \in Terminal /\ run[j] \in {"queued", "running"}
         => status[j] = "failed" /\ attempts[j] = MaxAttempts

(* The transitions fel_guard_extraction_run allows, the INSERT included.    *)
LegalMoves ==
  {<<"none", "queued">>, <<"queued", "running">>, <<"queued", "cancelled">>}
    \cup {"running"} \X ({"waiting_review"} \cup RunTerminal)
    \cup {"waiting_review"} \X RunTerminal

(* No worker, zombie or API call ever asks for a transition the guard       *)
(* refuses for another reason than a terminal run: the handler's resume     *)
(* path never needs one.  (0004_extraction_core.sql:441-453 against         *)
(* persist.py:65-111, runs.py:325-332 and review.py:352-374.)               *)
RunTransitionsLegal ==
  [][\A j \in Jobs :
       run'[j] # run[j] => <<run[j], run'[j]>> \in LegalMoves]_vars

(* Outcome and evidence agree even when two workers drive one run: a run    *)
(* waits for review only over persisted proposals that the checkpoint       *)
(* records, a run that succeeds without a review checkpointed an empty      *)
(* result, and every worker past the model stage carries the output that    *)
(* won the success key.  (persist_checkpoint.py:111-227, workflow.py:       *)
(* 419-453.)                                                                *)
EvidenceAgrees ==
  /\ \A j \in Jobs :
       /\ run[j] = "waiting_review" =>
            persisted[j] /\ ckpt[j][LastStage] = "proposals"
       /\ run[j] = "succeeded" =>
            \/ ckpt[j][LastStage] = "empty" /\ ~persisted[j]
            \/ \E i \in DOMAIN log[j] : log[j][i] = "review_completed"
  /\ \A w \in Workers :
       Active(w) /\ stage[w] > 1 => carry[w] = ckpt[Job(w)][1]

(* The last lifecycle event of a finished run names its status, across      *)
(* crashes between the two writes and API calls between them, as long as    *)
(* one worker at a time drives the run.  (workflow.py:117-176, runs.py:     *)
(* 292-346, review.py:352-374: event before status.)                        *)
TerminalEventLast ==
  \A j \in Jobs : RunOver(j) =>
    log[j] # <<>> /\ log[j][Len(log[j])] = EventOf(run[j])

(* A worker whose thread beats, and that acts promptly where it has none,   *)
(* keeps its lease to the end of its job.  (consumer.py:80-134 and the      *)
(* ratio of HEARTBEAT_STALE_SECONDS to the beat interval.)                  *)
HealthyNeverReaped == \A w \in Workers : Active(w) => Live(held[w])

(* Without crashes and lost leases a run that waits for review is ended by  *)
(* the API alone: no redelivery reaches it.  (consumer.py:648-653 completes *)
(* the job of a waiting_review run.)                                        *)
ReviewKept ==
  [][\A j \in Jobs :
       run[j] = "waiting_review" /\ run'[j] # run[j] =>
         UNCHANGED localVars]_vars

(* A run that waits for review is left to its reviewers. The delivery that  *)
(* sent it there completes its job: only the reaper, who writes no error,   *)
(* brings a second one. That one resumes from the checkpoints, asks and     *)
(* persists nothing, and can only end the run at a stage boundary, for a    *)
(* cancel requested before the review or for the wall-clock cap.            *)
(* (consumer.py:648-653; workflow.py:249-274, _boundary and load_succeeded.) *)
ReviewResumed ==
  /\ \A j \in Jobs :
       run[j] = "waiting_review" /\ status[j] = "queued" /\ attempts[j] = 1 =>
         error[j] = "none"
  /\ \A w \in Workers : Active(w) /\ run[Job(w)] = "waiting_review" =>
       /\ pc[w] \notin {"work", "commit"}
       /\ ending[w] # "ok" =>
            /\ held[w].attempts > 1
            /\ (ending[w] = "cancelled" /\ CancelSeen(w)) \/ ending[w] = "failed"

(* Every job that is created ends, whatever its kind and however often its  *)
(* workers die.  (queue.py:314-357 and consumer.py:409-423: reap, claim,    *)
(* bounded attempts.)                                                       *)
EveryJobEnds ==
  \A j \in Jobs : status[j] = "queued" ~> status[j] \in Terminal

-----------------------------------------------------------------------------
(* What the documents say of the program, refuted by a run.                 *)

(* openapi.yaml:3035: "queued/running cancellation completes                *)
(* cooperatively".                                                          *)
CancellationCompletes ==
  \A j \in Extractions :
    cancelRequested[j] ~> run[j] \notin {"queued", "running"}

(* consumer.py:243-244: "job and run terminal states agree for every        *)
(* terminal outcome".                                                       *)
TerminalStatesAgree ==
  \A j \in Extractions :
    status[j] \in Terminal /\ RunOver(j) => status[j] = run[j]
=============================================================================
