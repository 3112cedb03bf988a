--------------------------- MODULE StageExecution ---------------------------
(* How one extraction run executes its stages: the checkpoint of a stage is  *)
(* loaded and verified, or the stage is executed under the run's budget and  *)
(* its row inserted, or repaired by compare-and-swap when this worker found  *)
(* it damaged (workflow.py, workflow_checkpoint.py, persist_checkpoint.py,   *)
(* runner.py, budget.py).                                                    *)
(*                                                                           *)
(* Several workers may execute one run: a worker whose heartbeat thread died *)
(* keeps lease_check() true while the queue hands the job to another.        *)
(* ExtractionWorker has the lease, the queue and the verdicts; here a worker *)
(* claims when the queue could have delivered the job to it.                 *)
(*                                                                           *)
(* A stage's input stands for its input_hash and an output for its own hash: *)
(* only equality of either is ever used. The input of a stage is the output  *)
(* of the stage before it.                                                   *)
EXTENDS Integers, FiniteSets, FiniteSetsExt

CONSTANTS
    Workers,
    LastStage,      \* stages 1 .. LastStage stand for STAGE_ORDER
    ModelStages,    \* stages that call the model
    Skipped,        \* mode stages that the run did not request
    Answers,        \* what the model may answer
    Request,        \* the input of stage 1
    CallCosts,      \* cost of one call
    MaxCalls, MaxCost,   \* the run's caps
    Faults,         \* subset of {"crash", "lease", "overlap", "tamper", "cancel"}
    MaxClaims,      \* bound: deliveries of the job
    MaxTampers,     \* bound: damaged rows
    MaxRow,         \* bound: attempt numbers in use
    None

ASSUME StageAssumption ==
    /\ LastStage \in Nat \ {0} /\ MaxRow \in Nat \ {0}
    /\ ModelStages \subseteq 1 .. LastStage
    /\ Skipped \subseteq 1 .. LastStage
    /\ MaxCalls \in Nat /\ MaxCost \in Nat
    /\ CallCosts \subseteq Nat /\ IsFiniteSet(CallCosts)
    /\ MaxClaims \in Nat /\ MaxTampers \in Nat
    /\ Faults \subseteq {"crash", "lease", "overlap", "tamper", "cancel"}
    /\ None \notin Answers \cup {Request}

StepTries == 2      \* roles/base.py MAX_ATTEMPTS: one call and one repair

Stages  == 1 .. LastStage
Attempts == 1 .. MaxRow
Values  == Answers \cup {Request}
NoUsage == [calls |-> 0, cost |-> 0]
Usage == [calls : Nat, cost : Nat]

\* A row of extraction_run_steps; xmin stands for its MVCC version.
StepRow == [status : {"succeeded", "failed"}, input : Values, output : Values \cup {None},
            hash : Values \cup {None}, xmin : Nat]

\* The absence of a value is no value.
ASSUME NoneAssumption == None \notin Attempts \X Nat /\ None \notin StepRow

Plus(u, c) == [calls |-> u.calls + 1, cost |-> u.cost + c]
Greatest(u, v) == [calls |-> Max({u.calls, v.calls}), cost |-> Max({u.cost, v.cost})]

VARIABLES
    run,        \* extraction_runs.status
    used,       \* extraction_runs.calls_used, cost_usd
    rows,       \* extraction_run_steps by step_name and attempt
    announced,  \* output_hash named by the last step_completed of <<stage, input>>
    wk,         \* the state of each worker's attempt
    spent,      \* history: what the provider was asked for, in all
    waived,     \* history: spending of attempts that ended without a flush
    overlapped, \* history: two attempts were under way at once
    claims,     \* history: deliveries so far
    tampers     \* history: rows damaged so far

stageVars == <<run, used, rows, announced, wk, spent, waived, overlapped, claims, tampers>>

(* --------------------------- a worker's attempt ------------------------- *)
(* pc is "idle", "boundary", "call", "flush", "commit", "failing" or         *)
(* "ending". token is the identity and MVCC version of the row it rejected;  *)
(* tries counts the calls of the current step; due is what it spent since    *)
(* its last flush; why is what ended the stage loop.                         *)
Idle == [pc |-> "idle", stage |-> 1, input |-> Request, output |-> None, token |-> None,
         tries |-> 0, budget |-> NoUsage, due |-> NoUsage, lease |-> FALSE, why |-> "none"]

Active(w) == wk[w].pc # "idle"
RunEnded  == run \in {"succeeded", "failed", "cancelled"}

StageInit ==
    /\ run = "running" /\ used = NoUsage
    /\ rows = [s \in Stages |-> [a \in Attempts |-> None]]
    /\ announced = [k \in Stages \X Values |-> None]
    /\ wk = [w \in Workers |-> Idle]
    /\ spent = NoUsage /\ waived = NoUsage
    /\ overlapped = FALSE /\ claims = 0 /\ tampers = 0

(* ------------------------------ step rows ------------------------------- *)
Taken(s) == {a \in Attempts : rows[s][a] # None}

\* The row of the partial unique index (step_name, input_hash) WHERE succeeded.
Succeeded(s, in) ==
    {a \in Taken(s) : rows[s][a].status = "succeeded" /\ rows[s][a].input = in}

\* workflow_checkpoint._is_recoverable: output present and hashing to output_hash
Recoverable(row) == row.output # None /\ row.output = row.hash

\* The attempt number under which a record goes in: past the failed rows, when
\* its own number is taken by one.
AttemptFor(s, a) ==
    IF rows[s][a] # None /\ rows[s][a].status = "failed"
    THEN Max(Taken(s)) + 1 ELSE a

NewRow(status, in, out) ==
    [status |-> status, input |-> in, output |-> out, hash |-> out, xmin |-> 0]

(* -------------------------------- claims -------------------------------- *)
FromZeroMutant == NoUsage

\* run_extraction_workflow up to the first boundary: the budget carries what
\* earlier attempts recorded. Only a terminal run is settled before dispatch: a
\* redelivered job executes a run that waits for review again.
CarriedUsage == used

Claim(w) ==
    /\ ~Active(w) /\ ~RunEnded
    /\ claims < MaxClaims
    /\ "overlap" \in Faults \/ \A v \in Workers : ~Active(v)
    /\ claims' = claims + 1
    /\ overlapped' = (overlapped \/ \E v \in Workers : Active(v))
    /\ wk' = [wk EXCEPT ![w] = [Idle EXCEPT !.pc = "boundary", !.lease = TRUE,
                                            !.budget = CarriedUsage]]
    /\ UNCHANGED <<run, used, rows, announced, spent, waived, tampers>>

Unchanged == UNCHANGED <<overlapped, claims, tampers>>

\* An exception leaves the stage loop: usage is flushed if the lease is still
\* held (the inner finally), then the handler of that exception runs.
Leave(w, why) == [wk[w] EXCEPT !.pc = IF wk[w].lease THEN "flush" ELSE "ending",
                               !.why = why, !.output = None]

(* ---------------------------- stage boundaries --------------------------- *)
\* _boundary and the load of the stage's checkpoint.
NextStage(w, out) ==
    [wk[w] EXCEPT !.pc = "boundary", !.stage = @ + 1, !.input = out, !.output = None,
                  !.token = None, !.tries = 0]

BoundaryStops(w) ==
    /\ wk[w].pc = "boundary"
    /\ \/ /\ wk[w].stage > LastStage /\ wk' = [wk EXCEPT ![w] = Leave(w, "done")]
       \/ /\ wk[w].stage <= LastStage /\ ~wk[w].lease
          /\ wk' = [wk EXCEPT ![w] = Leave(w, "lost")]
       \/ /\ wk[w].stage <= LastStage /\ wk[w].lease /\ "cancel" \in Faults
          /\ wk' = [wk EXCEPT ![w] = Leave(w, "cancelled")]
    /\ UNCHANGED <<run, used, rows, announced, spent, waived>> /\ Unchanged

AtStage(w) == wk[w].pc = "boundary" /\ wk[w].stage <= LastStage /\ wk[w].lease

Skip(w) ==
    /\ AtStage(w) /\ wk[w].stage \in Skipped
    /\ wk' = [wk EXCEPT ![w] = NextStage(w, wk[w].input)]
    /\ UNCHANGED <<run, used, rows, announced, spent, waived>> /\ Unchanged

Resume(w) ==
    /\ AtStage(w) /\ wk[w].stage \notin Skipped
    /\ \E a \in Succeeded(wk[w].stage, wk[w].input) :
         LET row == rows[wk[w].stage][a]
         IN /\ Recoverable(row)
            /\ wk' = [wk EXCEPT ![w] = NextStage(w, row.output)]
    /\ UNCHANGED <<run, used, rows, announced, spent, waived>> /\ Unchanged

\* No row, or one that _is_recoverable refuses: reject_loaded keeps its id and
\* xmin. step_started is refused once the run is terminal.
Execute(w) ==
    /\ AtStage(w) /\ wk[w].stage \notin Skipped
    /\ LET found == Succeeded(wk[w].stage, wk[w].input)
       IN /\ \A a \in found : ~Recoverable(rows[wk[w].stage][a])
          /\ IF RunEnded THEN wk' = [wk EXCEPT ![w] = Leave(w, "failed")]
             ELSE \E token \in IF found = {} THEN {None}
                               ELSE {<<a, rows[wk[w].stage][a].xmin>> : a \in found} :
                    wk' = [wk EXCEPT ![w].pc = "call", ![w].token = token]
    /\ UNCHANGED <<run, used, rows, announced, spent, waived>> /\ Unchanged

(* ------------------------------ model calls ------------------------------ *)
\* RunBudget.precheck
MayCall(b) == b.calls < MaxCalls /\ b.cost < MaxCost

\* RunBudget.record: the call that crosses the cost cap still counts.
Crossed(b) == b.cost > MaxCost

\* A stage without a model computes its output from its input.
Compute(w) ==
    /\ wk[w].pc = "call" /\ wk[w].stage \notin ModelStages
    /\ \/ wk' = [wk EXCEPT ![w].pc = "commit", ![w].output = wk[w].input,
                           ![w].tries = 1]
       \/ wk' = [wk EXCEPT ![w].pc = "failing"]       \* the stage raises
    /\ UNCHANGED <<run, used, rows, announced, spent, waived>> /\ Unchanged

\* _stage_model: the chunks of a model stage go through run_model_step.
AtModel(w) == wk[w].pc = "call" /\ wk[w].stage \in ModelStages

Refuse(w) ==
    /\ AtModel(w)
    /\ ~MayCall(wk[w].budget)
    /\ wk' = [wk EXCEPT ![w].pc = "failing"]
    /\ UNCHANGED <<run, used, rows, announced, spent, waived>> /\ Unchanged

\* The answer fails the envelope or item checks and may be repaired.
Repaired(outcome, made) == outcome = "invalid" /\ made < StepTries

\* One turn of run_model_step's loop: an accepted answer, an answer that fails
\* its schema (repaired once), or a refusal or provider error. A provider that
\* raises is charged by itself and not by the budget.
CallModel(w) ==
    /\ AtModel(w)
    /\ MayCall(wk[w].budget)
    /\ \E c \in CallCosts, outcome \in Answers \cup {"invalid", "refused"} :
         LET b    == Plus(wk[w].budget, c)
             made == wk[w].tries + 1
             stop == Crossed(b) \/ outcome = "refused"
                     \/ (outcome = "invalid" /\ ~Repaired(outcome, made))
         IN /\ spent' = Plus(spent, c)
            /\ wk' = [wk EXCEPT ![w].budget = b, ![w].due = Plus(wk[w].due, c),
                                ![w].tries = made,
                                ![w].output = IF stop \/ outcome = "invalid"
                                              THEN None ELSE outcome,
                                ![w].pc = CASE stop -> "failing"
                                            [] ~stop /\ Repaired(outcome, made) -> "call"
                                            [] OTHER -> "flush"]
    /\ UNCHANGED <<run, used, rows, announced, waived>> /\ Unchanged

\* record_usage: each counter is merged with GREATEST under the row lock; the
\* run's guard refuses it once the run is terminal.
FlushedUsage(u, b) == Greatest(u, b)

Flush(w) ==
    /\ wk[w].pc = "flush"
    /\ used' = IF RunEnded THEN used ELSE FlushedUsage(used, wk[w].budget)
    /\ wk' = [wk EXCEPT ![w].due = NoUsage,
                        ![w].pc = IF wk[w].output = None THEN "ending"
                                  ELSE IF RunEnded THEN "failing" ELSE "commit"]
    /\ UNCHANGED <<run, rows, announced, spent, waived>> /\ Unchanged

(* -------------------------------- commits -------------------------------- *)
\* _commit_fence.
FenceStops(w) ==
    /\ wk[w].pc = "commit"
    /\ \/ ~wk[w].lease /\ wk' = [wk EXCEPT ![w] = Leave(w, "lost")]
       \/ wk[w].lease /\ "cancel" \in Faults /\ wk' = [wk EXCEPT ![w] = Leave(w, "cancelled")]
    /\ UNCHANGED <<run, used, rows, announced, spent, waived>> /\ Unchanged

\* Mutant: the conflicting row is replaced whatever it holds.
UpsertAnyRow(s, in, token) == Succeeded(s, in)

\* The CAS of _insert_step_row: the row this worker rejected, at the version it
\* had then.
Repairable(s, in, token) ==
    {a \in Succeeded(s, in) : token = <<a, rows[s][a].xmin>>}

\* commit_succeeded_atomic: the row and its step_completed in one transaction
\* that holds the run's row lock. The terminal guard refuses both.
Committing(w) == wk[w].pc = "commit" /\ wk[w].lease

CommitRefused(w) ==
    /\ Committing(w) /\ RunEnded
    /\ wk' = [wk EXCEPT ![w] = Leave(w, "failed")]
    /\ UNCHANGED <<run, used, rows, announced, spent, waived>> /\ Unchanged

\* INSERT ... ON CONFLICT DO NOTHING, on the attempt and on the success key.
NumberFor(w) == AttemptFor(wk[w].stage, wk[w].tries)
Inserts(w) ==
    /\ rows[wk[w].stage][NumberFor(w)] = None
    /\ Succeeded(wk[w].stage, wk[w].input) = {}

Announce(w) == announced' = [announced EXCEPT ![<<wk[w].stage, wk[w].input>>] = wk[w].output]

InsertRow(w) ==
    /\ Committing(w) /\ ~RunEnded /\ NumberFor(w) \in Attempts /\ Inserts(w)
    /\ rows' = [rows EXCEPT ![wk[w].stage][NumberFor(w)] =
                    NewRow("succeeded", wk[w].input, wk[w].output)]
    /\ Announce(w)
    /\ wk' = [wk EXCEPT ![w] = NextStage(w, wk[w].output)]
    /\ UNCHANGED <<run, used, spent, waived>> /\ Unchanged

RepairRow(w) ==
    /\ Committing(w) /\ ~RunEnded /\ NumberFor(w) \in Attempts /\ ~Inserts(w)
    /\ \E r \in Repairable(wk[w].stage, wk[w].input, wk[w].token) :
         rows' = [rows EXCEPT ![wk[w].stage][r].output = wk[w].output,
                              ![wk[w].stage][r].hash = wk[w].output,
                              ![wk[w].stage][r].xmin = @ + 1]
    /\ Announce(w)
    /\ wk' = [wk EXCEPT ![w] = NextStage(w, wk[w].output)]
    /\ UNCHANGED <<run, used, spent, waived>> /\ Unchanged

\* Mutant: a conflict with another worker's row counts as a commit.
ConflictIgnoredMutant(w) ==
    /\ Committing(w) /\ ~RunEnded /\ NumberFor(w) \in Attempts /\ ~Inserts(w)
    /\ Repairable(wk[w].stage, wk[w].input, wk[w].token) = {}
    /\ Announce(w)
    /\ wk' = [wk EXCEPT ![w] = NextStage(w, wk[w].output)]
    /\ UNCHANGED <<run, used, rows, spent, waived>> /\ Unchanged

\* No row of ours to repair: LeaseLost, code checkpoint_superseded.
Superseded(w) ==
    /\ Committing(w) /\ ~RunEnded /\ NumberFor(w) \in Attempts /\ ~Inserts(w)
    /\ Repairable(wk[w].stage, wk[w].input, wk[w].token) = {}
    /\ wk' = [wk EXCEPT ![w] = Leave(w, "superseded")]
    /\ UNCHANGED <<run, used, rows, announced, spent, waived>> /\ Unchanged

\* _record_stage_failure: a failed row if attempt 1 is free; best effort.
RecordStageFailure(w) ==
    /\ wk[w].pc = "failing"
    /\ rows' = IF wk[w].lease /\ ~RunEnded /\ rows[wk[w].stage][1] = None
               THEN [rows EXCEPT ![wk[w].stage][1] = NewRow("failed", wk[w].input, None)]
               ELSE rows
    /\ wk' = [wk EXCEPT ![w] = Leave(w, "failed")]
    /\ UNCHANGED <<run, used, announced, spent, waived>> /\ Unchanged

\* The handler of what left the loop, or _finalize_success (nothing to review:
\* succeeded): a status write, or nothing without the lease.
Outcomes(w) ==
    CASE ~wk[w].lease \/ wk[w].why \in {"lost", "superseded"} \/ RunEnded -> {run}
      [] wk[w].lease /\ ~RunEnded /\ wk[w].why = "done" -> {"waiting_review", "succeeded"}
      [] OTHER -> {wk[w].why}

End(w) ==
    /\ wk[w].pc = "ending"
    /\ run' \in Outcomes(w)
    /\ waived' = [calls |-> waived.calls + wk[w].due.calls,
                  cost |-> waived.cost + wk[w].due.cost]
    /\ wk' = [wk EXCEPT ![w] = Idle]
    /\ UNCHANGED <<used, rows, announced, spent>> /\ Unchanged

(* --------------------------------- faults -------------------------------- *)
Crash(w) ==
    /\ "crash" \in Faults /\ Active(w)
    /\ waived' = [calls |-> waived.calls + wk[w].due.calls,
                  cost |-> waived.cost + wk[w].due.cost]
    /\ wk' = [wk EXCEPT ![w] = Idle]
    /\ UNCHANGED <<run, used, rows, announced, spent>> /\ Unchanged

\* The heartbeat thread finds the lease gone and latches it.
LoseLease(w) ==
    /\ "lease" \in Faults /\ Active(w) /\ wk[w].lease
    /\ wk' = [wk EXCEPT ![w].lease = FALSE]
    /\ UNCHANGED <<run, used, rows, announced, spent, waived>> /\ Unchanged

\* A stored output is lost or altered while its hash stays.
Tamper(s, a) ==
    /\ "tamper" \in Faults /\ tampers < MaxTampers /\ ~RunEnded
    /\ rows[s][a] # None /\ rows[s][a].status = "succeeded"
    /\ \E v \in (Values \cup {None}) \ {rows[s][a].hash} :
         rows' = [rows EXCEPT ![s][a].output = v, ![s][a].xmin = @ + 1]
    /\ tampers' = tampers + 1
    /\ UNCHANGED <<run, used, announced, wk, spent, waived, overlapped, claims>>

Step(w) ==
    \/ BoundaryStops(w) \/ Skip(w) \/ Resume(w) \/ Execute(w)
    \/ Compute(w) \/ Refuse(w) \/ CallModel(w) \/ Flush(w)
    \/ FenceStops(w) \/ CommitRefused(w) \/ InsertRow(w) \/ RepairRow(w) \/ Superseded(w)
    \/ RecordStageFailure(w) \/ End(w)

StageNext ==
    \/ \E w \in Workers : Claim(w) \/ Step(w) \/ Crash(w) \/ LoseLease(w)
    \/ \E s \in Stages, a \in Attempts : Tamper(s, a)

StageSpec == StageInit /\ [][StageNext]_stageVars
-----------------------------------------------------------------------------
Success(s, a) == rows[s][a] # None /\ rows[s][a].status = "succeeded"

\* Repairs and concurrent commits never replace a checkpoint that verifies
\* (persist_checkpoint._insert_step_row): only damage changes it.
GoodCheckpointKept ==
    [][\A s \in Stages, a \in Attempts :
         Success(s, a) /\ Recoverable(rows[s][a])
           => rows'[s][a] = rows[s][a] \/ tampers' > tampers]_stageVars

\* The last step_completed event of a key names the hash that its row holds:
\* no worker announces an output that lost the race for the row.
CompletionNamesRow ==
    \A s \in Stages, a \in Attempts :
        Success(s, a) => announced[<<s, rows[s][a].input>>] = rows[s][a].hash

\* While nothing is damaged, workers that execute one run at the same time,
\* and get different answers, still go on from one output per stage, and the
\* event log tells the same story as the rows (commit_succeeded_atomic).
OneAnswerPerStage ==
    /\ CompletionNamesRow
    /\ tampers = 0 =>
        /\ \A s \in Stages : Cardinality({a \in Attempts : Success(s, a)}) <= 1
        /\ \A v, w \in Workers :
             Active(v) /\ Active(w) /\ wk[v].stage = wk[w].stage
               => wk[v].input = wk[w].input

\* The caps bound the run and not an attempt (budget.py): deliveries one after
\* another make no more calls than the cap, and overshoot the cost by less than
\* a call, except for what a crash or a lost lease kept from being recorded.
BudgetHolds ==
    ~overlapped =>
        /\ spent.calls <= MaxCalls + waived.calls
        /\ spent.cost < MaxCost + Max(CallCosts \cup {1}) + waived.cost

\* workflow_checkpoint._is_recoverable says that re-running a rejected stage is
\* always safe: then a worker that never had a rival is never superseded.
SupersededOnlyByRival ==
    \A w \in Workers : wk[w].why = "superseded" => overlapped
=============================================================================
