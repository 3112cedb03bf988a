----------------------------- MODULE RetrievalRun -----------------------------
(* Research queries of one organisation (apps/api/app/retrieval.py,           *)
(* retrieval_queries.py, retrieval_pipeline.py, retrieval_run_store.py,       *)
(* costs.py): admission under the spending ceilings, the pipeline in a        *)
(* transaction of its own, the failure path, idempotent replays, feedback.    *)
(*                                                                            *)
(* A request that is admitted owns the run it inserts, so the run is named    *)
(* after its request. What is in an open transaction is seen by nobody else;  *)
(* tables change only where the code commits.                                 *)
EXTENDS Integers, Sequences, FiniteSets, FiniteSetsExt

CONSTANTS
    Requests,      \* HTTP requests, each served by a thread of some API process
    Caller,        \* the user who makes a request
    Route,         \* "createQuery", "createQueryRerun" or "createRetrievalFeedback"
    KeyOf,         \* its Idempotency-Key
    Reserve,       \* research_query_cost_usd, what admission sets aside
    Costs,         \* what the token usage of a generation may come to
    UserLimit,     \* user_daily_cost_limit_usd
    OrgLimit,      \* org_monthly_cost_limit_usd
    ApiFaults,     \* a subset of {"crash", "exception", "store", "scale"}
    MaxDays,       \* bound: midnights
    MonthEnd,      \* the midnight that also ends the month
    Nobody

ASSUME RetrievalAssumption ==
    /\ Nobody \notin Requests /\ IsFiniteSet(Requests)
    /\ Reserve \in Nat /\ Costs \subseteq Nat /\ UserLimit \in Nat /\ OrgLimit \in Nat
    /\ MonthEnd \in Nat
    /\ ApiFaults \subseteq {"crash", "exception", "store", "scale"}

VARIABLES
    budgetLock,   \* who holds the organisation's advisory lock
    at,           \* where each request stands
    charged,      \* what the provider reported for the request's generation
    paid,         \* usage.cost_usd of the request's pipeline (_RunUsage)
    runs,         \* retrieval_runs with their events; absent runs have no row
    usage,        \* usage_events
    keys,         \* idempotency_keys
    feedback,     \* retrieval_feedback, as the requests that wrote a row
    today         \* the calendar: midnights passed

retrievalVars == <<budgetLock, at, charged, paid, runs, usage, keys, feedback, today>>

Absent == [status |-> "absent", trace |-> <<>>, cost |-> 0]
Finished(r) == runs[r].status \in {"succeeded", "abstained", "failed"}
Pending(r) == runs[r].status = "queued"

RetrievalInit ==
    /\ budgetLock = Nobody
    /\ at = [r \in Requests |-> "idle"] /\ paid = [r \in Requests |-> 0]
    /\ charged = [r \in Requests |-> 0]
    /\ runs = [r \in Requests |-> Absent]
    /\ usage = {} /\ keys = {} /\ feedback = {} /\ today = 0

(* ------------------------------- admission ------------------------------- *)
NoLockMutant(r) == TRUE

\* pg_advisory_xact_lock: one admission per organisation until it commits.
MayAdmit(r) == budgetLock = Nobody

\* lock_query_budget, first statement of create_query and create_query_rerun.
LockQueryBudget(r) ==
    /\ at[r] = "idle" /\ Route[r] # "createRetrievalFeedback"
    /\ MayAdmit(r)
    /\ budgetLock' = r /\ at' = [at EXCEPT ![r] = "locked"]
    /\ UNCHANGED <<charged, paid, runs, usage, keys, feedback, today>>

\* The stored answer of an earlier request with this key at this endpoint.
Stored(r) == {k \in keys : k.key = KeyOf[r] /\ k.route = Route[r]}

Unlocked(r) == IF budgetLock = r THEN Nobody ELSE budgetLock

Month(day) == IF day >= MonthEnd THEN 1 ELSE 0

\* spend_snapshot: actual usage of the period and every reservation of a run
\* that has not finished, whatever the day it was made, in one statement.
Actual(S) == MapThenSumSet(LAMBDA u : u.cost, S)
Reserved(S) == Reserve * Cardinality({r \in S : Pending(r)})
UserDay(c) ==
    Actual({u \in usage : u.user = c /\ u.day = today})
        + Reserved({r \in Requests : Caller[r] = c})
OrgMonth ==
    Actual({u \in usage : Month(u.day) = Month(today)}) + Reserved(Requests)

\* enforce_ceilings: the hard stops. The soft limits only add a header.
WithinCeilings(r) ==
    /\ UserDay(Caller[r]) + Reserve <= UserLimit
    /\ OrgMonth + Reserve <= OrgLimit

\* The replay lookup and the ceilings. A replay is neither checked nor billed;
\* a spent allowance is answered 402.
ReadSpend(r) ==
    /\ at[r] = "locked"
    /\ IF Stored(r) = {} /\ WithinCeilings(r)
         THEN at' = [at EXCEPT ![r] = "admissible"] /\ UNCHANGED budgetLock
         ELSE at' = [at EXCEPT ![r] = "done"] /\ budgetLock' = Unlocked(r)
    /\ UNCHANGED <<charged, paid, runs, usage, keys, feedback, today>>

\* Unknown workspace or query, as_of too wide, no published index, an invalid
\* plan: 404, 409 or 422 and the transaction is rolled back.
Reject(r) ==
    /\ at[r] = "admissible"
    /\ at' = [at EXCEPT ![r] = "done"] /\ budgetLock' = Unlocked(r)
    /\ UNCHANGED <<charged, paid, runs, usage, keys, feedback, today>>

\* A rerun needs an execute run of its query to name as its parent.
HasParent(r) ==
    Route[r] = "createQueryRerun" =>
        \E p \in Requests : Route[p] = "createQuery" /\ runs[p].status # "absent"

\* PRIMARY KEY (key, org_id, endpoint) of idempotency_keys, at the insert.
KeyFree(r) == Stored(r) = {}

\* _insert_query, _insert_run with its reservation, _idempotent_store, commit.
Admit(r) ==
    /\ at[r] = "admissible" /\ HasParent(r) /\ KeyFree(r)
    /\ runs' = [runs EXCEPT ![r].status = "queued"]
    /\ keys' = keys \cup {[key |-> KeyOf[r], route |-> Route[r], of |-> r]}
    /\ at' = [at EXCEPT ![r] = "queued"] /\ budgetLock' = Unlocked(r)
    /\ UNCHANGED <<charged, paid, usage, feedback, today>>

(* -------------------------------- pipeline -------------------------------- *)
PipelineStages == <<"planning", "retrieving", "fusing", "generating", "verifying">>

\* The events _execute_pipeline emits between two set_status calls; how many
\* lanes, claims and citations there are is left out.
Emitted ==
    [planning   |-> <<"run_started", "plan_ready">>,
     retrieving |-> <<"lane_started", "lane_completed">>,
     fusing     |-> <<"fusion_completed", "rerank_completed", "context_selected">>,
     generating |-> <<"claim_generated">>,
     verifying  |-> <<"citation_verified">>]

\* The trace of a pipeline that went through every stage.
FullTrace == Emitted.planning \o Emitted.retrieving \o Emitted.fusing
                \o Emitted.generating \o Emitted.verifying

StageFollowing(s) ==
    CASE s = "queued" -> PipelineStages[1]
      [] OTHER -> PipelineStages[1 + CHOOSE i \in 1 .. 4 : PipelineStages[i] = s]

\* One status of the pipeline's transaction to the next. The provider is called
\* in "generating"; its claims are read, a breach of the claims contract among
\* them, and its cost is captured before anything is verified or written.
Advance(r) ==
    /\ at[r] \in {"queued", "planning", "retrieving", "fusing", "generating"}
    /\ at' = [at EXCEPT ![r] = StageFollowing(at[r])]
    /\ IF at[r] = "generating"
         THEN \E c \in Costs : /\ charged' = [charged EXCEPT ![r] = c]
                               /\ paid' = [paid EXCEPT ![r] = c]
         ELSE UNCHANGED <<charged, paid>>
    /\ UNCHANGED <<budgetLock, runs, usage, keys, feedback, today>>

\* The answer passes the contract's schema and asserts an exponent NumericTuple
\* does not know: a ValueError, which the capture of a rejected generation does
\* not catch.
IllegalScale(r) ==
    /\ "scale" \in ApiFaults /\ at[r] = "generating"
    /\ \E c \in Costs : charged' = [charged EXCEPT ![r] = c]
    /\ at' = [at EXCEPT ![r] = "failing"]
    /\ UNCHANGED <<budgetLock, paid, runs, usage, keys, feedback, today>>

\* record_usage stamps the row when it is written.
UsageRow(r) == [run |-> r, user |-> Caller[r], cost |-> paid[r], day |-> today]

\* The terminal event, the terminal status and the usage row commit together.
\* Claims without support, a refusal or a rejected generation abstain.
CompleteRun(r) ==
    /\ at[r] = "verifying"
    /\ \E out \in {[status |-> "succeeded", last |-> "run_completed"],
                   [status |-> "abstained", last |-> "run_abstained"]} :
         runs' = [runs EXCEPT ![r] = [status |-> out.status, cost |-> paid[r],
                                      trace |-> Append(FullTrace, out.last)]]
    /\ usage' = usage \cup {UsageRow(r)}
    /\ at' = [at EXCEPT ![r] = "done"]
    /\ UNCHANGED <<budgetLock, charged, paid, keys, feedback, today>>

\* An unavailable provider, a failed lane, a dangling citation or a refused
\* write: the transaction is rolled back, no event of it was ever seen.
Raise(r) ==
    /\ "exception" \in ApiFaults
    /\ at[r] \in {"queued", "planning", "retrieving", "fusing", "generating", "verifying"}
    /\ at' = [at EXCEPT ![r] = "failing"]
    /\ UNCHANGED <<budgetLock, charged, paid, runs, usage, keys, feedback, today>>

UnbilledMutant(r) == {}

\* What the failure transaction bills: the cost the provider had reported.
FailureUsage(r) == IF paid[r] > 0 THEN {UsageRow(r)} ELSE {}

\* _record_run_failure: run_failed, status failed and the usage in a fresh
\* transaction. The writer is new, so its event has sequence number 1.
RecordFailure(r) ==
    /\ at[r] = "failing"
    /\ runs' = [runs EXCEPT ![r] = [status |-> "failed", cost |-> paid[r],
                                    trace |-> <<"run_failed">>]]
    /\ usage' = usage \cup FailureUsage(r)
    /\ at' = [at EXCEPT ![r] = "done"]
    /\ UNCHANGED <<budgetLock, charged, paid, keys, feedback, today>>

\* The database cannot take that either: 500, and the run stays queued.
LoseFailure(r) ==
    /\ "store" \in ApiFaults /\ at[r] = "failing"
    /\ at' = [at EXCEPT ![r] = "done"]
    /\ UNCHANGED <<budgetLock, charged, paid, runs, usage, keys, feedback, today>>

(* -------------------------------- feedback -------------------------------- *)
\* create_retrieval_feedback takes no lock: the lookup and the two inserts.
LookUpFeedback(r) ==
    /\ at[r] = "idle" /\ Route[r] = "createRetrievalFeedback"
    /\ at' = [at EXCEPT ![r] = IF Stored(r) = {} THEN "posting" ELSE "done"]
    /\ UNCHANGED <<budgetLock, charged, paid, runs, usage, keys, feedback, today>>

\* A candidate of a finished run is labelled; with the key taken meanwhile the
\* unique violation rolls the feedback row back too.
PostFeedback(r) ==
    /\ at[r] = "posting"
    /\ IF KeyFree(r) /\ \E p \in Requests : Finished(p)
         THEN /\ feedback' = feedback \cup {r}
              /\ keys' = keys \cup {[key |-> KeyOf[r], route |-> Route[r], of |-> r]}
         ELSE UNCHANGED <<feedback, keys>>
    /\ at' = [at EXCEPT ![r] = "done"]
    /\ UNCHANGED <<budgetLock, charged, paid, runs, usage, today>>

(* ------------------------------- environment ------------------------------ *)
\* The process dies: its transaction, and the advisory lock, go with it.
CrashApi(r) ==
    /\ "crash" \in ApiFaults /\ at[r] \notin {"idle", "done"}
    /\ at' = [at EXCEPT ![r] = "done"] /\ budgetLock' = Unlocked(r)
    /\ UNCHANGED <<charged, paid, runs, usage, keys, feedback, today>>

Midnight ==
    /\ today < MaxDays
    /\ today' = today + 1
    /\ UNCHANGED <<budgetLock, at, charged, paid, runs, usage, keys, feedback>>

RetrievalNext ==
    \/ \E r \in Requests :
         \/ LockQueryBudget(r) \/ ReadSpend(r) \/ Reject(r) \/ Admit(r)
         \/ Advance(r) \/ IllegalScale(r) \/ CompleteRun(r) \/ Raise(r) \/ RecordFailure(r) \/ LoseFailure(r)
         \/ LookUpFeedback(r) \/ PostFeedback(r) \/ CrashApi(r)
    \/ Midnight

RetrievalSpec == RetrievalInit /\ [][RetrievalNext]_retrievalVars

(* ------------------------------- properties ------------------------------- *)
\* What a run counts against a ceiling, at most what was set aside for it.
Counted(r) == IF Pending(r) THEN Reserve ELSE Min({runs[r].cost, Reserve})

\* The hard ceilings hold under concurrent admissions, crashes between the
\* generation and its billing, lost failure records and midnights: what the
\* unfinished runs set aside and what the finished ones of the period cost never
\* comes to more than a limit, but for what single runs cost above their
\* reservation (enforce_ceilings under lock_query_budget).
CeilingsHold ==
    LET billed == {u.run : u \in {v \in usage : v.day = today}}
        month  == {u.run : u \in {v \in usage : Month(v.day) = Month(today)}}
        total(S) == MapThenSumSet(Counted, S)
    IN  /\ \A c \in {Caller[r] : r \in Requests} :
             total({r \in Requests : Caller[r] = c /\ (Pending(r) \/ r \in billed)}) <= UserLimit
        /\ total({r \in Requests : Pending(r) \/ r \in month}) <= OrgLimit

\* A reservation gives way only to the bill: a finished run has exactly one
\* usage row with what its provider reported (none when that was nothing and it
\* failed), an unfinished one has none, and the terminal event of a run's status
\* is the last of its trace (_run_pipeline_or_fail, _record_run_failure).
FinishedRunsBilled ==
    \A r \in Requests :
        LET rows == {u \in usage : u.run = r}
            last == [succeeded |-> "run_completed", abstained |-> "run_abstained",
                     failed |-> "run_failed"]
        IN  IF Finished(r)
              THEN /\ Cardinality(rows) <= 1
                   /\ \A u \in rows : u.cost = paid[r]
                   /\ rows = {} => paid[r] = 0
                   /\ runs[r].trace[Len(runs[r].trace)] = last[runs[r].status]
              ELSE rows = {}

\* Whatever the run comes to, the provider's spend is billed: the failure
\* transaction "records any provider spend already reported"
\* (_run_pipeline_or_fail's docstring).
SpendIsBilled ==
    \A r \in Requests : Finished(r) =>
        Actual({u \in usage : u.run = r}) = charged[r]

\* One Idempotency-Key has one effect at an endpoint: of two requests that send
\* it, at whatever moments, at most one leaves a run or a feedback row, and it is
\* the one that a replay names (_idempotent_replay, _idempotent_store).
OneEffectPerKey ==
    \A r \in Requests :
        r \in feedback \/ runs[r].status # "absent" =>
            /\ \E k \in keys : k.key = KeyOf[r] /\ k.route = Route[r] /\ k.of = r
            /\ Cardinality(Stored(r)) = 1

\* One request, one effect, one bill: the two above together.
OneEffectOneBill == OneEffectPerKey /\ FinishedRunsBilled
=============================================================================
