------------------------------ MODULE JobQueue ------------------------------
(***************************************************************************)
(* The Postgres job queue (workers/src/fel_workers/queue.py, jobs table of *)
(* 0001_platform.sql and 0007_jobs_hardening.sql).                         *)
(*                                                                         *)
(* Every operator below is one statement or one transaction, so one atomic *)
(* step.  The clients are as hostile as the code allows: a ClaimedJob that *)
(* claim_one ever returned stays in `issued`, and whoever still holds it   *)
(* (a live worker, one that was reaped, a heartbeat thread that outlived   *)
(* its handler) may call any fenced operation with it at any time.         *)
(*                                                                         *)
(* Time is relative: sinceBeat is now() - heartbeat_at, untilDue is        *)
(* available_at - now(), both in ticks.  sinceBeat saturates one tick past *)
(* the staleness threshold, where a larger age changes nothing.            *)
(***************************************************************************)
EXTENDS Naturals

CONSTANTS
  Jobs,          \* job ids, one per (org_id, kind, idempotency_key) scope
  Leases,        \* the values uuid4 may return
  NoLease,       \* lease IS NULL
  Rank,          \* Rank[j]: position in ORDER BY priority, created_at
  MaxAttempts,   \* jobs.max_attempts
  StaleTicks,    \* HEARTBEAT_STALE_SECONDS
  BackoffBase,   \* RETRY_BACKOFF_BASE_SECONDS
  BackoffCap     \* RETRY_BACKOFF_CAP_SECONDS

ASSUME QueueAssumption ==
  /\ NoLease \notin Leases
  /\ Rank \in [Jobs -> Nat]
  /\ MaxAttempts \in Nat \ {0}
  /\ StaleTicks \in Nat
  /\ BackoffBase \in Nat
  /\ BackoffCap \in Nat

VARIABLES
  status,            \* jobs.status, "absent" before the INSERT
  attempts,          \* jobs.attempts
  lease,             \* jobs.lease
  sinceBeat,         \* now() - jobs.heartbeat_at
  untilDue,          \* jobs.available_at - now(), 0 once due
  error,             \* jobs.error->error->code
  cancelRequested,   \* jobs.cancel_requested_at IS NOT NULL
  issued             \* every ClaimedJob returned so far

rowVars   == <<status, attempts, lease, sinceBeat, untilDue, error>>
queueVars == <<status, attempts, lease, sinceBeat, untilDue, error,
               cancelRequested, issued>>

Terminal == {"succeeded", "failed", "cancelled"}
Statuses == {"absent", "queued", "running"} \cup Terminal
Codes    == {"none", "JOB_FAILED", "JOB_DEAD_LETTERED", "JOB_CANCELLED",
             "REAPED_EXHAUSTED"}

(* The fields of ClaimedJob that decide anything: attempts is the value    *)
(* read at the claim, and fail() uses this copy, not the row.              *)
ClaimedJob == [job : Jobs, lease : Leases, attempts : Nat]

QueueTypeOK ==
  /\ status \in [Jobs -> Statuses]
  /\ attempts \in [Jobs -> Nat]
  /\ lease \in [Jobs -> Leases \cup {NoLease}]
  /\ sinceBeat \in [Jobs -> Nat]
  /\ untilDue \in [Jobs -> Nat]
  /\ error \in [Jobs -> Codes]
  /\ cancelRequested \in [Jobs -> BOOLEAN]
  /\ issued \in SUBSET ClaimedJob

QueueInit ==
  /\ status = [j \in Jobs |-> "absent"]
  /\ attempts = [j \in Jobs |-> 0]
  /\ lease = [j \in Jobs |-> NoLease]
  /\ sinceBeat = [j \in Jobs |-> 0]
  /\ untilDue = [j \in Jobs |-> 0]
  /\ error = [j \in Jobs |-> "none"]
  /\ cancelRequested = [j \in Jobs |-> FALSE]
  /\ issued = {}

-----------------------------------------------------------------------------
(* The rows claim_one may return: queued and not scheduled into the future. *)
Due(j) == status[j] = "queued" /\ untilDue[j] = 0

(* Mutant: the fence compares the status and forgets the lease.             *)
LiveByStatusOnly(h) == status[h.job] = "running"

(* The WHERE clause of every fenced statement:                              *)
(* id = job.id AND lease = job.lease AND status = 'running'.                *)
Live(h) == status[h.job] = "running" /\ lease[h.job] = h.lease

(* The exponential delay before jitter, capped.                             *)
BackoffDelay(n) ==
  LET delay == BackoffBase * (2 ^ (IF n > 1 THEN n - 1 ELSE 0))
  IN  IF delay < BackoffCap THEN delay ELSE BackoffCap

(* backoff_seconds: +/-25% around the capped delay, capped again.           *)
Backoff(n) ==
  LET delay == BackoffDelay(n)
  IN  {t \in 0 .. BackoffCap : 4 * t >= 3 * delay /\ 4 * t <= 5 * delay}

(* now() - heartbeat_at > stale_seconds                                     *)
Stale(j) == status[j] = "running" /\ sinceBeat[j] > StaleTicks

-----------------------------------------------------------------------------
(* enqueue: a repeat within the idempotency scope returns the first job's  *)
(* id and changes nothing, so only the first call is a step.               *)
Enqueue(j) ==
  /\ status[j] = "absent"
  /\ status' = [status EXCEPT ![j] = "queued"]
  /\ UNCHANGED <<attempts, lease, sinceBeat, untilDue, error,
                 cancelRequested, issued>>

(* claim_one.  `locked` are the rows other transactions hold at that       *)
(* moment, which SKIP LOCKED steps over.                                   *)
Claimable(j) ==
  \E locked \in SUBSET (Jobs \ {j}) :
    /\ Due(j)
    /\ \A k \in Jobs \ locked : Due(k) => Rank[j] <= Rank[k]

ClaimAs(h) ==
  /\ Claimable(h.job)
  /\ h.lease \notin {g.lease : g \in issued}
  /\ h.attempts = attempts[h.job] + 1
  /\ status' = [status EXCEPT ![h.job] = "running"]
  /\ attempts' = [attempts EXCEPT ![h.job] = @ + 1]
  /\ sinceBeat' = [sinceBeat EXCEPT ![h.job] = 0]
  /\ lease' = [lease EXCEPT ![h.job] = h.lease]
  /\ issued' = issued \cup {h}
  /\ UNCHANGED <<untilDue, error, cancelRequested>>

ClaimOne ==
  \E j \in Jobs, l \in Leases :
    ClaimAs([job |-> j, lease |-> l, attempts |-> attempts[j] + 1])

(* Mutant: the beat touches the row and leaves heartbeat_at alone.          *)
HeartbeatWithoutRefresh(h) == Live(h) /\ UNCHANGED queueVars

(* heartbeat: rowcount 0 (a lost lease) changes nothing.                    *)
Heartbeat(h) ==
  /\ Live(h)
  /\ sinceBeat' = [sinceBeat EXCEPT ![h.job] = 0]
  /\ UNCHANGED <<status, attempts, lease, untilDue, error, cancelRequested,
                 issued>>

(* Mutant: lease = NULL is missing from the terminal UPDATE.                *)
EndClaimKeepsLease(h, newStatus, due, code) ==
  /\ Live(h)
  /\ status' = [status EXCEPT ![h.job] = newStatus]
  /\ untilDue' = [untilDue EXCEPT ![h.job] = due]
  /\ error' = [error EXCEPT ![h.job] = code]
  /\ UNCHANGED <<attempts, lease, sinceBeat, cancelRequested, issued>>

(* The fenced write that ends a claim.                                      *)
EndClaim(h, newStatus, due, code) ==
  /\ Live(h)
  /\ status' = [status EXCEPT ![h.job] = newStatus]
  /\ lease' = [lease EXCEPT ![h.job] = NoLease]
  /\ untilDue' = [untilDue EXCEPT ![h.job] = due]
  /\ error' = [error EXCEPT ![h.job] = code]
  /\ UNCHANGED <<attempts, sinceBeat, cancelRequested, issued>>

Complete(h)   == EndClaim(h, "succeeded", untilDue[h.job], error[h.job])
DeadLetter(h) == EndClaim(h, "failed", untilDue[h.job], "JOB_DEAD_LETTERED")
Cancel(h)     == EndClaim(h, "cancelled", untilDue[h.job], "JOB_CANCELLED")

(* fail: terminal once the claim's own attempt count reaches max_attempts,  *)
(* otherwise requeued after the backoff.                                    *)
FailTerminally(h) ==
  /\ h.attempts >= MaxAttempts
  /\ EndClaim(h, "failed", 0, "JOB_FAILED")

(* Mutant: one requeue too many.                                            *)
FailAndRequeue(h) ==
  /\ h.attempts < MaxAttempts
  /\ \E t \in Backoff(h.attempts) : EndClaim(h, "queued", t, "JOB_FAILED")

Fail(h) == FailTerminally(h) \/ FailAndRequeue(h)

(* Mutant: the reaper writes its outcome's name, no status of the table.    *)
(* Where the reaper sends a stale claim.                                    *)
ReapedStatus(j) == IF attempts[j] < MaxAttempts THEN "queued" ELSE "failed"

(* reap_stale: one UPDATE over every stale row.                             *)
ReapStale ==
  LET stale == {j \in Jobs : Stale(j)}
  IN  /\ stale # {}
      /\ status' = [j \in Jobs |->
                      IF j \in stale THEN ReapedStatus(j) ELSE status[j]]
      /\ lease' = [j \in Jobs |-> IF j \in stale THEN NoLease ELSE lease[j]]
      /\ untilDue' = [j \in Jobs |->
                        IF j \in stale /\ ReapedStatus(j) = "queued"
                        THEN 0 ELSE untilDue[j]]
      /\ error' = [j \in Jobs |->
                     IF j \in stale /\ ReapedStatus(j) = "failed"
                     THEN "REAPED_EXHAUSTED" ELSE error[j]]
      /\ UNCHANGED <<attempts, sinceBeat, cancelRequested, issued>>

(* The API sets jobs.cancel_requested_at; it never touches jobs.status.     *)
RequestCancel(j) ==
  /\ status[j] # "absent"
  /\ cancelRequested' = [cancelRequested EXCEPT ![j] = TRUE]
  /\ UNCHANGED <<rowVars, issued>>

(* One tick of the database clock.                                          *)
Tick ==
  /\ sinceBeat' = [j \in Jobs |->
                     IF status[j] = "running" /\ sinceBeat[j] <= StaleTicks
                     THEN sinceBeat[j] + 1 ELSE sinceBeat[j]]
  /\ untilDue' = [j \in Jobs |->
                    IF untilDue[j] > 0 THEN untilDue[j] - 1 ELSE 0]
  /\ UNCHANGED <<status, attempts, lease, error, cancelRequested, issued>>

-----------------------------------------------------------------------------
FencedCall(h) ==
  \/ Heartbeat(h)
  \/ Complete(h)
  \/ DeadLetter(h)
  \/ Cancel(h)
  \/ Fail(h)

QueueNext ==
  \/ \E j \in Jobs : Enqueue(j) \/ RequestCancel(j)
  \/ ClaimOne
  \/ \E h \in issued : FencedCall(h)
  \/ ReapStale
  \/ Tick

QueueSpec == QueueInit /\ [][QueueNext]_queueVars

-----------------------------------------------------------------------------
(* No two claims share a lease, a row has a lease exactly while it runs,   *)
(* and the one claim that owns a running row carries the row's own attempt *)
(* count: fail(), which decides from the claim's copy, decides as if it    *)
(* had read the row.  (queue.py:97-99 and 230: the fencing token and       *)
(* `job.attempts`.)                                                        *)
SingleOwner ==
  /\ \A g, h \in issued : g.lease = h.lease => g = h
  /\ \A j \in Jobs :
       /\ status[j] = "running" <=> lease[j] # NoLease
       /\ status[j] = "running" =>
            \E h \in issued : /\ h.job = j
                              /\ Live(h)
                              /\ h.attempts = attempts[j]

(* Attempts number the deliveries of a job: no two claims of one job share *)
(* a number, none exceeds the row's count, and a job that waits for another *)
(* delivery always has one left.  (queue.py:175, 230 and 332: the three     *)
(* places that count and compare attempts.)                                 *)
AttemptsAccounted ==
  /\ \A h \in issued : 1 <= h.attempts /\ h.attempts <= attempts[h.job]
  /\ \A g, h \in issued : g.job = h.job /\ g.attempts = h.attempts => g = h
  /\ \A j \in Jobs : status[j] = "absent" => attempts[j] = 0
  /\ \A j \in Jobs : status[j] = "queued" => attempts[j] < MaxAttempts
  /\ \A j \in Jobs : attempts[j] <= MaxAttempts

(* The queue implements the lifecycle it promises: bounded delivery, one    *)
(* final outcome per job.  (queue.py as a whole, refined by hiding leases,  *)
(* heartbeats and time.)                                                    *)
Lifecycle == INSTANCE JobLifecycle WITH phase <- status, tries <- attempts
ImplementsLifecycle == Lifecycle!Spec
=============================================================================
