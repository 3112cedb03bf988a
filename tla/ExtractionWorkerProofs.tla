----------------------- MODULE ExtractionWorkerProofs -----------------------
(***************************************************************************)
(* Safety of the workers for any number of workers, jobs, stages, retries  *)
(* and any faults; and, where no process stands still and no heartbeat     *)
(* connection fails (Punctual), that they keep their leases and close      *)
(* their runs in order.  Below them, the safety of their queue.            *)
(***************************************************************************)
EXTENDS ExtractionWorker, TLAPS

(* -------------------------------- the queue ------------------------------- *)
(* For every set of jobs, every retry budget and every schedule of clients,   *)
(* reapers and clock.  The inductive invariant is QueueInv: the type          *)
(* invariant, the ownership invariant SingleOwner and the attempt accounting  *)
(* AttemptsAccounted.  None of the last two is inductive alone: a requeue by  *)
(* fail() keeps attempts below the budget only because the owner's copy of    *)
(* attempts equals the row's, and the owner's copy equals the row's only      *)
(* because no stale claim can still write.                                    *)
QueueInv == QueueTypeOK /\ SingleOwner /\ AttemptsAccounted

(* The initial table, empty of jobs and claims, satisfies the invariant.   *)
LEMMA QueueInitInv == QueueInit => QueueInv
  BY QueueAssumption
  DEF QueueInit, QueueInv, QueueTypeOK, SingleOwner, AttemptsAccounted,
      Statuses, Terminal, Codes, ClaimedJob, Live

(* claim_one, queue.py:152-189, keeps the invariant.                       *)
LEMMA ClaimInv ==
  ASSUME QueueInv, NEW h \in ClaimedJob, ClaimAs(h)
  PROVE  QueueInv'
<1>1. QueueTypeOK'
  BY DEF QueueInv, QueueTypeOK, ClaimAs, ClaimedJob, Statuses, Terminal
<1>2. SingleOwner'
  <2>1. \A g, k \in issued' : g.lease = k.lease => g = k
    BY DEF QueueInv, SingleOwner, ClaimAs
  <2>2. \A j \in Jobs : status'[j] = "running" <=> lease'[j] # NoLease
    BY QueueAssumption
    DEF QueueInv, QueueTypeOK, SingleOwner, ClaimAs, ClaimedJob
  <2>3. ASSUME NEW j \in Jobs, status'[j] = "running"
        PROVE  \E k \in issued' : /\ k.job = j
                                  /\ Live(k)'
                                  /\ k.attempts = attempts'[j]
    <3>1. CASE j = h.job
      BY <3>1 DEF QueueInv, QueueTypeOK, ClaimAs, ClaimedJob, Live
    <3>2. CASE j # h.job
      BY <2>3, <3>2
      DEF QueueInv, QueueTypeOK, SingleOwner, ClaimAs, ClaimedJob, Live
    <3>3. QED
      BY <3>1, <3>2
  <2>4. QED
    BY <2>1, <2>2, <2>3 DEF SingleOwner
<1>3. AttemptsAccounted'
  <2>1. Due(h.job)
    BY DEF ClaimAs, Claimable
  <2>2. attempts[h.job] < MaxAttempts
    BY <2>1 DEF QueueInv, AttemptsAccounted, Due, ClaimedJob
  <2>3. /\ attempts'[h.job] = attempts[h.job] + 1
        /\ \A j \in Jobs : j # h.job => attempts'[j] = attempts[j]
    BY DEF ClaimAs, QueueInv, QueueTypeOK, ClaimedJob
  <2>4. \A k \in issued' : 1 <= k.attempts /\ k.attempts <= attempts'[k.job]
    BY <2>3 DEF QueueInv, QueueTypeOK, AttemptsAccounted, ClaimAs, ClaimedJob
  <2>5. \A g, k \in issued' : g.job = k.job /\ g.attempts = k.attempts => g = k
    BY <2>3 DEF QueueInv, QueueTypeOK, AttemptsAccounted, ClaimAs, ClaimedJob
  <2>6. \A j \in Jobs : /\ status'[j] = "absent" => attempts'[j] = 0
                        /\ status'[j] = "queued" => attempts'[j] < MaxAttempts
                        /\ attempts'[j] <= MaxAttempts
    BY <2>2, <2>3, QueueAssumption
    DEF QueueInv, QueueTypeOK, AttemptsAccounted, ClaimAs, ClaimedJob
  <2>7. QED
    BY <2>4, <2>5, <2>6 DEF AttemptsAccounted
<1>4. QED
  BY <1>1, <1>2, <1>3 DEF QueueInv

(* Any fenced write that ends a claim keeps the invariant, as long as it   *)
(* returns the job to the queue only while the claim has an attempt left:  *)
(* complete, dead_letter, cancel and fail, queue.py:202-311.               *)
LEMMA EndClaimInv ==
  ASSUME QueueInv, NEW h \in issued,
         NEW newStatus \in Terminal \cup {"queued"},
         NEW due \in Nat, NEW code \in Codes,
         newStatus = "queued" => h.attempts < MaxAttempts,
         EndClaim(h, newStatus, due, code)
  PROVE  QueueInv'
<1>1. h \in ClaimedJob /\ h.job \in Jobs
  BY DEF QueueInv, QueueTypeOK, ClaimedJob
<1>2. newStatus # "running" /\ newStatus # "absent"
  BY DEF Terminal
<1>3. QueueTypeOK'
  BY <1>1 DEF QueueInv, QueueTypeOK, EndClaim, Statuses
<1>4. h.attempts = attempts[h.job]
  <2>1. PICK k \in issued : /\ k.job = h.job
                            /\ Live(k)
                            /\ k.attempts = attempts[h.job]
    BY <1>1 DEF EndClaim, QueueInv, SingleOwner, Live
  <2>2. k.lease = h.lease
    BY <2>1 DEF EndClaim, Live
  <2>3. k = h
    BY <2>2 DEF QueueInv, SingleOwner
  <2>4. QED
    BY <2>1, <2>3
<1>5. SingleOwner'
  <2>1. \A j \in Jobs : status'[j] = "running" <=> lease'[j] # NoLease
    BY <1>1, <1>2 DEF QueueInv, QueueTypeOK, SingleOwner, EndClaim
  <2>2. ASSUME NEW j \in Jobs, status'[j] = "running"
        PROVE  \E k \in issued' : /\ k.job = j
                                  /\ Live(k)'
                                  /\ k.attempts = attempts'[j]
    <3>1. j # h.job /\ status[j] = "running"
      BY <1>1, <1>2, <2>2 DEF QueueInv, QueueTypeOK, EndClaim
    <3>2. PICK k \in issued : /\ k.job = j
                              /\ Live(k)
                              /\ k.attempts = attempts[j]
      BY <3>1 DEF QueueInv, SingleOwner
    <3>3. Live(k)'
      BY <1>1, <3>1, <3>2 DEF QueueInv, QueueTypeOK, EndClaim, Live
    <3>4. QED
      BY <3>2, <3>3 DEF EndClaim
  <2>3. QED
    BY <2>1, <2>2 DEF SingleOwner, QueueInv, EndClaim
<1>6. AttemptsAccounted'
  BY <1>1, <1>2, <1>4
  DEF QueueInv, QueueTypeOK, AttemptsAccounted, EndClaim
<1>7. QED
  BY <1>3, <1>5, <1>6 DEF QueueInv

(* reap_stale, queue.py:314-357, keeps the invariant.                      *)
LEMMA ReapInv ==
  ASSUME QueueInv, ReapStale
  PROVE  QueueInv'
<1> DEFINE stale == {j \in Jobs : Stale(j)}
<1>1. QueueTypeOK'
  BY DEF QueueInv, QueueTypeOK, ReapStale, ReapedStatus, Statuses, Terminal,
         Codes
<1>2. \A j \in Jobs : /\ j \in stale => /\ status'[j] \in {"queued", "failed"}
                                        /\ lease'[j] = NoLease
                      /\ j \notin stale => /\ status'[j] = status[j]
                                           /\ lease'[j] = lease[j]
  BY DEF ReapStale, ReapedStatus
<1>3. SingleOwner'
  <2>1. \A j \in Jobs : status'[j] = "running" <=> lease'[j] # NoLease
    BY <1>2 DEF QueueInv, SingleOwner
  <2>2. ASSUME NEW j \in Jobs, status'[j] = "running"
        PROVE  \E k \in issued' : /\ k.job = j
                                  /\ Live(k)'
                                  /\ k.attempts = attempts'[j]
    <3>1. status'[j] = status[j] /\ lease'[j] = lease[j]
      BY <1>2, <2>2
    <3>2. PICK k \in issued : /\ k.job = j
                              /\ Live(k)
                              /\ k.attempts = attempts[j]
      BY <2>2, <3>1 DEF QueueInv, SingleOwner
    <3>3. QED
      BY <3>1, <3>2 DEF Live, ReapStale
  <2>3. QED
    BY <2>1, <2>2 DEF SingleOwner, QueueInv, ReapStale
<1>4. AttemptsAccounted'
  BY DEF QueueInv, QueueTypeOK, AttemptsAccounted, ReapStale, ReapedStatus
<1>5. QED
  BY <1>1, <1>3, <1>4 DEF QueueInv

(* The operations that only touch the clock, the heartbeat, the cancel     *)
(* marker or a row no claim has seen yet keep the invariant.               *)
LEMMA QuietInv ==
  ASSUME QueueInv,
         \/ \E j \in Jobs : Enqueue(j) \/ RequestCancel(j)
         \/ \E h \in issued : Heartbeat(h)
         \/ Tick
         \/ UNCHANGED queueVars
  PROVE  QueueInv'
<1>1. CASE \E j \in Jobs : Enqueue(j)
  <2>1. PICK j \in Jobs : Enqueue(j)
    BY <1>1
  <2>2. QueueTypeOK'
    BY <2>1 DEF QueueInv, QueueTypeOK, Enqueue, Statuses
  <2>3. SingleOwner'
    BY <2>1 DEF QueueInv, QueueTypeOK, SingleOwner, Enqueue, Live
  <2>4. AttemptsAccounted'
    BY <2>1, QueueAssumption
    DEF QueueInv, QueueTypeOK, AttemptsAccounted, Enqueue
  <2>5. QED
    BY <2>2, <2>3, <2>4 DEF QueueInv
<1>2. CASE \E j \in Jobs : RequestCancel(j)
  BY <1>2
  DEF QueueInv, QueueTypeOK, SingleOwner, AttemptsAccounted, RequestCancel,
      rowVars, Live
<1>3. CASE \E h \in issued : Heartbeat(h)
  <2>1. QueueTypeOK'
    BY <1>3 DEF QueueInv, QueueTypeOK, Heartbeat, ClaimedJob
  <2>2. SingleOwner' /\ AttemptsAccounted'
    BY <1>3 DEF QueueInv, SingleOwner, AttemptsAccounted, Heartbeat, Live
  <2>3. QED
    BY <2>1, <2>2 DEF QueueInv
<1>4. CASE Tick
  <2>1. QueueTypeOK'
    <3>1. sinceBeat' \in [Jobs -> Nat]
      BY <1>4 DEF QueueInv, QueueTypeOK, Tick
    <3>2. untilDue' \in [Jobs -> Nat]
      BY <1>4 DEF QueueInv, QueueTypeOK, Tick
    <3>3. QED
      BY <1>4, <3>1, <3>2 DEF QueueInv, QueueTypeOK, Tick
  <2>2. SingleOwner' /\ AttemptsAccounted'
    BY <1>4 DEF QueueInv, SingleOwner, AttemptsAccounted, Tick, Live
  <2>3. QED
    BY <2>1, <2>2 DEF QueueInv
<1>5. CASE UNCHANGED queueVars
  BY <1>5
  DEF QueueInv, QueueTypeOK, SingleOwner, AttemptsAccounted, queueVars, Live
<1>6. QED
  BY <1>1, <1>2, <1>3, <1>4, <1>5

(* Every step of the queue keeps the invariant.                            *)
LEMMA QueueStepInv == QueueInv /\ [QueueNext]_queueVars => QueueInv'
<1> SUFFICES ASSUME QueueInv, [QueueNext]_queueVars
             PROVE  QueueInv'
  OBVIOUS
<1>1. CASE ClaimOne
  <2>1. PICK j \in Jobs, l \in Leases :
               ClaimAs([job |-> j, lease |-> l, attempts |-> attempts[j] + 1])
    BY <1>1 DEF ClaimOne
  <2>2. [job |-> j, lease |-> l, attempts |-> attempts[j] + 1] \in ClaimedJob
    BY DEF QueueInv, QueueTypeOK, ClaimedJob
  <2>3. QED
    BY <2>1, <2>2, ClaimInv
<1>2. ASSUME NEW h \in issued, FencedCall(h)
      PROVE  QueueInv'
  <2>1. h \in ClaimedJob /\ untilDue[h.job] \in Nat /\ error[h.job] \in Codes
    BY DEF QueueInv, QueueTypeOK, ClaimedJob
  <2>2. CASE Heartbeat(h)
    BY <2>2, QuietInv
  <2>3. CASE Complete(h)
    BY <2>1, <2>3, EndClaimInv DEF Complete, Terminal
  <2>4. CASE DeadLetter(h)
    BY <2>1, <2>4, EndClaimInv DEF DeadLetter, Terminal, Codes
  <2>5. CASE Cancel(h)
    BY <2>1, <2>5, EndClaimInv DEF Cancel, Terminal, Codes
  <2>6. CASE FailTerminally(h)
    BY <2>6, EndClaimInv DEF FailTerminally, Terminal, Codes
  <2>7. CASE FailAndRequeue(h)
    <3>1. PICK t \in Backoff(h.attempts) : EndClaim(h, "queued", t, "JOB_FAILED")
      BY <2>7 DEF FailAndRequeue
    <3>2. t \in Nat
      BY <3>1, QueueAssumption DEF Backoff
    <3>3. QED
      BY <2>7, <3>1, <3>2, EndClaimInv DEF FailAndRequeue, Codes
  <2>8. QED
    BY <1>2, <2>2, <2>3, <2>4, <2>5, <2>6, <2>7 DEF FencedCall, Fail
<1>3. CASE ReapStale
  BY <1>3, ReapInv
<1>4. CASE \/ \E j \in Jobs : Enqueue(j) \/ RequestCancel(j)
           \/ Tick
           \/ UNCHANGED queueVars
  BY <1>4, QuietInv
<1>5. QED
  BY <1>1, <1>2, <1>3, <1>4 DEF QueueNext

(* The inductive invariant holds in every reachable state.                 *)
THEOREM QueueInvariance == QueueSpec => []QueueInv
  BY QueueInitInv, QueueStepInv, PTL DEF QueueSpec

(* Type correctness of the jobs table and of every claim handed out.       *)
THEOREM QueueTyping == QueueSpec => []QueueTypeOK
<1>1. QueueInv => QueueTypeOK
  BY DEF QueueInv
<1>2. QED
  BY <1>1, QueueInvariance, PTL

(* Lease fencing: whatever reaped workers, late writers and leaked          *)
(* heartbeat threads do, a running job has exactly one claim that can still *)
(* write to it, and that claim's attempt count is the row's.                *)
THEOREM LeaseFencing == QueueSpec => []SingleOwner
<1>1. QueueInv => SingleOwner
  BY DEF QueueInv
<1>2. QED
  BY <1>1, QueueInvariance, PTL

(* The retry budget: a job is delivered at most max_attempts times.         *)
THEOREM RetryBudget == QueueSpec => []AttemptsAccounted
<1>1. QueueInv => AttemptsAccounted
  BY DEF QueueInv
<1>2. QED
  BY <1>1, QueueInvariance, PTL

(* The queue implements JobLifecycle: one outcome per job, at most          *)
(* max_attempts deliveries, and nothing happens to a job but the lifecycle's *)
(* moves, even though one reap_stale statement moves many jobs.             *)
THEOREM QueueRefinesLifecycle == QueueSpec => ImplementsLifecycle
<1>1. QueueInit => Lifecycle!Init
  BY DEF QueueInit, Lifecycle!Init
<1>2. QueueInv /\ QueueInv' /\ [QueueNext]_queueVars
        => [Lifecycle!Next]_(Lifecycle!lifecycleVars)
  <2> SUFFICES ASSUME QueueInv, QueueInv', [QueueNext]_queueVars
               PROVE  Lifecycle!Next
                      \/ UNCHANGED Lifecycle!lifecycleVars
    OBVIOUS
  <2>1. /\ status' \in [Jobs -> Lifecycle!Phases]
        /\ attempts' \in [Jobs -> Nat]
    BY DEF QueueInv, QueueTypeOK, Statuses, Terminal, Lifecycle!Phases,
           Lifecycle!Finished
  <2>2. SUFFICES ASSUME NEW j \in Jobs
                 PROVE  \/ Lifecycle!Move(j)
                        \/ UNCHANGED <<status, attempts>>
    BY <2>1 DEF Lifecycle!Next, Lifecycle!lifecycleVars
  <2>3. CASE ClaimOne
    BY <2>3
    DEF ClaimOne, ClaimAs, Claimable, Due, QueueInv, QueueTypeOK,
        AttemptsAccounted, Lifecycle!Move, Lifecycle!Deliver, Lifecycle!Rest
  <2>4. ASSUME NEW h \in issued, FencedCall(h)
        PROVE  Lifecycle!Move(j) \/ UNCHANGED <<status, attempts>>
    <3>1. CASE Heartbeat(h)
      BY <3>1 DEF Heartbeat
    <3>2. CASE \E s \in Terminal, d \in Nat, c \in Codes : EndClaim(h, s, d, c)
      BY <3>2
      DEF EndClaim, Live, QueueInv, QueueTypeOK, ClaimedJob, Terminal,
          Lifecycle!Move, Lifecycle!End, Lifecycle!Rest, Lifecycle!Finished
    <3>3. CASE \E d \in Nat, c \in Codes : EndClaim(h, "queued", d, c)
      BY <3>3
      DEF EndClaim, Live, QueueInv, QueueTypeOK, AttemptsAccounted,
          ClaimedJob, Lifecycle!Move, Lifecycle!Return, Lifecycle!Rest
    <3>4. untilDue[h.job] \in Nat /\ error[h.job] \in Codes
      BY DEF QueueInv, QueueTypeOK, ClaimedJob
    <3>5. Backoff(h.attempts) \subseteq Nat
      BY QueueAssumption DEF Backoff
    <3>6. QED
      BY <2>4, <3>1, <3>2, <3>3, <3>4, <3>5
      DEF FencedCall, Complete, DeadLetter, Cancel, Fail, FailTerminally,
          FailAndRequeue, Terminal, Codes
  <2>5. CASE ReapStale
    BY <2>5
    DEF ReapStale, Stale, ReapedStatus, QueueInv, QueueTypeOK,
        Lifecycle!Move, Lifecycle!Return, Lifecycle!End, Lifecycle!Rest,
        Lifecycle!Finished
  <2>6. CASE \E k \in Jobs : Enqueue(k)
    BY <2>6
    DEF Enqueue, QueueInv, QueueTypeOK, Lifecycle!Move, Lifecycle!Submit,
        Lifecycle!Rest
  <2>7. CASE \/ \E k \in Jobs : RequestCancel(k)
             \/ Tick
             \/ UNCHANGED queueVars
    BY <2>7 DEF RequestCancel, rowVars, Tick, queueVars
  <2>8. QED
    BY <2>3, <2>4, <2>5, <2>6, <2>7 DEF QueueNext
<1>3. QED
  BY <1>1, <1>2, QueueInvariance, PTL
  DEF QueueSpec, ImplementsLifecycle, Lifecycle!Spec

(* ------------------------------- the workers ------------------------------ *)

(* Whoever is in the middle of a job works on a claim the queue issued, and *)
(* only such a worker has a heartbeat thread.                               *)
ClaimsHeld ==
  \A w \in Workers :
    /\ Active(w) => held[w] \in issued
    /\ beat[w] = "on" => Active(w)

-----------------------------------------------------------------------------
(* Typing.                                                                  *)

(* The endings' statuses are terminal and have terminal events.             *)
LEMMA EndingTypes ==
  /\ \A how \in Endings : FinalStatus(how) \in RunTerminal
  /\ \A st \in RunTerminal : EventOf(st) \in TerminalEvents
<1>1. \A how \in Endings : FinalStatus(how) \in RunTerminal
  BY DEF Endings, FinalStatus, RunTerminal
<1>2. \A st \in RunTerminal : EventOf(st) \in TerminalEvents
  BY DEF EventOf, RunTerminal, TerminalEvents
<1>3. QED
  BY <1>1, <1>2

(* A worker in the middle of a job works on one of the jobs.                *)
LEMMA ActiveJob ==
  ASSUME WorkerTypeOK, ClaimsHeld, NEW w \in Workers, Active(w)
  PROVE  /\ held[w] \in issued
         /\ held[w] \in ClaimedJob
         /\ Job(w) \in Jobs
  BY DEF WorkerTypeOK, QueueTypeOK, ClaimsHeld, ClaimedJob, Job

(* A jump inside the loop is well typed.                                    *)
LEMMA GotoTyping ==
  ASSUME LocalTypeOK, NEW w \in Workers, NEW label \in Labels, Goto(w, label)
  PROVE  pc' \in [Workers -> Labels] /\ late' \in [Workers -> BOOLEAN]
<1>1. pc' \in [Workers -> Labels]
  BY DEF LocalTypeOK, Goto
<1>2. late' \in [Workers -> BOOLEAN]
  <2> DEFINE still == late[w] /\ beat[w] = "on"
  <2>1. still \in BOOLEAN
    OBVIOUS
  <2>2. late' = [late EXCEPT ![w] = still]
    BY DEF Goto
  <2>3. late \in [Workers -> BOOLEAN]
    BY DEF LocalTypeOK
  <2> HIDE DEF still
  <2>4. QED
    BY <2>1, <2>2, <2>3
<1>3. QED
  BY <1>1, <1>2

(* Leaving a job is well typed.                                             *)
LEMMA ReleaseTyping ==
  ASSUME LocalTypeOK, NEW w \in Workers, Release(w)
  PROVE  LocalTypeOK'
<1>1. 1 \in Stages
  BY WorkerAssumption DEF Stages
<1>2. late' \in [Workers -> BOOLEAN]
  BY DEF Release, LocalTypeOK
<1>3. QED
  BY <1>1, <1>2 DEF Release, LocalTypeOK, Labels, BeatStates, Endings

(* The next stage is a stage.                                               *)
LEMMA AdvanceTyping ==
  ASSUME LocalTypeOK, NEW w \in Workers, Advance(w)
  PROVE  /\ pc' \in [Workers -> Labels] /\ late' \in [Workers -> BOOLEAN]
         /\ stage' \in [Workers -> Stages]
         /\ ending' \in [Workers -> Endings]
<1>1. CASE stage[w] = LastStage
  BY <1>1, GotoTyping DEF Advance, Conclude, LocalTypeOK, Labels, Endings
<1>2. CASE stage[w] # LastStage
  <2>1. stage[w] + 1 \in Stages
    BY <1>2, WorkerAssumption DEF Stages, LocalTypeOK
  <2>2. QED
    BY <1>2, <2>1, GotoTyping DEF Advance, LocalTypeOK, Labels
<1>3. QED
  BY <1>1, <1>2

(* A step keeps the workers' own state well typed.                          *)
LEMMA LocalTyping ==
  ASSUME WorkerTypeOK, ClaimsHeld, [WorkerNext]_vars
  PROVE  LocalTypeOK'
<1> USE DEF Labels
<1>0. LocalTypeOK
  BY DEF WorkerTypeOK
<1>1. ASSUME NEW w \in Workers, Poll(w) \/ Dispatch(w) \/ Ingest(w) \/ Bind(w)
      PROVE  LocalTypeOK'
  <2>1. pc' \in [Workers -> Labels] /\ late' \in [Workers -> BOOLEAN]
    BY <1>0, <1>1, GotoTyping DEF Poll, Dispatch, Ingest, Bind, Escape
  <2>2. QED
    BY <1>0, <1>1, <2>1 DEF Poll, Dispatch, Ingest, Bind, Escape, LocalTypeOK,
                            BeatStates
<1>2. ASSUME NEW w \in Workers, ClaimNext(w)
      PROVE  LocalTypeOK'
  <2>1. pc' \in [Workers -> Labels] /\ late' \in [Workers -> BOOLEAN]
    BY <1>0, <1>2, GotoTyping DEF ClaimNext
  <2>2. held' \in [Workers -> ClaimedJob \cup {NoClaim}]
    <3>1. \A j \in Jobs, l \in Leases :
            [job |-> j, lease |-> l, attempts |-> attempts[j] + 1] \in ClaimedJob
      BY DEF WorkerTypeOK, QueueTypeOK, ClaimedJob
    <3>2. held \in [Workers -> ClaimedJob \cup {NoClaim}]
      BY <1>0 DEF LocalTypeOK
    <3>3. \/ \E h \in ClaimedJob : held' = [held EXCEPT ![w] = h]
          \/ held' = held
      BY <1>2, <3>1 DEF ClaimNext
    <3>4. QED
      BY <3>2, <3>3
  <2>3. QED
    BY <1>0, <1>2, <2>1, <2>2 DEF ClaimNext, LocalTypeOK
<1>3. ASSUME NEW w \in Workers, StartStage(w)
      PROVE  LocalTypeOK'
  <2>1. Job(w) \in Jobs
    BY <1>3, ActiveJob DEF Active, StartStage
  <2>2. ckpt[Job(w)][stage[w]] \in Outputs \cup {NoOutput}
    BY <2>1 DEF WorkerTypeOK, LocalTypeOK, RunTypeOK
  <2>3. carry' \in [Workers -> Outputs \cup {NoOutput}]
    BY <1>0, <1>3, <2>2 DEF StartStage, Escape, LocalTypeOK
  <2>4. /\ pc' \in [Workers -> Labels] /\ late' \in [Workers -> BOOLEAN]
        /\ stage' \in [Workers -> Stages]
        /\ ending' \in [Workers -> Endings]
    BY <1>0, <1>3, GotoTyping, AdvanceTyping
       DEF StartStage, Escape, Conclude, LocalTypeOK, Endings
  <2>5. QED
    BY <1>0, <1>3, <2>3, <2>4 DEF StartStage, Escape, LocalTypeOK
<1>4. ASSUME NEW w \in Workers, Work(w)
      PROVE  LocalTypeOK'
  <2>1. /\ pc' \in [Workers -> Labels] /\ late' \in [Workers -> BOOLEAN]
        /\ ending' \in [Workers -> Endings]
    BY <1>0, <1>4, GotoTyping DEF Work, Conclude, LocalTypeOK, Endings
  <2>2. carry' \in [Workers -> Outputs \cup {NoOutput}]
    BY <1>0, <1>4 DEF Work, LocalTypeOK
  <2>3. QED
    BY <1>0, <1>4, <2>1, <2>2 DEF Work, LocalTypeOK
<1>5. ASSUME NEW w \in Workers, CommitStage(w)
      PROVE  LocalTypeOK'
  <2>1. /\ pc' \in [Workers -> Labels] /\ late' \in [Workers -> BOOLEAN]
        /\ stage' \in [Workers -> Stages]
        /\ ending' \in [Workers -> Endings]
    BY <1>0, <1>5, GotoTyping, AdvanceTyping
       DEF CommitStage, Escape, Conclude, LocalTypeOK, Endings
  <2>2. QED
    BY <1>0, <1>5, <2>1 DEF CommitStage, Escape, LocalTypeOK
<1>6. ASSUME NEW w \in Workers, CloseRun(w) \/ AnnounceReview(w) \/ LandRun(w)
      PROVE  LocalTypeOK'
  <2>1. pc' \in [Workers -> Labels] /\ late' \in [Workers -> BOOLEAN]
    BY <1>0, <1>6, GotoTyping DEF CloseRun, AnnounceReview, LandRun, Escape
  <2>2. QED
    BY <1>0, <1>6, <2>1
       DEF CloseRun, AnnounceReview, LandRun, Escape, LocalTypeOK
<1>7. ASSUME NEW w \in Workers, FailJob(w) \/ Park(w) \/ Settle(w) \/ Crash(w)
      PROVE  LocalTypeOK'
  BY <1>0, <1>7, ReleaseTyping DEF FailJob, Park, Settle, Crash
<1>8. ASSUME NEW w \in Workers, CatchEscape(w)
      PROVE  LocalTypeOK'
  <2>1. CASE Release(w)
    BY <1>0, <2>1, ReleaseTyping
  <2>2. CASE ~Release(w)
    <3>1. pc' \in [Workers -> Labels] /\ late' \in [Workers -> BOOLEAN]
      BY <1>0, <1>8, <2>2, GotoTyping DEF CatchEscape
    <3>2. QED
      BY <1>0, <1>8, <2>2, <3>1 DEF CatchEscape, LocalTypeOK, BeatStates
  <2>3. QED
    BY <2>1, <2>2
<1>9. ASSUME NEW w \in Workers, Beat(w) \/ BeatFails(w)
      PROVE  LocalTypeOK'
  BY <1>0, <1>9 DEF Beat, BeatFails, LocalTypeOK, BeatStates
<1>10. ASSUME NEW j \in Jobs,
              \/ Create(j) \/ CancelRequest(j)
              \/ CancelWaiting(j) \/ FinishReview(j)
       PROVE  LocalTypeOK'
  BY <1>0, <1>10 DEF Create, CancelRequest, CancelWaiting, FinishReview,
                     localVars, LocalTypeOK
<1>11. ASSUME ClockTick
       PROVE  LocalTypeOK'
  <2>1. late' \in [Workers -> BOOLEAN]
    BY <1>11, Zenon DEF ClockTick
  <2>2. QED
    BY <1>0, <1>11, <2>1 DEF ClockTick, LocalTypeOK
<1>12. ASSUME UNCHANGED vars
       PROVE  LocalTypeOK'
  BY <1>0, <1>12 DEF vars, localVars, LocalTypeOK
<1>13. QED
  BY <1>1, <1>2, <1>3, <1>4, <1>5, <1>6, <1>7, <1>8, <1>9, <1>10, <1>11,
     <1>12
     DEF WorkerNext, WorkerStep

(* Appending to a run's event log is well typed.                            *)
LEMMA AppendTyping ==
  ASSUME RunTypeOK, NEW j \in Jobs, NEW event \in Events, AppendEvent(j, event)
  PROVE  log' \in [Jobs -> Seq(Events)]
<1>1. log[j] \in Seq(Events)
  BY DEF RunTypeOK
<1>2. Append(log[j], event) \in Seq(Events)
  BY <1>1
<1>3. QED
  BY <1>2 DEF AppendEvent, RunTypeOK

(* A step keeps the run rows well typed.                                    *)
LEMMA RunTyping ==
  ASSUME WorkerTypeOK, ClaimsHeld, [WorkerNext]_vars
  PROVE  RunTypeOK'
<1> USE DEF RunStatuses, RunTerminal
<1>0. RunTypeOK /\ LocalTypeOK
  BY DEF WorkerTypeOK
<1>1. ASSUME NEW w \in Workers, Bind(w)
      PROVE  RunTypeOK'
  BY <1>0, <1>1 DEF Bind, Escape, runVars, RunTypeOK
<1>2. ASSUME NEW w \in Workers, Work(w)
      PROVE  RunTypeOK'
  <2>1. persisted' \in [Jobs -> BOOLEAN]
    BY <1>0, <1>2 DEF Work, RunTypeOK
  <2>2. QED
    BY <1>0, <1>2, <2>1 DEF Work, RunTypeOK
<1>3. ASSUME NEW w \in Workers, CommitStage(w)
      PROVE  RunTypeOK'
  <2>1. Job(w) \in Jobs
    BY <1>3, ActiveJob DEF Active, CommitStage
  <2>2. ckpt' \in [Jobs -> [Stages -> Outputs \cup {NoOutput}]]
    <3>1. carry[w] \in Outputs \cup {NoOutput} /\ stage[w] \in Stages
      BY <1>0 DEF LocalTypeOK
    <3>2. [ckpt[Job(w)] EXCEPT ![stage[w]] = carry[w]]
            \in [Stages -> Outputs \cup {NoOutput}]
      BY <1>0, <2>1, <3>1 DEF RunTypeOK
    <3>3. QED
      BY <1>0, <1>3, <2>1, <3>2 DEF CommitStage, Escape, runVars, RunTypeOK
  <2>3. QED
    BY <1>0, <1>3, <2>2 DEF CommitStage, Escape, runVars, RunTypeOK
<1>4. ASSUME NEW w \in Workers, CloseRun(w)
      PROVE  RunTypeOK'
  <2>1. EventOf(FinalStatus(ending[w])) \in Events
    BY <1>0, EndingTypes DEF Events, LocalTypeOK
  <2>2. Job(w) \in Jobs
    BY <1>4, ActiveJob DEF Active, CloseRun
  <2>3. log' \in [Jobs -> Seq(Events)]
    BY <1>0, <1>4, <2>1, <2>2, AppendTyping
       DEF CloseRun, Escape, runVars, RunTypeOK
  <2>4. QED
    BY <1>0, <1>4, <2>3 DEF CloseRun, Escape, runVars, RunTypeOK
<1>5. ASSUME NEW w \in Workers, AnnounceReview(w)
      PROVE  RunTypeOK'
  <2>1. Job(w) \in Jobs /\ "review_waiting" \in Events
    BY <1>5, ActiveJob DEF Active, AnnounceReview, Events
  <2>2. log' \in [Jobs -> Seq(Events)]
    BY <1>0, <1>5, <2>1, AppendTyping
       DEF AnnounceReview, Escape, runVars, RunTypeOK
  <2>3. QED
    BY <1>0, <1>5, <2>2 DEF AnnounceReview, Escape, runVars, RunTypeOK
<1>6. ASSUME NEW w \in Workers, LandRun(w)
      PROVE  RunTypeOK'
  BY <1>0, <1>6, EndingTypes DEF LandRun, LocalTypeOK, RunTypeOK
<1>7. ASSUME NEW j \in Jobs, Create(j) \/ CancelWaiting(j)
      PROVE  RunTypeOK'
  <2>1. "run_cancelled" \in Events
    BY DEF Events, TerminalEvents
  <2>2. log' \in [Jobs -> Seq(Events)]
    BY <1>0, <1>7, <2>1, AppendTyping DEF Create, CancelWaiting, RunTypeOK
  <2>3. QED
    BY <1>0, <1>7, <2>2 DEF Create, CancelWaiting, RunTypeOK
<1>8. ASSUME NEW j \in Jobs, FinishReview(j)
      PROVE  RunTypeOK'
  <2>1. log[j] \in Seq(Events)
    BY <1>0 DEF RunTypeOK
  <2>2. <<"review_completed", "run_succeeded">> \in Seq(Events)
    BY DEF Events, TerminalEvents
  <2>3. log[j] \o <<"review_completed", "run_succeeded">> \in Seq(Events)
    BY <2>1, <2>2
  <2>4. log' \in [Jobs -> Seq(Events)]
    BY <1>0, <1>8, <2>3 DEF FinishReview, RunTypeOK
  <2>5. QED
    BY <1>0, <1>8, <2>4 DEF FinishReview, RunTypeOK
<1>9. ASSUME UNCHANGED runVars
      PROVE  RunTypeOK'
  BY <1>0, <1>9 DEF runVars, RunTypeOK
<1>10. QED
  BY <1>1, <1>2, <1>3, <1>4, <1>5, <1>6, <1>7, <1>8, <1>9
     DEF WorkerNext, WorkerStep, Poll, ClaimNext, Dispatch, Ingest, StartStage,
         Escape, CatchEscape, FailJob, Park, Settle, Beat, BeatFails, Crash,
         ClockTick, CancelRequest, vars

-----------------------------------------------------------------------------
(* The workers as clients of the queue.                                     *)

(* Every step of the composed system is a step of the queue, or leaves the  *)
(* queue alone.                                                             *)
LEMMA WorkerQueueStep ==
  ASSUME ClaimsHeld, [WorkerNext]_vars
  PROVE  [QueueNext]_queueVars
<1>1. ASSUME NEW w \in Workers, Poll(w)
      PROVE  [QueueNext]_queueVars
  BY <1>1 DEF Poll, QueueNext
<1>2. ASSUME NEW w \in Workers, ClaimNext(w)
      PROVE  [QueueNext]_queueVars
  BY <1>2 DEF ClaimNext, ClaimOne, QueueNext
<1>3. ASSUME NEW w \in Workers, Dispatch(w) \/ Ingest(w)
      PROVE  [QueueNext]_queueVars
  BY <1>3 DEF Dispatch, Ingest
<1>4. ASSUME NEW w \in Workers,
             Bind(w) \/ StartStage(w) \/ Work(w) \/ CommitStage(w)
      PROVE  [QueueNext]_queueVars
  BY <1>4 DEF Bind, StartStage, Work, CommitStage, Escape
<1>5. ASSUME NEW w \in Workers, CloseRun(w) \/ AnnounceReview(w) \/ LandRun(w)
      PROVE  [QueueNext]_queueVars
  BY <1>5 DEF CloseRun, AnnounceReview, LandRun, Escape
<1>6. ASSUME NEW w \in Workers,
             CatchEscape(w) \/ Crash(w) \/ BeatFails(w)
      PROVE  [QueueNext]_queueVars
  BY <1>6 DEF CatchEscape, Crash, BeatFails
<1>7. ASSUME NEW w \in Workers, FailJob(w) \/ Park(w) \/ Settle(w)
      PROVE  [QueueNext]_queueVars
  <2>1. held[w] \in issued
    BY <1>7 DEF ClaimsHeld, Active, FailJob, Park, Settle
  <2>2. CASE FailJob(w)
    BY <2>1, <2>2 DEF FailJob, Fenced, FencedCall, QueueNext
  <2>3. CASE Park(w)
    BY <2>1, <2>3 DEF Park, ParkWrite, Fenced, FencedCall, QueueNext
  <2>4. CASE Settle(w)
    BY <2>1, <2>4 DEF Settle, VerdictWrite, Fenced, FencedCall, QueueNext
  <2>5. QED
    BY <1>7, <2>2, <2>3, <2>4
<1>8. ASSUME NEW w \in Workers, Beat(w)
      PROVE  [QueueNext]_queueVars
  <2>1. held[w] \in issued
    BY <1>8 DEF Beat, ClaimsHeld
  <2>2. QED
    BY <1>8, <2>1 DEF Beat, FencedCall, QueueNext
<1>9. ASSUME NEW j \in Jobs,
             \/ Create(j) \/ CancelRequest(j)
             \/ CancelWaiting(j) \/ FinishReview(j)
      PROVE  [QueueNext]_queueVars
  BY <1>9 DEF Create, CancelRequest, CancelWaiting, FinishReview, QueueNext
<1>10. ASSUME ClockTick
       PROVE  [QueueNext]_queueVars
  BY <1>10 DEF ClockTick, QueueNext
<1>11. ASSUME UNCHANGED vars
       PROVE  [QueueNext]_queueVars
  BY <1>11 DEF vars
<1>12. QED
  BY <1>1, <1>2, <1>3, <1>4, <1>5, <1>6, <1>7, <1>8, <1>9, <1>10, <1>11
     DEF WorkerNext, WorkerStep

(* Claims are never taken back.                                             *)
LEMMA IssuedGrows ==
  ASSUME [QueueNext]_queueVars
  PROVE  issued \subseteq issued'
<1>1. CASE ClaimOne
  BY <1>1 DEF ClaimOne, ClaimAs
<1>2. CASE \E j \in Jobs : Enqueue(j) \/ RequestCancel(j)
  BY <1>2 DEF Enqueue, RequestCancel
<1>3. CASE \E h \in issued : FencedCall(h)
  BY <1>3 DEF FencedCall, Heartbeat, Complete, DeadLetter, Cancel, Fail,
              FailTerminally, FailAndRequeue, EndClaim
<1>4. CASE ReapStale \/ Tick \/ UNCHANGED queueVars
  BY <1>4 DEF ReapStale, Tick, queueVars
<1>5. QED
  BY <1>1, <1>2, <1>3, <1>4 DEF QueueNext

(* A worker that moves on inside its job keeps its claim.                   *)
LEMMA InsideJob ==
  ASSUME LocalTypeOK, ClaimsHeld, issued \subseteq issued',
         NEW w \in Workers, Active(w),
         NEW label \in Labels \ {"idle", "polling"},
         Goto(w, label), held' = held,
         \E b \in BeatStates : beat' = [beat EXCEPT ![w] = b]
  PROVE  ClaimsHeld'
  BY DEF LocalTypeOK, ClaimsHeld, Active, Goto

(* A worker that leaves its job has neither claim nor thread.               *)
LEMMA OutsideJob ==
  ASSUME LocalTypeOK, ClaimsHeld, issued \subseteq issued',
         NEW w \in Workers, Release(w)
  PROVE  ClaimsHeld'
  BY DEF LocalTypeOK, ClaimsHeld, Active, Release

(* A step keeps every worker on a claim the queue issued.                   *)
LEMMA ClaimsHeldStep ==
  ASSUME WorkerTypeOK, ClaimsHeld, [WorkerNext]_vars
  PROVE  ClaimsHeld'
<1>0. LocalTypeOK /\ issued \subseteq issued'
  BY WorkerQueueStep, IssuedGrows DEF WorkerTypeOK
<1>b. \A w \in Workers : beat[w] \in BeatStates
                         /\ beat = [beat EXCEPT ![w] = beat[w]]
  BY <1>0 DEF LocalTypeOK
<1>1. ASSUME NEW w \in Workers, Poll(w)
      PROVE  ClaimsHeld'
  BY <1>0, <1>1 DEF Poll, Goto, LocalTypeOK, ClaimsHeld, Active
<1>2. ASSUME NEW w \in Workers, ClaimNext(w)
      PROVE  ClaimsHeld'
  <2>1. CASE queueVars' = queueVars /\ held' = held /\ Goto(w, "idle")
    BY <1>0, <1>2, <2>1 DEF ClaimNext, Goto, LocalTypeOK, ClaimsHeld, Active
  <2>2. ASSUME NEW h \in issued', held' = [held EXCEPT ![w] = h],
               Goto(w, "claimed")
        PROVE  ClaimsHeld'
    BY <1>0, <1>2, <2>2 DEF ClaimNext, Goto, LocalTypeOK, ClaimsHeld, Active
  <2>3. \/ queueVars' = queueVars /\ held' = held /\ Goto(w, "idle")
        \/ \E h \in issued' : held' = [held EXCEPT ![w] = h] /\ Goto(w, "claimed")
    BY <1>2 DEF ClaimNext, ClaimAs
  <2>4. QED
    BY <2>1, <2>2, <2>3
<1>3. ASSUME NEW w \in Workers, Dispatch(w)
      PROVE  ClaimsHeld'
  BY <1>0, <1>b, <1>3, InsideJob DEF Dispatch, Active, Labels, BeatStates
<1>4. ASSUME NEW w \in Workers, Ingest(w) \/ Bind(w) \/ Work(w)
      PROVE  ClaimsHeld'
  BY <1>0, <1>b, <1>4, InsideJob
     DEF Ingest, Bind, Work, Conclude, Escape, Active, Labels
<1>5. ASSUME NEW w \in Workers, StartStage(w) \/ CommitStage(w)
      PROVE  ClaimsHeld'
  BY <1>0, <1>b, <1>5, InsideJob
     DEF StartStage, CommitStage, Conclude, Advance, Escape, Active, Labels
<1>6. ASSUME NEW w \in Workers, CloseRun(w) \/ AnnounceReview(w) \/ LandRun(w)
      PROVE  ClaimsHeld'
  BY <1>0, <1>b, <1>6, InsideJob
     DEF CloseRun, AnnounceReview, LandRun, Escape, Active, Labels
<1>7. ASSUME NEW w \in Workers, CatchEscape(w)
      PROVE  ClaimsHeld'
  BY <1>0, <1>7, InsideJob, OutsideJob
     DEF CatchEscape, Active, Labels, BeatStates
<1>8. ASSUME NEW w \in Workers, FailJob(w) \/ Park(w) \/ Settle(w) \/ Crash(w)
      PROVE  ClaimsHeld'
  BY <1>0, <1>8, OutsideJob DEF FailJob, Park, Settle, Crash
<1>9. ASSUME NEW w \in Workers, Beat(w) \/ BeatFails(w)
      PROVE  ClaimsHeld'
  BY <1>0, <1>9 DEF Beat, BeatFails, LocalTypeOK, ClaimsHeld, Active
<1>10. ASSUME UNCHANGED <<pc, held, beat>>
       PROVE  ClaimsHeld'
  BY <1>0, <1>10 DEF ClaimsHeld, Active
<1>11. QED
  BY <1>1, <1>2, <1>3, <1>4, <1>5, <1>6, <1>7, <1>8, <1>9, <1>10
     DEF WorkerNext, WorkerStep, ClockTick, Create, CancelRequest,
         CancelWaiting, FinishReview, vars, localVars

(* The inductive invariant of the composition with the queue.               *)
WorkerInv == QueueInv /\ WorkerTypeOK /\ ClaimsHeld

LEMMA WorkerInitInv == WorkerInit => WorkerInv
<1> SUFFICES ASSUME WorkerInit
             PROVE  WorkerInv
  OBVIOUS
<1>1. QueueInv
  BY QueueInitInv DEF WorkerInit
<1>2. LocalTypeOK
  BY WorkerAssumption
     DEF WorkerInit, LocalTypeOK, Labels, BeatStates, Endings, Stages
<1>3. RunTypeOK
  BY DEF WorkerInit, RunTypeOK, RunStatuses
<1>4. ClaimsHeld
  BY DEF WorkerInit, ClaimsHeld, Active
<1>5. QED
  BY <1>1, <1>2, <1>3, <1>4 DEF WorkerInv, QueueInv, WorkerTypeOK

LEMMA WorkerStepInv == WorkerInv /\ [WorkerNext]_vars => WorkerInv'
<1> SUFFICES ASSUME WorkerInv, [WorkerNext]_vars
             PROVE  WorkerInv'
  OBVIOUS
<1>1. QueueInv'
  BY WorkerQueueStep, QueueStepInv DEF WorkerInv
<1>2. LocalTypeOK' /\ RunTypeOK'
  BY LocalTyping, RunTyping DEF WorkerInv
<1>3. ClaimsHeld'
  BY ClaimsHeldStep DEF WorkerInv
<1>4. QED
  BY <1>1, <1>2, <1>3 DEF WorkerInv, QueueInv, WorkerTypeOK

(* The composition is type correct.                                         *)
THEOREM WorkerTyping == WorkerSpec => []WorkerTypeOK
<1>1. WorkerInv => WorkerTypeOK
  BY DEF WorkerInv
<1>2. QED
  BY <1>1, WorkerInitInv, WorkerStepInv, PTL DEF WorkerSpec

(* Workers, heartbeat threads, crashes and the API together use the queue   *)
(* only as queue.py allows, so every property of the queue holds of the     *)
(* whole system.                                                            *)
THEOREM WorkersUseQueue == WorkerSpec => QueueSpec
<1>1. WorkerInit => QueueInit
  BY DEF WorkerInit
<1>2. WorkerInv /\ [WorkerNext]_vars => [QueueNext]_queueVars
  BY WorkerQueueStep DEF WorkerInv
<1>3. QED
  BY <1>1, <1>2, WorkerInitInv, WorkerStepInv, PTL DEF WorkerSpec, QueueSpec

-----------------------------------------------------------------------------
(* The workers as writers of the runs.                                      *)

Handling == {"binding", "stage", "work", "commit", "conclude", "announce",
             "land"}

(* An extraction run exists exactly when its job does.                      *)
RunsExist ==
  /\ \A j \in Jobs : status[j] = "absent" => run[j] = "none"
  /\ \A j \in Extractions : status[j] # "absent" => run[j] # "none"

(* What the position of a worker says about its run: past binding the run   *)
(* has left queued; a handler that returns has left the run in the state    *)
(* its verdict names.                                                       *)
HandlerOK(w) ==
  /\ pc[w] \in Handling => Kind[Job(w)] = "extraction_run"
  /\ pc[w] \in Handling \ {"binding"} => run[Job(w)] \notin {"none", "queued"}
  /\ pc[w] = "ingest" => Kind[Job(w)] = "ingestion"
  /\ pc[w] = "announce" =>
       ending[w] = "ok" /\ run[Job(w)] \notin {"none", "queued", "running"}
  /\ pc[w] = "settle" /\ Kind[Job(w)] = "extraction_run" =>
       IF ending[w] = "ok"
       THEN run[Job(w)] \notin {"none", "queued", "running"}
       ELSE run[Job(w)] = ending[w]

RunInv == WorkerInv /\ RunsExist /\ \A w \in Workers : HandlerOK(w)

(* Every run that moves makes a move 0004 allows.                           *)
LegalStep == \A j \in Jobs :
               run'[j] # run[j] => <<run[j], run'[j]>> \in LegalMoves

(* The transitions in and out of each status.                               *)
LEMMA LegalMovesFacts ==
  /\ \A st \in RunTerminal : <<"running", st>> \in LegalMoves
  /\ \A st \in RunTerminal : <<"waiting_review", st>> \in LegalMoves
  /\ <<"none", "queued">> \in LegalMoves
  /\ <<"queued", "running">> \in LegalMoves
  /\ <<"running", "waiting_review">> \in LegalMoves
  /\ \A a, b : <<a, b>> \in LegalMoves =>
       /\ a \notin RunTerminal
       /\ b # "none"
       /\ b = "queued" => a = "none"
       /\ b = "running" => a = "queued"
  BY DEF LegalMoves, RunTerminal

(* The job of a claim has been created.                                     *)
LEMMA ClaimedJobExists ==
  ASSUME QueueInv, NEW h \in issued
  PROVE  h.job \in Jobs /\ status[h.job] # "absent"
  BY DEF QueueInv, QueueTypeOK, AttemptsAccounted, ClaimedJob

(* Each action's move of a run is legal.                                    *)
LEMMA RunStepLegal ==
  ASSUME RunInv, [WorkerNext]_vars
  PROVE  LegalStep
<1>0. RunTypeOK /\ LocalTypeOK /\ WorkerTypeOK /\ ClaimsHeld /\ QueueInv
  BY DEF RunInv, WorkerInv, WorkerTypeOK
<1>1. ASSUME NEW w \in Workers, Bind(w)
      PROVE  LegalStep
  BY <1>0, <1>1, LegalMovesFacts
     DEF Bind, Escape, runVars, RunTypeOK, LegalStep
<1>2. ASSUME NEW w \in Workers, CloseRun(w)
      PROVE  LegalStep
  <2>1. /\ Job(w) \in Jobs
        /\ run[Job(w)] \notin {"none", "queued"}
    BY <1>0, <1>2, ActiveJob DEF CloseRun, Active, RunInv, HandlerOK, Handling
  <2>2. ~RunOver(Job(w)) => run[Job(w)] \in {"running", "waiting_review"}
    BY <1>0, <2>1 DEF RunTypeOK, RunOver, RunStatuses
  <2>3. QED
    BY <1>0, <1>2, <2>1, <2>2, LegalMovesFacts
       DEF CloseRun, Escape, runVars, RunTypeOK, LegalStep
<1>3. ASSUME NEW w \in Workers, LandRun(w)
      PROVE  LegalStep
  <2>1. /\ Job(w) \in Jobs
        /\ run[Job(w)] \notin {"none", "queued"}
    BY <1>0, <1>3, ActiveJob DEF LandRun, Active, RunInv, HandlerOK, Handling
  <2>2. ~RunOver(Job(w)) => run[Job(w)] \in {"running", "waiting_review"}
    BY <1>0, <2>1 DEF RunTypeOK, RunOver, RunStatuses
  <2>3. FinalStatus(ending[w]) \in RunTerminal
    BY <1>0, EndingTypes DEF LocalTypeOK
  <2>4. QED
    BY <1>0, <1>3, <2>1, <2>2, <2>3, LegalMovesFacts
       DEF LandRun, RunTypeOK, LegalStep
<1>4. ASSUME NEW j \in Jobs, Create(j) \/ CancelWaiting(j) \/ FinishReview(j)
      PROVE  LegalStep
  <2>1. "cancelled" \in RunTerminal /\ "succeeded" \in RunTerminal
    BY DEF RunTerminal
  <2>2. Create(j) => run[j] = "none"
    BY DEF Create, Enqueue, RunInv, RunsExist
  <2>3. QED
    BY <1>0, <1>4, <2>1, <2>2, LegalMovesFacts
       DEF Create, CancelWaiting, FinishReview, RunTypeOK, LegalStep
<1>5. ASSUME UNCHANGED run
      PROVE  LegalStep
  BY <1>5 DEF LegalStep
<1>6. QED
  BY <1>1, <1>2, <1>3, <1>4, <1>5
     DEF WorkerNext, WorkerStep, Poll, ClaimNext, Dispatch, Ingest, StartStage,
         Work, CommitStage, AnnounceReview, Escape, CatchEscape, FailJob, Park,
         Settle, Beat, BeatFails, Crash, ClockTick, CancelRequest, runVars, vars

(* A job that exists stays.                                                 *)
LEMMA JobsStay ==
  ASSUME QueueInv, [QueueNext]_queueVars, NEW j \in Jobs
  PROVE  status[j] # "absent" => status'[j] # "absent"
<1>0. status \in [Jobs -> Statuses]
  BY DEF QueueInv, QueueTypeOK
<1>1. CASE ClaimOne
  BY <1>0, <1>1 DEF ClaimOne, ClaimAs, Claimable, Due
<1>2. CASE \E k \in Jobs : Enqueue(k) \/ RequestCancel(k)
  BY <1>0, <1>2 DEF Enqueue, RequestCancel, rowVars
<1>3. CASE \E h \in issued : FencedCall(h)
  BY <1>0, <1>3 DEF FencedCall, Heartbeat, Complete, DeadLetter, Cancel, Fail,
                    FailTerminally, FailAndRequeue, EndClaim, Live
<1>4. CASE ReapStale
  BY <1>0, <1>4 DEF ReapStale, ReapedStatus, Stale
<1>5. CASE Tick \/ UNCHANGED queueVars
  BY <1>5 DEF Tick, queueVars
<1>6. QED
  BY <1>1, <1>2, <1>3, <1>4, <1>5 DEF QueueNext

(* A job that does not exist yet is changed by Create alone.                *)
LEMMA OnlyCreate ==
  ASSUME QueueInv, ClaimsHeld, [WorkerNext]_vars, NEW j \in Jobs,
         status[j] = "absent", status'[j] # status[j]
  PROVE  \E k \in Jobs : Create(k)
<1>0. status \in [Jobs -> Statuses]
  BY DEF QueueInv, QueueTypeOK
<1>1. ~ReapStale /\ ~Tick
  BY <1>0 DEF ReapStale, Stale, Tick
<1>2. \A h \in issued : ~FencedCall(h)
  BY <1>0 DEF FencedCall, Heartbeat, Complete, DeadLetter, Cancel, Fail,
              FailTerminally, FailAndRequeue, EndClaim, Live
<1>3. ~ClaimOne /\ ~(\E k \in Jobs : RequestCancel(k))
  BY <1>0 DEF ClaimOne, ClaimAs, Claimable, Due, RequestCancel, rowVars
<1>4. ~UNCHANGED queueVars
  BY DEF queueVars
<1>5. ASSUME NEW w \in Workers, Poll(w) \/ ClaimNext(w)
      PROVE  FALSE
  BY <1>1, <1>3, <1>4, <1>5 DEF Poll, ClaimNext, ClaimOne
<1>6. ASSUME NEW w \in Workers,
             FailJob(w) \/ Park(w) \/ Settle(w) \/ Beat(w)
      PROVE  FALSE
  <2>1. held[w] \in issued
    BY <1>6 DEF ClaimsHeld, Active, FailJob, Park, Settle, Beat
  <2>2. ~FencedCall(held[w])
    BY <1>2, <2>1
  <2>3. QED
    BY <1>4, <1>6, <2>2
       DEF FailJob, Park, ParkWrite, Settle, VerdictWrite, Beat, Fenced,
           FencedCall
<1>7. QED
  BY <1>1, <1>3, <1>4, <1>5, <1>6
     DEF WorkerNext, WorkerStep, Dispatch, Ingest, Bind, StartStage, Work,
         CommitStage, CloseRun, AnnounceReview, LandRun, Escape, CatchEscape,
         BeatFails, Crash, ClockTick, CancelRequest, CancelWaiting,
         FinishReview, vars

(* Runs exist exactly with their jobs after every step.                     *)
LEMMA RunsExistStep ==
  ASSUME RunInv, [WorkerNext]_vars
  PROVE  RunsExist'
<1>0. /\ LegalStep /\ QueueInv /\ RunsExist /\ RunTypeOK
      /\ WorkerTypeOK /\ ClaimsHeld /\ [QueueNext]_queueVars
  BY RunStepLegal, WorkerQueueStep DEF RunInv, WorkerInv, WorkerTypeOK
<1>1. ASSUME NEW j \in Jobs, status'[j] = "absent"
      PROVE  run'[j] = "none"
  <2>1. status[j] = "absent" /\ run[j] = "none"
    BY <1>0, <1>1, JobsStay DEF RunsExist
  <2>2. \A w \in Workers : Active(w) => Job(w) # j
    BY <1>0, <2>1, ClaimedJobExists DEF ClaimsHeld, Job
  <2>3. CASE \E w \in Workers : Bind(w) \/ CloseRun(w) \/ LandRun(w)
    BY <1>0, <2>1, <2>2, <2>3
       DEF Bind, CloseRun, LandRun, Escape, runVars, Active, RunTypeOK
  <2>4. CASE \E k \in Jobs : Create(k) \/ CancelWaiting(k) \/ FinishReview(k)
    <3>1. ~Create(j)
      BY <1>0, <1>1 DEF Create, Enqueue, QueueInv, QueueTypeOK
    <3>2. QED
      BY <1>0, <2>1, <2>4, <3>1
         DEF Create, CancelWaiting, FinishReview, RunTypeOK
  <2>5. CASE UNCHANGED run
    BY <2>1, <2>5
  <2>6. QED
    BY <2>3, <2>4, <2>5
       DEF WorkerNext, WorkerStep, Poll, ClaimNext, Dispatch, Ingest,
           StartStage, Work, CommitStage, AnnounceReview, Escape, CatchEscape,
           FailJob, Park, Settle, Beat, BeatFails, Crash, ClockTick,
           CancelRequest, runVars, vars
<1>2. ASSUME NEW j \in Extractions, status'[j] # "absent"
      PROVE  run'[j] # "none"
  <2>0. j \in Jobs
    BY DEF Extractions
  <2>1. CASE status[j] # "absent"
    BY <1>0, <2>0, <2>1, LegalMovesFacts DEF RunsExist, LegalStep
  <2>2. CASE status[j] = "absent"
    <3>1. status'[j] # status[j]
      BY <1>2, <2>2
    <3>2. PICK k \in Jobs : Create(k)
      BY <1>0, <2>0, <2>2, <3>1, OnlyCreate
    <3>3. k = j
      BY <1>0, <2>0, <3>1, <3>2 DEF Create, Enqueue, QueueInv, QueueTypeOK
    <3>4. QED
      BY <1>0, <2>0, <3>2, <3>3 DEF Create, Extractions, RunTypeOK
  <2>3. QED
    BY <2>1, <2>2
<1>3. QED
  BY <1>1, <1>2 DEF RunsExist, Extractions

(* A worker that stands still keeps its hold on its run while others step.  *)
LEMMA Undisturbed ==
  ASSUME RunInv, LegalStep, NEW v \in Workers,
         pc'[v] = pc[v], held'[v] = held[v], ending'[v] = ending[v]
  PROVE  HandlerOK(v)'
<1>0. HandlerOK(v) /\ WorkerTypeOK /\ ClaimsHeld
  BY DEF RunInv, WorkerInv
<1>1. Job(v)' = Job(v)
  BY DEF Job
<1>2. CASE ~Active(v)
  BY <1>2 DEF Active, HandlerOK, Handling
<1>3. CASE Active(v)
  <2>1. Job(v) \in Jobs
    BY <1>0, <1>3, ActiveJob
  <2>2. \/ run'[Job(v)] = run[Job(v)]
        \/ /\ run[Job(v)] \notin RunTerminal
           /\ run'[Job(v)] # "none"
           /\ run'[Job(v)] = "queued" => run[Job(v)] = "none"
           /\ run'[Job(v)] = "running" => run[Job(v)] = "queued"
    BY <2>1, LegalMovesFacts DEF LegalStep
  <2>3. ending[v] \in Endings /\ run[Job(v)] \in RunStatuses
    BY <1>0, <2>1 DEF WorkerTypeOK, LocalTypeOK, RunTypeOK
  <2>4. QED
    BY <1>0, <1>1, <2>2, <2>3
       DEF HandlerOK, Handling, Endings, RunStatuses, RunTerminal
<1>4. QED
  BY <1>2, <1>3

(* The acting worker's new position agrees with its run.                    *)
LEMMA HandlerStep ==
  ASSUME RunInv, [WorkerNext]_vars, NEW v \in Workers
  PROVE  HandlerOK(v)'
<1>0. /\ LegalStep /\ RunsExist /\ QueueInv /\ WorkerTypeOK /\ ClaimsHeld
      /\ LocalTypeOK /\ RunTypeOK /\ HandlerOK(v)
  BY RunStepLegal DEF RunInv, WorkerInv, WorkerTypeOK
<1>1. ASSUME NEW w \in Workers, w # v,
             WorkerStep(w) \/ Beat(w) \/ BeatFails(w) \/ Crash(w)
      PROVE  HandlerOK(v)'
  <2>1. pc'[v] = pc[v] /\ held'[v] = held[v] /\ ending'[v] = ending[v]
    BY <1>0, <1>1
       DEF WorkerStep, Poll, ClaimNext, Dispatch, Ingest, Bind, StartStage,
           Work, CommitStage, CloseRun, AnnounceReview, LandRun, CatchEscape,
           FailJob, Park, Settle, Beat, BeatFails, Crash, Release, Escape,
           Goto, Conclude, Advance, LocalTypeOK
  <2>2. QED
    BY <1>0, <2>1, Undisturbed
<1>2. ASSUME UNCHANGED <<pc, held, ending>>
      PROVE  HandlerOK(v)'
  BY <1>0, <1>2, Undisturbed
<1>3. ASSUME Poll(v) \/ FailJob(v) \/ Park(v) \/ Settle(v) \/ Crash(v)
      PROVE  HandlerOK(v)'
  <2>1. pc'[v] \in {"idle", "polling"}
    BY <1>0, <1>3 DEF Poll, FailJob, Park, Settle, Crash, Goto, Release,
                      LocalTypeOK
  <2>2. QED
    BY <2>1 DEF HandlerOK, Handling
<1>4. ASSUME ClaimNext(v) \/ CatchEscape(v)
      PROVE  HandlerOK(v)'
  <2>1. pc'[v] \in {"idle", "claimed", "park", "failing"}
    BY <1>0, <1>4 DEF ClaimNext, CatchEscape, Goto, Release, LocalTypeOK
  <2>2. QED
    BY <2>1 DEF HandlerOK, Handling
<1>5. ASSUME Dispatch(v)
      PROVE  HandlerOK(v)'
  BY <1>0, <1>5 DEF Dispatch, Goto, LocalTypeOK, HandlerOK, Handling, Job
<1>6. ASSUME Ingest(v)
      PROVE  HandlerOK(v)'
  BY <1>0, <1>6 DEF Ingest, Goto, LocalTypeOK, HandlerOK, Handling, Job
<1>7. ASSUME Bind(v)
      PROVE  HandlerOK(v)'
  <2>1. Job(v) \in Jobs /\ Job(v)' = Job(v) /\ Kind[Job(v)] = "extraction_run"
    BY <1>0, <1>7, ActiveJob DEF Bind, Active, Escape, Job, HandlerOK, Handling
  <2>2. run[Job(v)] # "none"
    BY <1>0, <1>7, <2>1, ActiveJob, ClaimedJobExists
       DEF Bind, Active, RunsExist, Extractions, Job
  <2>3. QED
    BY <1>0, <1>7, <2>1, <2>2
       DEF Bind, Escape, Goto, LocalTypeOK, RunTypeOK, HandlerOK, Handling
<1>8. ASSUME StartStage(v) \/ Work(v) \/ CommitStage(v)
      PROVE  HandlerOK(v)'
  <2>1. /\ pc[v] \in {"stage", "work", "commit"}
        /\ pc'[v] \in {"stage", "work", "commit", "conclude", "escaped"}
        /\ Job(v)' = Job(v) /\ run' = run
    BY <1>0, <1>8
       DEF StartStage, Work, CommitStage, Escape, Conclude, Advance, Goto,
           LocalTypeOK, Job, runVars
  <2>2. QED
    BY <1>0, <2>1 DEF HandlerOK, Handling
<1>9. ASSUME CloseRun(v)
      PROVE  HandlerOK(v)'
  <2>1. Job(v) \in Jobs /\ Job(v)' = Job(v)
    BY <1>0, <1>9, ActiveJob DEF CloseRun, Active, Escape, Job
  <2>2. QED
    BY <1>0, <1>9, <2>1
       DEF CloseRun, Escape, Goto, LocalTypeOK, RunTypeOK, HandlerOK, Handling,
           runVars
<1>10. ASSUME AnnounceReview(v)
       PROVE  HandlerOK(v)'
  BY <1>0, <1>10 DEF AnnounceReview, Escape, Goto, LocalTypeOK, HandlerOK,
                     Handling, Job, runVars
<1>11. ASSUME LandRun(v)
       PROVE  HandlerOK(v)'
  <2>1. Job(v) \in Jobs /\ Job(v)' = Job(v)
    BY <1>0, <1>11, ActiveJob DEF LandRun, Active, Job
  <2>2. /\ ending[v] = "ok" => FinalStatus(ending[v]) = "succeeded"
        /\ ending[v] \in {"cancelled", "failed"} =>
             FinalStatus(ending[v]) = ending[v]
        /\ ending[v] \in Endings
    BY <1>0 DEF FinalStatus, LocalTypeOK
  <2>3. QED
    BY <1>0, <1>11, <2>1, <2>2
       DEF LandRun, Goto, LocalTypeOK, RunTypeOK, HandlerOK, Handling, Endings
<1>12. QED
  BY <1>1, <1>2, <1>3, <1>4, <1>5, <1>6, <1>7, <1>8, <1>9, <1>10, <1>11
     DEF WorkerNext, WorkerStep, Beat, BeatFails, ClockTick, Create,
         CancelRequest, CancelWaiting, FinishReview, vars, localVars

LEMMA RunInitInv == WorkerInit => RunInv
<1> SUFFICES ASSUME WorkerInit
             PROVE  RunInv
  OBVIOUS
<1>1. RunsExist
  BY DEF WorkerInit, QueueInit, RunsExist, Extractions
<1>2. \A w \in Workers : HandlerOK(w)
  BY DEF WorkerInit, HandlerOK, Handling
<1>3. QED
  BY <1>1, <1>2, WorkerInitInv DEF RunInv

LEMMA RunStepInv == RunInv /\ [WorkerNext]_vars => RunInv'
<1> SUFFICES ASSUME RunInv, [WorkerNext]_vars
             PROVE  RunInv'
  OBVIOUS
<1>1. WorkerInv'
  BY WorkerStepInv DEF RunInv
<1>2. RunsExist'
  BY RunsExistStep
<1>3. \A w \in Workers : HandlerOK(w)'
  BY HandlerStep
<1>4. QED
  BY <1>1, <1>2, <1>3 DEF RunInv

(* No worker, zombie or API call asks 0004's guard for an illegal           *)
(* transition of a run.                                                     *)
THEOREM LegalRuns == WorkerSpec => RunTransitionsLegal
<1>1. RunInv /\ [WorkerNext]_vars
        => [\A j \in Jobs : run'[j] # run[j] =>
                              <<run[j], run'[j]>> \in LegalMoves]_vars
  BY RunStepLegal DEF LegalStep
<1>2. QED
  BY <1>1, RunInitInv, RunStepInv, PTL DEF WorkerSpec, RunTransitionsLegal

-----------------------------------------------------------------------------
(* Jobs that end agree with their runs.                                     *)

(* Nothing to show for a job whose row stays as it is: runs only move       *)
(* forward.                                                                 *)
LEMMA MatchKept ==
  ASSUME RunInv, LegalStep, JobMatchesRun, NEW j \in Extractions,
         status'[j] = status[j], error'[j] = error[j],
         attempts'[j] = attempts[j]
  PROVE  /\ status'[j] = "cancelled" => run'[j] = "cancelled"
         /\ status'[j] = "failed" /\ error'[j] = "JOB_DEAD_LETTERED"
              => run'[j] = "failed"
         /\ status'[j] \in Terminal /\ run'[j] \in {"queued", "running"}
              => status'[j] = "failed" /\ attempts'[j] = MaxAttempts
<1>1. j \in Jobs
  BY DEF Extractions
<1>2. \/ run'[j] = run[j]
      \/ /\ run[j] \notin RunTerminal
         /\ run'[j] = "queued" => run[j] = "none"
         /\ run'[j] = "running" => run[j] = "queued"
  BY <1>1, LegalMovesFacts DEF LegalStep
<1>3. status[j] \in Terminal => run[j] # "none"
  BY DEF RunInv, RunsExist, Terminal
<1>4. QED
  BY <1>2, <1>3 DEF JobMatchesRun, RunTerminal, Terminal

(* What a terminal write must show for the job it ends.                     *)
MatchAfter(j) ==
  /\ status'[j] = "cancelled" => run[j] = "cancelled"
  /\ status'[j] = "failed" /\ error'[j] = "JOB_DEAD_LETTERED"
       => run[j] = "failed"
  /\ status'[j] \in Terminal /\ run[j] \in {"queued", "running"}
       => status'[j] = "failed" /\ attempts'[j] = MaxAttempts

(* A queue step with the runs at rest keeps the agreement if it keeps it    *)
(* for the jobs whose rows it changes.                                      *)
LEMMA MatchByRows ==
  ASSUME RunInv, JobMatchesRun, run' = run,
         \A j \in Extractions :
           \/ /\ status'[j] = status[j] /\ error'[j] = error[j]
              /\ attempts'[j] = attempts[j]
           \/ MatchAfter(j)
  PROVE  JobMatchesRun'
  BY DEF JobMatchesRun, MatchAfter

(* The attempt a live claim records is the row's, and no larger than the    *)
(* budget.                                                                  *)
LEMMA LiveAttempts ==
  ASSUME QueueInv, NEW h \in issued, Live(h)
  PROVE  h.attempts = attempts[h.job] /\ attempts[h.job] <= MaxAttempts
         /\ attempts[h.job] \in Nat
  BY DEF QueueInv, QueueTypeOK, SingleOwner, AttemptsAccounted, Live, ClaimedJob

(* Every step keeps jobs and runs in agreement.                             *)
LEMMA MatchStep ==
  ASSUME RunInv, JobMatchesRun, [WorkerNext]_vars
  PROVE  JobMatchesRun'
<1>0. /\ LegalStep /\ QueueInv /\ QueueTypeOK /\ WorkerTypeOK /\ ClaimsHeld
      /\ MaxAttempts \in Nat /\ Extractions \subseteq Jobs
  BY RunStepLegal, QueueAssumption
     DEF RunInv, WorkerInv, QueueInv, Extractions
<1>1. ASSUME UNCHANGED <<status, error, attempts>>
      PROVE  JobMatchesRun'
  BY <1>0, <1>1, MatchKept DEF JobMatchesRun
<1>2. ASSUME NEW w \in Workers, Poll(w)
      PROVE  JobMatchesRun'
  <2>1. CASE UNCHANGED queueVars
    BY <1>1, <2>1 DEF queueVars
  <2>2. CASE ReapStale
    <3>1. \A j \in Jobs :
            \/ /\ status'[j] = status[j] /\ error'[j] = error[j]
               /\ attempts'[j] = attempts[j]
            \/ MatchAfter(j)
      BY <1>0, <2>2 DEF ReapStale, ReapedStatus, MatchAfter, Terminal,
                        QueueInv, AttemptsAccounted, QueueTypeOK
    <3>2. QED
      BY <1>0, <1>2, <3>1, MatchByRows DEF Poll, runVars
  <2>3. QED
    BY <1>2, <2>1, <2>2 DEF Poll
<1>3. ASSUME NEW w \in Workers, ClaimNext(w)
      PROVE  JobMatchesRun'
  <2>1. CASE UNCHANGED queueVars
    BY <1>1, <2>1 DEF queueVars
  <2>2. CASE ~UNCHANGED queueVars
    <3>1. PICK k \in Jobs, l \in Leases :
            ClaimAs([job |-> k, lease |-> l, attempts |-> attempts[k] + 1])
      BY <1>3, <2>2 DEF ClaimNext
    <3>2. \A j \in Jobs :
            \/ /\ status'[j] = status[j] /\ error'[j] = error[j]
               /\ attempts'[j] = attempts[j]
            \/ MatchAfter(j)
      BY <1>0, <3>1 DEF ClaimAs, MatchAfter, Terminal, QueueTypeOK
    <3>3. QED
      BY <1>0, <1>3, <3>2, MatchByRows DEF ClaimNext, runVars
  <2>3. QED
    BY <2>1, <2>2
<1>4. ASSUME NEW w \in Workers, FailJob(w)
      PROVE  JobMatchesRun'
  <2>1. CASE UNCHANGED queueVars
    BY <1>1, <2>1 DEF queueVars
  <2>2. CASE Live(held[w]) /\ Fail(held[w])
    <3>1. held[w] \in issued
      BY <1>0, <1>4 DEF ClaimsHeld, Active, FailJob
    <3>2. held[w].attempts = attempts[held[w].job]
          /\ attempts[held[w].job] <= MaxAttempts /\ held[w].job \in Jobs
          /\ attempts[held[w].job] \in Nat
      BY <1>0, <2>2, <3>1, LiveAttempts, ClaimedJobExists
    <3>3. \A j \in Jobs :
            \/ /\ status'[j] = status[j] /\ error'[j] = error[j]
               /\ attempts'[j] = attempts[j]
            \/ MatchAfter(j)
      BY <1>0, <2>2, <3>2 DEF Fail, FailTerminally, FailAndRequeue, EndClaim,
                              MatchAfter, Terminal, QueueTypeOK
    <3>4. QED
      BY <1>0, <1>4, <3>3, MatchByRows DEF FailJob, runVars
  <2>3. QED
    BY <1>4, <2>1, <2>2 DEF FailJob, Fenced
<1>5. ASSUME NEW w \in Workers, Park(w)
      PROVE  JobMatchesRun'
  <2>1. CASE UNCHANGED queueVars
    BY <1>1, <2>1 DEF queueVars
  <2>2. CASE ParkWrite(w)
    <3>1. \A j \in Jobs :
            \/ /\ status'[j] = status[j] /\ error'[j] = error[j]
               /\ attempts'[j] = attempts[j]
            \/ MatchAfter(j)
      BY <1>0, <2>2 DEF ParkWrite, Complete, Cancel, DeadLetter, EndClaim, Job,
                        MatchAfter, Terminal, QueueTypeOK
    <3>2. QED
      BY <1>0, <1>5, <3>1, MatchByRows DEF Park, runVars
  <2>3. QED
    BY <1>5, <2>1, <2>2 DEF Park, Fenced
<1>6. ASSUME NEW w \in Workers, Settle(w)
      PROVE  JobMatchesRun'
  <2>1. CASE UNCHANGED queueVars
    BY <1>1, <2>1 DEF queueVars
  <2>2. CASE VerdictWrite(w)
    <3>1. pc[w] = "settle" /\ HandlerOK(w)
      BY <1>6 DEF Settle, RunInv
    <3>2. \A j \in Extractions :
            \/ /\ status'[j] = status[j] /\ error'[j] = error[j]
               /\ attempts'[j] = attempts[j]
            \/ MatchAfter(j)
      BY <1>0, <2>2, <3>1
         DEF VerdictWrite, Complete, Cancel, DeadLetter, EndClaim, Job,
             MatchAfter, Terminal, QueueTypeOK, HandlerOK, Extractions
    <3>3. QED
      BY <1>0, <1>6, <3>2, MatchByRows DEF Settle, runVars
  <2>3. QED
    BY <1>6, <2>1, <2>2 DEF Settle, Fenced
<1>7. ASSUME NEW k \in Jobs, Create(k)
      PROVE  JobMatchesRun'
  <2>1. ASSUME NEW j \in Extractions, j # k
        PROVE  status'[j] = status[j] /\ error'[j] = error[j]
               /\ attempts'[j] = attempts[j]
    BY <1>0, <1>7, <2>1 DEF Create, Enqueue, QueueTypeOK
  <2>2. status'[k] = "queued"
    BY <1>0, <1>7 DEF Create, Enqueue, QueueTypeOK
  <2>3. QED
    BY <1>0, <2>1, <2>2, MatchKept DEF JobMatchesRun, Terminal
<1>8. ASSUME NEW w \in Workers, Beat(w)
      PROVE  JobMatchesRun'
  BY <1>1, <1>8 DEF Beat, Heartbeat, queueVars
<1>9. QED
  BY <1>1, <1>2, <1>3, <1>4, <1>5, <1>6, <1>7, <1>8
     DEF WorkerNext, WorkerStep, Dispatch, Ingest, Bind, StartStage, Work,
         CommitStage, CloseRun, AnnounceReview, LandRun, Escape, CatchEscape,
         BeatFails, Crash, ClockTick, Tick, CancelRequest, RequestCancel,
         rowVars, CancelWaiting, FinishReview, queueVars, vars

(* Job outcomes match their runs, for any number of workers, zombies among  *)
(* them, and whatever crashes.                                              *)
THEOREM JobsMatchRuns == WorkerSpec => []JobMatchesRun
<1>1. WorkerInit => JobMatchesRun
  BY DEF WorkerInit, QueueInit, JobMatchesRun, Extractions, Terminal
<1>2. RunInv /\ JobMatchesRun /\ [WorkerNext]_vars => JobMatchesRun'
  BY MatchStep
<1>3. QED
  BY <1>1, <1>2, RunInitInv, RunStepInv, PTL DEF WorkerSpec

-----------------------------------------------------------------------------
(* Outcome and evidence.                                                    *)

Reviewed(j) == \E i \in DOMAIN log[j] : log[j][i] = "review_completed"

(* A run's checkpoints agree with one another, with its proposals and with  *)
(* its status.                                                              *)
RunEvidence(j) ==
  /\ \A s \in Stages : ckpt[j][s] # NoOutput => ckpt[j][s] = ckpt[j][1]
  /\ ckpt[j][LastStage] = "proposals" => persisted[j]
  /\ persisted[j] => ckpt[j][1] = "proposals"
  /\ run[j] = "waiting_review" => ckpt[j][LastStage] = "proposals"
  /\ run[j] = "succeeded" => ckpt[j][LastStage] = "empty" \/ Reviewed(j)

(* What a worker carries is what the checkpoints say.                       *)
WorkerEvidence(w) ==
  /\ ~Active(w) => stage[w] = 1
  /\ stage[w] > 1 => carry[w] \in Outputs /\ carry[w] = ckpt[Job(w)][1]
  /\ pc[w] = "commit" =>
       /\ carry[w] \in Outputs
       /\ stage[w] = LastStage /\ carry[w] = "proposals" => persisted[Job(w)]
  /\ pc[w] = "conclude" /\ ending[w] = "ok" =>
       carry[w] \in Outputs /\ ckpt[Job(w)][LastStage] = carry[w]
  /\ pc[w] = "land" /\ ending[w] = "ok" => ckpt[Job(w)][LastStage] = "empty"

EvidenceInv ==
  /\ WorkerInv
  /\ \A j \in Jobs : RunEvidence(j)
  /\ \A w \in Workers : WorkerEvidence(w)

(* Checkpoints, proposals and completed reviews are never undone.           *)
EvidenceKept ==
  \A j \in Jobs :
    /\ \A s \in Stages : ckpt[j][s] # NoOutput => ckpt'[j][s] = ckpt[j][s]
    /\ persisted[j] => persisted'[j]
    /\ Reviewed(j) => Reviewed(j)'

(* The stages have a first and a different last one.                        *)
LEMMA StageBounds ==
  /\ 1 \in Stages /\ LastStage \in Stages /\ LastStage > 1
  /\ \A s \in Stages : s \in Nat /\ s >= 1 /\ (s # 1 => s > 1)
  BY WorkerAssumption DEF Stages

(* A longer log has seen the same reviews.                                  *)
LEMMA ReviewedKept ==
  ASSUME NEW S, NEW T, NEW old \in Seq(S), NEW more \in Seq(T),
         NEW i \in DOMAIN old
  PROVE  i \in DOMAIN (old \o more) /\ (old \o more)[i] = old[i]
  OBVIOUS

LEMMA ReviewedAppended ==
  ASSUME NEW S, NEW old \in Seq(S), NEW event \in S, NEW i \in DOMAIN old
  PROVE  i \in DOMAIN Append(old, event) /\ Append(old, event)[i] = old[i]
  OBVIOUS

(* Every step adds to the evidence.                                         *)
LEMMA EvidenceGrows ==
  ASSUME WorkerInv, [WorkerNext]_vars
  PROVE  EvidenceKept
<1>0. WorkerTypeOK /\ ClaimsHeld /\ RunTypeOK /\ LocalTypeOK
  BY DEF WorkerInv, WorkerTypeOK
<1>1. ASSUME NEW w \in Workers, CommitStage(w)
      PROVE  EvidenceKept
  <2>1. Job(w) \in Jobs /\ stage[w] \in Stages
    BY <1>0, <1>1, ActiveJob DEF CommitStage, Active, LocalTypeOK
  <2>2. UNCHANGED <<persisted, log>>
    BY <1>1 DEF CommitStage, Escape, runVars
  <2>3. \A j \in Jobs, s \in Stages :
          ckpt[j][s] # NoOutput => ckpt'[j][s] = ckpt[j][s]
    <3>1. \/ ckpt' = ckpt
          \/ /\ ckpt[Job(w)][stage[w]] = NoOutput
             /\ ckpt' = [ckpt EXCEPT ![Job(w)][stage[w]] = carry[w]]
      BY <1>1 DEF CommitStage, Escape, runVars
    <3>2. ckpt \in [Jobs -> [Stages -> Outputs \cup {NoOutput}]]
      BY <1>0 DEF RunTypeOK
    <3>3. \/ ckpt' = ckpt
          \/ /\ ckpt[Job(w)][stage[w]] = NoOutput
             /\ \A j \in Jobs, s \in Stages :
                  j # Job(w) \/ s # stage[w] => ckpt'[j][s] = ckpt[j][s]
      BY <2>1, <3>1, <3>2
    <3>4. QED
      BY <2>1, <3>3
  <2>4. QED
    BY <2>2, <2>3 DEF EvidenceKept, Reviewed
<1>2. ASSUME NEW w \in Workers, Work(w)
      PROVE  EvidenceKept
  BY <1>0, <1>2 DEF Work, RunTypeOK, EvidenceKept, Reviewed
<1>3. ASSUME NEW j \in Jobs, NEW event \in Events, AppendEvent(j, event),
             UNCHANGED <<ckpt, persisted>>
      PROVE  EvidenceKept
  <2>1. log[j] \in Seq(Events)
    BY <1>0 DEF RunTypeOK
  <2>2. Reviewed(j) => Reviewed(j)'
    <3> SUFFICES ASSUME NEW i \in DOMAIN log[j],
                        log[j][i] = "review_completed"
                 PROVE  Reviewed(j)'
      BY DEF Reviewed
    <3>1. log'[j] = Append(log[j], event)
      BY <1>0, <1>3 DEF AppendEvent, RunTypeOK
    <3>2. i \in DOMAIN log'[j] /\ log'[j][i] = "review_completed"
      BY <1>3, <2>1, <3>1, ReviewedAppended
    <3>3. QED
      BY <3>2 DEF Reviewed
  <2>3. QED
    BY <1>0, <1>3, <2>2 DEF AppendEvent, EvidenceKept, Reviewed, RunTypeOK
<1>4. ASSUME NEW j \in Jobs, FinishReview(j)
      PROVE  EvidenceKept
  <2>1. log[j] \in Seq(Events)
    BY <1>0 DEF RunTypeOK
  <2>2. Reviewed(j) => Reviewed(j)'
    <3> SUFFICES ASSUME NEW i \in DOMAIN log[j],
                        log[j][i] = "review_completed"
                 PROVE  Reviewed(j)'
      BY DEF Reviewed
    <3>1. log'[j] = log[j] \o <<"review_completed", "run_succeeded">>
      BY <1>0, <1>4 DEF FinishReview, RunTypeOK
    <3>2. <<"review_completed", "run_succeeded">> \in Seq(Events)
      BY DEF Events, TerminalEvents
    <3>3. i \in DOMAIN log'[j] /\ log'[j][i] = "review_completed"
      BY <2>1, <3>1, <3>2, ReviewedKept
    <3>4. QED
      BY <3>3 DEF Reviewed
  <2>3. QED
    BY <1>0, <1>4, <2>2 DEF FinishReview, EvidenceKept, Reviewed, RunTypeOK
<1>5. ASSUME UNCHANGED <<ckpt, persisted, log>>
      PROVE  EvidenceKept
  BY <1>5 DEF EvidenceKept, Reviewed
<1>6. ASSUME NEW w \in Workers, CloseRun(w) \/ AnnounceReview(w)
      PROVE  EvidenceKept
  <2>1. /\ Job(w) \in Jobs
        /\ EventOf(FinalStatus(ending[w])) \in Events
        /\ "review_waiting" \in Events
    BY <1>0, <1>6, ActiveJob, EndingTypes
       DEF CloseRun, AnnounceReview, Active, Events, LocalTypeOK
  <2>2. QED
    BY <1>3, <1>5, <1>6, <2>1 DEF CloseRun, AnnounceReview, Escape, runVars
<1>7. ASSUME NEW j \in Jobs, CancelWaiting(j)
      PROVE  EvidenceKept
  BY <1>3, <1>7 DEF CancelWaiting, Events, TerminalEvents
<1>8. QED
  BY <1>1, <1>2, <1>4, <1>5, <1>6, <1>7
     DEF WorkerNext, WorkerStep, Poll, ClaimNext, Dispatch, Ingest, Bind,
         StartStage, LandRun, Escape, CatchEscape, FailJob, Park, Settle, Beat,
         BeatFails, Crash, ClockTick, Create, CancelRequest, runVars, vars

(* A worker that stands still keeps its evidence.                           *)
LEMMA EvidenceAtRest ==
  ASSUME EvidenceInv, EvidenceKept, NEW w \in Workers,
         pc'[w] = pc[w], held'[w] = held[w], stage'[w] = stage[w],
         carry'[w] = carry[w], ending'[w] = ending[w]
  PROVE  WorkerEvidence(w)'
<1>0. WorkerTypeOK /\ ClaimsHeld /\ LocalTypeOK /\ RunTypeOK
      /\ WorkerEvidence(w)
  BY DEF EvidenceInv, WorkerInv, WorkerTypeOK
<1>1. CASE ~Active(w)
  BY <1>0, <1>1 DEF WorkerEvidence, Active
<1>2. CASE Active(w)
  <2>1. Job(w) \in Jobs /\ Job(w)' = Job(w)
    BY <1>0, <1>2, ActiveJob DEF Job
  <2>2. /\ \A s \in Stages : ckpt[Job(w)][s] \in Outputs =>
                            ckpt'[Job(w)][s] = ckpt[Job(w)][s]
        /\ persisted[Job(w)] => persisted'[Job(w)]
    BY <2>1 DEF EvidenceKept, Outputs, NoOutput
  <2>3. Active(w)'
    BY <1>2 DEF Active
  <2>4. "empty" \in Outputs
    BY DEF Outputs
  <2>5. QED
    BY <1>0, <2>1, <2>2, <2>3, <2>4, StageBounds DEF WorkerEvidence
<1>3. QED
  BY <1>1, <1>2

(* A worker that acts keeps its evidence.                                   *)
LEMMA EvidenceInHand ==
  ASSUME EvidenceInv, EvidenceKept, NEW w \in Workers, WorkerStep(w)
  PROVE  WorkerEvidence(w)'
<1> USE DEF Outputs, NoOutput
<1>0. /\ WorkerTypeOK /\ ClaimsHeld /\ LocalTypeOK /\ RunTypeOK
      /\ WorkerEvidence(w)
      /\ stage[w] \in Stages /\ LastStage \in Nat /\ 1 # LastStage
  BY StageBounds DEF EvidenceInv, WorkerInv, WorkerTypeOK, LocalTypeOK, Stages
<1>1. CASE Poll(w) \/ ClaimNext(w)
  <2>1. stage'[w] = 1 /\ pc'[w] \in {"idle", "polling", "claimed"}
    BY <1>0, <1>1 DEF Poll, ClaimNext, Goto, LocalTypeOK, WorkerEvidence, Active
  <2>2. QED
    BY <2>1 DEF WorkerEvidence, Active
<1>2. CASE Release(w)
  BY <1>0, <1>2 DEF Release, LocalTypeOK, WorkerEvidence, Active
<1>3. ASSUME Active(w), ~Release(w)
      PROVE  /\ Job(w) \in Jobs /\ Job(w)' = Job(w) /\ RunEvidence(Job(w))
             /\ \A s \in Stages : ckpt[Job(w)][s] \in Outputs =>
                                  ckpt'[Job(w)][s] = ckpt[Job(w)][s]
             /\ persisted[Job(w)] => persisted'[Job(w)]
  <2>1. Job(w) \in Jobs
    BY <1>0, <1>3, ActiveJob
  <2>2. held' = held
    BY <1>3 DEF WorkerStep, Active, Poll, ClaimNext, Dispatch, Ingest, Bind,
         StartStage, Work, CommitStage, CloseRun, AnnounceReview, LandRun,
         Escape, CatchEscape, FailJob, Park, Settle
  <2>3. QED
    BY <2>1, <2>2 DEF EvidenceInv, EvidenceKept, Job
<1>4. CASE ~Release(w) /\ \/ Dispatch(w) \/ Ingest(w) \/ Bind(w)
                          \/ AnnounceReview(w) \/ LandRun(w) \/ CatchEscape(w)
  <2>1. /\ Active(w)
        /\ pc'[w] \in Labels \ {"idle", "polling", "commit", "conclude", "land"}
        /\ stage'[w] = stage[w] /\ carry'[w] = carry[w]
    BY <1>0, <1>4 DEF Dispatch, Ingest, Bind, AnnounceReview, LandRun,
                      CatchEscape, Escape, Goto, Active, Labels, LocalTypeOK
  <2>2. QED
    BY <1>0, <1>3, <1>4, <2>1, StageBounds DEF WorkerEvidence, Active
<1>5. CASE StartStage(w)
  <2>1. Active(w) /\ ~Release(w)
    BY <1>0, <1>5 DEF StartStage, Active, Escape, Advance, Conclude, Goto,
                      Release, LocalTypeOK
  <2>2. UNCHANGED runVars
    BY <1>5 DEF StartStage, Escape
  <2>3. CASE stage'[w] = stage[w] /\ carry'[w] = carry[w] /\ pc'[w] \in {"escaped", "work"}
    BY <1>0, <1>3, <2>1, <2>3, StageBounds DEF WorkerEvidence, Active
  <2>4. CASE /\ stage'[w] = stage[w] /\ carry'[w] = carry[w]
             /\ pc'[w] = "conclude" /\ ending'[w] # "ok"
    BY <1>0, <1>3, <2>1, <2>4, StageBounds DEF WorkerEvidence, Active
  <2>5. CASE /\ ckpt[Job(w)][stage[w]] # NoOutput
             /\ carry' = [carry EXCEPT ![w] = ckpt[Job(w)][stage[w]]]
             /\ Advance(w)
    <3>1. /\ carry'[w] = ckpt[Job(w)][stage[w]]
          /\ carry'[w] \in Outputs
          /\ carry'[w] = ckpt[Job(w)][1]
      BY <1>0, <1>3, <2>1, <2>5 DEF RunEvidence, LocalTypeOK, RunTypeOK
    <3>2. CASE stage[w] = LastStage
      BY <1>0, <1>3, <2>1, <2>2, <2>5, <3>1, <3>2, StageBounds
         DEF Advance, Conclude, Goto, LocalTypeOK, runVars, WorkerEvidence,
             Active
    <3>3. CASE stage[w] # LastStage
      BY <1>0, <1>3, <2>1, <2>2, <2>5, <3>1, <3>3, StageBounds
         DEF Advance, Goto, LocalTypeOK, runVars, WorkerEvidence, Active
    <3>4. QED
      BY <3>2, <3>3
  <2>6. QED
    BY <1>0, <1>5, <2>3, <2>4, <2>5
       DEF StartStage, Escape, Conclude, Goto, LocalTypeOK
<1>6. CASE Work(w)
  <2>1. Active(w) /\ ~Release(w)
    BY <1>0, <1>6 DEF Work, Active, Conclude, Goto, Release, LocalTypeOK
  <2>2. stage' = stage /\ ckpt' = ckpt /\ Active(w)'
    BY <1>0, <1>6 DEF Work, Active, Conclude, Goto, LocalTypeOK
  <2>3. CASE stage[w] = 1
    BY <1>0, <1>6, <2>2, <2>3 DEF Work, Conclude, Goto, LocalTypeOK,
                                  WorkerEvidence
  <2>4. CASE stage[w] # 1
    <3>1. carry'[w] = carry[w] /\ carry[w] \in Outputs
          /\ carry[w] = ckpt[Job(w)][1]
      BY <1>0, <1>6, <2>4, StageBounds DEF Work, WorkerEvidence
    <3>2. pc'[w] = "commit" /\ stage[w] = LastStage /\ carry[w] = "proposals"
            => persisted'[Job(w)]
      <4> SUFFICES ASSUME pc'[w] = "commit", stage[w] = LastStage,
                          carry[w] = "proposals"
                   PROVE  persisted'[Job(w)]
        OBVIOUS
      <4> DEFINE ok == ~LeaseLost(w) /\ ~RunOver(Job(w))
                 more == persisted[Job(w)] \/ (ok /\ carry[w] = "proposals")
      <4>1. ok
        BY <1>0, <1>6 DEF Work, Conclude, Goto, LocalTypeOK
      <4>2. persisted' = [persisted EXCEPT ![Job(w)] = more]
        BY <1>0, <1>6 DEF Work, Conclude, Goto, LocalTypeOK
      <4>3. more
        BY <4>1
      <4> HIDE DEF more
      <4>4. QED
        BY <1>0, <1>3, <2>1, <4>2, <4>3 DEF RunTypeOK
    <3>3. pc'[w] \notin {"land"} /\ (pc'[w] = "conclude" => ending'[w] # "ok")
      BY <1>0, <1>6 DEF Work, Conclude, Goto, LocalTypeOK
    <3>4. QED
      BY <1>3, <2>1, <2>2, <3>1, <3>2, <3>3 DEF WorkerEvidence
  <2>5. QED
    BY <2>3, <2>4
<1>7. CASE CommitStage(w)
  <2>1. Active(w) /\ ~Release(w)
    BY <1>0, <1>7 DEF CommitStage, Active, Escape, Advance, Conclude, Goto,
                      Release, LocalTypeOK
  <2>2. pc[w] = "commit" /\ carry'[w] = carry[w] /\ carry[w] \in Outputs
    BY <1>0, <1>7 DEF CommitStage, Escape, WorkerEvidence
  <2>3. CASE /\ stage'[w] = stage[w]
             /\ \/ pc'[w] = "escaped"
                \/ pc'[w] = "conclude" /\ ending'[w] # "ok"
    BY <1>0, <1>3, <2>1, <2>2, <2>3, StageBounds DEF WorkerEvidence, Active
  <2>4. CASE /\ ckpt[Job(w)][stage[w]] = NoOutput
             /\ ckpt' = [ckpt EXCEPT ![Job(w)][stage[w]] = carry[w]]
             /\ Advance(w)
    <3>1. ckpt'[Job(w)][stage[w]] = carry[w]
      BY <1>0, <1>3, <2>1, <2>4 DEF RunTypeOK
    <3>2. ckpt'[Job(w)][1] = carry[w]
      <4>1. CASE stage[w] = 1
        BY <3>1, <4>1
      <4>2. CASE stage[w] > 1
        <5>1. ckpt[Job(w)][1] = carry[w] /\ 1 \in Stages
          BY <1>0, <4>2, StageBounds DEF WorkerEvidence
        <5>2. QED
          BY <1>3, <2>1, <2>2, <5>1
      <4>3. QED
        BY <1>0, <4>1, <4>2, StageBounds
    <3>3. CASE stage[w] = LastStage
      BY <1>0, <1>3, <2>1, <2>2, <2>4, <3>1, <3>2, <3>3
         DEF Advance, Conclude, Goto, LocalTypeOK, WorkerEvidence, Active
    <3>4. CASE stage[w] # LastStage
      BY <1>0, <1>3, <2>1, <2>2, <2>4, <3>2, <3>4
         DEF Advance, Goto, LocalTypeOK, WorkerEvidence, Active
    <3>5. QED
      BY <3>3, <3>4
  <2>5. QED
    BY <1>0, <1>7, <2>3, <2>4
       DEF CommitStage, Escape, Conclude, Goto, LocalTypeOK
<1>8. CASE CloseRun(w)
  <2>1. Active(w) /\ ~Release(w)
    BY <1>0, <1>8 DEF CloseRun, Active, Escape, Goto, Release, LocalTypeOK
  <2>2. /\ pc'[w] \in {"escaped", "announce", "land"} /\ pc[w] = "conclude"
        /\ UNCHANGED <<stage, carry, ending>>
        /\ pc'[w] = "land" => ~(ending[w] = "ok" /\ carry[w] = "proposals")
    BY <1>0, <1>8 DEF CloseRun, Escape, Goto, LocalTypeOK
  <2>3. QED
    BY <1>0, <1>3, <2>1, <2>2, StageBounds DEF WorkerEvidence, Active
<1>9. QED
  BY <1>1, <1>2, <1>4, <1>5, <1>6, <1>7, <1>8
     DEF WorkerStep, FailJob, Park, Settle

(* A run whose checkpoints and proposals rest keeps its evidence if its new *)
(* status, when it has one, is covered.                                     *)
LEMMA RunEvidenceByStatus ==
  ASSUME NEW j \in Jobs, RunEvidence(j), EvidenceKept,
         ckpt'[j] = ckpt[j], persisted'[j] = persisted[j],
         \/ run'[j] = run[j]
         \/ run'[j] \notin {"waiting_review", "succeeded"}
         \/ run'[j] = "waiting_review" /\ ckpt[j][LastStage] = "proposals"
         \/ run'[j] = "succeeded" /\ ckpt[j][LastStage] = "empty"
         \/ run'[j] = "succeeded" /\ Reviewed(j)'
  PROVE  RunEvidence(j)'
  BY DEF RunEvidence, EvidenceKept

(* A step keeps every run's evidence.                                       *)
LEMMA RunEvidenceStep ==
  ASSUME EvidenceInv, EvidenceKept, [WorkerNext]_vars, NEW j \in Jobs
  PROVE  RunEvidence(j)'
<1>0. /\ WorkerTypeOK /\ ClaimsHeld /\ LocalTypeOK /\ RunTypeOK
      /\ RunEvidence(j)
  BY DEF EvidenceInv, WorkerInv, WorkerTypeOK
<1>1. ASSUME NEW w \in Workers, Bind(w)
      PROVE  RunEvidence(j)'
  BY <1>0, <1>1, RunEvidenceByStatus DEF Bind, Escape, runVars, RunTypeOK
<1>2. ASSUME NEW w \in Workers, Work(w)
      PROVE  RunEvidence(j)'
  <2>1. UNCHANGED <<run, ckpt, log>>
    BY <1>2 DEF Work
  <2>2. persisted'[j] # persisted[j] => ckpt[j][1] = "proposals"
    <3> SUFFICES ASSUME persisted'[j] # persisted[j]
                 PROVE  ckpt[j][1] = "proposals"
      OBVIOUS
    <3>1. /\ stage[w] = LastStage
          /\ persisted' = [persisted EXCEPT ![Job(w)] =
               @ \/ (~LeaseLost(w) /\ ~RunOver(Job(w))
                       /\ carry[w] = "proposals")]
      BY <1>2 DEF Work
    <3>2. carry[w] = ckpt[Job(w)][1]
      BY <3>1, StageBounds DEF EvidenceInv, WorkerEvidence
    <3>3. j = Job(w)
      BY <1>0, <3>1 DEF RunTypeOK
    <3> DEFINE add == ~LeaseLost(w) /\ ~RunOver(Job(w))
                        /\ carry[w] = "proposals"
    <3>4. persisted[j] \in BOOLEAN /\ persisted'[j] = (persisted[j] \/ add)
      BY <1>0, <3>1, <3>3 DEF RunTypeOK
    <3>5. add
      <4> HIDE DEF add
      <4>1. ~add => persisted'[j] = persisted[j]
        BY <3>4
      <4>2. QED
        BY <4>1
    <3>6. QED
      BY <3>2, <3>3, <3>5
  <2>3. QED
    BY <1>0, <2>1, <2>2 DEF RunEvidence, EvidenceKept, Reviewed
<1>3. ASSUME NEW w \in Workers, CommitStage(w)
      PROVE  RunEvidence(j)'
  <2>1. UNCHANGED <<run, persisted, log>>
    BY <1>3 DEF CommitStage, Escape, runVars
  <2>2. CASE ckpt' = ckpt
    BY <1>0, <2>1, <2>2 DEF RunEvidence, Reviewed
  <2>3. CASE ckpt' # ckpt
    <3>1. /\ pc[w] = "commit"
          /\ ckpt[Job(w)][stage[w]] = NoOutput
          /\ ckpt' = [ckpt EXCEPT ![Job(w)][stage[w]] = carry[w]]
      BY <1>3, <2>3 DEF CommitStage, Escape, runVars
    <3>2. Job(w) \in Jobs /\ stage[w] \in Stages
      BY <1>0, <3>1, ActiveJob DEF Active, LocalTypeOK
    <3>3. ckpt \in [Jobs -> [Stages -> Outputs \cup {NoOutput}]]
      BY <1>0 DEF RunTypeOK
    <3>4. \A k \in Jobs, s \in Stages :
            ckpt'[k][s] = IF k = Job(w) /\ s = stage[w]
                          THEN carry[w] ELSE ckpt[k][s]
      BY <3>1, <3>2, <3>3
    <3>5. CASE j # Job(w)
      BY <1>0, <2>1, <3>4, <3>5, StageBounds DEF RunEvidence, Reviewed
    <3>6. CASE j = Job(w)
      <4>1. /\ carry[w] \in Outputs
            /\ stage[w] > 1 => carry[w] = ckpt[j][1]
            /\ stage[w] = LastStage /\ carry[w] = "proposals" => persisted[j]
        BY <3>1, <3>6 DEF EvidenceInv, WorkerEvidence
      <4>2. CASE stage[w] = 1
        <5>1. /\ \A s \in Stages : ckpt[j][s] = NoOutput
              /\ ~persisted[j] /\ run[j] # "waiting_review"
              /\ run[j] = "succeeded" => Reviewed(j)
          BY <1>0, <3>1, <3>6, <4>2, StageBounds DEF RunEvidence, NoOutput
        <5>2. QED
          BY <2>1, <3>4, <3>6, <4>1, <4>2, <5>1, StageBounds
             DEF RunEvidence, Reviewed, NoOutput, Outputs
      <4>3. CASE stage[w] > 1
        <5>1. ckpt'[j][1] = ckpt[j][1] /\ ckpt'[j][stage[w]] = ckpt[j][1]
          BY <3>2, <3>4, <3>6, <4>1, <4>3, StageBounds
        <5>2. /\ run[j] = "waiting_review" =>
                   ckpt'[j][LastStage] = "proposals"
              /\ run[j] = "succeeded" =>
                   ckpt'[j][LastStage] = "empty" \/ Reviewed(j)
          BY <1>0, <3>1, <3>4, <3>6, StageBounds DEF RunEvidence, NoOutput
        <5>3. QED
          BY <1>0, <2>1, <3>2, <3>4, <3>6, <4>1, <4>3, <5>1, <5>2, StageBounds
             DEF RunEvidence, Reviewed
      <4>4. QED
        BY <3>2, <4>2, <4>3, StageBounds
    <3>7. QED
      BY <3>5, <3>6
  <2>4. QED
    BY <2>2, <2>3
<1>4. ASSUME NEW w \in Workers, CloseRun(w) \/ LandRun(w)
      PROVE  RunEvidence(j)'
  <2>1. Job(w) \in Jobs /\ ending[w] \in Endings /\ WorkerEvidence(w)
    BY <1>0, <1>4, ActiveJob
       DEF CloseRun, LandRun, Active, LocalTypeOK, EvidenceInv
  <2>2. FinalStatus(ending[w]) \notin {"waiting_review"}
        /\ (FinalStatus(ending[w]) = "succeeded" => ending[w] = "ok")
    BY <2>1 DEF FinalStatus, Endings
  <2>3. UNCHANGED <<ckpt, persisted>>
    BY <1>4 DEF CloseRun, LandRun, Escape, runVars
  <2>4. QED
    BY <1>0, <1>4, <2>1, <2>2, <2>3, RunEvidenceByStatus
       DEF CloseRun, LandRun, Escape, runVars, RunTypeOK, WorkerEvidence
<1>5. ASSUME NEW k \in Jobs, Create(k) \/ CancelWaiting(k)
      PROVE  RunEvidence(j)'
  BY <1>0, <1>5, RunEvidenceByStatus DEF Create, CancelWaiting, RunTypeOK
<1>6. ASSUME NEW k \in Jobs, FinishReview(k)
      PROVE  RunEvidence(j)'
  <2>1. log[k] \in Seq(Events)
    BY <1>0 DEF RunTypeOK
  <2>2. log'[k] = log[k] \o <<"review_completed", "run_succeeded">>
    BY <1>0, <1>6 DEF FinishReview, RunTypeOK
  <2>3. /\ Len(log[k]) + 1 \in DOMAIN log'[k]
        /\ log'[k][Len(log[k]) + 1] = "review_completed"
    BY <2>1, <2>2
  <2>4. Reviewed(k)'
    BY <2>3 DEF Reviewed
  <2>5. QED
    BY <1>0, <1>6, <2>4, RunEvidenceByStatus DEF FinishReview, RunTypeOK
<1>7. ASSUME UNCHANGED <<run, ckpt, persisted>>
      PROVE  RunEvidence(j)'
  BY <1>0, <1>7, RunEvidenceByStatus
<1>8. QED
  BY <1>1, <1>2, <1>3, <1>4, <1>5, <1>6, <1>7
     DEF WorkerNext, WorkerStep, Poll, ClaimNext, Dispatch, Ingest, StartStage,
         AnnounceReview, Escape, CatchEscape, FailJob, Park, Settle, Beat,
         BeatFails, Crash, ClockTick, CancelRequest, runVars, vars

(* A step by another worker, the API or the clock leaves w at rest.         *)
LEMMA OthersStep ==
  ASSUME LocalTypeOK, [WorkerNext]_vars, NEW w \in Workers,
         ~WorkerStep(w), ~Crash(w)
  PROVE  /\ pc'[w] = pc[w] /\ held'[w] = held[w] /\ stage'[w] = stage[w]
         /\ carry'[w] = carry[w] /\ ending'[w] = ending[w]
<1>1. ASSUME NEW v \in Workers, v # w, WorkerStep(v) \/ Crash(v)
      PROVE  /\ pc'[w] = pc[w] /\ held'[w] = held[w] /\ stage'[w] = stage[w]
             /\ carry'[w] = carry[w] /\ ending'[w] = ending[w]
  <2>1. CASE Poll(v) \/ ClaimNext(v) \/ Dispatch(v) \/ Ingest(v) \/ Bind(v)
    BY <1>1, <2>1 DEF Poll, ClaimNext, Dispatch, Ingest, Bind, Escape, Goto,
                      LocalTypeOK
  <2>2. CASE StartStage(v) \/ Work(v) \/ CommitStage(v)
    BY <1>1, <2>2 DEF StartStage, Work, CommitStage, Escape, Conclude, Advance,
                      Goto, LocalTypeOK
  <2>3. CASE CloseRun(v) \/ AnnounceReview(v) \/ LandRun(v)
    BY <1>1, <2>3 DEF CloseRun, AnnounceReview, LandRun, Escape, Goto,
                      LocalTypeOK
  <2>4. CASE CatchEscape(v) \/ FailJob(v) \/ Park(v) \/ Settle(v) \/ Crash(v)
    BY <1>1, <2>4 DEF CatchEscape, FailJob, Park, Settle, Crash, Release, Goto,
                      LocalTypeOK
  <2>5. QED
    BY <1>1, <2>1, <2>2, <2>3, <2>4 DEF WorkerStep
<1>2. CASE UNCHANGED <<pc, held, stage, carry, ending>>
  BY <1>2
<1>3. QED
  BY <1>1, <1>2 DEF WorkerNext, Beat, BeatFails, ClockTick, Create,
       CancelRequest, CancelWaiting, FinishReview, vars, localVars

LEMMA EvidenceInitInv == WorkerInit => EvidenceInv
<1> SUFFICES ASSUME WorkerInit
             PROVE  EvidenceInv
  OBVIOUS
<1>1. \A j \in Jobs : RunEvidence(j)
  BY StageBounds DEF WorkerInit, RunEvidence, NoOutput
<1>2. \A w \in Workers : WorkerEvidence(w)
  BY DEF WorkerInit, WorkerEvidence, Active
<1>3. QED
  BY <1>1, <1>2, WorkerInitInv DEF EvidenceInv

LEMMA EvidenceStepInv == EvidenceInv /\ [WorkerNext]_vars => EvidenceInv'
<1> SUFFICES ASSUME EvidenceInv, [WorkerNext]_vars
             PROVE  EvidenceInv'
  OBVIOUS
<1>1. WorkerInv /\ WorkerInv' /\ EvidenceKept /\ LocalTypeOK
  BY WorkerStepInv, EvidenceGrows DEF EvidenceInv, WorkerInv, WorkerTypeOK
<1>2. \A j \in Jobs : RunEvidence(j)'
  BY <1>1, RunEvidenceStep
<1>3. ASSUME NEW w \in Workers
      PROVE  WorkerEvidence(w)'
  <2>1. CASE WorkerStep(w)
    BY <1>1, <2>1, EvidenceInHand
  <2>2. CASE Crash(w)
    BY <1>1, <2>2 DEF Crash, Release, LocalTypeOK, WorkerEvidence, Active
  <2>3. CASE ~WorkerStep(w) /\ ~Crash(w)
    BY <1>1, <2>3, OthersStep, EvidenceAtRest
  <2>4. QED
    BY <2>1, <2>2, <2>3
<1>4. QED
  BY <1>1, <1>2, <1>3 DEF EvidenceInv

(* A run waits for review only over persisted proposals, succeeds without a *)
(* review only over a checkpointed empty result, and every worker carries   *)
(* the output that won the success key, zombies included.                   *)
THEOREM EvidenceHolds == WorkerSpec => []EvidenceAgrees
<1>1. EvidenceInv => EvidenceAgrees
  <2> SUFFICES ASSUME EvidenceInv
               PROVE  EvidenceAgrees
    OBVIOUS
  <2>1. ASSUME NEW j \in Jobs
        PROVE  /\ run[j] = "waiting_review" =>
                    persisted[j] /\ ckpt[j][LastStage] = "proposals"
               /\ run[j] = "succeeded" =>
                    \/ ckpt[j][LastStage] = "empty" /\ ~persisted[j]
                    \/ \E i \in DOMAIN log[j] : log[j][i] = "review_completed"
    <3>1. ckpt[j][LastStage] = "empty" => ckpt[j][1] = "empty"
      BY StageBounds DEF EvidenceInv, RunEvidence, NoOutput
    <3>2. QED
      BY <3>1 DEF EvidenceInv, RunEvidence, Reviewed
  <2>2. \A w \in Workers :
          Active(w) /\ stage[w] > 1 => carry[w] = ckpt[Job(w)][1]
    BY DEF EvidenceInv, WorkerEvidence
  <2>3. QED
    BY <2>1, <2>2 DEF EvidenceAgrees
<1>2. QED
  BY <1>1, EvidenceInitInv, EvidenceStepInv, PTL DEF WorkerSpec

-----------------------------------------------------------------------------
(* Workers that keep up with the clock.                                     *)

(* What the operator provides: no process stands still for a staleness      *)
(* period, heartbeat connections hold, and that period is at least two      *)
(* beats (HEARTBEAT_STALE_SECONDS against the beat interval).               *)
Punctual == Faults \cap {"pause", "beat"} = {} /\ StaleTicks >= 2

(* How old the heartbeat of a worker's job may be.  Between two ticks each  *)
(* worker beats, or acts where it has no thread: before the thread starts,  *)
(* and after it was stopped for the last write.                             *)
Fresh(w) ==
  /\ sinceBeat[Job(w)] <= (IF late[w] THEN 2 ELSE 1)
  /\ pc[w] = "claimed" => sinceBeat[Job(w)] <= (IF late[w] THEN 1 ELSE 0)
  /\ beat[w] = "off" => pc[w] \in {"claimed", "failing", "park"}
  /\ pc[w] = "claimed" => beat[w] = "off"

LeaseKept(w) ==
  IF Active(w) THEN Live(held[w]) /\ beat[w] \in {"on", "off"} /\ Fresh(w)
               ELSE beat[w] = "off"

(* No two workers are in the middle of one job.                             *)
OneHolder ==
  \A v, w \in Workers : Active(v) /\ Active(w) /\ Job(v) = Job(w) => v = w

PunctualInv == RunInv /\ OneHolder /\ \A w \in Workers : LeaseKept(w)

(* A terminal event that is appended and not yet followed by its status is  *)
(* the last event of the run.                                               *)
LastEvent(j) == log[j][Len(log[j])]
EventPending(w) ==
  pc[w] = "land" /\ ~RunOver(Job(w)) =>
    log[Job(w)] # <<>> /\ LastEvent(Job(w)) = EventOf(FinalStatus(ending[w]))

EventInv == TerminalEventLast /\ \A w \in Workers : EventPending(w)

(* A run waits for review after its worker's last write, or while that      *)
(* worker is about to announce it and to complete the job.                  *)
ReviewHandedOver ==
  \A j \in Jobs : run[j] = "waiting_review" =>
    \/ status[j] = "succeeded"
    \/ \E w \in Workers : /\ Active(w) /\ Job(w) = j /\ ending[w] = "ok"
                          /\ pc[w] \in {"announce", "settle"}

(* A step of another worker, or of a client, leaves the row of a worker's   *)
(* job alone: it is neither due nor stale, and nobody else has a claim.     *)
LEMMA RowUndisturbed ==
  ASSUME PunctualInv, Punctual, NEW v \in Workers, Active(v),
         \/ \E w \in Workers \ {v} : WorkerStep(w) \/ Beat(w) \/ BeatFails(w) \/ Crash(w)
         \/ \E j \in Jobs : Create(j) \/ CancelRequest(j) \/ CancelWaiting(j) \/ FinishReview(j)
  PROVE  /\ status'[Job(v)] = status[Job(v)] /\ lease'[Job(v)] = lease[Job(v)]
         /\ sinceBeat'[Job(v)] = sinceBeat[Job(v)]
<1>0. /\ QueueTypeOK /\ WorkerTypeOK /\ ClaimsHeld /\ Job(v) \in Jobs /\ Live(held[v])
      /\ sinceBeat[Job(v)] <= 2 /\ StaleTicks >= 2 /\ StaleTicks \in Nat
      /\ sinceBeat[Job(v)] \in Nat /\ status[Job(v)] = "running"
  <2>1. QueueTypeOK /\ WorkerTypeOK /\ ClaimsHeld /\ LeaseKept(v)
    BY DEF PunctualInv, RunInv, WorkerInv, WorkerTypeOK
  <2>2. Job(v) \in Jobs
    BY <2>1, ActiveJob
  <2>3. sinceBeat[Job(v)] \in Nat
    BY <2>1, <2>2 DEF QueueTypeOK
  <2>4. QED
    BY <2>1, <2>2, <2>3, QueueAssumption DEF LeaseKept, Fresh, Punctual, Live, Job
<1> DEFINE Kept == /\ status'[Job(v)] = status[Job(v)] /\ lease'[Job(v)] = lease[Job(v)]
                   /\ sinceBeat'[Job(v)] = sinceBeat[Job(v)]
<1>1. ASSUME UNCHANGED queueVars PROVE Kept
  BY <1>1 DEF queueVars
<1>2. ASSUME ReapStale PROVE Kept
  <2>1. ~Stale(Job(v))
    BY <1>0 DEF Stale
  <2>2. QED
    BY <1>0, <1>2, <2>1 DEF ReapStale
<1>3. ASSUME NEW w \in Workers \ {v}, ClaimNext(w) PROVE Kept
  <2>1. CASE UNCHANGED queueVars
    BY <1>1, <2>1
  <2>2. CASE ~UNCHANGED queueVars
    <3>1. PICK h : ClaimAs(h) /\ Due(h.job)
      BY <1>3, <2>2 DEF ClaimNext, ClaimAs, Claimable
    <3>2. h.job # Job(v)
      BY <1>0, <3>1 DEF Due
    <3>3. QED
      BY <1>0, <3>1, <3>2 DEF ClaimAs, QueueTypeOK
  <2>3. QED
    BY <2>1, <2>2
<1>4. ASSUME NEW w \in Workers \ {v}, FailJob(w) \/ Park(w) \/ Settle(w) \/ Beat(w)
      PROVE  Kept
  <2>1. Active(w)
    BY <1>0, <1>4 DEF FailJob, Park, Settle, Beat, Active, ClaimsHeld
  <2>2. Job(w) # Job(v)
    BY <2>1 DEF PunctualInv, OneHolder
  <2>3. ASSUME NEW st, NEW due, NEW code, EndClaim(held[w], st, due, code) PROVE Kept
    BY <1>0, <2>2, <2>3 DEF EndClaim, QueueTypeOK, Job
  <2>4. ASSUME Heartbeat(held[w]) PROVE Kept
    BY <1>0, <2>2, <2>4 DEF Heartbeat, QueueTypeOK, Job
  <2>5. CASE FailJob(w)
    BY <1>1, <2>3, <2>5 DEF FailJob, Fenced, Fail, FailTerminally, FailAndRequeue
  <2>6. CASE Park(w)
    BY <1>1, <2>3, <2>6 DEF Park, ParkWrite, Fenced, Complete, Cancel, DeadLetter
  <2>7. CASE Settle(w)
    BY <1>1, <2>3, <2>7 DEF Settle, VerdictWrite, Fenced, Complete, Cancel, DeadLetter
  <2>8. CASE Beat(w)
    BY <1>1, <2>4, <2>8 DEF Beat
  <2>9. QED
    BY <1>4, <2>5, <2>6, <2>7, <2>8
<1>5. ASSUME NEW w \in Workers \ {v}, Poll(w) PROVE Kept
  BY <1>1, <1>2, <1>5 DEF Poll
<1>6. ASSUME NEW w \in Workers \ {v},
             \/ Dispatch(w) \/ Ingest(w) \/ Bind(w) \/ StartStage(w) \/ Work(w) \/ CommitStage(w)
             \/ CloseRun(w) \/ AnnounceReview(w) \/ LandRun(w) \/ CatchEscape(w)
             \/ BeatFails(w) \/ Crash(w)
      PROVE  Kept
  <2>1. UNCHANGED queueVars
    BY <1>6 DEF Dispatch, Ingest, Bind, StartStage, Work, CommitStage, CloseRun, AnnounceReview,
                LandRun, CatchEscape, BeatFails, Crash, Escape
  <2>2. QED
    BY <1>1, <2>1
<1>7. ASSUME NEW j \in Jobs, Create(j) \/ CancelRequest(j) \/ CancelWaiting(j) \/ FinishReview(j)
      PROVE  Kept
  <2>1. CASE Create(j)
    BY <1>0, <2>1 DEF Create, Enqueue, QueueTypeOK
  <2>2. CASE CancelRequest(j)
    BY <2>2 DEF CancelRequest, RequestCancel, rowVars
  <2>3. CASE CancelWaiting(j) \/ FinishReview(j)
    BY <1>1, <2>3 DEF CancelWaiting, FinishReview
  <2>4. QED
    BY <1>7, <2>1, <2>2, <2>3
<1>8. QED
  BY <1>3, <1>4, <1>5, <1>6, <1>7 DEF WorkerStep

(* A worker's memory is its own.                                            *)
LEMMA MemoryUndisturbed ==
  ASSUME LocalTypeOK, NEW v \in Workers,
         \/ \E w \in Workers \ {v} : WorkerStep(w) \/ Beat(w) \/ BeatFails(w) \/ Crash(w)
         \/ \E j \in Jobs : Create(j) \/ CancelRequest(j) \/ CancelWaiting(j) \/ FinishReview(j)
  PROVE  /\ pc'[v] = pc[v] /\ held'[v] = held[v] /\ beat'[v] = beat[v] /\ late'[v] = late[v]
         /\ ending'[v] = ending[v]
<1>1. ASSUME NEW w \in Workers \ {v}, WorkerStep(w) \/ Beat(w) \/ BeatFails(w) \/ Crash(w)
      PROVE  /\ pc'[v] = pc[v] /\ held'[v] = held[v] /\ beat'[v] = beat[v] /\ late'[v] = late[v]
             /\ ending'[v] = ending[v]
  BY <1>1
     DEF WorkerStep, Poll, ClaimNext, Dispatch, Ingest, Bind, StartStage, Work, CommitStage,
         CloseRun, AnnounceReview, LandRun, CatchEscape, FailJob, Park, Settle, Beat, BeatFails,
         Crash, Release, Escape, Goto, Conclude, Advance, LocalTypeOK
<1>2. ASSUME NEW j \in Jobs, Create(j) \/ CancelRequest(j) \/ CancelWaiting(j) \/ FinishReview(j)
      PROVE  /\ pc'[v] = pc[v] /\ held'[v] = held[v] /\ beat'[v] = beat[v] /\ late'[v] = late[v]
             /\ ending'[v] = ending[v]
  BY <1>2 DEF Create, CancelRequest, CancelWaiting, FinishReview, localVars
<1>3. QED
  BY <1>1, <1>2

(* A worker that stays in its job keeps its claim; a new job is one that    *)
(* was due.                                                                 *)
LEMMA HoldsAfter ==
  ASSUME LocalTypeOK, NEW v \in Workers, [WorkerNext]_vars, Active(v)'
  PROVE  \/ Active(v) /\ held'[v] = held[v]
         \/ /\ ClaimNext(v) /\ pc'[v] = "claimed" /\ ClaimAs(held'[v]) /\ Due(held'[v].job)
            /\ held'[v].job \in Jobs
<1>1. CASE UNCHANGED <<pc, held>>
  BY <1>1 DEF Active
<1>2. CASE \/ \E w \in Workers \ {v} : WorkerStep(w) \/ Beat(w) \/ BeatFails(w) \/ Crash(w)
           \/ \E j \in Jobs : Create(j) \/ CancelRequest(j) \/ CancelWaiting(j) \/ FinishReview(j)
  BY <1>2, MemoryUndisturbed DEF Active
<1>3. CASE Poll(v) \/ FailJob(v) \/ Park(v) \/ Settle(v) \/ Crash(v)
  BY <1>3 DEF Poll, FailJob, Park, Settle, Crash, Goto, Release, LocalTypeOK, Active
<1>4. CASE ClaimNext(v)
  <2>1. CASE Goto(v, "idle")
    BY <2>1 DEF Goto, LocalTypeOK, Active
  <2>2. CASE ~Goto(v, "idle")
    <3>1. PICK j \in Jobs, l \in Leases :
            LET h == [job |-> j, lease |-> l, attempts |-> attempts[j] + 1]
            IN  ClaimAs(h) /\ held' = [held EXCEPT ![v] = h] /\ Goto(v, "claimed")
      BY <1>4, <2>2 DEF ClaimNext
    <3>2. PICK h : h = [job |-> j, lease |-> l, attempts |-> attempts[j] + 1]
      OBVIOUS
    <3>3. ClaimAs(h) /\ held' = [held EXCEPT ![v] = h] /\ Goto(v, "claimed") /\ h.job \in Jobs
      BY <3>1, <3>2
    <3>4. held'[v] = h /\ pc'[v] = "claimed"
      BY <3>3 DEF LocalTypeOK, Goto
    <3>5. QED
      BY <1>4, <3>3, <3>4 DEF ClaimAs, Claimable
  <2>3. QED
    BY <2>1, <2>2
<1>5. CASE \/ Dispatch(v) \/ Ingest(v) \/ Bind(v) \/ StartStage(v) \/ Work(v) \/ CommitStage(v)
           \/ CloseRun(v) \/ AnnounceReview(v) \/ LandRun(v)
  BY <1>5 DEF Dispatch, Ingest, Bind, StartStage, Work, CommitStage, CloseRun, AnnounceReview,
              LandRun, Escape, Active
<1>6. CASE CatchEscape(v)
  BY <1>6 DEF CatchEscape, Release, LocalTypeOK, Active
<1>7. CASE Beat(v) \/ BeatFails(v) \/ ClockTick
  BY <1>7 DEF Beat, BeatFails, ClockTick, Active
<1>8. QED
  BY <1>1, <1>2, <1>3, <1>4, <1>5, <1>6, <1>7 DEF WorkerNext, WorkerStep, vars, localVars

(* A worker keeps its lease across any step.                                *)
LEMMA LeaseKeptStep ==
  ASSUME PunctualInv, Punctual, [WorkerNext]_vars, NEW v \in Workers
  PROVE  LeaseKept(v)'
<1>0. /\ QueueTypeOK /\ LocalTypeOK /\ ClaimsHeld /\ LeaseKept(v)
      /\ StaleTicks \in Nat /\ StaleTicks >= 2
      /\ Active(v) => Job(v) \in Jobs /\ sinceBeat[Job(v)] \in Nat
  <2>1. WorkerTypeOK /\ ClaimsHeld /\ LeaseKept(v)
    BY DEF PunctualInv, RunInv, WorkerInv
  <2>2. QED
    BY <2>1, ActiveJob, QueueAssumption DEF Punctual, WorkerTypeOK, QueueTypeOK
<1>1. ASSUME pc'[v] = pc[v], held'[v] = held[v], beat'[v] = beat[v], late'[v] = late[v],
             Active(v) => /\ status'[Job(v)] = status[Job(v)] /\ lease'[Job(v)] = lease[Job(v)]
                          /\ sinceBeat'[Job(v)] = sinceBeat[Job(v)]
      PROVE  LeaseKept(v)'
  BY <1>0, <1>1 DEF LeaseKept, Fresh, Active, Live, Job
<1>2. CASE \/ \E w \in Workers \ {v} : WorkerStep(w) \/ Beat(w) \/ BeatFails(w) \/ Crash(w)
           \/ \E j \in Jobs : Create(j) \/ CancelRequest(j) \/ CancelWaiting(j) \/ FinishReview(j)
  <2>1. /\ pc'[v] = pc[v] /\ held'[v] = held[v] /\ beat'[v] = beat[v] /\ late'[v] = late[v]
    BY <1>0, <1>2, MemoryUndisturbed
  <2>2. Active(v) => /\ status'[Job(v)] = status[Job(v)] /\ lease'[Job(v)] = lease[Job(v)]
                     /\ sinceBeat'[Job(v)] = sinceBeat[Job(v)]
    BY <1>2, RowUndisturbed
  <2>3. QED
    BY <1>1, <2>1, <2>2
<1>3. CASE UNCHANGED vars
  BY <1>1, <1>3 DEF vars, localVars, queueVars
(* A tick finds nobody late, ages the beat by one and makes v late.         *)
<1>4. CASE ClockTick
  <2>1. UNCHANGED <<pc, held, beat, status, lease>> /\ ~late[v]
    BY <1>4 DEF ClockTick, Tick
  <2>2. CASE ~Active(v)
    BY <1>0, <2>1, <2>2 DEF LeaseKept, Active
  <2>3. CASE Active(v)
    <3>1. /\ Live(held[v]) /\ beat[v] \in {"on", "off"} /\ sinceBeat[Job(v)] <= 1
          /\ pc[v] = "claimed" => sinceBeat[Job(v)] <= 0
          /\ beat[v] = "off" => pc[v] \in {"claimed", "failing", "park"}
          /\ pc[v] = "claimed" => beat[v] = "off"
      BY <1>0, <2>1, <2>3 DEF LeaseKept, Fresh
    <3>2. late'[v]
      BY <1>4, <2>3, <3>1 DEF ClockTick, Punctual
    <3>3. sinceBeat'[Job(v)] = sinceBeat[Job(v)] + 1
      BY <1>0, <1>4, <2>3, <3>1 DEF ClockTick, Tick, Live, Job
    <3>4. /\ sinceBeat'[Job(v)] <= 2
          /\ pc[v] = "claimed" => sinceBeat'[Job(v)] <= 1
      BY <1>0, <2>3, <3>1, <3>3
    <3>5. Active(v)' /\ Live(held[v])' /\ (held[v] = held[v])' /\ Job(v)' = Job(v)
      BY <2>1, <2>3, <3>1 DEF Active, Live, Job
    <3>6. QED
      BY <2>1, <3>1, <3>2, <3>4, <3>5 DEF LeaseKept, Fresh, Job
  <2>4. QED
    BY <2>2, <2>3
<1>5. CASE Poll(v)
  BY <1>0, <1>5 DEF Poll, Goto, LocalTypeOK, LeaseKept, Active
<1>6. CASE ClaimNext(v)
  <2>1. beat'[v] = "off"
    BY <1>0, <1>6 DEF ClaimNext, LeaseKept, Active
  <2>2. CASE ~Active(v)'
    BY <2>1, <2>2 DEF LeaseKept
  <2>3. CASE Active(v)'
    <3>1. pc'[v] = "claimed" /\ ClaimAs(held'[v]) /\ held'[v].job \in Jobs
      <4>1. ~Active(v)
        BY <1>6 DEF ClaimNext, Active
      <4>2. QED
        BY <1>0, <2>3, <4>1, HoldsAfter
    <3>2. Live(held[v])' /\ sinceBeat'[held'[v].job] = 0
      BY <1>0, <3>1 DEF ClaimAs, Live, QueueTypeOK
    <3>3. QED
      BY <2>1, <2>3, <3>1, <3>2 DEF LeaseKept, Fresh, Job
  <2>4. QED
    BY <2>2, <2>3
(* The dispatcher acts on a claim that has no thread yet.                   *)
<1>7. CASE Dispatch(v)
  <2>1. /\ Live(held[v]) /\ sinceBeat[Job(v)] <= 1 /\ beat[v] = "off"
    BY <1>0, <1>7 DEF Dispatch, LeaseKept, Fresh, Active
  <2>2. /\ UNCHANGED <<held, status, lease, sinceBeat>>
        /\ \/ pc'[v] \in {"failing", "park"} /\ beat'[v] = "off"
           \/ pc'[v] \in {"binding", "ingest"} /\ beat'[v] = "on"
    BY <1>0, <1>7, <2>1 DEF Dispatch, Goto, LocalTypeOK, queueVars
  <2>3. ~late'[v]
    BY <1>0, <1>7, <2>1 DEF Dispatch, Goto, LocalTypeOK
  <2>4. Live(held[v])' /\ Job(v)' = Job(v)
    BY <2>1, <2>2 DEF Live, Job
  <2>5. QED
    BY <2>1, <2>2, <2>3, <2>4 DEF LeaseKept, Fresh, Active
<1>8. ASSUME /\ pc[v] \in {"ingest", "binding", "stage", "work", "commit", "conclude",
                           "announce", "land"}
             /\ UNCHANGED <<held, queueVars, beat>>
             /\ \E label \in {"settle", "escaped", "park", "stage", "work", "commit", "conclude",
                              "announce", "land"} : Goto(v, label)
      PROVE  LeaseKept(v)'
  <2>1. /\ Live(held[v]) /\ beat[v] = "on" /\ Active(v)
        /\ sinceBeat[Job(v)] <= (IF late[v] THEN 2 ELSE 1)
    BY <1>0, <1>8 DEF LeaseKept, Fresh, Active
  <2>2. late'[v] <=> late[v]
    BY <1>0, <1>8, <2>1 DEF Goto, LocalTypeOK
  <2>3. Active(v)' /\ pc'[v] # "claimed"
    BY <1>0, <1>8 DEF Goto, LocalTypeOK, Active
  <2>4. Live(held[v])' /\ Job(v)' = Job(v) /\ sinceBeat' = sinceBeat /\ beat' = beat
    BY <1>8, <2>1 DEF Live, Job, queueVars
  <2>5. sinceBeat'[Job(v)'] <= (IF late'[v] THEN 2 ELSE 1)
    BY <2>1, <2>2, <2>4
  <2>6. QED
    BY <2>1, <2>3, <2>4, <2>5 DEF LeaseKept, Fresh
<1>9. CASE \/ Ingest(v) \/ Bind(v) \/ StartStage(v) \/ Work(v) \/ CommitStage(v)
           \/ CloseRun(v) \/ AnnounceReview(v) \/ LandRun(v)
  <2>1. CASE Ingest(v) \/ Bind(v)
    BY <1>8, <2>1 DEF Ingest, Bind, Escape
  <2>2. CASE StartStage(v)
    BY <1>8, <2>2 DEF StartStage, Escape, Conclude, Advance
  <2>3. CASE Work(v)
    BY <1>8, <2>3 DEF Work, Conclude
  <2>4. CASE CommitStage(v)
    BY <1>8, <2>4 DEF CommitStage, Escape, Conclude, Advance
  <2>5. CASE CloseRun(v) \/ AnnounceReview(v) \/ LandRun(v)
    BY <1>8, <2>5 DEF CloseRun, AnnounceReview, LandRun, Escape
  <2>6. QED
    BY <1>9, <2>1, <2>2, <2>3, <2>4, <2>5
(* Stopping the thread leaves the lease as fresh as it was.                 *)
<1>10. CASE CatchEscape(v)
  <2>1. /\ Live(held[v]) /\ beat[v] = "on"
        /\ sinceBeat[Job(v)] <= (IF late[v] THEN 2 ELSE 1)
    BY <1>0, <1>10 DEF CatchEscape, LeaseKept, Fresh, Active
  <2>2. /\ UNCHANGED <<held, status, lease, sinceBeat>> /\ beat'[v] = "off"
        /\ pc'[v] \in {"failing", "park"}
    BY <1>0, <1>10, <2>1 DEF CatchEscape, LeaseLost, Goto, LocalTypeOK, queueVars
  <2>3. late'[v] <=> late[v]
    BY <1>0, <1>10, <2>1 DEF CatchEscape, LeaseLost, Goto, LocalTypeOK
  <2>4. Live(held[v])' /\ Job(v)' = Job(v)
    BY <2>1, <2>2 DEF Live, Job
  <2>5. sinceBeat'[Job(v)'] <= (IF late'[v] THEN 2 ELSE 1)
    BY <2>1, <2>2, <2>3, <2>4
  <2>6. QED
    BY <2>2, <2>4, <2>5 DEF LeaseKept, Fresh, Active
<1>11. CASE FailJob(v) \/ Park(v) \/ Settle(v) \/ Crash(v)
  BY <1>0, <1>11 DEF FailJob, Park, Settle, Crash, Release, LocalTypeOK, LeaseKept, Active
<1>12. CASE Beat(v)
  <2>1. Active(v) /\ beat[v] = "on"
    BY <1>0, <1>12 DEF Beat, ClaimsHeld
  <2>2. Live(held[v]) /\ pc[v] # "claimed"
    BY <1>0, <2>1 DEF LeaseKept, Fresh
  <2>3. /\ UNCHANGED <<pc, held, beat, status, lease>> /\ sinceBeat'[Job(v)] = 0
    BY <1>0, <1>12, <2>1, <2>2 DEF Beat, Heartbeat, QueueTypeOK, Job
  <2>4. Live(held[v])' /\ Job(v)' = Job(v) /\ Active(v)'
    BY <2>1, <2>2, <2>3 DEF Live, Job, Active
  <2>5. QED
    BY <2>1, <2>2, <2>3, <2>4 DEF LeaseKept, Fresh
<1>13. CASE BeatFails(v)
  BY <1>13 DEF BeatFails, Punctual
<1>14. QED
  BY <1>2, <1>3, <1>4, <1>5, <1>6, <1>7, <1>9, <1>10, <1>11, <1>12, <1>13
     DEF WorkerNext, WorkerStep

(* A job that is claimed was due, so nobody was in the middle of it.        *)
LEMMA OneHolderStep ==
  ASSUME PunctualInv, [WorkerNext]_vars
  PROVE  OneHolder'
<1>0. /\ LocalTypeOK /\ OneHolder /\ \A w \in Workers : Active(w) => Live(held[w])
  BY DEF PunctualInv, RunInv, WorkerInv, WorkerTypeOK, LeaseKept
<1>1. ASSUME NEW v \in Workers, NEW w \in Workers, Active(v)', Active(w)', Job(v)' = Job(w)'
      PROVE  v = w
  <2>1. CASE Active(v) /\ held'[v] = held[v] /\ Active(w) /\ held'[w] = held[w]
    BY <1>0, <1>1, <2>1 DEF OneHolder, Job
  <2>2. ASSUME NEW a \in Workers, NEW b \in Workers, Job(a)' = Job(b)',
               Due(held'[a].job), Active(b), held'[b] = held[b]
        PROVE  FALSE
    BY <1>0, <2>2 DEF Due, Live, Job
  <2>3. CASE ClaimNext(v) /\ pc'[v] = "claimed" /\ ClaimNext(w) /\ pc'[w] = "claimed"
    <3>1. pc[v] = "polling" /\ pc[w] = "polling"
      BY <2>3 DEF ClaimNext
    <3>2. \E label : Goto(v, label)
      BY <2>3 DEF ClaimNext
    <3>3. QED
      BY <1>0, <2>3, <3>1, <3>2 DEF Goto, LocalTypeOK
  <2>4. QED
    BY <1>0, <1>1, <2>1, <2>2, <2>3, HoldsAfter
<1>2. QED
  BY <1>1 DEF OneHolder

LEMMA PunctualInitInv == WorkerInit => PunctualInv
<1> SUFFICES ASSUME WorkerInit PROVE PunctualInv
  OBVIOUS
<1>1. RunInv
  BY RunInitInv
<1>2. \A w \in Workers : ~Active(w) /\ beat[w] = "off"
  BY DEF WorkerInit, Active
<1>3. QED
  BY <1>1, <1>2 DEF PunctualInv, OneHolder, LeaseKept

LEMMA PunctualStepInv ==
  ASSUME Punctual PROVE PunctualInv /\ [WorkerNext]_vars => PunctualInv'
<1> SUFFICES ASSUME PunctualInv, [WorkerNext]_vars PROVE PunctualInv'
  OBVIOUS
<1>1. RunInv'
  BY RunStepInv DEF PunctualInv
<1>2. OneHolder' /\ \A w \in Workers : LeaseKept(w)'
  BY OneHolderStep, LeaseKeptStep
<1>3. QED
  BY <1>1, <1>2 DEF PunctualInv

(* A worker whose thread beats and that acts promptly keeps its lease to    *)
(* the end of its job, whoever reaps, crashes or cancels around it.         *)
THEOREM HealthyKeepLeases ==
  ASSUME Punctual PROVE WorkerSpec => []HealthyNeverReaped
<1>1. PunctualInv /\ [WorkerNext]_vars => PunctualInv'
  BY PunctualStepInv
<1>2. PunctualInv => HealthyNeverReaped
  BY DEF PunctualInv, LeaseKept, HealthyNeverReaped
<1>3. QED
  BY <1>1, <1>2, PunctualInitInv, PTL DEF WorkerSpec

-----------------------------------------------------------------------------
(* The closing writes of a punctual fleet.                                  *)

(* A lifecycle event is appended to an open run, by the worker that drives  *)
(* it, which leaves it open, or by the API, which ends it.                  *)
LEMMA LogStep ==
  ASSUME WorkerTypeOK, ClaimsHeld, [WorkerNext]_vars, NEW j \in Jobs, log'[j] # log[j]
  PROVE  /\ ~RunOver(j)
         /\ \/ \E w \in Workers : /\ Active(w) /\ Job(w) = j /\ pc[w] \in {"conclude", "announce"}
                                  /\ CloseRun(w) \/ AnnounceReview(w)
            \/ CancelWaiting(j) \/ FinishReview(j)
<1>0. RunTypeOK /\ ~UNCHANGED log
  BY DEF WorkerTypeOK
<1>1. ASSUME NEW w \in Workers, CloseRun(w) \/ AnnounceReview(w)
      PROVE  /\ ~RunOver(j) /\ Active(w) /\ Job(w) = j /\ pc[w] \in {"conclude", "announce"}
  <2>1. Active(w) /\ pc[w] \in {"conclude", "announce"}
    BY <1>1 DEF CloseRun, AnnounceReview, Active
  <2>2. Job(w) \in Jobs
    BY <2>1, ActiveJob
  <2>3. ~RunOver(Job(w)) /\ \E e : log' = [log EXCEPT ![Job(w)] = Append(@, e)]
    BY <1>0, <1>1 DEF CloseRun, AnnounceReview, Escape, AppendEvent, runVars
  <2>4. QED
    BY <1>0, <2>1, <2>2, <2>3 DEF RunTypeOK
<1>2. ASSUME NEW k \in Jobs, CancelWaiting(k) \/ FinishReview(k)
      PROVE  ~RunOver(j) /\ k = j
  <2>1. run[k] \notin RunTerminal
    BY <1>2 DEF CancelWaiting, FinishReview, RunTerminal
  <2>2. \E s : log' = [log EXCEPT ![k] = s]
    BY <1>2 DEF CancelWaiting, FinishReview, AppendEvent
  <2>3. QED
    BY <1>0, <2>1, <2>2 DEF RunTypeOK, RunOver
<1>3. QED
  BY <1>0, <1>1, <1>2
     DEF WorkerNext, WorkerStep, Poll, ClaimNext, Dispatch, Ingest, Bind, StartStage, Work,
         CommitStage, LandRun, Escape, CatchEscape, FailJob, Park, Settle, Beat, BeatFails,
         Crash, ClockTick, Create, CancelRequest, runVars, vars

(* A run ends in the worker's last write or in the API.                     *)
LEMMA RunEnds ==
  ASSUME WorkerTypeOK, ClaimsHeld, [WorkerNext]_vars, NEW j \in Jobs, ~RunOver(j), RunOver(j)'
  PROVE  \/ \E w \in Workers : /\ LandRun(w) /\ pc[w] = "land" /\ Job(w) = j
                               /\ run'[j] = FinalStatus(ending[w]) /\ log' = log
         \/ CancelWaiting(j) \/ FinishReview(j)
<1>0. RunTypeOK /\ LocalTypeOK /\ run'[j] # run[j] /\ run'[j] \in RunTerminal
  BY DEF WorkerTypeOK, RunOver
<1>1. ASSUME NEW w \in Workers, Bind(w) \/ CloseRun(w) PROVE FALSE
  <2>1. Active(w)
    BY <1>1 DEF Bind, CloseRun, Active
  <2>2. Job(w) \in Jobs
    BY <2>1, ActiveJob
  <2>3. QED
    BY <1>0, <1>1, <2>2 DEF Bind, CloseRun, Escape, runVars, RunTypeOK, RunTerminal
<1>2. ASSUME NEW w \in Workers, LandRun(w)
      PROVE  /\ pc[w] = "land" /\ Job(w) = j /\ run'[j] = FinalStatus(ending[w]) /\ log' = log
  <2>1. Active(w)
    BY <1>2 DEF LandRun, Active
  <2>2. Job(w) \in Jobs
    BY <2>1, ActiveJob
  <2>3. QED
    BY <1>0, <1>2, <2>2 DEF LandRun, RunTypeOK
<1>3. ASSUME NEW k \in Jobs, Create(k) PROVE FALSE
  BY <1>0, <1>3 DEF Create, RunTypeOK, RunTerminal
<1>4. ASSUME NEW k \in Jobs, CancelWaiting(k) \/ FinishReview(k) PROVE k = j
  BY <1>0, <1>4 DEF CancelWaiting, FinishReview, RunTypeOK
<1>5. QED
  BY <1>0, <1>1, <1>2, <1>3, <1>4
     DEF WorkerNext, WorkerStep, Poll, ClaimNext, Dispatch, Ingest, StartStage, Work,
         CommitStage, AnnounceReview, Escape, CatchEscape, FailJob, Park, Settle, Beat, BeatFails,
         Crash, ClockTick, CancelRequest, runVars, vars

(* The API's event is the last one and names the status.                    *)
LEMMA ApiEnds ==
  ASSUME RunTypeOK, NEW j \in Jobs, CancelWaiting(j) \/ FinishReview(j)
  PROVE  log'[j] # <<>> /\ LastEvent(j)' = EventOf(run'[j]) /\ RunOver(j)'
<1>0. log[j] \in Seq(Events)
  BY DEF RunTypeOK
<1>1. CASE CancelWaiting(j)
  <2>1. log'[j] = Append(log[j], "run_cancelled") /\ run'[j] = "cancelled"
    BY <1>1 DEF CancelWaiting, AppendEvent, RunTypeOK
  <2>2. EventOf("cancelled") = "run_cancelled"
    BY DEF EventOf
  <2>3. QED
    BY <1>0, <2>1, <2>2 DEF LastEvent, RunOver, RunTerminal
<1>2. CASE FinishReview(j)
  <2>1. log'[j] = log[j] \o <<"review_completed", "run_succeeded">> /\ run'[j] = "succeeded"
    BY <1>2 DEF FinishReview, RunTypeOK
  <2>2. EventOf("succeeded") = "run_succeeded"
    BY DEF EventOf
  <2>3. QED
    BY <1>0, <2>1, <2>2 DEF LastEvent, RunOver, RunTerminal
<1>3. QED
  BY <1>1, <1>2

(* A worker that is about to land its run has just said so.                 *)
LEMMA EventPendingStep ==
  ASSUME PunctualInv, EventInv, [WorkerNext]_vars, NEW v \in Workers
  PROVE  EventPending(v)'
<1>0. /\ WorkerTypeOK /\ ClaimsHeld /\ LocalTypeOK /\ RunTypeOK /\ EventPending(v) /\ OneHolder
      /\ LegalStep
  BY RunStepLegal DEF PunctualInv, RunInv, WorkerInv, WorkerTypeOK, EventInv
<1> SUFFICES ASSUME pc'[v] = "land", ~RunOver(Job(v))'
             PROVE  (log[Job(v)] # <<>> /\ LastEvent(Job(v)) = EventOf(FinalStatus(ending[v])))'
  BY DEF EventPending
<1>1. Active(v)'
  BY DEF Active
<1>2. Active(v) /\ held'[v] = held[v]
  BY <1>0, <1>1, HoldsAfter
<1>3. PICK j \in Jobs : j = Job(v) /\ j = Job(v)'
  BY <1>0, <1>2, ActiveJob DEF Job
<1>4. ~RunOver(j) /\ ~RunOver(j)'
  BY <1>0, <1>3, LegalMovesFacts DEF LegalStep, RunOver
<1>5. CASE pc[v] = "land"
  <2>1. log'[j] = log[j]
    <3>1. \A w \in Workers : Active(w) /\ Job(w) = j => w = v
      BY <1>0, <1>2, <1>3 DEF OneHolder
    <3>2. ~CancelWaiting(j) /\ ~FinishReview(j)
      BY <1>0, <1>4, ApiEnds
    <3>3. SUFFICES ASSUME log'[j] # log[j] PROVE FALSE
      OBVIOUS
    <3>4. PICK w \in Workers : Active(w) /\ Job(w) = j /\ pc[w] \in {"conclude", "announce"}
      BY <1>0, <3>2, <3>3, LogStep
    <3>5. QED
      BY <1>5, <3>1, <3>4
  <2>2. ending'[v] = ending[v]
    <3>1. CASE \/ \E w \in Workers \ {v} : WorkerStep(w) \/ Beat(w) \/ BeatFails(w) \/ Crash(w)
               \/ \E k \in Jobs : Create(k) \/ CancelRequest(k) \/ CancelWaiting(k) \/ FinishReview(k)
      BY <1>0, <3>1, MemoryUndisturbed
    <3>2. CASE Beat(v) \/ BeatFails(v) \/ LandRun(v) \/ ClockTick \/ UNCHANGED vars
      BY <3>2 DEF Beat, BeatFails, LandRun, ClockTick, vars, localVars
    <3>3. CASE Crash(v)
      BY <1>0, <1>1, <3>3 DEF Crash, Release, LocalTypeOK, Active
    <3>4. ~(\/ Poll(v) \/ ClaimNext(v) \/ Dispatch(v) \/ Ingest(v)
            \/ Bind(v) \/ StartStage(v) \/ Work(v) \/ CommitStage(v)
            \/ CloseRun(v) \/ AnnounceReview(v)
            \/ CatchEscape(v) \/ FailJob(v) \/ Park(v) \/ Settle(v))
      BY <1>5 DEF Poll, ClaimNext, Dispatch, Ingest, Bind, StartStage, Work, CommitStage,
                  CloseRun, AnnounceReview, CatchEscape, FailJob, Park, Settle
    <3>5. QED
      BY <3>1, <3>2, <3>3, <3>4 DEF WorkerNext, WorkerStep
  <2>3. QED
    BY <1>0, <1>3, <1>4, <1>5, <2>1, <2>2 DEF EventPending, LastEvent
<1>6. CASE pc[v] # "land"
  <2>1. CloseRun(v)
    <3>1. CASE \/ \E w \in Workers \ {v} : WorkerStep(w) \/ Beat(w) \/ BeatFails(w) \/ Crash(w)
               \/ \E k \in Jobs : Create(k) \/ CancelRequest(k) \/ CancelWaiting(k) \/ FinishReview(k)
      BY <1>0, <1>6, <3>1, MemoryUndisturbed
    <3>2. CASE Beat(v) \/ BeatFails(v) \/ ClockTick \/ UNCHANGED vars
      BY <1>6, <3>2 DEF Beat, BeatFails, ClockTick, vars, localVars
    <3>3. ~(Crash(v) \/ FailJob(v) \/ Park(v) \/ Settle(v))
      BY <1>0 DEF Crash, FailJob, Park, Settle, Release, LocalTypeOK
    <3>4. ~(Poll(v) \/ ClaimNext(v) \/ Dispatch(v) \/ Ingest(v) \/ Bind(v))
      BY <1>0 DEF Poll, ClaimNext, Dispatch, Ingest, Bind, Escape, Goto, LocalTypeOK
    <3>5. ~(StartStage(v) \/ Work(v) \/ CommitStage(v))
      BY <1>0 DEF StartStage, Work, CommitStage, Escape, Conclude, Advance, Goto, LocalTypeOK
    <3>6. ~(AnnounceReview(v) \/ LandRun(v) \/ CatchEscape(v))
      BY <1>0 DEF AnnounceReview, LandRun, CatchEscape, Release, Escape, Goto, LocalTypeOK
    <3>7. QED
      BY <3>1, <3>2, <3>3, <3>4, <3>5, <3>6 DEF WorkerNext, WorkerStep
  <2>2. /\ AppendEvent(j, EventOf(FinalStatus(ending[v]))) /\ ending' = ending
    BY <1>0, <1>3, <2>1 DEF CloseRun, Escape, Goto, LocalTypeOK
  <2>3. log'[j] = Append(log[j], EventOf(FinalStatus(ending[v])))
    BY <1>0, <2>2 DEF AppendEvent, RunTypeOK
  <2>4. log[j] \in Seq(Events)
    BY <1>0 DEF RunTypeOK
  <2>5. EventOf(FinalStatus(ending[v])) \in Events
    BY <1>0, EndingTypes DEF Events, LocalTypeOK
  <2>6. log'[j] # <<>> /\ LastEvent(j)' = EventOf(FinalStatus(ending[v]))
    BY <2>3, <2>4, <2>5 DEF LastEvent
  <2>7. QED
    BY <1>3, <2>2, <2>6 DEF LastEvent
<1>7. QED
  BY <1>5, <1>6

LEMMA EventStepInv ==
  ASSUME PunctualInv, EventInv, [WorkerNext]_vars
  PROVE  EventInv'
<1>0. WorkerTypeOK /\ ClaimsHeld /\ RunTypeOK /\ LegalStep
  BY RunStepLegal DEF PunctualInv, RunInv, WorkerInv, WorkerTypeOK
<1>1. ASSUME NEW j \in Jobs, RunOver(j)'
      PROVE  (log[j] # <<>> /\ log[j][Len(log[j])] = EventOf(run[j]))'
  <2>1. CASE RunOver(j)
    <3>1. run'[j] = run[j]
      BY <1>0, <2>1, LegalMovesFacts DEF LegalStep, RunOver
    <3>2. log'[j] = log[j]
      BY <1>0, <2>1, LogStep
    <3>3. QED
      BY <2>1, <3>1, <3>2 DEF EventInv, TerminalEventLast
  <2>2. CASE ~RunOver(j) /\ (CancelWaiting(j) \/ FinishReview(j))
    BY <1>0, <2>2, ApiEnds DEF LastEvent
  <2>3. CASE ~RunOver(j) /\ ~CancelWaiting(j) /\ ~FinishReview(j)
    <3>1. PICK w \in Workers : /\ pc[w] = "land" /\ Job(w) = j
                               /\ run'[j] = FinalStatus(ending[w]) /\ log' = log
      BY <1>0, <1>1, <2>3, RunEnds
    <3>2. EventPending(w)
      BY DEF EventInv
    <3>3. QED
      BY <2>3, <3>1, <3>2 DEF EventPending, LastEvent
  <2>4. QED
    BY <2>1, <2>2, <2>3
<1>2. QED
  BY <1>1, EventPendingStep DEF EventInv, TerminalEventLast

(* Where one worker at a time drives a run, the last lifecycle event of a   *)
(* finished run names its status.                                           *)
THEOREM EventsNameStatus ==
  ASSUME Punctual PROVE WorkerSpec => []TerminalEventLast
<1>1. WorkerInit => EventInv
  BY DEF WorkerInit, EventInv, TerminalEventLast, EventPending, RunOver, RunTerminal
<1>2. PunctualInv /\ EventInv /\ [WorkerNext]_vars => (PunctualInv /\ EventInv)'
  BY PunctualStepInv, EventStepInv
<1>3. EventInv => TerminalEventLast
  BY DEF EventInv
<1>4. QED
  BY <1>1, <1>2, <1>3, PunctualInitInv, PTL DEF WorkerSpec

(* A job that ended stays as it ended.                                      *)
LEMMA SucceededStays ==
  ASSUME QueueInv, [QueueNext]_queueVars, NEW j \in Jobs, status[j] = "succeeded"
  PROVE  status'[j] = "succeeded"
<1>0. status \in [Jobs -> Statuses]
  BY DEF QueueInv, QueueTypeOK
<1>1. CASE ClaimOne
  BY <1>0, <1>1 DEF ClaimOne, ClaimAs, Claimable, Due
<1>2. CASE \E k \in Jobs : Enqueue(k) \/ RequestCancel(k)
  BY <1>0, <1>2 DEF Enqueue, RequestCancel, rowVars
<1>3. CASE \E h \in issued : FencedCall(h)
  BY <1>0, <1>3 DEF FencedCall, Heartbeat, Complete, DeadLetter, Cancel, Fail,
                    FailTerminally, FailAndRequeue, EndClaim, Live
<1>4. CASE ReapStale
  BY <1>0, <1>4 DEF ReapStale, Stale
<1>5. CASE Tick \/ UNCHANGED queueVars
  BY <1>5 DEF Tick, queueVars
<1>6. QED
  BY <1>1, <1>2, <1>3, <1>4, <1>5 DEF QueueNext

(* Without crashes a worker that left its run for review goes on to         *)
(* complete the job.                                                        *)
LEMMA HandOverContinues ==
  ASSUME PunctualInv, "crash" \notin Faults, [WorkerNext]_vars, NEW v \in Workers,
         Active(v), ending[v] = "ok", pc[v] \in {"announce", "settle"},
         run[Job(v)] = "waiting_review"
  PROVE  \/ status'[Job(v)] = "succeeded"
         \/ /\ Active(v)' /\ Job(v)' = Job(v) /\ ending'[v] = "ok"
            /\ pc'[v] \in {"announce", "settle"}
<1>0. /\ QueueTypeOK /\ LocalTypeOK /\ Job(v) \in Jobs /\ Live(held[v]) /\ ~LeaseLost(v)
      /\ ~RunOver(Job(v))
  <2>1. WorkerTypeOK /\ ClaimsHeld /\ LeaseKept(v)
    BY DEF PunctualInv, RunInv, WorkerInv
  <2>2. QED
    BY <2>1, ActiveJob DEF WorkerTypeOK, LeaseKept, LeaseLost, RunOver, RunTerminal
<1>1. ASSUME pc'[v] = pc[v], held'[v] = held[v], ending'[v] = ending[v]
      PROVE  /\ Active(v)' /\ Job(v)' = Job(v) /\ ending'[v] = "ok"
             /\ pc'[v] \in {"announce", "settle"}
  BY <1>1 DEF Active, Job
<1>2. CASE \/ \E w \in Workers \ {v} : WorkerStep(w) \/ Beat(w) \/ BeatFails(w) \/ Crash(w)
           \/ \E k \in Jobs : Create(k) \/ CancelRequest(k) \/ CancelWaiting(k) \/ FinishReview(k)
  BY <1>0, <1>1, <1>2, MemoryUndisturbed
<1>3. CASE Beat(v) \/ BeatFails(v) \/ ClockTick \/ UNCHANGED vars
  BY <1>1, <1>3 DEF Beat, BeatFails, ClockTick, vars, localVars
<1>4. CASE AnnounceReview(v)
  BY <1>0, <1>4 DEF AnnounceReview, Goto, LocalTypeOK, Active, Job
<1>5. CASE Settle(v)
  <2>1. VerdictWrite(v)
    BY <1>0, <1>5 DEF Settle, Fenced
  <2>2. Complete(held[v])
    BY <2>1 DEF VerdictWrite
  <2>3. QED
    BY <1>0, <2>2 DEF Complete, EndClaim, QueueTypeOK, Job
<1>6. ~(\/ Crash(v) \/ Poll(v) \/ ClaimNext(v) \/ Dispatch(v) \/ Ingest(v) \/ Bind(v)
        \/ StartStage(v) \/ Work(v) \/ CommitStage(v) \/ CloseRun(v) \/ LandRun(v)
        \/ CatchEscape(v) \/ FailJob(v) \/ Park(v))
  BY DEF Crash, Poll, ClaimNext, Dispatch, Ingest, Bind, StartStage, Work, CommitStage,
         CloseRun, LandRun, CatchEscape, FailJob, Park
<1>7. QED
  BY <1>2, <1>3, <1>4, <1>5, <1>6 DEF WorkerNext, WorkerStep

(* Only the closing writes send a run to review.                            *)
LEMMA OnlyCloseWaits ==
  ASSUME WorkerTypeOK, ClaimsHeld, [WorkerNext]_vars, NEW j \in Jobs,
         run[j] # "waiting_review", run'[j] = "waiting_review"
  PROVE  \E w \in Workers : /\ Active(w)' /\ Job(w)' = j /\ ending'[w] = "ok"
                            /\ pc'[w] = "announce"
<1>0. RunTypeOK /\ LocalTypeOK /\ run'[j] # run[j]
  BY DEF WorkerTypeOK
<1>1. ASSUME NEW w \in Workers, Bind(w) PROVE FALSE
  BY <1>0, <1>1 DEF Bind, Escape, runVars, RunTypeOK
<1>2. ASSUME NEW w \in Workers, LandRun(w) PROVE FALSE
  <2>1. FinalStatus(ending[w]) # "waiting_review"
    BY <1>0, EndingTypes DEF LocalTypeOK, RunTerminal
  <2>2. QED
    BY <1>0, <1>2, <2>1 DEF LandRun, RunTypeOK
<1>3. ASSUME NEW k \in Jobs, Create(k) \/ CancelWaiting(k) \/ FinishReview(k) PROVE FALSE
  BY <1>0, <1>3 DEF Create, CancelWaiting, FinishReview, RunTypeOK
<1>4. ASSUME NEW w \in Workers, CloseRun(w)
      PROVE  Active(w)' /\ Job(w)' = j /\ ending'[w] = "ok" /\ pc'[w] = "announce"
  <2>1. /\ run' = [run EXCEPT ![Job(w)] = "waiting_review"] /\ ending[w] = "ok"
        /\ Goto(w, "announce") /\ UNCHANGED <<held, ending>>
    BY <1>0, <1>4 DEF CloseRun, Escape, runVars
  <2>2. Job(w) = j
    BY <1>0, <2>1 DEF RunTypeOK
  <2>3. QED
    BY <1>0, <2>1, <2>2 DEF Goto, LocalTypeOK, Active, Job
<1>5. QED
  BY <1>0, <1>1, <1>2, <1>3, <1>4
     DEF WorkerNext, WorkerStep, Poll, ClaimNext, Dispatch, Ingest, StartStage, Work,
         CommitStage, AnnounceReview, Escape, CatchEscape, FailJob, Park, Settle, Beat, BeatFails,
         Crash, ClockTick, CancelRequest, runVars, vars

LEMMA HandOverStep ==
  ASSUME PunctualInv, ReviewHandedOver, "crash" \notin Faults, [WorkerNext]_vars
  PROVE  ReviewHandedOver'
<1>0. WorkerTypeOK /\ ClaimsHeld /\ QueueInv
  BY DEF PunctualInv, RunInv, WorkerInv
<1>1. ASSUME NEW j \in Jobs, run'[j] = "waiting_review"
      PROVE  \/ status'[j] = "succeeded"
             \/ \E w \in Workers : /\ Active(w)' /\ Job(w)' = j /\ ending'[w] = "ok"
                                   /\ pc'[w] \in {"announce", "settle"}
  <2>1. CASE run[j] # "waiting_review"
    BY <1>0, <1>1, <2>1, OnlyCloseWaits
  <2>2. CASE status[j] = "succeeded"
    BY <1>0, <2>2, WorkerQueueStep, SucceededStays
  <2>3. CASE run[j] = "waiting_review" /\ status[j] # "succeeded"
    <3>1. PICK w \in Workers : /\ Active(w) /\ Job(w) = j /\ ending[w] = "ok"
                               /\ pc[w] \in {"announce", "settle"}
      BY <2>3 DEF ReviewHandedOver
    <3>2. QED
      BY <2>3, <3>1, HandOverContinues
  <2>4. QED
    BY <2>1, <2>2, <2>3
<1>2. QED
  BY <1>1 DEF ReviewHandedOver

(* A worker's write that ends a run finds it still running.                 *)
LEMMA ReviewKeptStep ==
  ASSUME PunctualInv, ReviewHandedOver, [WorkerNext]_vars, NEW j \in Jobs,
         run[j] = "waiting_review", run'[j] # run[j]
  PROVE  UNCHANGED localVars
<1>0. /\ WorkerTypeOK /\ ClaimsHeld /\ RunTypeOK /\ LocalTypeOK /\ OneHolder
      /\ \A w \in Workers : Active(w) => Live(held[w])
  BY DEF PunctualInv, RunInv, WorkerInv, WorkerTypeOK, LeaseKept
<1>1. ASSUME NEW w \in Workers, LandRun(w) PROVE FALSE
  <2>1. Active(w) /\ pc[w] = "land"
    BY <1>1 DEF LandRun, Active
  <2>2. Job(w) = j
    BY <1>0, <1>1 DEF LandRun, RunTypeOK
  <2>3. status[j] = "running"
    BY <1>0, <2>1, <2>2 DEF Live, Job
  <2>4. PICK v \in Workers : /\ Active(v) /\ Job(v) = j /\ pc[v] \in {"announce", "settle"}
    BY <2>3 DEF ReviewHandedOver
  <2>5. QED
    BY <1>0, <2>1, <2>2, <2>4 DEF OneHolder
<1>2. ASSUME NEW w \in Workers, Bind(w) \/ CloseRun(w) PROVE FALSE
  BY <1>0, <1>2 DEF Bind, CloseRun, Escape, runVars, RunTypeOK
<1>3. ASSUME NEW k \in Jobs, Create(k) \/ CancelWaiting(k) \/ FinishReview(k)
      PROVE  UNCHANGED localVars
  BY <1>3 DEF Create, CancelWaiting, FinishReview
<1>4. QED
  BY <1>1, <1>2, <1>3
     DEF WorkerNext, WorkerStep, Poll, ClaimNext, Dispatch, Ingest, StartStage, Work,
         CommitStage, AnnounceReview, Escape, CatchEscape, FailJob, Park, Settle, Beat, BeatFails,
         Crash, ClockTick, CancelRequest, runVars, vars

(* Without crashes and lost leases a run that waits for review is ended by  *)
(* the API alone.                                                           *)
THEOREM ReviewsKept ==
  ASSUME Punctual, "crash" \notin Faults
  PROVE  WorkerSpec => ReviewKept
<1>1. WorkerInit => ReviewHandedOver
  BY DEF WorkerInit, ReviewHandedOver
<1>2. PunctualInv /\ ReviewHandedOver /\ [WorkerNext]_vars => (PunctualInv /\ ReviewHandedOver)'
  BY PunctualStepInv, HandOverStep
<1>3. PunctualInv /\ ReviewHandedOver /\ [WorkerNext]_vars =>
        [\A j \in Jobs : run[j] = "waiting_review" /\ run'[j] # run[j] => UNCHANGED localVars]_vars
  BY ReviewKeptStep
<1>4. QED
  BY <1>1, <1>2, <1>3, PunctualInitInv, PTL DEF WorkerSpec, ReviewKept
-----------------------------------------------------------------------------
(* A run under review and the redeliveries of its job.                      *)

(* Checkpoints are taken in order, and a worker has passed recorded stages  *)
(* only.                                                                    *)
StagesInOrder ==
  /\ \A j \in Jobs : \A s, t \in Stages :
       t <= s /\ ckpt[j][s] # NoOutput => ckpt[j][t] # NoOutput
  /\ \A w \in Workers : Active(w) =>
       \A t \in Stages : t < stage[w] => ckpt[Job(w)][t] # NoOutput

(* On a first delivery only the worker that sent the run to review is left; *)
(* on a later one nothing is worked on and a boundary alone decides.        *)
ResumeOK(w) ==
  /\ ~Active(w) => ending[w] = "ok"
  /\ Active(w) /\ run[Job(w)] = "waiting_review" =>
       /\ pc[w] \notin {"work", "commit"}
       /\ ending[w] # "ok" => (ending[w] = "cancelled" /\ CancelSeen(w)) \/ ending[w] = "failed"
       /\ held[w].attempts <= 1 => ending[w] = "ok" /\ pc[w] \in {"announce", "settle"}

(* Nothing has written an error before or during a job's first delivery,    *)
(* nor while that delivery's run waits for review.                          *)
NoErrorYet(j) ==
  /\ attempts[j] = 0 => error[j] = "none"
  /\ attempts[j] = 1 /\ status[j] = "running" => error[j] = "none"
  /\ run[j] = "waiting_review" /\ status[j] = "queued" /\ attempts[j] = 1 => error[j] = "none"

ResumeInv ==
  /\ EvidenceInv
  /\ StagesInOrder
  /\ \A j \in Jobs : NoErrorYet(j)
  /\ \A j \in Jobs : run[j] = "waiting_review" => attempts[j] >= 1
  /\ \A w \in Workers : ResumeOK(w)

(* Attempts are never taken back, nor is a request to cancel.               *)
LEMMA QueueMonotone ==
  ASSUME QueueInv, [QueueNext]_queueVars, NEW j \in Jobs
  PROVE  attempts'[j] >= attempts[j] /\ (cancelRequested[j] => cancelRequested'[j])
<1>0. attempts \in [Jobs -> Nat] /\ cancelRequested \in [Jobs -> BOOLEAN]
  BY DEF QueueInv, QueueTypeOK
<1>1. CASE ClaimOne
  BY <1>0, <1>1 DEF ClaimOne, ClaimAs
<1>2. CASE \E k \in Jobs : Enqueue(k) \/ RequestCancel(k)
  BY <1>0, <1>2 DEF Enqueue, RequestCancel, rowVars
<1>3. CASE \E h \in issued : FencedCall(h)
  BY <1>0, <1>3 DEF FencedCall, Heartbeat, Complete, DeadLetter, Cancel, Fail,
                    FailTerminally, FailAndRequeue, EndClaim
<1>4. CASE ReapStale \/ Tick \/ UNCHANGED queueVars
  BY <1>0, <1>4 DEF ReapStale, Tick, queueVars
<1>5. QED
  BY <1>1, <1>2, <1>3, <1>4 DEF QueueNext

(* How the row of a job moves: an error ends a delivery, a claim begins one. *)
LEMMA RowMoves ==
  ASSUME QueueInv, [QueueNext]_queueVars, NEW j \in Jobs
  PROVE  /\ \/ error'[j] = error[j]
            \/ status[j] = "running" /\ attempts[j] >= 1 /\ status'[j] # "running"
         /\ \/ attempts'[j] = attempts[j]
            \/ attempts'[j] = attempts[j] + 1 /\ status[j] = "queued" /\ status'[j] = "running"
         /\ status'[j] = "running" => status[j] = "running" \/ attempts'[j] = attempts[j] + 1
         /\ status'[j] = "queued" => status[j] \in {"absent", "queued", "running"}
<1>0. /\ QueueTypeOK
      /\ status[j] = "running" => attempts[j] >= 1
  BY DEF QueueInv, QueueTypeOK, SingleOwner, AttemptsAccounted, ClaimedJob
<1>1. CASE ClaimOne
  BY <1>0, <1>1 DEF QueueTypeOK, ClaimOne, ClaimAs, Claimable, Due
<1>2. CASE \E k \in Jobs : Enqueue(k) \/ RequestCancel(k)
  BY <1>0, <1>2 DEF QueueTypeOK, Enqueue, RequestCancel, rowVars
<1>3. CASE \E h \in issued : FencedCall(h)
  BY <1>0, <1>3 DEF QueueTypeOK, FencedCall, Heartbeat, Complete, DeadLetter, Cancel, Fail,
                    FailTerminally, FailAndRequeue, EndClaim, Live
<1>4. CASE ReapStale
  BY <1>0, <1>4 DEF QueueTypeOK, ReapStale, ReapedStatus, Stale
<1>5. CASE Tick \/ UNCHANGED queueVars
  BY <1>0, <1>5 DEF QueueTypeOK, Tick, queueVars
<1>6. QED
  BY <1>1, <1>2, <1>3, <1>4, <1>5 DEF QueueNext

(* Whoever requeues a job with an error is a worker that fails it.          *)
LEMMA OnlyFailRequeues ==
  ASSUME WorkerInv, [WorkerNext]_vars, NEW j \in Jobs,
         status[j] = "running", status'[j] = "queued", error'[j] # error[j]
  PROVE  \E w \in Workers : /\ Active(w) /\ Job(w) = j /\ pc[w] = "failing"
                            /\ held[w].attempts = attempts[j]
<1>0. QueueTypeOK /\ QueueInv /\ ClaimsHeld
  BY DEF WorkerInv, QueueInv
<1>1. ASSUME NEW w \in Workers, FailJob(w)
      PROVE  Active(w) /\ Job(w) = j /\ pc[w] = "failing" /\ held[w].attempts = attempts[j]
  <2>1. Active(w) /\ pc[w] = "failing" /\ held[w] \in issued
    BY <1>0, <1>1 DEF FailJob, Active, ClaimsHeld
  <2>2. Live(held[w]) /\ Fail(held[w])
    BY <1>1 DEF FailJob, Fenced, queueVars
  <2>3. held[w].job = j
    BY <1>0, <2>2 DEF Fail, FailTerminally, FailAndRequeue, EndClaim, QueueTypeOK
  <2>4. QED
    BY <1>0, <2>1, <2>2, <2>3, LiveAttempts DEF Job
<1>2. ASSUME NEW w \in Workers, Park(w) \/ Settle(w) PROVE FALSE
  <2>1. ParkWrite(w) \/ VerdictWrite(w)
    BY <1>2 DEF Park, Settle, Fenced, queueVars
  <2>2. Complete(held[w]) \/ Cancel(held[w]) \/ DeadLetter(held[w])
    BY <2>1 DEF ParkWrite, VerdictWrite
  <2>3. QED
    BY <1>0, <2>2 DEF Complete, Cancel, DeadLetter, EndClaim, QueueTypeOK
<1>3. ASSUME NEW w \in Workers, Poll(w) \/ ClaimNext(w) \/ Beat(w) PROVE FALSE
  BY <1>0, <1>3 DEF Poll, ReapStale, ReapedStatus, ClaimNext, ClaimAs, Beat, Heartbeat,
                    queueVars, QueueTypeOK
<1>4. ~ ((\E k \in Jobs : Create(k) \/ CancelRequest(k)) \/ ClockTick)
  BY DEF Create, Enqueue, CancelRequest, RequestCancel, rowVars, ClockTick, Tick
<1>5. QED
  BY <1>1, <1>2, <1>3, <1>4
     DEF WorkerNext, WorkerStep, Dispatch, Ingest, Bind, StartStage, Work, CommitStage, CloseRun,
         AnnounceReview, LandRun, Escape, CatchEscape, BeatFails, Crash, CancelWaiting,
         FinishReview, queueVars, vars

(* A checkpoint is taken by the worker that is at its stage.                *)
LEMMA OnlyCommitRecords ==
  ASSUME WorkerTypeOK, ClaimsHeld, [WorkerNext]_vars, NEW j \in Jobs, NEW s \in Stages,
         ckpt'[j][s] # ckpt[j][s]
  PROVE  \E w \in Workers : Active(w) /\ Job(w) = j /\ stage[w] = s
<1>0. RunTypeOK /\ ckpt' # ckpt
  BY DEF WorkerTypeOK
<1>1. ASSUME NEW w \in Workers, CommitStage(w)
      PROVE  Active(w) /\ Job(w) = j /\ stage[w] = s
  <2>1. Active(w)
    BY <1>1 DEF CommitStage, Active
  <2>2. ckpt' = [ckpt EXCEPT ![Job(w)][stage[w]] = carry[w]]
    BY <1>0, <1>1 DEF CommitStage, Escape, runVars
  <2>3. ckpt \in [Jobs -> [Stages -> Outputs \cup {NoOutput}]]
    BY <1>0 DEF RunTypeOK
  <2>4. QED
    BY <2>1, <2>2, <2>3
<1>2. QED
  BY <1>0, <1>1
     DEF WorkerNext, WorkerStep, Poll, ClaimNext, Dispatch, Ingest, Bind, StartStage, Work,
         CloseRun, AnnounceReview, LandRun, Escape, CatchEscape, FailJob, Park, Settle, Beat,
         BeatFails, Crash, ClockTick, Create, CancelRequest, CancelWaiting, FinishReview,
         runVars, vars

(* A worker passes a stage with its row in place.                           *)
LEMMA StagePassed ==
  ASSUME WorkerTypeOK, ClaimsHeld, [WorkerNext]_vars, NEW w \in Workers,
         WorkerEvidence(w), Active(w), Active(w)'
  PROVE  \/ stage'[w] = stage[w]
         \/ stage'[w] = stage[w] + 1 /\ ckpt'[Job(w)][stage[w]] # NoOutput
<1>0. LocalTypeOK /\ RunTypeOK /\ Job(w) \in Jobs /\ stage[w] \in Stages
  BY ActiveJob DEF WorkerTypeOK, LocalTypeOK
<1>1. CASE ~WorkerStep(w) /\ ~Crash(w)
  BY <1>0, <1>1, OthersStep
<1>2. CASE StartStage(w)
  <2>1. CASE stage' = stage
    BY <2>1
  <2>2. CASE stage' # stage
    <3>1. /\ ckpt[Job(w)][stage[w]] # NoOutput /\ ckpt' = ckpt
          /\ stage' = [stage EXCEPT ![w] = @ + 1]
      BY <1>2, <2>2 DEF StartStage, Escape, Advance, runVars
    <3>2. QED
      BY <1>0, <3>1 DEF LocalTypeOK
  <2>3. QED
    BY <2>1, <2>2
<1>3. CASE CommitStage(w)
  <2>1. CASE stage' = stage
    BY <2>1
  <2>2. CASE stage' # stage
    <3>1. /\ ckpt' = [ckpt EXCEPT ![Job(w)][stage[w]] = carry[w]]
          /\ stage' = [stage EXCEPT ![w] = @ + 1] /\ carry[w] # NoOutput
      BY <1>3, <2>2 DEF CommitStage, Escape, Advance, runVars, WorkerEvidence, Outputs, NoOutput
    <3>2. QED
      BY <1>0, <3>1 DEF LocalTypeOK, RunTypeOK
  <2>3. QED
    BY <2>1, <2>2
<1>4. CASE Crash(w) \/ Poll(w) \/ ClaimNext(w) \/ FailJob(w) \/ Park(w) \/ Settle(w)
  BY <1>0, <1>4 DEF Crash, Poll, ClaimNext, FailJob, Park, Settle, Release, LocalTypeOK, Active
<1>5. CASE \/ Dispatch(w) \/ Ingest(w) \/ Bind(w) \/ Work(w) \/ CloseRun(w)
           \/ AnnounceReview(w) \/ LandRun(w)
  BY <1>5 DEF Dispatch, Ingest, Bind, Work, CloseRun, AnnounceReview, LandRun, Escape
<1>6. CASE CatchEscape(w)
  BY <1>0, <1>6 DEF CatchEscape, Release, LocalTypeOK, Active
<1>7. QED
  BY <1>1, <1>2, <1>3, <1>4, <1>5, <1>6 DEF WorkerStep

LEMMA StagesStep ==
  ASSUME EvidenceInv, StagesInOrder, [WorkerNext]_vars
  PROVE  StagesInOrder'
<1>0. /\ WorkerTypeOK /\ ClaimsHeld /\ LocalTypeOK /\ EvidenceKept /\ WorkerInv
      /\ \A w \in Workers : WorkerEvidence(w)
  BY EvidenceGrows DEF EvidenceInv, WorkerInv, WorkerTypeOK
<1>1. ASSUME NEW j \in Jobs, NEW s \in Stages, NEW t \in Stages, t <= s, ckpt'[j][s] # NoOutput
      PROVE  ckpt'[j][t] # NoOutput
  <2>1. CASE ckpt'[j][s] = ckpt[j][s]
    BY <1>0, <1>1, <2>1 DEF StagesInOrder, EvidenceKept
  <2>2. CASE ckpt'[j][s] # ckpt[j][s] /\ t # s
    <3>1. PICK w \in Workers : Active(w) /\ Job(w) = j /\ stage[w] = s
      BY <1>0, <2>2, OnlyCommitRecords
    <3>2. t < stage[w]
      BY <1>1, <2>2, <3>1, StageBounds
    <3>3. ckpt[j][t] # NoOutput
      BY <3>1, <3>2 DEF StagesInOrder
    <3>4. QED
      BY <1>0, <3>3 DEF EvidenceKept
  <2>3. QED
    BY <1>1, <2>1, <2>2
<1>2. ASSUME NEW w \in Workers, Active(w)', NEW t \in Stages, t < stage'[w]
      PROVE  ckpt'[Job(w)'][t] # NoOutput
  <2>1. CASE Active(w) /\ held'[w] = held[w]
    <3>1. Job(w)' = Job(w) /\ Job(w) \in Jobs /\ stage[w] \in Stages
      BY <1>0, <2>1, ActiveJob DEF Job, LocalTypeOK
    <3>2. CASE t < stage[w]
      BY <1>0, <2>1, <3>1, <3>2 DEF StagesInOrder, EvidenceKept
    <3>3. CASE ~(t < stage[w])
      <4>1. stage'[w] = stage[w] + 1 /\ ckpt'[Job(w)][stage[w]] # NoOutput
        BY <1>0, <1>2, <2>1, <3>3, StagePassed
      <4>2. t = stage[w]
        BY <1>2, <3>1, <3>3, <4>1, StageBounds
      <4>3. QED
        BY <3>1, <4>1, <4>2
    <3>4. QED
      BY <3>2, <3>3
  <2>2. CASE ClaimNext(w)
    <3>1. stage'[w] = stage[w] /\ ~Active(w)
      BY <2>2 DEF ClaimNext, Active
    <3>2. stage'[w] = 1
      BY <1>0, <3>1 DEF WorkerEvidence
    <3>3. QED
      BY <1>2, <3>2, StageBounds
  <2>3. QED
    BY <1>0, <1>2, <2>1, <2>2, HoldsAfter
<1>3. QED
  BY <1>1, <1>2 DEF StagesInOrder

(* A worker in the middle of a job whose run stays under review: only a     *)
(* redelivered one is between boundaries, and it finds every row in place.  *)
LEMMA ResumesInReview ==
  ASSUME EvidenceInv, StagesInOrder, [WorkerNext]_vars, NEW w \in Workers, ResumeOK(w),
         Active(w), Active(w)', held'[w] = held[w],
         run[Job(w)] = "waiting_review", run'[Job(w)] = "waiting_review"
  PROVE  ResumeOK(w)'
<1>0. /\ LocalTypeOK /\ RunTypeOK /\ Job(w) \in Jobs /\ Job(w)' = Job(w) /\ stage[w] \in Stages
      /\ ~RunOver(Job(w)) /\ (CancelSeen(w) => CancelSeen(w)')
  <2>1. WorkerTypeOK /\ ClaimsHeld /\ QueueInv
    BY DEF EvidenceInv, WorkerInv
  <2>2. Job(w) \in Jobs /\ Job(w)' = Job(w)
    BY <2>1, ActiveJob DEF Job
  <2>3. CancelSeen(w) => CancelSeen(w)'
    BY <2>1, <2>2, WorkerQueueStep, QueueMonotone DEF CancelSeen
  <2>4. QED
    BY <2>1, <2>2, <2>3 DEF WorkerTypeOK, LocalTypeOK, RunOver, RunTerminal
<1>1. ckpt[Job(w)][stage[w]] # NoOutput
  <2>1. ckpt[Job(w)][LastStage] = "proposals"
    BY <1>0 DEF EvidenceInv, RunEvidence
  <2>2. stage[w] <= LastStage /\ LastStage \in Stages
    BY <1>0, StageBounds DEF Stages
  <2>3. QED
    BY <1>0, <2>1, <2>2 DEF StagesInOrder, NoOutput
<1>2. ASSUME /\ pc'[w] \notin {"work", "commit"}
             /\ ending'[w] = ending[w]
             /\ held[w].attempts <= 1 => pc'[w] \in {"announce", "settle"}
      PROVE  ResumeOK(w)'
  BY <1>0, <1>2 DEF ResumeOK
<1>3. CASE ~WorkerStep(w) /\ ~Crash(w)
  <2>1. pc'[w] = pc[w] /\ ending'[w] = ending[w]
    BY <1>0, <1>3, OthersStep
  <2>2. QED
    BY <1>0, <1>2, <2>1 DEF ResumeOK
<1>4. CASE StartStage(w)
  <2>1. ~(held[w].attempts <= 1)
    BY <1>4 DEF StartStage, ResumeOK
  <2>2. CASE /\ pc'[w] \in {"escaped", "stage"} /\ ending'[w] = ending[w]
    BY <1>2, <2>1, <2>2
  <2>3. CASE pc'[w] = "conclude" /\ ending'[w] \in {"ok", "failed"}
    BY <1>0, <2>1, <2>3 DEF ResumeOK
  <2>4. CASE pc'[w] = "conclude" /\ ending'[w] = "cancelled" /\ CancelSeen(w)
    BY <1>0, <2>1, <2>4 DEF ResumeOK
  <2>5. QED
    BY <1>0, <1>1, <1>4, <2>2, <2>3, <2>4
       DEF StartStage, Escape, Conclude, Advance, Goto, LocalTypeOK
<1>5. CASE Dispatch(w) \/ Ingest(w) \/ Bind(w)
  BY <1>0, <1>2, <1>5 DEF Dispatch, Ingest, Bind, Escape, Goto, LocalTypeOK, ResumeOK
<1>6. CASE CloseRun(w) \/ AnnounceReview(w)
  BY <1>0, <1>2, <1>6 DEF CloseRun, AnnounceReview, Escape, Goto, LocalTypeOK, ResumeOK
<1>7. CASE CatchEscape(w)
  <2>1. CASE Release(w)
    BY <1>0, <2>1 DEF Release, LocalTypeOK, Active
  <2>2. CASE ~Release(w)
    BY <1>0, <1>2, <1>7, <2>2 DEF CatchEscape, Goto, LocalTypeOK, ResumeOK
  <2>3. QED
    BY <2>1, <2>2
<1>8. CASE LandRun(w)
  <2>1. FinalStatus(ending[w]) # "waiting_review"
    BY <1>0, EndingTypes DEF LocalTypeOK, RunTerminal
  <2>2. QED
    BY <1>0, <1>8, <2>1 DEF LandRun, RunTypeOK
<1>9. CASE Work(w) \/ CommitStage(w)
  BY <1>9 DEF Work, CommitStage, ResumeOK
<1>10. CASE Poll(w) \/ ClaimNext(w) \/ FailJob(w) \/ Park(w) \/ Settle(w) \/ Crash(w)
  BY <1>0, <1>10 DEF Poll, ClaimNext, FailJob, Park, Settle, Crash, Release, LocalTypeOK, Active
<1>11. QED
  BY <1>3, <1>4, <1>5, <1>6, <1>7, <1>8, <1>9, <1>10 DEF WorkerStep

(* A worker that left its job has forgotten how it ended.                   *)
LEMMA EndingForgotten ==
  ASSUME LocalTypeOK, [WorkerNext]_vars, NEW w \in Workers,
         ~Active(w) => ending[w] = "ok", ~Active(w)'
  PROVE  ending'[w] = "ok"
<1>1. CASE ~WorkerStep(w) /\ ~Crash(w)
  BY <1>1, OthersStep DEF Active
<1>2. CASE FailJob(w) \/ Park(w) \/ Settle(w) \/ Crash(w) \/ (CatchEscape(w) /\ Release(w))
  BY <1>2 DEF FailJob, Park, Settle, Crash, Release, LocalTypeOK
<1>3. CASE Poll(w) \/ ClaimNext(w)
  BY <1>3 DEF Poll, ClaimNext, Active
<1>4. ~(\/ Dispatch(w) \/ Ingest(w) \/ Bind(w) \/ CloseRun(w) \/ AnnounceReview(w) \/ LandRun(w))
  BY DEF Dispatch, Ingest, Bind, CloseRun, AnnounceReview, LandRun, Escape, Goto, LocalTypeOK,
         Active
<1>5. ~(StartStage(w) \/ Work(w) \/ CommitStage(w))
  BY DEF StartStage, Work, CommitStage, Escape, Conclude, Advance, Goto, LocalTypeOK, Active
<1>6. ~(CatchEscape(w) /\ ~Release(w))
  BY DEF CatchEscape, Goto, LocalTypeOK, Active
<1>7. QED
  BY <1>1, <1>2, <1>3, <1>4, <1>5, <1>6 DEF WorkerStep

(* The delivery that sent a run to review does not fail its job.            *)
LEMMA NoErrorStep ==
  ASSUME PunctualInv, PunctualInv', ResumeInv, [WorkerNext]_vars, NEW j \in Jobs
  PROVE  NoErrorYet(j)'
<1>0. /\ WorkerInv /\ WorkerTypeOK /\ ClaimsHeld /\ QueueInv /\ [QueueNext]_queueVars
      /\ NoErrorYet(j) /\ attempts[j] \in Nat
  BY WorkerQueueStep
     DEF PunctualInv, RunInv, WorkerInv, ResumeInv, QueueInv, QueueTypeOK
<1>1. /\ attempts'[j] = 0 => error'[j] = "none"
      /\ attempts'[j] = 1 /\ status'[j] = "running" => error'[j] = "none"
  BY <1>0, RowMoves DEF NoErrorYet
<1>2. ASSUME run'[j] = "waiting_review", status'[j] = "queued", attempts'[j] = 1
      PROVE  error'[j] = "none"
  <2>1. run[j] = "waiting_review"
    <3>1. SUFFICES ASSUME run[j] # "waiting_review" PROVE FALSE
      OBVIOUS
    <3>2. PICK w \in Workers : Active(w)' /\ Job(w)' = j
      BY <1>0, <1>2, <3>1, OnlyCloseWaits
    <3>3. QED
      BY <1>2, <3>2 DEF PunctualInv, LeaseKept, Live, Job
  <2>2. status[j] \in {"queued", "running"} /\ attempts[j] = 1
    BY <1>0, <1>2, <2>1, RowMoves DEF PunctualInv, RunInv, RunsExist
  <2>3. error[j] = "none"
    BY <1>0, <2>1, <2>2 DEF NoErrorYet
  <2>4. CASE error'[j] # error[j]
    <3>1. status[j] = "running"
      BY <1>0, <2>4, RowMoves
    <3>2. PICK w \in Workers : /\ Active(w) /\ Job(w) = j /\ pc[w] = "failing"
                               /\ held[w].attempts = attempts[j]
      BY <1>0, <1>2, <2>4, <3>1, OnlyFailRequeues
    <3>3. QED
      BY <2>1, <2>2, <3>2 DEF ResumeInv, ResumeOK
  <2>5. QED
    BY <2>3, <2>4
<1>3. QED
  BY <1>1, <1>2 DEF NoErrorYet

LEMMA ResumeStepInv ==
  ASSUME PunctualInv, PunctualInv', ResumeInv, [WorkerNext]_vars
  PROVE  ResumeInv'
<1>0. /\ WorkerTypeOK /\ ClaimsHeld /\ LocalTypeOK /\ RunTypeOK /\ QueueInv /\ QueueInv'
      /\ EvidenceInv /\ EvidenceInv' /\ StagesInOrder /\ StagesInOrder' /\ OneHolder'
      /\ WorkerTypeOK' /\ ClaimsHeld' /\ [QueueNext]_queueVars
  BY EvidenceStepInv, StagesStep, WorkerQueueStep
     DEF PunctualInv, ResumeInv, EvidenceInv, WorkerInv, WorkerTypeOK
<1>1. ASSUME NEW j \in Jobs, run'[j] = "waiting_review" PROVE attempts'[j] >= 1
  <2>1. CASE run[j] = "waiting_review"
    <3>1. attempts[j] \in Nat /\ attempts'[j] \in Nat
      BY <1>0 DEF QueueInv, QueueTypeOK
    <3>2. QED
      BY <1>0, <2>1, <3>1, QueueMonotone DEF ResumeInv
  <2>2. CASE run[j] # "waiting_review"
    <3>1. PICK w \in Workers : Active(w)' /\ Job(w)' = j
      BY <1>0, <1>1, <2>2, OnlyCloseWaits
    <3>2. held'[w] \in issued' /\ held'[w].job = j
      BY <1>0, <3>1 DEF ClaimsHeld, Job
    <3>3. held'[w].attempts \in Nat /\ attempts'[j] \in Nat
      BY <1>0, <3>2 DEF QueueInv, QueueTypeOK, ClaimedJob
    <3>4. QED
      BY <1>0, <3>2, <3>3 DEF QueueInv, AttemptsAccounted
  <2>3. QED
    BY <2>1, <2>2
<1>2. ASSUME NEW w \in Workers PROVE ResumeOK(w)'
  <2>1. ResumeOK(w)
    BY DEF ResumeInv
  <2>2. CASE ~Active(w)'
    BY <1>0, <2>1, <2>2, EndingForgotten DEF ResumeOK
  <2>3. CASE Active(w)' /\ run'[Job(w)'] # "waiting_review"
    BY <2>3 DEF ResumeOK
  <2>4. CASE Active(w)' /\ run'[Job(w)'] = "waiting_review" /\ run[Job(w)'] # "waiting_review"
    <3>1. PICK j \in Jobs : j = Job(w)'
      BY <1>0, <2>4 DEF ClaimsHeld, QueueInv, QueueTypeOK, ClaimedJob, Job
    <3>2. PICK v \in Workers : Active(v)' /\ Job(v)' = j /\ ending'[v] = "ok" /\ pc'[v] = "announce"
      BY <1>0, <2>4, <3>1, OnlyCloseWaits
    <3>3. v = w
      BY <1>0, <2>4, <3>1, <3>2 DEF OneHolder
    <3>4. QED
      BY <2>4, <3>2, <3>3 DEF ResumeOK
  <2>5. CASE Active(w)' /\ run'[Job(w)'] = "waiting_review" /\ run[Job(w)'] = "waiting_review"
    <3>1. CASE Active(w) /\ held'[w] = held[w]
      <4>1. Job(w)' = Job(w)
        BY <3>1 DEF Job
      <4>2. QED
        BY <1>0, <2>1, <2>5, <3>1, <4>1, ResumesInReview
    <3>2. CASE /\ ClaimNext(w) /\ pc'[w] = "claimed" /\ ClaimAs(held'[w])
               /\ held'[w].job \in Jobs
      <4>1. ending'[w] = "ok"
        BY <2>1, <3>2 DEF ClaimNext, Active, ResumeOK
      <4>2. held'[w].attempts = attempts[Job(w)'] + 1
        BY <3>2 DEF ClaimAs, Job
      <4>3. attempts[Job(w)'] >= 1 /\ attempts[Job(w)'] \in Nat
        BY <1>0, <2>5, <3>2 DEF ResumeInv, QueueInv, QueueTypeOK, Job
      <4>4. ~(held'[w].attempts <= 1)
        BY <4>2, <4>3
      <4>5. QED
        BY <2>5, <3>2, <4>1, <4>4 DEF ResumeOK
    <3>3. QED
      BY <1>0, <2>5, <3>1, <3>2, HoldsAfter
  <2>6. QED
    BY <2>2, <2>3, <2>4, <2>5
<1>3. QED
  BY <1>0, <1>1, <1>2, NoErrorStep DEF ResumeInv

(* Where one worker at a time drives a run, a run under review is not       *)
(* worked on again, however often crashes redeliver its job, and only the   *)
(* reaper brings a second delivery; a stage boundary of such a one is all   *)
(* that can end the run beside the reviewer.                                *)
THEOREM ReviewsResumed ==
  ASSUME Punctual PROVE WorkerSpec => []ReviewResumed
<1>1. WorkerInit => ResumeInv
  <2> SUFFICES ASSUME WorkerInit PROVE ResumeInv
    OBVIOUS
  <2>1. EvidenceInv
    BY EvidenceInitInv
  <2>2. StagesInOrder /\ \A w \in Workers : ResumeOK(w)
    BY DEF WorkerInit, StagesInOrder, ResumeOK, Active
  <2>3. \A j \in Jobs : run[j] # "waiting_review" /\ NoErrorYet(j)
    BY DEF WorkerInit, QueueInit, NoErrorYet
  <2>4. QED
    BY <2>1, <2>2, <2>3 DEF ResumeInv
<1>2. PunctualInv /\ ResumeInv /\ [WorkerNext]_vars => (PunctualInv /\ ResumeInv)'
  BY PunctualStepInv, ResumeStepInv
<1>3. PunctualInv /\ ResumeInv => ReviewResumed
  <2> SUFFICES ASSUME ResumeInv, NEW w \in Workers, Active(w), run[Job(w)] = "waiting_review"
               PROVE  /\ pc[w] \notin {"work", "commit"}
                      /\ ending[w] # "ok" =>
                           /\ held[w].attempts > 1
                           /\ (ending[w] = "cancelled" /\ CancelSeen(w)) \/ ending[w] = "failed"
    BY DEF ReviewResumed, ResumeInv, NoErrorYet
  <2>1. held[w].attempts \in Nat
    BY ActiveJob DEF ResumeInv, EvidenceInv, WorkerInv, ClaimedJob
  <2>2. ResumeOK(w)
    BY DEF ResumeInv
  <2>3. QED
    BY <2>1, <2>2 DEF ResumeOK
<1>4. QED
  BY <1>1, <1>2, <1>3, PunctualInitInv, PTL DEF WorkerSpec
=============================================================================
