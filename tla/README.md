# A verification model of Financial Evidence Lab

Financial Evidence Lab turns filings into reviewed financial facts and answers
questions from them. Workers fetch and ingest filings, extract proposals from
them in runs of fixed stages, and leave the proposals for people to review
through an API; the API also builds answers from an index of the corpus, and a
library calculates models over the approved values. Everything durable is in
PostgreSQL and a create-only object store. This directory models those parts as
state machines, checks them with TLC on small instances and proves with TLAPS,
for every instance, what matters most of most of them.

## Inventory

| Component | State | Operations | What is hard | Correct when | Module |
| --- | --- | --- | --- | --- | --- |
| Job queue (`workers/.../queue.py`) | status, attempts, lease, heartbeat, due time | enqueue, claim_one, heartbeat, complete, fail, dead_letter, cancel, reap_stale | stale claims that still write, attempts copied at the claim, reaping races beating | one owner, bounded delivery, one outcome | `JobLifecycle`, `JobQueue` |
| Consumer loop, heartbeat thread, workflow, run status (`consumer.py`, `extraction/handler.py`, `workflow*.py`, `persist*.py`, `runs.py`) | claim, thread, stage, run status, checkpoints, proposals, events | poll, claim, dispatch, bind, stage, fence, close, park, settle; create and cancel | crashes between two writes, two workers on one run, cancelling while a worker finishes | job, run and evidence agree; every job ends | `ExtractionWorker` |
| Stage execution (`workflow_checkpoint.py`, `persist_checkpoint.py`, `runner.py`, `budget.py`) | step rows, usage | load, verify, execute, flush, insert, repair, fail | damaged rows repaired next to a rival, usage lost to a crash | one answer per stage, caps bound the run | `StageExecution` |
| Event log and stream (`persist_events.py`, `events.py`, `routes_events.py`) | ids, commits, position | append, page, stream, resume | order of ids against order of commits, dropped connections | nothing skipped, streams complete | `EventStream` |
| Review API (`review.py`, `conflicts.py`, `approved.py`, `corrections.py`, `receipts.py`) | proposals, groups, approved versions, receipts | apply, correct, finish_review | lock order, stale versions, repeated requests | one record per proposal, no contradictions | `Review` |
| Normalisation and validators (`normalize*.py`, `validate/`, API `validation.py`) | rows, findings, conflicts | normalize, validate, revalidate at review | notation that hides a value, findings lost on the way to review | findings are real and survive | `Validation` |
| Calibration (`isotonic.py`) | samples, artifact | fit, predict, evaluate | ties, rounding, support | the isotonic fit | `Isotonic` |
| HTTP client and sources (`http.py`, `sec_client.py`, `discovery.py`, `fred.py`) | attempt, throttle, deadline | get, retry, redirect, read, enqueue | slow bodies, retries, redirects, revisions | limits kept, right vintage | `SourceFetch` |
| Ingestion (`pipeline.py`, `raw_store.py`, `xbrl.py`, `company_facts.py`) | ledger, documents, versions, facts, blobs | claim, put, record, parse, quarantine, commit | repeated and divergent deliveries, crashes | evidence immutable, links to earlier filings | `Ingestion` |
| Filing parsers and reader (`parser.py`, `company_facts.py`, API `reader.py`) | text, sections, spans, tables | one hook per tag, finish, serve | tags that do not nest | what is stored can be opened | `ParseFiling` |
| Index and corpus publication (`index_build.py`, `pipeline.py`) | versions, staged rows | create, resume, stage, flip, fail | overlapping flips, crashes | one complete active version | `Publication` |
| Retrieval API (`retrieval*.py`, `costs.py`) | runs, usage, receipts | admit, advance, complete, fail, replay, feedback | ceilings under concurrency, billing of failures | one effect, one bill, ceilings hold | `RetrievalRun` |
| Retrieval library (`lanes.py`, `fusion.py`, `generation.py`, `verification.py`, `item_builder.py`) | lane results, context, claims | build, search, fuse, generate, verify | lanes that fail, ties, numbers that nearly agree | answers are grounded | `Answer` |
| Reads (`pagination.py`, `reader.py`, `corpus.py`, `retrieval_reads.py`) | cursors, snapshots | page, follow, trace, stream | rows that change between statements | walks and traces whole | `EvidencePages`, `TraceReads`, `Reads` |
| Rate limit (`ratelimit.py`) | buckets | allow | clock read outside the lock, rounding, eviction | Retry-After suffices | `RateLimit` |
| Signing keys (`supabase_auth.py`) | cache, attempt, lock | verify, fetch | rotation against cache and failed fetches | rotation is followed | `KeyCache` |
| Migrations (`scripts/db/migrate.py`) | ledger, schema, lock | discover, plan, apply, baseline | overlapping deploys, edited files | schema is what the ledger says | `Migrations` |
| Worker process (`__main__.py`, `health.py`) | configuration, progress signal | gate, bind, turn, watchdog | hung loops, fabricated providers | kills only what hangs | `WorkerProcess` |
| Calculation engine (`packages/calculation-engine`) | snapshots, plan | build, overlay, evaluate | cycles, layered overlays, cutoffs | scenario is substitution, no look-ahead | `ModelGraph`, `Calculation` |
| Web, providers, ontology, contracts, evals, other scripts | none of their own | | | | not modelled |

The queue, workers, stage execution, event log and review share the tables of
one run: `ExtractionWorker` composes queue, workers and run; `StageExecution`
opens up one of its stages, `EventStream` its log, `Review` what follows it.
`PROJECT.json` lists every component with its files and status, and every hazard
at its line.

## Modules

**`JobLifecycle`** is what the queue promises: a job is submitted once,
delivered at most `MaxAttempts` times to one owner at a time, and ends exactly
once.

**`JobQueue`** is `queue.py`. One action is one SQL statement or one
transaction. `issued` remembers every `ClaimedJob` ever returned, and any of
them may be used for any fenced call at any time, so the module covers reaped
workers, late answers and heartbeat threads that outlive their handler. Time is
relative: `sinceBeat` is the age of `heartbeat_at`, `untilDue` the distance to
`available_at`. `max_attempts` is one constant; the idempotent repeat of
`enqueue` changes nothing and is a stuttering step. **`ExtractionWorkerProofs`**
begins with its theorems.

**`ExtractionWorker`** extends the queue with worker processes. `pc` follows
`run_worker` and the handler it calls; `beat` is the `LeaseHeartbeat` thread
(`lost` is the latched `lease_lost`, `dead` a failed connection); `run`, `ckpt`,
`persisted` and `log` are `extraction_runs.status`, the succeeded step rows, the
proposals and the lifecycle events. An extraction job's id is its run's id, so
runs are indexed by jobs. A step is one transaction with the in-memory checks
before it; the header says why a flag that changes between the check and the
write needs no step of its own. `Faults` selects what may go wrong: `crash`,
`beat` (a heartbeat connection fails), `pause` (a process stands still while the
clock runs), `read` (the status read fails), `bind` (the payload contradicts the
run). `Api` selects which calls clients make. Abstracted: what a stage computes,
step events, error messages. `PermanentFailure` is raised nowhere and left out;
`reap_interval_iterations` has its default 1. **`ExtractionWorkerProofs`** holds
the theorems about that composition.

**`StageExecution`** is one run's stages in detail: `Resume` verifies the row of
a stage, `Execute` marks it rejected with its row version, `CallModel` runs one
turn of `run_model_step` under the budget, `Flush` merges usage, and a commit is
`InsertRow`, `RepairRow` (compare-and-swap on the version it rejected) or
`Superseded`. An input stands for its `input_hash`, an output for its own hash.
Faults: crashes, lost leases, an overlapping delivery, rows damaged from outside,
cancellation. The wall-clock cap is left out; the token caps are tested in the
same places and the same way as the cost cap.

**`EventStream`**: writers draw ids from a sequence and commit in any order that
the run's row lock allows; a stream reads pages after the last id sent, a client
reconnects after the last id it got, gives up after `Reconnects` fruitless tries,
and closes when the run has ended and nothing is left. **`Review`** is
`review.apply` and `corrections.apply` as concurrent requests, next to persist
stages that write proposals and groups. `pc` follows a request's transaction from
the receipt lock through the run locks and the group locks, with the discovery
repeated after each, to the decision. `cmd` is the command with what its client
had read when it sent it; `Resend` repeats one under its key. At `decide`
everything read is locked, so checks and writes are one step. A payload is the
fact it is about and its value. Roles, size limits, evidence bytes, audit rows
are left out: a request may be refused at the decision for any of them. A reject
may name a rejected proposal as its group's winner, as in `decisions_for`; the
group is then resolved without an approved record. A run that persisted no
proposal abstains and succeeds at once (`OpenReview`); the runs' instances have
none, the proofs cover it.

**`Validation`**: a batch is drawn from a list of raw proposals chosen so that
scales, suffixes, parentheses, percents, qualifiers, duplicates and identities
meet. `Normalize` and `Validate` are the worker's stages, `ReviewRow` the API's
second look at the rows as they were persisted. A magnitude is a mantissa and a
decimal scale, counted in units of `10^(-Decimals)` so that a declared exponent below
zero stays an integer; `Decimals` is the bound on how far below. A rejected row keeps
the text the model wrote, which is no decimal when it spells a magnitude. A KPI whose
metric the ontology lacks (revenue, cost of revenue and gross profit are such) carries
a finding for that, has no comparability key and is a peer of every row at review.
**`Isotonic`** compares pooling with the max-min formula of an isotonic fit; a ratio is a multiple of `1/Quant`, rounded half to even as the
code rounds to twelve places.

**`SourceFetch`**: one GET with attempts, hops, chunks and the throttle, by the
client of the job's kind, each with its own hosts, redirect policy and time of last
request, and what discovery and the FRED client make of the body; a transport error
may come before the answer or in the middle of it. **`Ingestion`**: a call is a
transaction of several statements, blobs outlive a rollback, and calls run side
by side. The entity is part of the job's key and not of the document's, so a second
registrant's call for the same bytes is a job of its own, which the unique key of
`document_versions` refuses. **`ParseFiling`**: the tags of a document arrive one at a time in any
order; a word is one character, since only offsets matter; a table is known by
its number of rows and whether it has a header row, a row by its cells being `th`
only, `td` too or none (a first row without cells is overwritten by the next header
row and is not counted); `Serve` is the reader refusing spans outside their sections. **`Publication`**: staging statement by
statement, the flip as two updates under READ COMMITTED; a builder that does not activate
publishes with the second alone. The run lets the builders of one kind begin at a
time (`OneKindMade`): the two kinds share no row.

**`RetrievalRun`**: admission under the organisation's lock, the pipeline in its
own transaction, the failure record in a fresh one, replays by idempotency key,
and feedback; `charged` is what the provider reported and `paid` what the code
knows of it. **`TraceReads`**: the trace endpoint statement by statement in its
snapshot, and the replaying stream. **`EvidencePages`**: a client that walks pages
both ways while rows come, go and are parsed again. **`Reads`** is the two side by
side. **`Ordering`** is ORDER BY: a row's place is one more than the number of rows
before it, a form the provers can reason about; `MCServices` assumes that it agrees
with the library's `SetToSortSeq`, which TLC evaluates. **`RateLimit`**: threads read
the clock, then take the lock; tokens are in parts so that rates below one a
second are exact. **`KeyCache`**: threads that use the snapshot, wait, fetch and
fail, while the provider (external) rotates. **`Migrations`**: appliers on their
own checkouts, in the four modes, killed at any point, with files edited under
them. **`WorkerProcess`**: the start-up gates over every configuration, then the
loop, bounded by `--max-iterations` or not, the heartbeat thread and the watchdog
in time. A database error that nothing catches ends the process with the
watchdog's status 1, so the watchdog's victims have a phase of their own, `killed`.

**`ModelGraph`** has the graph's algorithms as operators (Kahn's order with a
heap, the iterative traversals, components, the plan); **`Calculation`** builds
every model over its ids, lays scenarios over it and evaluates. **`Answer`** takes
a question through items, lanes that answer in any order or fail, fusion,
context, generation and verification. A fusion score is a whole number of
`1/RrfUnit`: 10^12 in the code, 10^8 in the run because TLC's integers have 32 bits;
the theorem holds for any unit fine enough to tell the ranks of a `top_k` apart.
The index pin and the cutoff are unconditional; `Filters` has a set of values for each
other column the plan restricts. The run gives entity, forms and corpus version: the
application never names documents, and a filter on periods would leave facts alone.

**`MCExtractionWorker`**, **`MCWorkers`**, **`MCFailures`**, **`MCReview`**, **`MCServices`**,
**`MCEvidence`** give the constants. The last two, and `MCFailures`, put modules
without common state into one run: `part` names the one that runs and the others
keep one initial state, so a run is the sum of its parts and not their product.
In `MCWorkers` the parts are the jobs that clients enqueue.
Definitions commented `Mutant` are plausible bugs; no specification uses them.
Substituting each for its original makes TLC report the property `PROJECT.json`
names with it.

## Runs

| Run | Instance | Shows |
| --- | --- | --- |
| `worker_failures` | 2 workers, 1 extraction job, 3 stages, crashes, failed reads, bad payloads; 2 writers, 4 events, pages of 2, 2 dropped connections | the last event names the run's status (`TerminalEventLast`); a live worker is never reaped (`HealthyNeverReaped`); a run under review comes back only after a crash, and then without any work on it (`ReviewResumed`); every job ends (`EveryJobEnds`); a client gets every event in order (`NothingSkipped`) and its stream completes (`StreamCompletes`) |
| `worker_zombies` | 2 workers, 3 stages, all faults; an extraction, or an ingestion and an unsupported job, or one attempt each of an extraction and an ingestion | the workers' steps, zombies' included, are queue steps (`QueueSpec`); one claim can write a running job (`SingleOwner`); the queue implements `JobLifecycle`; jobs end to match their runs (`JobMatchesRun`); outcome, checkpoints and proposals agree (`EvidenceAgrees`); no illegal transition is asked for (`RunTransitionsLegal`) |
| `review_run` | 1 run, a contradictory pair, 3 requests, 3 keys | at most one record per proposal; approved values never contradict; a run ends exactly with its last decision; repetitions get the first answer |
| `review_shared` | 2 runs sharing a group, 2 requests | requests decide with all they depend on locked and never wait in a circle (`LockingIsSound`); no contradictory proposal without its group; a resolved group is final |
| `review_crossed` | 2 groups written and locked in opposite orders | every request is answered, deadlocks and restarts included |
| `services` | see below | see below |
| `evidence` | see below | see below |

`services`, part by part: **stages** (2 workers, 3 stages one of which calls the
model and one is skipped, 3 deliveries, one damaged row) - a verified row is never
replaced by another answer (`GoodCheckpointKept`), a run's stages form one chain
of answers (`OneAnswerPerStage`), deliveries one after another make no more calls
than the cap and overshoot the cost by less than a call, but for what a crash kept
from being recorded (`BudgetHolds`). **retrieval** (a query sent
twice, a rerun, another user's feedback, both calendar boundaries) -
`CeilingsHold`, `OneEffectOneBill`. **limiter** (2 threads, 2 buckets, eviction) -
`RetryAfterSuffices`. **pages** and **traces** - `ReadsAreSound`: no row that stayed
is missed or shown twice, all pages of a walk are read at one cutoff and version,
a trace is one moment's, a replay has every event once. **keys** (2 threads, a
rotation) - `RotationIsFollowed`. **migrations** (2 deploys on four checkouts, one
of which fails and one of which rewrote history, one edit) -
`SchemaFollowsLedger`. **process** (every configuration) - `ProcessIsHonest`:
fabricated data only where the operator asked for it, and the watchdog ends
exactly the processes that made no progress.

`evidence`, part by part: **sources** - attempts, spacing, hosts, bytes and time
stay within their limits, discovery loses no filing and a vintage is what was
known on its day (`SourcesUsedAsPromised`). **ingestion** (9 calls of which any 3
begin) - `EvidenceIsFaithful`: versions never change under their hash, restatement
links point to a filing of the same entity published strictly earlier. **parsing** (documents of up to 5 tags)
- `ParseIsReadable`. **publication** (6 builders on 4 versions) -
`OneCompleteVersion`. **validation** (batches of 3) - `NotationHidesNothing`,
`ReviewSeesTheFindings`. **calibration** (up to 6 samples on 4 scores) -
`CalibrationIsSound`. **calculation** (all models of 3 nodes, 2 scenarios) -
`PlanIsSound` against the definition of a cycle and of dependency order,
`ResultsAreSound`: a scenario's result is that of the model with the value put in
its place, and nothing later than the cutoff is used. **answer** - `AnswerIsSound`:
every rendered claim rests on evidence in the context that covers it and agrees
with its numbers, and fusion treats lanes alike.

**Bounds.** Two attempts are the least with a redelivery and an exhaustion, two
workers an owner and a zombie, three stages a model stage, a stage between and a
persist stage. Leases number attempts times jobs. `StaleTicks = 2` lets a beat be
a tick late; the zombie run uses 1. Three review requests are the least that
approve both members of a pair and then correct one. A token bucket of less than
two tokens with a rate that does not divide a token makes rounding matter; key
life, pause and fetch time keep the order of the code's five minutes, thirty
seconds and one second, not their proportions. A page walk of three pages over four keys turns round
once. Three nodes are the least with a cycle that has a way in and a way out. Each
bound is a named constant with a comment in the module that declares it. Leases,
workers and model answers are interchangeable, so safety runs use symmetry over
them; runs with liveness properties use none. `CHECK_DEADLOCK FALSE` stands where
the parts come to an end (requests answered, documents read, streams closed).

**Fairness.** Weak fairness of each worker's loop, of its heartbeat thread and of
the clock: `run_worker` is an unconditional loop, the thread waits a bounded
time, and a crashed worker is restarted by its supervisor. Clients, reviewers and
faults are never forced. `late` makes a process that runs punctual: unless `pause`
is among the faults the clock does not pass a second tick before each running
worker has beaten, or acted where it has no heartbeat thread. `EventStream`
assumes that server and client together do not stop while one of them can go on
(`WF(Follow)`); writers are not forced, and `StreamCompletes` is about runs that
have ended. `review_crossed` assumes only that the server and the database do not
stop while a transaction can go on or a deadlock can be broken
(`WF_vars(ServerStep)`); PostgreSQL's lock queues give more.

## What the code does otherwise than its documents say

Five runs look for a violation of what a document or a comment says and find one;
`PROJECT.json` quotes the lines.

- `cancellation`: a job reaped on its last attempt leaves its run open, so a
  cancellation requested for it never completes.
- `terminal_agreement`: a run succeeds and the deliveries that should complete its
  job die before they do; `reap_stale` then fails the exhausted job without looking
  at the run. `JobMatchesRun`, which holds, leaves this case open.
- `checkpoint_repair`: a damaged stage executed again with another output makes
  the next stage collide with its own old row; the attempt ends as superseded
  though nobody else works on the run.
- `unbilled_generation`: a proposed number with an illegal scale ends the run by
  a `ValueError` past the handler that carries the usage, and the spend is
  recorded as zero.
- `identity_at_review`: a row withheld from the accounting identity in the worker
  takes part in it at review and can hide the broken identity of its siblings.

Seen while modelling and not given a run:

- Cancelling a `waiting_review` run while its worker is about to complete the job
  gives a cancelled run with a succeeded job (`runs.py:325`;
  `docs/architecture/system-design.md:561-562`).
- After a heartbeat connection failure `lease_check` stays true, so a reaped worker
  may still commit a stage (`consumer.py:134`; `system-design.md:381-384`). What
  keeps the evidence whole then is the success key (`EvidenceAgrees`).
- `migrate.py` records the checksum it read at discovery and executes the text it
  reads at apply; `SchemaFollowsLedger` excepts files edited in between.
  `ensure_ledger` runs before the lock.
- `_mark_duplicates` leaves `ok` true on a row it gives a blocker.
- A fact or paragraph inside a heading makes a document the reader refuses, and an
  unclosed `<p>` loses its text as a paragraph.
- `job_key` says that byte-identical filings under a second entity "each produces its
  own document + version rows" (`pipeline.py:81-83`). Under one accession they share
  the document, so the second call violates the unique key of `document_versions` and
  raises. Discovery's job key is the accession alone, which makes it rare.
- Redirect hops are not throttled, and an empty body is not checked against the
  deadline.

## Proofs

Eight modules hold the theorems; `PROJECT.json` lists those a reader should know.
All but one are about components; **`CollectionProofs`** has what they share about
finite collections: the least and the greatest of a set of naturals (from the
well-foundedness of `<`), induction over naturals and over subsets stated of sets
instead of predicates, sums over a set in any order, and that sorting by rank gives
every element once and in order.
Each is proved from an inductive invariant that TLC checked first on the instances
above. A theorem holds for every value of the constants that satisfies the module's
named assumption; those say that limits are naturals, that functions have the
domains their names promise and that "none" is no value, and where they say more it
is noted below.

**`ExtractionWorkerProofs`**, of the queue, for all jobs, leases and limits:

- `QueueTyping`, `LeaseFencing`, `RetryBudget`: `QueueTypeOK`, `SingleOwner`
  and `AttemptsAccounted` are invariants of `QueueSpec`. Their conjunction
  `QueueInv` is inductive. `AttemptsAccounted` alone is not: that a failed claim
  requeues a job with an attempt left needs `SingleOwner`, because `fail()`
  decides from the claim's copy of `attempts`.
- `QueueRefinesLifecycle`: every step of the queue is a step of `JobLifecycle`
  or leaves it unchanged.

And of the workers, for all workers, stages, faults and API calls as well
(`WorkerAssumption`: at least two stages):

- `WorkerTyping`, `WorkersUseQueue`: the composition is well typed and implements
  `QueueSpec`, so the queue's theorems hold of the whole system. The argument
  is the invariant `ClaimsHeld`: whoever is in the middle of a job, or has a
  heartbeat thread, holds a claim that the queue issued.
- `LegalRuns`: `RunTransitionsLegal`. A worker past binding must know that its
  run has left `queued`, which is what `HandlerOK` says of every position of the
  handler; it survives other workers because `LegalMoves` only go forward.
- `JobsMatchRuns`: `JobMatchesRun`. From `HandlerOK` (a handler that returns left
  its run in the state its verdict names) and `QueueInv` (`fail()` requeues
  unless no attempt is left).
- `EvidenceHolds`: `EvidenceAgrees`. The strengthening `EvidenceInv` says that all
  checkpoints of a run carry the output that won stage 1 (`RunEvidence`), and
  that each worker past stage 1 carries that output too (`WorkerEvidence`). It is
  stable because evidence is never undone (`EvidenceGrows`).
- `HealthyKeepLeases`, `EventsNameStatus`: `HealthyNeverReaped` and
  `TerminalEventLast`, on the assumption `Punctual`: the fault set has neither
  pauses nor failing beats, and a heartbeat is not stale
  before it is more than two ticks old. Crashes, retries, cancellations and reaping stay. `LeaseKept` bounds the
  age of a worker's heartbeat at each position of its handler, so its row is neither
  due nor stale and nobody else claims it (`OneHolder`); hence no event comes between
  a worker's last event and the status it names (`EventPending`). Without
  `Punctual` the first is false, as a paused process shows.
- `ReviewsKept`: without crashes and with `Punctual`, a run under review is ended by
  the API alone (`ReviewKept`, stated for this theorem only). A run waits for review
  while its worker is about to complete the job or after it has (`ReviewHandedOver`),
  so no worker binds it again. After a crash between these two steps a
  redelivery reaches the run, which is why the assumption is there.
- `ReviewsResumed`: `ReviewResumed`, on `Punctual` alone. Succeeded stages have no gap
  (`StagesInOrder`) and a run under review has all of them, so a redelivery finds every
  stage it asks for and only its boundary checks can end the run (`ResumeOK`); on the
  first delivery no worker is left on the run but the one that sent it to review, and
  that one fails no job it handed over (`NoErrorYet`).

**`StageProofs`**, of `StageExecution` for any workers, stages, answers, caps and
faults (`StageAssumption`: a call has finitely many possible costs) and of
`Validation` for any vocabulary of raw proposals and batch. `StageSpecInv` is the
invariant of the former; none of the next three results is inductive without it.

- `StageSpecKeepsCheckpoints`: `GoodCheckpointKept`. A repair spares a good row
  because the row version its worker remembers is one it saw damaged
  (`TokensAreOfDamage`) and versions are never reused.
- `StageSpecOneAnswer`: `OneAnswerPerStage`. All rows and workers lie on one path
  of inputs (`OnePath`), which a commit can prolong because nothing has been
  reached beyond a stage without a row (`StagesInOrder`).
- `StageSpecBudget`: `BudgetHolds`. Without rivals a worker's budget is what is
  recorded plus what it has yet to flush (`BudgetAccounts`).
- `ValSpecFlags`: `NotationHidesNothing`. The invariant (`ValInv`) only says what was
  computed from what; the argument is about the rules. Reconciling scales keeps every
  amount (`ReconciledKeeps`, by `Pow10[a + b] = Pow10[a] * Pow10[b]`), so a margin above
  100 is one after it; a row that normalising impugned in nothing that concerns its
  number is a plain decimal, so the only clean figure of a slice is its sole fact
  (`SolesAre`); and the fingerprints of two rows differ just when some number of one,
  brought to the exponent of the other, does (`PrintsDiffer`).
- `ValSpecReviewed`: `ReviewSeesTheFindings`. Normalising what was normalised changes
  nothing but the findings (`NormalizedAgain`), so the same rules are broken again
  (`SameRules`). Every check over a batch comes to the same for a row among the rows of
  its metric's family as among all (`RpoPicked`, `GrossProfitPicked`, `SegmentsPicked`,
  `FindingsPicked`): the rows of another metric are in no slice, identity or group with
  it, and the position of a row in the request does not matter, not even to the sum of
  the segments (`TotalRenamed`).
  `ValidationAssumption` says that `SCALE_MAX` (12 in the code) is at least 2, so a
  larger exponent makes any positive margin one above 100.

**`ReviewProofs`**, for any runs, groups, proposals, requests and keys
(`ReviewAssumption`: proposals and requests in progress are finite in number, and the
worker's conflict detection puts proposals of one run on one fact into one group). The
invariant of `ReviewSpecInv` says who holds which locks (`HeldByWorkers`,
`HeldByCalls`: a request's locks are below all it has yet to take), what is visible
when (`PersistedRows`), and `LocksStillCover`: between its last look and its
decision, nothing a request depends on can change, because whoever could add a
member, a record or a pin needs one of the locks it holds. For corrections, which do
not look a third time, that must hold from the run locks on.

- `ReviewSpecLocking`: `LockingIsSound`. No circle of requests: the one waiting for
  the greatest group (or, if none waits for a group, run) waits for one that holds it
  and hence waits for something greater or for nothing; a request waiting for its
  receipt key holds nothing. Circles with workers are possible and are broken by the
  database, which is the liveness run `review_crossed`.
- `ReviewSpecOneRecord`, `ReviewSpecGrouped`, `ReviewSpecSucceeds`:
  `OneRecordPerProposal`, `ContradictionsGrouped` and `SucceededIffReviewed`; the
  last from `RunsFollowReviews` and `DecidedIsSettled` (a decided proposal's groups
  are resolved).
- `ReviewSpecAgree`: `ApprovalsAgree`. The records a decision compares itself with
  belong to runs it has locked, because `expand_runs` closes the runs over shared
  facts. An approved record that shares a fact with a selected one lies in a resolved
  group and repeats the winner that the group recorded; a correction is alone on its
  fact.
- `ReviewSpecFinal`, `ReviewSpecReplay`: the action properties `AdjudicationFinal`
  and `ReplayExact`. A worker commits only under locks of groups that were open
  when it locked them; a key that anyone holds has not been used.

**`RequestProofs`**:

- `KeySpecFollowsRotation`: `RotationIsFollowed` for any threads and rotations, from
  `FetchIsLocked`, `CacheIsRecent` and `CacheLacksOnlyNewer`. It assumes that a
  fetch takes less time than the pause between two (`KeyAssumption`; one second
  against thirty in the code).
- `LimiterSpecRetryAfter`: `RetryAfterSuffices`, from `RefillCoversPromise`: by the
  promised time the bucket has refilled to a token, rounding up included, also when
  a thread that read the clock earlier takes the lock later. It assumes a burst of at
  least one token, which the code enforces with `max`.
- `RetrievalSpecOneEffectOneBill`: `OneEffectOneBill`, from what the receipts say of
  runs and feedback (`KeysRecordEffects`) and of usage (`UsageFollowsRuns`).
- `RetrievalSpecCeilings`: `CeilingsHold` for any requests, costs and ceilings
  (`RetrievalAssumption`: requests are finite in number). Only the holder of the
  organisation's lock is being admitted. The invariant (`CeilingInv`) counts a run at
  its reservation until it is settled for no more, so the room that the holder was
  told of is still there when it inserts its run.
- `StreamSpecSkipsNothing`: `NothingSkipped` for any writers, page size and dropped
  connections. Only the holder of the run's lock has uncommitted events, and their
  ids are above every committed one (`LockOrdersIds`); so a page has no gap below its
  last row (`PageHasNoGap`), and what is on the wire is all there is between the
  client's id and the server's.

**`OperationsProofs`**:

- `MigrationSpecFollowsLedger`: `SchemaFollowsLedger` for any deploys, checkouts,
  kills and edits. Only the holder of the advisory lock plans and applies, and its
  plan is still what is missing from the ledger.
- `ProcessSpecHonest`: `ProcessIsHonest` for every configuration and timing.
- `ReadsSpecSound`: `ReadsAreSound` for any keys, page sizes, changes between pages,
  traces and dropped connections. A cursor fits the walk that holds it (`CursorFits`):
  its anchor was shown, and every row that was there all along is under its high-water
  key and cutoff. Shown rows leave no gap among those (`NoGap`), because a page is the
  next rows in order after the anchor; so a last page has shown all of them.

**`EvidenceProofs`**: `PublicationSpecComplete`, `OneCompleteVersion` for any
builders and versions. A publisher past the unique index is alone with its kind and
demotes all that is active of it (`FlipsAreGuarded`); what a builder has counted is
staged (`BuildsAreCounted`). And of the sources of evidence:

- `IngestSpecFaithful`: `EvidenceIsFaithful` for any calls, filings, bytes and
  parsers. Two calls never work on one job and one call at most has inserted a
  document row (`CallsApart`), so a version's bytes are its document's (`VersionOK`),
  a parse has one version (`OneVersionPerParse`) and the ledger says succeeded
  exactly of what is stored (`LedgerMatches`). `RestatesIn` says of a link what
  `RestatesEarlierFiling` does; it survives because versions are only added.
- `FetchSpecAsPromised`: `SourcesUsedAsPromised` for any hosts, limits, delays,
  chunk sizes and answers. Attempts are counted by the job (`FetchAttempts`) and
  timed by the clock (`FetchClock`); bytes in hand came in time, and
  what is left of a listing is what has no fetch job yet (`FetchBody`).
  `FetchAssumption` says that the limits, delays and release times are naturals.
- `AnsSpecSound`: `AnswerIsSound` for any corpus, plan, scores and model output. What
  is searched, fused and selected is drawn from verified sources under the plan's
  pins and filters, without repetition (`AnsInv`). Of the sources with one provenance
  exactly one survives, the least by best rank and id; a term of the score falls
  strictly with the rank as long as `top_k` is at most 100 (`AnswerAssumption`), so an
  item that beats another in all its lanes has the greater sum.

**`ParseFilingProofs`**: `ParseSpecReadable`, `ParseIsReadable` for any vocabulary,
heading levels and length of document. A section's end is where the next one starts,
which is not known when a span is filed under it. What is known (`FilingWalk`):
sections start in the order of their numbers and a heading being read starts after
them all, a closed range ends before whatever comes next, and an open one starts in
the last section while no heading is read. A payload's observations lie in the
concept being rendered, which becomes the section whose number they took
(`PayloadWalk`). From these every trimmed range lies in its section, and the first
fact of each range, in document order, has a span. Tables keep their rows because
the sum over the open and closed ones is the number of rows ended (`RowsKept`).
`ParseAssumption` says that a payload has no tags of a filing.

**Only model-checked:**

- Liveness (`EveryJobEnds`, `StreamCompletes`, `EveryRequestAnswered`), which is out
  of this prover's reach.
- `PlanIsSound`, `ResultsAreSound`, `CalibrationIsSound`: results of loops over a
  graph and over pooled blocks. What such a loop computes for every input needs
  induction over data, which is out of reach as well, and `ModelGraph` is written
  with recursive operators.

## Not modelled

- `ingestion/market.py` (a reader of price files), the field-by-field mapping of
  XBRL contexts and units, prompts, evidence contexts and chunk texts: data
  without control.
- Token claims, row level security and roles: behaviour of libraries and of
  PostgreSQL's policies, which the models take as the tenant they are in.
- Providers, ontology tables and generated contracts: wrappers and constants. Mock
  providers appear in `WorkerProcess` as the thing a worker must not bind unasked.
- The evaluation harness and `retrieval-evals`: sequential offline programs that
  read the system and report on it. They are a large share of the Python files.
- The web application, in TypeScript: it keeps no durable state, and what it sends
  is the input of the modules above.
- Scripts other than `migrate.py`, and infrastructure.
- Formula parsing, units, rounding modes and the canonical encoding of the
  calculation engine; workspace creation; redaction.
