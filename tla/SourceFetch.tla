----------------------------- MODULE SourceFetch -----------------------------
(* Reading the outside sources: the throttled, retrying HTTP client           *)
(* (workers/src/fel_workers/http.py) and what its callers do with a body      *)
(* (ingestion/sec_client.py, discovery.py, fred.py).                          *)
(*                                                                            *)
(* A job of one of two kinds makes one GET with the client of its kind        *)
(* (LiveSecClient, LiveFredClient) and interprets the answer. Jobs are        *)
(* delivered again after a crash or a failure; the clock and the clients'     *)
(* throttles go on. Time is counted in ticks and a day has DayLength of them;  *)
(* sources revise what they publish as time passes. Contents of the receipt,  *)
(* headers and the redaction of secrets in error texts are left out.          *)
EXTENDS Integers, Sequences, FiniteSets, FiniteSetsExt

CONSTANTS
    Fetches, JobKind,  \* the jobs; "discovery" or "vintage"
    AsOf,              \* per job: cutoff of a vintage, in ticks
    FirstHost,         \* host of the URL a job was given
    Hosts,
    AllowedHosts, FollowRedirects,   \* per client
    MaxRetries, MaxRedirects, MinInterval, RetryBase,
    Deadline, MaxBytes,
    Delays,            \* ticks one exchange may take
    ChunkSizes,        \* sizes of what one read returns
    DayLength,
    Releases,          \* times at which the source publishes revision 1, 2, ...
    MaxNow, MaxDeliveries

JobKinds == {"discovery", "vintage"}

ASSUME FetchAssumption ==
    /\ MaxRetries \in Nat /\ MaxRedirects \in Nat /\ MinInterval \in Nat
    /\ Deadline \in Nat \ {0} /\ MaxBytes \in Nat \ {0}
    /\ JobKind \in [Fetches -> JobKinds]
    /\ \A k \in JobKinds :
          AllowedHosts[k] \subseteq Hosts /\ AllowedHosts[k] # {} /\ FollowRedirects[k] \in BOOLEAN
    /\ Delays \subseteq Nat /\ ChunkSizes \subseteq Nat \ {0}
    /\ RetryBase \in Nat /\ DayLength \in Nat \ {0}
    /\ Releases \in Seq(Nat) /\ AsOf \in [Fetches -> Nat]

VARIABLES
    now,           \* time.monotonic()
    job,           \* the job being worked on and where its GET stands
    lastRequestAt, \* per client
    opened,        \* history: attempts of this delivery, by the time they began
    contacted,     \* history: hosts that were sent a request, as <<client, host>>
    fetched,       \* accessions that have a fetch job
    results,       \* what finished jobs made of their answers
    deliveries

fetchVars == <<now, job, lastRequestAt, opened, contacted, fetched, results, deliveries>>

NoFetch == [pc |-> "idle", of |-> 0, attempt |-> 0, hop |-> 0, host |-> "none", started |-> 0,
         size |-> 0, read |-> 0, revision |-> 0, left |-> {}]

FetchInit ==
    /\ now = 0 /\ job = NoFetch /\ lastRequestAt = [k \in JobKinds |-> -MinInterval]
    /\ opened = <<>> /\ contacted = {} /\ fetched = {} /\ results = {} /\ deliveries = 0

\* Revisions published by a time: accessions filed, vintages of a series.
PublishedBy(t) == {r \in DOMAIN Releases : Releases[r] <= t}
Newest(S) == Max(S \cup {0})

Day(t) == t \div DayLength

(* ------------------------------ one request ------------------------------ *)
Deliver(j) ==
    /\ job.pc = "idle" /\ deliveries < MaxDeliveries
    /\ \A r \in results : r.job # j
    /\ job' = [NoFetch EXCEPT !.pc = "waiting", !.of = j, !.host = FirstHost[j]]
    /\ deliveries' = deliveries + 1 /\ opened' = <<>>
    /\ UNCHANGED <<now, lastRequestAt, contacted, fetched, results>>

RetryDelay(attempt) == IF attempt = 0 THEN 0 ELSE RetryBase * 2^(attempt - 1)

\* The client that does the job.
Client == JobKind[job.of]

\* The throttle looks at the clock before the backoff has been slept.
ThrottleFirstMutant(attempt) == Max({lastRequestAt[Client] + MinInterval, now})

\* get_with_receipt: the backoff is slept, then what _throttle adds.
AttemptAt(attempt) == Max({lastRequestAt[Client] + MinInterval, now + RetryDelay(attempt)})

BeginAttempt ==
    /\ job.pc = "waiting" /\ AttemptAt(job.attempt) <= MaxNow
    /\ now' = AttemptAt(job.attempt) /\ lastRequestAt' = [lastRequestAt EXCEPT ![Client] = now']
    /\ opened' = Append(opened, now')
    /\ job' = [job EXCEPT !.pc = "sending", !.started = now', !.hop = 0,
                          !.host = FirstHost[job.of], !.size = 0]
    /\ UNCHANGED <<contacted, fetched, results, deliveries>>

\* The next attempt, or the error of the last one.
Again == IF job.attempt < MaxRetries THEN [job EXCEPT !.attempt = @ + 1, !.pc = "waiting"]
         ELSE [job EXCEPT !.pc = "failed"]

\* _check_destination runs on every hop.
MayContact == job.host \in AllowedHosts[Client]

SendHop ==
    /\ job.pc = "sending"
    /\ IF MayContact
         THEN job' = [job EXCEPT !.pc = "replying"] /\ contacted' = contacted \cup {<<Client, job.host>>}
         ELSE job' = [job EXCEPT !.pc = "failed"] /\ UNCHANGED contacted
    /\ UNCHANGED <<now, lastRequestAt, opened, fetched, results, deliveries>>

Late(t) == t - job.started > Deadline

\* The reply: no answer or a retryable status, another error status, a redirect
\* that is or is not followed, or a body that begins to arrive.
Reply(d) ==
    /\ job.pc = "replying" /\ now + d <= MaxNow
    /\ now' = now + d
    /\ \/ job' = Again
       \/ job' = [job EXCEPT !.pc = "failed"]
       \/ \E h \in Hosts :
            job' = IF ~FollowRedirects[Client] THEN [job EXCEPT !.pc = "failed"]
                   ELSE IF Late(now') THEN Again
                   ELSE IF job.hop = MaxRedirects THEN [job EXCEPT !.pc = "failed"]
                   ELSE [job EXCEPT !.pc = "sending", !.hop = @ + 1, !.host = h]
       \/ job' = [job EXCEPT !.pc = "reading", !.revision = Newest(PublishedBy(now'))]
    /\ UNCHANGED <<lastRequestAt, opened, contacted, fetched, results, deliveries>>

\* One chunk of _read_bounded: the deadline, then the cap on decoded bytes.
ReadChunk(d, n) ==
    /\ job.pc = "reading" /\ now + d <= MaxNow
    /\ now' = now + d
    /\ job' = IF Late(now') THEN Again
              ELSE IF job.size + n > MaxBytes THEN [job EXCEPT !.pc = "failed"]
              ELSE [job EXCEPT !.size = @ + n, !.read = now']
    /\ UNCHANGED <<lastRequestAt, opened, contacted, fetched, results, deliveries>>

\* A transport error in the middle of a body: the attempt is retried.
BreakBody(d) ==
    /\ job.pc = "reading" /\ now + d <= MaxNow
    /\ now' = now + d /\ job' = Again
    /\ UNCHANGED <<lastRequestAt, opened, contacted, fetched, results, deliveries>>

\* An empty body is no payload; its deadline was never looked at.
EndBody ==
    /\ job.pc = "reading"
    /\ job' = [job EXCEPT !.pc = IF job.size = 0 THEN "failed" ELSE "parsing",
                 !.left = IF JobKind[job.of] = "discovery" THEN 1 .. job.revision ELSE {}]
    /\ UNCHANGED <<now, lastRequestAt, opened, contacted, fetched, results, deliveries>>

(* ----------------------------- the two callers --------------------------- *)
\* The payload is no JSON, misses a field, repeats a date.
Unparseable ==
    /\ job.pc = "parsing" /\ job' = [job EXCEPT !.pc = "failed"]
    /\ UNCHANGED <<now, lastRequestAt, opened, contacted, fetched, results, deliveries>>

\* run_discovery_job enqueues one by one, each insert committed by itself; the
\* idempotency key of a fetch job is its accession.
EnqueueFetch(a) ==
    /\ job.pc = "parsing" /\ a \in job.left
    /\ fetched' = fetched \cup {a}
    /\ job' = [job EXCEPT !.left = @ \ {a}]
    /\ UNCHANGED <<now, lastRequestAt, opened, contacted, results, deliveries>>

\* vintage_cutoff_date: the last whole UTC day at the cutoff.
VintageDay(asOf) == Day(asOf) - 1

\* What ALFRED knew on a day: revisions published by its end.
VintageOf(asOf) == Newest({r \in PublishedBy(now) : Day(Releases[r]) <= VintageDay(asOf)})

FinishFetch ==
    /\ job.pc = "parsing" /\ job.left = {}
    /\ results' = results \cup
         {[job |-> job.of, attempts |-> job.attempt + 1, at |-> now, size |-> job.size,
           took |-> job.read - job.started,
           revision |-> IF JobKind[job.of] = "vintage" THEN VintageOf(AsOf[job.of])
                        ELSE job.revision]}
    /\ job' = NoFetch
    /\ UNCHANGED <<now, lastRequestAt, opened, contacted, fetched, deliveries>>

\* HttpRequestError reaches the job, which the queue delivers again.
GiveUp ==
    /\ job.pc = "failed" /\ job' = NoFetch
    /\ UNCHANGED <<now, lastRequestAt, opened, contacted, fetched, results, deliveries>>

CrashFetch ==
    /\ job.pc # "idle" /\ job' = NoFetch
    /\ UNCHANGED <<now, lastRequestAt, opened, contacted, fetched, results, deliveries>>

FetchNext ==
    \/ \E j \in Fetches : Deliver(j)
    \/ BeginAttempt \/ SendHop
    \/ \E d \in Delays : Reply(d) \/ BreakBody(d) \/ \E n \in ChunkSizes : ReadChunk(d, n)
    \/ EndBody \/ Unparseable \/ FinishFetch \/ GiveUp \/ CrashFetch
    \/ \E a \in DOMAIN Releases : EnqueueFetch(a)

(* ------------------------------- properties ------------------------------- *)
\* A source is used as promised whatever it answers: no host outside the
\* list of the job's client is contacted, by redirect either; the attempts of a request are an
\* interval apart and further with every retry; a body that is used is complete,
\* within the cap, and was read within the deadline of one attempt
\* (ThrottledRetryingClient).
FetchIsBounded ==
    /\ \A c \in contacted : c[2] \in AllowedHosts[c[1]]
    /\ Len(opened) <= MaxRetries + 1
    /\ \A i \in 1 .. Len(opened) - 1 :
          opened[i + 1] - opened[i] >= Max({MinInterval, RetryDelay(i)})
    /\ \A r \in results : r.size \in 1 .. MaxBytes /\ r.took <= Deadline
                            /\ r.attempts <= MaxRetries + 1

\* What a job took from a source is neither ahead of its cutoff nor short of the
\* listing: a vintage has no revision published after the cutoff, and a finished
\* discovery has left a fetch job for each filing that was listed when
\* the source answered, however often it died half-way (vintage_cutoff_date,
\* run_discovery_job).
SourcesReadFaithfully ==
    /\ \A r \in results : JobKind[r.job] = "vintage" /\ r.revision # 0 =>
          Releases[r.revision] < AsOf[r.job]
    /\ \A r \in results : JobKind[r.job] = "discovery" =>
          1 .. r.revision \subseteq fetched

\* Both together: what the outside sources were asked for, and what was made of
\* their answers, stay within what the client and its callers promise.
SourcesUsedAsPromised == FetchIsBounded /\ SourcesReadFaithfully
=============================================================================
