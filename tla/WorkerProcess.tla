--------------------------- MODULE WorkerProcess ---------------------------
(***************************************************************************)
(* One worker process from its environment to its exit: the gates of       *)
(* run_entry and run_main that bind providers, the claim loop as far as    *)
(* liveness sees it, the lease heartbeat thread, and the watchdog that     *)
(* ends a process whose progress signal has gone stale.                    *)
(*                                                                         *)
(* Time is counted in check intervals of the watchdog.  Timer threads run  *)
(* on time; the database and the handlers take as long as they like, and   *)
(* may never return.                                                       *)
(***************************************************************************)
EXTENDS Integers

CONSTANTS
  MaxAge,        \* DEFAULT_MAX_HEARTBEAT_AGE_SECONDS
  BeatEvery,     \* DEFAULT_HEARTBEAT_INTERVAL_SECONDS
  MaxClock       \* bound on the time one process lives

ASSUME ProcessAssumption ==
  /\ MaxAge \in Nat /\ BeatEvery \in Nat \ {0} /\ MaxClock \in Nat
  /\ BeatEvery < MaxAge

VARIABLES
  env,        \* what the operator configured; bounded is --max-iterations
  phase,      \* where the process is
  exitStatus, \* its exit status, 0 while it runs
  bound,      \* the providers it was given
  clock, touched, nextCheck, nextBeat,
  beating,    \* the heartbeat thread: "none", "beating", "stuck" or "ended"
  stopping,   \* SIGTERM was received
  answered,   \* history: which providers' output the process has stored
  progress    \* history: when the loop last turned or a lease was renewed

processVars == <<env, phase, exitStatus, bound, clock, touched, nextCheck, nextBeat,
                 beating, stopping, answered, progress>>

timers == <<clock, touched, nextCheck, nextBeat, beating, progress>>

Flag == {"unset", "set", "typo"}
Unbound == [sec |-> "none", storage |-> "none", llm |-> "none"]

ProcessInit ==
  /\ env \in [live : Flag, mock : Flag, fixture : Flag, llm : Flag, memory : Flag,
              storageDir : BOOLEAN, fixtureDir : BOOLEAN, userAgent : BOOLEAN,
              database : BOOLEAN, port : BOOLEAN, role : BOOLEAN, bounded : BOOLEAN,
              queue : {"ingestion", "extraction"}]
  /\ phase = "gate" /\ exitStatus = 0 /\ bound = Unbound
  /\ clock = 0 /\ touched = 0 /\ nextCheck = 0 /\ nextBeat = 0 /\ progress = 0
  /\ beating = "none" /\ stopping = FALSE /\ answered = {}

-----------------------------------------------------------------------------
(* The gates.  A flag that is neither unset nor a word for yes is an error *)
(* wherever it is read; any error exits with status 2.                     *)

Set(name) == env[name] = "set"
Readable(names) == \A name \in names : env[name] # "typo"

Modes == {"live", "mock", "fixture"}

\* Exactly one provider mode.
ProviderModeResolves ==
  /\ Readable(Modes)
  /\ \E mode \in Modes : Set(mode)
  /\ \A a, b \in Modes : Set(a) /\ Set(b) => a = b

\* A model where extraction jobs are queued, and nowhere else.
ModelBindingValid ==
  Readable({"llm"}) /\ (Set("llm") <=> env.queue = "extraction")

\* A live worker names itself to the SEC.
UserAgentValid == Set("live") => env.userAgent

\* A health port that is given is a port.
HealthPortValid == env.port

\* The stores that forget a run when the process ends: opted into by a flag.
MemoryStores == Set("memory")

Exit(code) ==
  /\ phase' = "exited" /\ exitStatus' = code

\* run_entry.
Gate ==
  /\ phase = "gate"
  /\ IF /\ ProviderModeResolves
        /\ UserAgentValid
        /\ ModelBindingValid
     THEN phase' = "bind" /\ exitStatus' = exitStatus
     ELSE Exit(2)
  /\ UNCHANGED <<env, bound, stopping, answered>> /\ UNCHANGED timers

\* build_run_providers: live and fixture bytes go to durable storage.
ProvidersBuild ==
  CASE Set("fixture") -> ProviderModeResolves /\ env.fixtureDir /\ env.storageDir
    [] ~Set("fixture") /\ Set("live") -> env.storageDir /\ env.userAgent
    [] OTHER -> TRUE

Providers ==
  CASE Set("fixture") -> [sec |-> "fixture", storage |-> "disk"]
    [] ~Set("fixture") /\ Set("live") -> [sec |-> "live", storage |-> "disk"]
    [] OTHER -> [sec |-> "mock", storage |-> "memory"]

StructuredLlm == IF Set("llm") /\ env.queue = "extraction" THEN "mock" ELSE "none"

\* run_main up to the two daemon threads; the clock of Liveness starts here.
Bind ==
  /\ phase = "bind"
  /\ IF env.database /\ ProvidersBuild /\ Readable({"llm", "memory"}) /\ HealthPortValid
     THEN /\ phase' = "connect" /\ exitStatus' = exitStatus
          /\ bound' = [sec |-> Providers.sec, storage |-> Providers.storage,
                       llm |-> StructuredLlm]
          /\ touched' = clock /\ progress' = clock /\ nextCheck' = clock + 1
     ELSE /\ Exit(2) /\ UNCHANGED <<bound, touched, progress, nextCheck>>
  /\ UNCHANGED <<env, stopping, answered, clock, nextBeat, beating>>

\* The connection may take for ever, or fail (DatabaseFails); a malformed role
\* ends the process.
Connect ==
  /\ phase = "connect"
  /\ IF env.role THEN phase' = "loop" /\ exitStatus' = exitStatus ELSE Exit(2)
  /\ UNCHANGED <<env, bound, stopping, answered>> /\ UNCHANGED timers

Handlers == {"sec_filing_fetch", "extraction_run"}

\* Nothing catches a database error of the connection, SET ROLE, a reap, a claim
\* or a job's verdict: the interpreter exits with status 1.
DatabaseFails ==
  /\ phase \in {"connect", "claim"} \cup Handlers
  /\ Exit(1)
  /\ UNCHANGED <<env, bound, stopping, answered>> /\ UNCHANGED timers

-----------------------------------------------------------------------------
(* The loop.                                                               *)

\* The loop hook touches only when a job has been claimed.
TouchOnJobMutant == touched

\* should_continue: every turn of the loop is progress.
LoopTouch == clock

Turn ==
  /\ phase = "loop"
  /\ touched' = LoopTouch /\ progress' = clock
  /\ \/ (stopping \/ env.bounded) /\ Exit(0)     \* SIGTERM, or the last iteration
     \/ ~stopping /\ phase' = "claim" /\ exitStatus' = exitStatus
  /\ UNCHANGED <<env, bound, clock, nextCheck, nextBeat, beating, stopping, answered>>

\* Nothing is queued: sleep, or the end of a bounded run.
ClaimNothing ==
  /\ phase = "claim"
  /\ IF env.bounded THEN Exit(0) ELSE phase' = "loop" /\ exitStatus' = exitStatus
  /\ UNCHANGED <<env, bound, stopping, answered>> /\ UNCHANGED timers

\* The job's kind is unknown or needs a provider that is not bound (an
\* extraction_run on a worker without a model), or its run is terminal: the
\* job gets its verdict, no handler runs.
RefuseJob ==
  /\ phase = "claim" /\ phase' = "loop"
  /\ UNCHANGED <<env, exitStatus, bound, stopping, answered>> /\ UNCHANGED timers

\* The queue does not fix the kind of a job: a job may be on the wrong one.
ClaimJob(kind) ==
  /\ phase = "claim"
  /\ kind = "extraction_run" => bound.llm # "none"
  /\ phase' = kind
  /\ beating' = "beating" /\ nextBeat' = clock + BeatEvery
  /\ UNCHANGED <<env, exitStatus, bound, clock, touched, nextCheck, progress, stopping, answered>>

\* The handler stores what its provider returned.
StoreAnswer ==
  /\ phase \in Handlers
  /\ answered' = answered \cup {CASE phase = "sec_filing_fetch" -> bound.sec
                                 [] phase = "extraction_run" /\ MemoryStores -> "discarded"
                                 [] OTHER -> bound.llm}
  /\ UNCHANGED <<env, phase, exitStatus, bound, stopping>> /\ UNCHANGED timers

\* The handler returns or raises and the job gets its verdict. Stopping the
\* heartbeat waits for its thread, so a stuck beat keeps the loop here; only a
\* PermanentFailure leaves the thread to its next beat, which the verdict fences.
FinishJob(permanent) ==
  /\ phase \in Handlers /\ (permanent \/ beating # "stuck")
  /\ phase' = "loop" /\ beating' = "none"
  /\ UNCHANGED <<env, exitStatus, bound, clock, touched, nextCheck, nextBeat, progress,
                 stopping, answered>>

-----------------------------------------------------------------------------
(* The threads.                                                            *)

Started == phase \notin {"gate", "bind", "exited", "killed"}

\* heartbeat_succeeded is called after the lease was renewed, and only then.
BeatTouch(outcome) == IF outcome = "renewed" THEN clock ELSE touched

\* A due beat renews the lease, loses it or loses its connection (the thread
\* ends), or hangs in the database.
ThreadBeat(outcome) ==
  /\ Started /\ beating = "beating" /\ clock = nextBeat
  /\ touched' = BeatTouch(outcome)
  /\ progress' = IF outcome = "renewed" THEN clock ELSE progress
  /\ nextBeat' = IF outcome = "renewed" THEN clock + BeatEvery ELSE nextBeat
  /\ beating' = CASE outcome = "renewed" -> "beating"
                  [] outcome = "lost" -> "ended"
                  [] outcome = "hung" -> "stuck"
  /\ UNCHANGED <<env, phase, exitStatus, bound, clock, nextCheck, stopping, answered>>

\* LivenessWatchdog._run: once per interval, os._exit a stale process.
WatchdogCheck ==
  /\ Started /\ clock = nextCheck
  /\ IF clock - touched <= MaxAge
     THEN nextCheck' = clock + 1 /\ UNCHANGED <<phase, exitStatus>>
     ELSE phase' = "killed" /\ exitStatus' = 1 /\ nextCheck' = nextCheck
  /\ UNCHANGED <<env, bound, clock, touched, nextBeat, beating, progress, stopping, answered>>

ProcessTick ==
  /\ Started /\ clock < MaxClock
  /\ clock < nextCheck
  /\ beating = "beating" => clock < nextBeat
  /\ clock' = clock + 1
  /\ UNCHANGED <<env, phase, exitStatus, bound, touched, nextCheck, nextBeat, beating,
                 progress, stopping, answered>>

RequestStop ==
  /\ Started /\ ~stopping
  /\ stopping' = TRUE
  /\ UNCHANGED <<env, phase, exitStatus, bound, answered>> /\ UNCHANGED timers

ProcessNext ==
  \/ Gate \/ Bind \/ Connect \/ DatabaseFails
  \/ Turn \/ ClaimNothing \/ RefuseJob \/ StoreAnswer
  \/ \E permanent \in BOOLEAN : FinishJob(permanent)
  \/ \E kind \in Handlers : ClaimJob(kind)
  \/ \E outcome \in {"renewed", "lost", "hung"} : ThreadBeat(outcome)
  \/ WatchdogCheck \/ ProcessTick \/ RequestStop

ProcessSpec == ProcessInit /\ [][ProcessNext]_processVars

-----------------------------------------------------------------------------
(* What an operator may rely on.                                           *)

\* Output a provider made up is stored only where the operator asked for that
\* provider by name, and real bytes never go to storage that dies with the
\* process, whatever mixture of flags, directories, queues and misrouted jobs
\* (run_entry's gates, build_run_providers, build_structured_llm).
FabricationIsOptedIn ==
  /\ "mock" \in answered =>
       \/ env.mock = "set" /\ env.live = "unset" /\ env.fixture = "unset"
       \/ env.llm = "set" /\ env.queue = "extraction"
  /\ answered \cap {"live", "fixture"} # {} => bound.storage = "disk"

\* The watchdog ends every process that has made no progress for longer than
\* the limit, at its next check, and never one that has: an idle loop and a
\* renewed lease count, a hung connect, claim, handler without a lease or
\* heartbeat does not (health.py, "A failed heartbeat cannot make the process
\* look healthy").
WatchdogIsExact ==
  /\ phase = "killed" => clock - progress > MaxAge
  /\ Started => clock - progress <= MaxAge + 1

\* What a worker process shows the outside is true: where its answers come from
\* and whether it hangs. The two above together.
ProcessIsHonest == FabricationIsOptedIn /\ WatchdogIsExact
=============================================================================
