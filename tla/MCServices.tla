---------------------------- MODULE MCServices -----------------------------
(* Instances of what API requests, worker processes and deploys do beside    *)
(* the queue: stage execution, retrieval runs, rate limits, reads, the       *)
(* worker's own life, signing keys and migrations. They have no state in     *)
(* common, so one run takes them one at a time: `part` names the one that    *)
(* runs, the others keep an initial state.                                   *)
EXTENDS StageExecution, RetrievalRun, RateLimit, Reads, WorkerProcess, KeyCache,
        Migrations, TLC

CONSTANT Parts   \* the parts a run takes
VARIABLE part

(* Retrieval: a query sent twice with one key, a rerun by the same user, and *)
(* another user's query and feedback.                                        *)
MCRequests == {"q1", "q2", "q3", "f1"}
MCCaller == [r \in MCRequests |-> IF r = "f1" THEN "bob" ELSE "ann"]
MCRoute == [r \in MCRequests |-> CASE r = "f1" -> "createRetrievalFeedback"
                                   [] r = "q3" -> "createQueryRerun"
                                   [] OTHER -> "createQuery"]
MCKeyOf == [r \in MCRequests |-> CASE r = "q3" -> 2 [] OTHER -> 1]

(* Migrations: an older checkout and the next one, one whose new file fails,  *)
(* and one that rewrote history.                                             *)
MCCheckouts == {<<"a">>, <<"a", "b">>, <<"a", "bad">>, <<"d", "b">>}

\* The configuration of the process while another part runs.
Unconfigured ==
  /\ \A f \in {"live", "mock", "fixture", "llm", "memory"} : env[f] = "unset"
  /\ \A f \in {"storageDir", "fixtureDir", "userAgent", "database", "port", "role", "bounded"} : ~env[f]
  /\ env.queue = "ingestion"

ServicesInit ==
  /\ part \in Parts
  /\ StageInit /\ RetrievalInit /\ LimiterInit
  /\ PagesInit /\ (part # "pages" => rowsNow = {})
  /\ TraceInit
  /\ KeyInit /\ (part # "keys" => published = {CHOOSE k \in Kids : TRUE})
  /\ MigrationInit /\ (part # "migrations" => \A a \in Appliers : tree[a] = <<"a">>)
  /\ ProcessInit /\ (part # "process" => Unconfigured)

ServicesNext ==
  /\ UNCHANGED part
  /\ IF part = "stages" THEN StageNext ELSE UNCHANGED stageVars
  /\ IF part = "retrieval" THEN RetrievalNext ELSE UNCHANGED retrievalVars
  /\ IF part = "limiter" THEN LimiterNext ELSE UNCHANGED limiterVars
  /\ IF part = "pages" THEN PagesNext ELSE UNCHANGED pageVars
  /\ IF part = "traces" THEN TraceNext ELSE UNCHANGED traceVars
  /\ IF part = "keys" THEN KeyNext ELSE UNCHANGED keyVars
  /\ IF part = "migrations" THEN MigrationNext ELSE UNCHANGED migrationVars
  /\ IF part = "process" THEN ProcessNext ELSE UNCHANGED processVars

ServicesSpec ==
  ServicesInit /\ [][ServicesNext]_<<part, stageVars, retrievalVars, limiterVars,
                                     pageVars, traceVars, keyVars, migrationVars, processVars>>

(* The places a listing gives its rows are those a sort gives them.          *)
ASSUME SortingAgrees ==
  \A S \in SUBSET (1 .. MaxKey) : /\ InOrder(S, TRUE) = SetToSortSeq(S, <)
                                 /\ InOrder(S, FALSE) = SetToSortSeq(S, >)

Symmetric == Permutations(Workers) \cup Permutations(Answers)
=============================================================================
