---------------------------- MODULE StageProofs ----------------------------
(***************************************************************************)
(* The stages of one extraction run, for every number of workers, stages,  *)
(* answers, caps and faults: a checkpoint that verifies is kept, the event *)
(* log names what the rows hold, one answer per stage is gone on from, and *)
(* the caps bound the run.                                                 *)
(*                                                                         *)
(* None of these is inductive alone.  A repair spares a good row because   *)
(* the version the worker remembers is one it saw damaged (TokensAreOf-    *)
(* Damage).  Rival workers agree because every row and every worker lies   *)
(* on one path of inputs (OnePath), which can be prolonged at a commit     *)
(* because nothing has been reached beyond a stage without a row (Stages-  *)
(* InOrder).  The caps hold because, without rivals, a worker's budget is  *)
(* what is recorded and what it has not flushed yet (BudgetAccounts).      *)
(*                                                                         *)
(* Then what the normalize and validate stages make of the values, for     *)
(* every vocabulary of raw proposals, batch and declared exponent.  The    *)
(* states are few; the work is in what the rules compute: normalising      *)
(* keeps every amount, normalising again changes nothing, and a row is     *)
(* judged among the rows its metric relates it to as among all.            *)
(***************************************************************************)
EXTENDS StageExecution, Validation, CollectionProofs, SequenceTheorems

(* ----------------------------- one run's stages -------------------------- *)
WorkerPhases == {"idle", "boundary", "call", "flush", "commit", "failing", "ending"}
Endings == {"none", "done", "lost", "cancelled", "failed", "superseded"}

WorkerState ==
  [pc : WorkerPhases, stage : 1 .. LastStage + 1, input : Values, output : Values \cup {None},
   token : {None} \cup (Attempts \X Nat), tries : Nat, budget : Usage, due : Usage,
   lease : BOOLEAN, why : Endings]

\* The shape of the rows, the counters and the workers' attempts.
StageTypeOK ==
  /\ run \in {"running", "waiting_review", "succeeded"} \cup Endings
  /\ used \in Usage /\ spent \in Usage /\ waived \in Usage
  /\ rows \in [Stages -> [Attempts -> {None} \cup StepRow]]
  /\ announced \in [Stages \X Values -> Values \cup {None}]
  /\ wk \in [Workers -> WorkerState]
  /\ overlapped \in BOOLEAN /\ tampers \in Nat

\* What a worker in state r is about to write has a stage and an output.
PhaseOK(r) ==
  /\ r.pc \in {"call", "commit", "failing"} \/ r.output # None => r.stage \in Stages \ Skipped
  /\ r.pc = "commit" => r.output # None

\* The version of a row that r remembers is one at which it was damaged.
TokenOK(r) ==
  r.token # None =>
    /\ r.stage \in Stages /\ Success(r.stage, r.token[1])
    /\ r.token[2] <= rows[r.stage][r.token[1]].xmin
    /\ rows[r.stage][r.token[1]].xmin = r.token[2]
         => ~Recoverable(rows[r.stage][r.token[1]])

PhasesAreSound == \A w \in Workers : PhaseOK(wk[w])
TokensAreOfDamage == \A w \in Workers : TokenOK(wk[w])

\* The partial unique index: one successful row per stage and input, of a stage
\* the run requested.
KeysAreUnique ==
  \A s \in Stages :
    /\ \A a, b \in Attempts :
         Success(s, a) /\ Success(s, b) /\ rows[s][a].input = rows[s][b].input => a = b
    /\ \A a \in Attempts : Success(s, a) => s \notin Skipped

\* A stage is reached when every requested one before it has a row.
Reached(t) == \A s \in Stages \ Skipped : s < t => \E a \in Attempts : Success(s, a)

StagesInOrder ==
  /\ \A w \in Workers : Reached(wk[w].stage)
  /\ \A s \in Stages, a \in Attempts : Success(s, a) => Reached(s)

\* f gives every stage its input; rows and workers agree with it.
OnPath(f) ==
  /\ f[1] = Request /\ \A s \in Skipped : f[s + 1] = f[s]
  /\ \A s \in Stages, a \in Attempts :
       Success(s, a) => /\ rows[s][a].input = f[s]
                        /\ rows[s][a].output = f[s + 1] /\ rows[s][a].hash = f[s + 1]
  /\ \A w \in Workers : wk[w].input = f[wk[w].stage]

OnePath == tampers = 0 => \E f \in [1 .. LastStage + 1 -> Values] : OnPath(f)

\* Without rivals every call is recorded, waived or due, and the budget of the
\* one attempt under way is what is recorded and due.
BudgetAccounts ==
  ~overlapped =>
    /\ \A v, w \in Workers : Active(v) /\ Active(w) => v = w
    /\ \A w \in Workers :
         Active(w) =>
           /\ ~RunEnded
           /\ wk[w].budget.calls = used.calls + wk[w].due.calls
           /\ wk[w].budget.cost = used.cost + wk[w].due.cost
           /\ spent.calls = wk[w].budget.calls + waived.calls
           /\ spent.cost = wk[w].budget.cost + waived.cost
           /\ wk[w].budget.calls <= MaxCalls
           /\ wk[w].budget.cost < MaxCost + Max(CallCosts \cup {1})
    /\ (\A w \in Workers : ~Active(w)) =>
         /\ spent.calls = used.calls + waived.calls
         /\ spent.cost = used.cost + waived.cost
    /\ used.calls <= MaxCalls /\ used.cost < MaxCost + Max(CallCosts \cup {1})

RowsInv ==
  /\ PhasesAreSound /\ TokensAreOfDamage /\ KeysAreUnique /\ StagesInOrder
  /\ CompletionNamesRow /\ OnePath

StageInv == StageTypeOK /\ RowsInv /\ BudgetAccounts

-----------------------------------------------------------------------------
\* Of two counters merged with GREATEST the result is one and at least both.
LEMMA GreatestOfTwo ==
  ASSUME NEW i \in Nat, NEW j \in Nat
  PROVE  /\ Max({i, j}) \in Nat
         /\ i <= j => Max({i, j}) = j
<1>1. \E x \in {i, j} : \A y \in {i, j} : x >= y
  <2>1. CASE i >= j BY <2>1
  <2>2. CASE j >= i BY <2>2
  <2> QED BY <2>1, <2>2
<1>2. Max({i, j}) \in {i, j} /\ \A y \in {i, j} : Max({i, j}) >= y
  BY <1>1, Zenon DEF Max
<1>3. i <= j => Max({i, j}) = j
  BY <1>2
<1> QED BY <1>2, <1>3

\* The dearest call exists: a finite set of costs has a greatest element.
LEMMA DearestCall ==
  /\ Max(CallCosts \cup {1}) \in Nat
  /\ Max(CallCosts \cup {1}) >= 1
  /\ \A c \in CallCosts : c <= Max(CallCosts \cup {1})
<1> DEFINE M == CallCosts \cup {1}
           Greats(T) == {x \in T : \A y \in T : x >= y}
           Bad == {n \in Nat : \E T \in SUBSET M : T # {} /\ Cardinality(T) = n /\ Greats(T) = {}}
<1>1. IsFiniteSet(M) /\ M \subseteq Nat /\ 1 \in M
  <2>1. IsFiniteSet(CallCosts) /\ CallCosts \subseteq Nat BY StageAssumption
  <2>2. IsFiniteSet({1}) BY FS_Singleton
  <2>3. IsFiniteSet(M) BY <2>1, <2>2, FS_Union
  <2> QED BY <2>1, <2>3
<1>2. Bad = {}
  <2>1. SUFFICES ASSUME Bad # {} PROVE FALSE
    OBVIOUS
  <2>2. PICK n \in Bad : \A k \in Bad : ~(k < n)
    <3>1. \E x \in Bad : \A y \in Bad : ~(<<y, x>> \in OpToRel(<, Nat))
      BY <2>1, NatLessThanWellFounded, WFMin, Bad \subseteq Nat
    <3> QED BY <3>1 DEF OpToRel
  <2>3. PICK T \in SUBSET M : T # {} /\ Cardinality(T) = n /\ Greats(T) = {}
    BY <2>2
  <2>4. PICK x \in T : TRUE
    BY <2>3
  <2> DEFINE U == T \ {x}
  <2>5. IsFiniteSet(T) /\ IsFiniteSet(U) /\ Cardinality(U) = n - 1 /\ n \in Nat
    BY <1>1, <2>2, <2>3, <2>4, FS_Subset, FS_RemoveElement
  <2>6. n - 1 \in Nat
    BY <2>5, FS_CardinalityType
  <2>7. U = {} \/ Greats(U) # {}
    <3>1. n - 1 \notin Bad BY <2>2, <2>5, <2>6
    <3> QED BY <3>1, <2>5, <2>6
  <2>8. CASE U = {}
    <3>1. T = {x} BY <2>8, <2>4
    <3>2. x \in Greats(T) BY <3>1, <1>1, <2>3
    <3> QED BY <3>2, <2>3
  <2>9. CASE Greats(U) # {}
    <3>1. PICK m \in U : \A y \in U : m >= y BY <2>9
    <3>2. m \in Nat /\ x \in Nat /\ \A y \in T : y \in Nat BY <1>1, <3>1, <2>4
    <3>3. CASE m >= x
      <4>1. m \in Greats(T) BY <3>1, <3>2, <3>3
      <4> QED BY <4>1, <2>3
    <3>4. CASE x >= m
      <4>1. x \in Greats(T) BY <3>1, <3>2, <3>4
      <4> QED BY <4>1, <2>3
    <3> QED BY <3>2, <3>3, <3>4
  <2> QED BY <2>7, <2>8, <2>9
<1>3. Greats(M) # {}
  <2>1. M \in SUBSET M /\ M # {} /\ Cardinality(M) \in Nat
    BY <1>1, FS_CardinalityType
  <2> QED BY <2>1, <1>2
<1>4. \E x \in M : \A y \in M : x >= y
  BY <1>3
<1>5. Max(M) \in M /\ \A y \in M : Max(M) >= y
  BY <1>4, Zenon DEF Max
<1> QED BY <1>1, <1>5

-----------------------------------------------------------------------------
\* How a step that writes no row may move a worker: it starts over, stays, goes
\* past a skipped stage or past one whose checkpoint verifies.
Moved(r, q) ==
  \/ q.stage = 1 /\ q.input = Request
  \/ q.stage = r.stage /\ q.input = r.input
  \/ r.stage \in Skipped /\ q.stage = r.stage + 1 /\ q.input = r.input
  \/ /\ r.stage \in Stages \ Skipped /\ q.stage = r.stage + 1
     /\ \E a \in Attempts :
          /\ Success(r.stage, a) /\ rows[r.stage][a].input = r.input
          /\ q.input = rows[r.stage][a].output

\* A step of worker w that leaves the rows and the events of the run alone.
StepsAlone(w) ==
  /\ wk' \in [Workers -> WorkerState]
  /\ \A v \in Workers : v # w => wk'[v] = wk[v]
  /\ UNCHANGED <<rows, announced, tampers>>

\* Only worker w moves: every step of the stage loop (workflow.py) that writes
\* no checkpoint keeps rows, workers and events in agreement.
LEMMA WorkerMoves ==
  ASSUME StageTypeOK, RowsInv, NEW w \in Workers, StepsAlone(w),
         PhaseOK(wk'[w]), TokenOK(wk'[w]), Moved(wk[w], wk'[w])
  PROVE  RowsInv'
<1>1. \A s \in Stages, a \in Attempts : Success(s, a)' <=> Success(s, a)
  BY DEF StepsAlone, Success
<1>2. PhasesAreSound'
  BY DEF RowsInv, PhasesAreSound, StepsAlone, PhaseOK
<1>3. TokensAreOfDamage'
  BY DEF RowsInv, TokensAreOfDamage, StepsAlone, TokenOK, Success, Recoverable
<1>4. KeysAreUnique' /\ CompletionNamesRow'
  BY <1>1 DEF RowsInv, KeysAreUnique, CompletionNamesRow, StepsAlone
<1>5. StagesInOrder'
  <2>1. \A t \in 1 .. LastStage + 1 : Reached(t)' <=> Reached(t)
    BY <1>1 DEF Reached
  <2>2. wk[w].stage \in 1 .. LastStage + 1 /\ wk'[w].stage \in 1 .. LastStage + 1
    BY DEF StageTypeOK, StepsAlone, WorkerState
  <2>3. Reached(wk[w].stage)
    BY DEF RowsInv, StagesInOrder
  <2>4. Reached(wk'[w].stage)
    <3>1. CASE wk'[w].stage = 1 BY <3>1, StageAssumption DEF Reached, Stages
    <3>2. CASE wk'[w].stage = wk[w].stage BY <3>2, <2>3
    <3>3. CASE /\ wk'[w].stage = wk[w].stage + 1
               /\ wk[w].stage \in Skipped \/ \E a \in Attempts : Success(wk[w].stage, a)
      BY <3>3, <2>2, <2>3, StageAssumption DEF Reached, Stages
    <3> QED BY <3>1, <3>2, <3>3 DEF Moved
  <2>5. \A v \in Workers : Reached(wk'[v].stage)
    BY <2>4 DEF RowsInv, StagesInOrder, StepsAlone
  <2>6. \A v \in Workers : wk'[v].stage \in 1 .. LastStage + 1
    BY DEF StepsAlone, WorkerState
  <2>7. \A s \in Stages : s \in 1 .. LastStage + 1
    BY StageAssumption DEF Stages
  <2>8. \A v \in Workers : Reached(wk[v].stage)'
    BY <2>1, <2>5, <2>6 DEF Reached
  <2>9. \A s \in Stages, a \in Attempts : Success(s, a)' => Reached(s)'
    BY <1>1, <2>1, <2>7 DEF RowsInv, StagesInOrder
  <2> QED BY <2>8, <2>9 DEF StagesInOrder
<1>6. OnePath'
  <2>1. SUFFICES ASSUME tampers = 0
                 PROVE  \E f \in [1 .. LastStage + 1 -> Values] : OnPath(f)'
    BY DEF OnePath, StepsAlone
  <2>2. PICK f \in [1 .. LastStage + 1 -> Values] : OnPath(f)
    BY <2>1 DEF RowsInv, OnePath
  <2>3. wk'[w].input = f[wk'[w].stage]
    BY <2>2 DEF OnPath, Moved
  <2>4. OnPath(f)'
    BY <1>1, <2>2, <2>3 DEF OnPath, StepsAlone
  <2> QED BY <2>4
<1> QED BY <1>2, <1>3, <1>4, <1>5, <1>6 DEF RowsInv

\* A step of worker w that makes no call, records none and neither starts nor
\* ends its attempt.
SpendsNothing(w) ==
  /\ UNCHANGED <<run, used, spent, waived, overlapped>>
  /\ Active(w) /\ wk'[w].pc # "idle"
  /\ wk'[w].budget = wk[w].budget /\ wk'[w].due = wk[w].due
  /\ \A v \in Workers : v # w => wk'[v] = wk[v]

\* The accounts stand while nothing is spent or recorded.
LEMMA AccountsStand ==
  ASSUME BudgetAccounts, NEW w \in Workers, SpendsNothing(w)
  PROVE  BudgetAccounts'
<1>1. \A v \in Workers : Active(v)' <=> Active(v)
  BY DEF SpendsNothing, Active
<1>2. \A v \in Workers : wk'[v].budget = wk[v].budget /\ wk'[v].due = wk[v].due
  BY DEF SpendsNothing
<1> QED BY <1>1, <1>2 DEF SpendsNothing, BudgetAccounts, RunEnded

-----------------------------------------------------------------------------
\* A quiet step writes no row and spends nothing.
LEMMA QuietStep ==
  ASSUME StageInv, NEW w \in Workers, StepsAlone(w), SpendsNothing(w),
         PhaseOK(wk'[w]), TokenOK(wk'[w]), Moved(wk[w], wk'[w])
  PROVE  StageInv'
<1>1. StageTypeOK' BY DEF StageInv, StageTypeOK, StepsAlone, SpendsNothing
<1>2. RowsInv' BY WorkerMoves DEF StageInv
<1>3. BudgetAccounts' BY AccountsStand DEF StageInv
<1> QED BY <1>1, <1>2, <1>3 DEF StageInv

\* What every worker's state satisfies, and the rows it looks at.
LEMMA WorkerFacts ==
  ASSUME StageInv, NEW w \in Workers
  PROVE  /\ wk \in [Workers -> WorkerState] /\ wk[w] \in WorkerState
         /\ PhaseOK(wk[w]) /\ TokenOK(wk[w])
         /\ \A s \in Stages, a \in Attempts :
              Success(s, a) => rows[s][a] \in StepRow
BY DEF StageInv, StageTypeOK, RowsInv, PhasesAreSound, TokensAreOfDamage, Success

Steady == UNCHANGED <<run, used, rows, announced, spent, waived>> /\ Unchanged

\* An exception or the last stage ends the stage loop (workflow.py).
LEMMA LeaveIsQuiet ==
  ASSUME StageInv, NEW w \in Workers, NEW why \in Endings, Active(w),
         wk' = [wk EXCEPT ![w] = Leave(w, why)], Steady
  PROVE  StageInv'
<1> USE WorkerFacts
<1> DEFINE q == Leave(w, why)
<1>1. /\ q \in WorkerState /\ q.pc \in {"flush", "ending"} /\ q.output = None
      /\ q.stage = wk[w].stage /\ q.input = wk[w].input /\ q.token = wk[w].token
      /\ q.budget = wk[w].budget /\ q.due = wk[w].due
  BY DEF Leave, WorkerState, WorkerPhases
<1>2. wk'[w] = q
  BY DEF Leave
<1>3. StepsAlone(w)
  BY <1>1, <1>2 DEF StepsAlone, Steady, Unchanged
<1>4. SpendsNothing(w)
  BY <1>1, <1>2 DEF SpendsNothing, Steady, Unchanged
<1>5. PhaseOK(wk'[w]) /\ TokenOK(wk'[w]) /\ Moved(wk[w], wk'[w])
  BY <1>1, <1>2 DEF PhaseOK, TokenOK, Moved
<1> QED BY <1>3, <1>4, <1>5, QuietStep

\* The stage loop goes on to the next stage without writing a row.
LEMMA GoOnIsQuiet ==
  ASSUME StageInv, NEW w \in Workers, NEW out \in Values, Active(w), wk[w].stage <= LastStage,
         wk' = [wk EXCEPT ![w] = NextStage(w, out)], Steady,
         \/ wk[w].stage \in Skipped /\ out = wk[w].input
         \/ wk[w].stage \notin Skipped /\ \E a \in Attempts :
              /\ Success(wk[w].stage, a) /\ rows[wk[w].stage][a].input = wk[w].input
              /\ out = rows[wk[w].stage][a].output
  PROVE  StageInv'
<1> USE WorkerFacts
<1> DEFINE q == NextStage(w, out)
<1>1. wk[w].stage \in Stages /\ wk[w].stage + 1 \in 1 .. LastStage + 1
  BY StageAssumption DEF Stages, WorkerState
<1>2. /\ q \in WorkerState /\ q.pc = "boundary" /\ q.output = None /\ q.token = None
      /\ q.stage = wk[w].stage + 1 /\ q.input = out
      /\ q.budget = wk[w].budget /\ q.due = wk[w].due
  BY <1>1 DEF NextStage, WorkerState, WorkerPhases
<1>3. wk'[w] = q
  BY DEF NextStage
<1>4. StepsAlone(w)
  BY <1>2, <1>3 DEF StepsAlone, Steady, Unchanged
<1>5. SpendsNothing(w)
  BY <1>2, <1>3 DEF SpendsNothing, Steady, Unchanged
<1>6. PhaseOK(wk'[w]) /\ TokenOK(wk'[w])
  BY <1>2, <1>3 DEF PhaseOK, TokenOK
<1>7. Moved(wk[w], wk'[w])
  BY <1>1, <1>2, <1>3 DEF Moved
<1> QED BY <1>4, <1>5, <1>6, <1>7, QuietStep

\* A step inside the stage: the worker's stage and input stay.
LEMMA StayIsQuiet ==
  ASSUME StageInv, NEW w \in Workers, NEW q \in WorkerState, Active(w), q.pc # "idle",
         wk' = [wk EXCEPT ![w] = q], Steady, PhaseOK(q), TokenOK(q),
         q.stage = wk[w].stage, q.input = wk[w].input,
         q.budget = wk[w].budget, q.due = wk[w].due
  PROVE  StageInv'
<1> USE WorkerFacts
<1>1. wk'[w] = q /\ StepsAlone(w) /\ Moved(wk[w], wk'[w])
  BY DEF StepsAlone, Steady, Unchanged, Moved
<1>2. SpendsNothing(w)
  BY <1>1 DEF SpendsNothing, Steady, Unchanged
<1> QED BY <1>1, <1>2, QuietStep
-----------------------------------------------------------------------------
\* _boundary and _commit_fence, a refused commit, a superseded one.
LEMMA LeavingSteps ==
  ASSUME StageInv, NEW w \in Workers,
         BoundaryStops(w) \/ FenceStops(w) \/ CommitRefused(w) \/ Superseded(w)
  PROVE  StageInv'
<1>1. Steady /\ Active(w)
  BY DEF BoundaryStops, FenceStops, CommitRefused, Superseded, Committing, Steady, Active
<1>2. PICK why \in Endings : wk' = [wk EXCEPT ![w] = Leave(w, why)]
  BY DEF BoundaryStops, FenceStops, CommitRefused, Superseded, Endings
<1> QED BY <1>1, <1>2, LeaveIsQuiet

\* A stage the run did not request, or whose checkpoint verifies.
LEMMA SkipResumeSteps ==
  ASSUME StageInv, NEW w \in Workers, Skip(w) \/ Resume(w)
  PROVE  StageInv'
<1> USE WorkerFacts
<1>1. Steady /\ Active(w) /\ wk[w].stage <= LastStage /\ wk[w].input \in Values
  BY DEF Skip, Resume, AtStage, Steady, Active, WorkerState
<1>2. CASE Skip(w)
  BY <1>1, <1>2, GoOnIsQuiet DEF Skip
<1>3. CASE Resume(w)
  <2>1. PICK a \in Succeeded(wk[w].stage, wk[w].input) :
          /\ Recoverable(rows[wk[w].stage][a])
          /\ wk' = [wk EXCEPT ![w] = NextStage(w, rows[wk[w].stage][a].output)]
    BY <1>3 DEF Resume
  <2>2. wk[w].stage \in Stages
    BY <1>1, StageAssumption DEF Stages, WorkerState
  <2>3. a \in Attempts /\ Success(wk[w].stage, a) /\ rows[wk[w].stage][a].input = wk[w].input
    BY <2>1 DEF Succeeded, Taken, Success
  <2>4. rows[wk[w].stage][a].output \in Values
    BY <2>1, <2>2, <2>3 DEF StepRow, Recoverable
  <2> QED BY <1>1, <1>3, <2>1, <2>3, <2>4, GoOnIsQuiet DEF Resume
<1> QED BY <1>2, <1>3

\* A stage is executed: reject_loaded keeps the version of a damaged row.
LEMMA ExecuteStep ==
  ASSUME StageInv, NEW w \in Workers, Execute(w)
  PROVE  StageInv'
<1> USE WorkerFacts
<1> DEFINE found == Succeeded(wk[w].stage, wk[w].input)
<1>1. Steady /\ Active(w) /\ wk[w].stage \in Stages \ Skipped
  BY StageAssumption DEF Execute, AtStage, Steady, Active, WorkerState, Stages
<1>2. \A a \in found : /\ a \in Attempts /\ Success(wk[w].stage, a)
                       /\ ~Recoverable(rows[wk[w].stage][a])
  BY DEF Execute, Succeeded, Taken, Success
<1>3. CASE RunEnded
  BY <1>1, <1>3, LeaveIsQuiet DEF Execute, Endings
<1>4. CASE ~RunEnded
  <2>1. PICK token \in IF found = {} THEN {None}
                       ELSE {<<a, rows[wk[w].stage][a].xmin>> : a \in found} :
          wk' = [wk EXCEPT ![w].pc = "call", ![w].token = token]
    BY <1>4 DEF Execute
  <2> DEFINE q == [wk[w] EXCEPT !.pc = "call", !.token = token]
  <2>2. token = None \/ \E a \in found : token = <<a, rows[wk[w].stage][a].xmin>>
    BY <2>1
  <2>3. token \in {None} \cup (Attempts \X Nat)
    BY <1>1, <1>2, <2>2 DEF StepRow
  <2>4. /\ q \in WorkerState /\ q.pc = "call" /\ q.token = token
        /\ q.stage = wk[w].stage /\ q.input = wk[w].input /\ q.output = wk[w].output
        /\ q.budget = wk[w].budget /\ q.due = wk[w].due
    BY <2>3 DEF WorkerState, WorkerPhases
  <2>5. wk' = [wk EXCEPT ![w] = q]
    BY <2>1
  <2> HIDE DEF q
  <2>6. PhaseOK(q)
    BY <1>1, <2>4 DEF PhaseOK
  <2>7. TokenOK(q)
    <3>1. CASE token = None BY <3>1, <2>4 DEF TokenOK
    <3>2. CASE \E a \in found : token = <<a, rows[wk[w].stage][a].xmin>>
      <4>1. PICK a \in found : token = <<a, rows[wk[w].stage][a].xmin>> BY <3>2
      <4>2. token[1] = a /\ token[2] = rows[wk[w].stage][a].xmin BY <4>1
      <4>3. rows[wk[w].stage][a].xmin \in Nat BY <1>1, <1>2 DEF StepRow
      <4> QED BY <1>1, <1>2, <2>4, <4>2, <4>3 DEF TokenOK
    <3> QED BY <2>2, <3>1, <3>2
  <2> QED BY <1>1, <2>4, <2>5, <2>6, <2>7, StayIsQuiet
<1> QED BY <1>3, <1>4

\* A stage without a model, a call the budget refuses, a lease found lost.
LEMMA InsideSteps ==
  ASSUME StageInv, NEW w \in Workers, Compute(w) \/ Refuse(w) \/ LoseLease(w)
  PROVE  StageInv'
<1> USE WorkerFacts
<1>1. Steady /\ Active(w)
  BY DEF Compute, Refuse, AtModel, LoseLease, Steady, Active
<1>2. CASE wk' = [wk EXCEPT ![w].pc = "failing"] /\ wk[w].pc = "call"
  <2> DEFINE q == [wk[w] EXCEPT !.pc = "failing"]
  <2>1. /\ q \in WorkerState /\ q.pc = "failing" /\ q.token = wk[w].token
        /\ q.stage = wk[w].stage /\ q.input = wk[w].input /\ q.output = wk[w].output
        /\ q.budget = wk[w].budget /\ q.due = wk[w].due
    BY DEF WorkerState, WorkerPhases
  <2>2. wk' = [wk EXCEPT ![w] = q] BY <1>2
  <2> HIDE DEF q
  <2>3. PhaseOK(q) /\ TokenOK(q) BY <1>2, <2>1 DEF PhaseOK, TokenOK
  <2> QED BY <1>1, <2>1, <2>2, <2>3, StayIsQuiet
<1>3. CASE wk' = [wk EXCEPT ![w].lease = FALSE]
  <2> DEFINE q == [wk[w] EXCEPT !.lease = FALSE]
  <2>1. /\ q \in WorkerState /\ q.pc = wk[w].pc /\ q.token = wk[w].token
        /\ q.stage = wk[w].stage /\ q.input = wk[w].input /\ q.output = wk[w].output
        /\ q.budget = wk[w].budget /\ q.due = wk[w].due
    BY DEF WorkerState, WorkerPhases
  <2>2. wk' = [wk EXCEPT ![w] = q] BY <1>3
  <2> HIDE DEF q
  <2>3. PhaseOK(q) /\ TokenOK(q) /\ q.pc # "idle" BY <1>1, <2>1 DEF PhaseOK, TokenOK, Active
  <2> QED BY <1>1, <2>1, <2>2, <2>3, StayIsQuiet
<1>4. CASE /\ wk' = [wk EXCEPT ![w].pc = "commit", ![w].output = wk[w].input, ![w].tries = 1]
           /\ wk[w].pc = "call"
  <2> DEFINE q == [wk[w] EXCEPT !.pc = "commit", !.output = wk[w].input, !.tries = 1]
  <2>1. /\ q \in WorkerState /\ q.pc = "commit" /\ q.token = wk[w].token
        /\ q.stage = wk[w].stage /\ q.input = wk[w].input /\ q.output = wk[w].input
        /\ q.budget = wk[w].budget /\ q.due = wk[w].due
    BY DEF WorkerState, WorkerPhases
  <2>2. wk' = [wk EXCEPT ![w] = q] BY <1>4
  <2> HIDE DEF q
  <2>3. wk[w].input # None BY StageAssumption DEF WorkerState, Values
  <2>4. PhaseOK(q) /\ TokenOK(q) BY <1>4, <2>1, <2>3 DEF PhaseOK, TokenOK
  <2> QED BY <1>1, <2>1, <2>2, <2>4, StayIsQuiet
<1> QED BY <1>2, <1>3, <1>4 DEF Compute, Refuse, AtModel, LoseLease

\* run_model_step: the call that crosses the cost cap is the last.
LEMMA CallModelStep ==
  ASSUME StageInv, NEW w \in Workers, CallModel(w)
  PROVE  StageInv'
<1> USE WorkerFacts
<1>1. PICK c \in CallCosts, outcome \in Answers \cup {"invalid", "refused"} :
        LET b    == Plus(wk[w].budget, c)
            made == wk[w].tries + 1
            stop == Crossed(b) \/ outcome = "refused"
                    \/ (outcome = "invalid" /\ ~Repaired(outcome, made))
        IN /\ spent' = Plus(spent, c)
           /\ wk' = [wk EXCEPT ![w].budget = b, ![w].due = Plus(wk[w].due, c),
                               ![w].tries = made,
                               ![w].output = IF stop \/ outcome = "invalid"
                                             THEN None ELSE outcome,
                               ![w].pc = CASE stop -> "failing"
                                           [] ~stop /\ Repaired(outcome, made) -> "call"
                                           [] OTHER -> "flush"]
  BY DEF CallModel
<1>2. c \in Nat /\ c <= Max(CallCosts \cup {1}) /\ Max(CallCosts \cup {1}) \in Nat
  BY DearestCall, StageAssumption
<1>3. /\ wk[w].pc = "call" /\ wk[w].budget.calls < MaxCalls /\ wk[w].budget.cost < MaxCost
      /\ UNCHANGED <<run, used, rows, announced, waived, overlapped, tampers>>
  BY DEF CallModel, AtModel, MayCall, Unchanged
<1> DEFINE b == Plus(wk[w].budget, c)
           d == Plus(wk[w].due, c)
           made == wk[w].tries + 1
           stop == Crossed(b) \/ outcome = "refused"
                   \/ (outcome = "invalid" /\ ~Repaired(outcome, made))
           out == IF stop \/ outcome = "invalid" THEN None ELSE outcome
           next == CASE stop -> "failing"
                     [] ~stop /\ Repaired(outcome, made) -> "call"
                     [] OTHER -> "flush"
           q == [wk[w] EXCEPT !.budget = b, !.due = d, !.tries = made, !.output = out,
                              !.pc = next]
<1>4. /\ wk[w].budget \in Usage /\ wk[w].due \in Usage /\ spent \in Usage /\ used \in Usage
      /\ waived \in Usage /\ wk[w].tries \in Nat
  BY DEF StageInv, StageTypeOK, WorkerState
<1>5. /\ b \in Usage /\ b.calls = wk[w].budget.calls + 1 /\ b.cost = wk[w].budget.cost + c
      /\ d \in Usage /\ d.calls = wk[w].due.calls + 1 /\ d.cost = wk[w].due.cost + c
      /\ spent' \in Usage /\ spent'.calls = spent.calls + 1 /\ spent'.cost = spent.cost + c
  BY <1>1, <1>2, <1>4 DEF Plus, Usage
<1>6. made \in Nat BY <1>4
<1>7. out \in Values \cup {None} BY DEF Values
<1>8. next \in {"failing", "call", "flush"} OBVIOUS
<1>9. wk' = [wk EXCEPT ![w] = q]
  BY <1>1
<1> HIDE DEF b, d, made, out, next, stop
<1>10. /\ q \in WorkerState /\ q.pc = next /\ q.token = wk[w].token
       /\ q.stage = wk[w].stage /\ q.input = wk[w].input /\ q.output = out
       /\ q.budget = b /\ q.due = d
  BY <1>5, <1>6, <1>7, <1>8 DEF WorkerState, WorkerPhases
<1> HIDE DEF q
<1>11. wk'[w] = q /\ wk' \in [Workers -> WorkerState] /\ \A v \in Workers : v # w => wk'[v] = wk[v]
  BY <1>9, <1>10
<1>12. StageTypeOK'
  BY <1>3, <1>5, <1>11 DEF StageInv, StageTypeOK
<1>13. RowsInv'
  <2>1. StepsAlone(w) BY <1>3, <1>11 DEF StepsAlone
  <2>2. PhaseOK(wk'[w]) /\ TokenOK(wk'[w]) /\ Moved(wk[w], wk'[w])
    BY <1>3, <1>8, <1>10, <1>11 DEF PhaseOK, TokenOK, Moved
  <2> QED BY <2>1, <2>2, WorkerMoves DEF StageInv
<1>14. BudgetAccounts'
  <2>1. SUFFICES ASSUME ~overlapped PROVE BudgetAccounts'
    BY <1>3 DEF BudgetAccounts
  <2>2. \A v \in Workers : Active(v) <=> Active(v)'
    BY <1>3, <1>8, <1>10, <1>11 DEF Active
  <2>3. Active(w) /\ \A v \in Workers : Active(v) => v = w
    BY <2>1, <1>3 DEF Active, StageInv, BudgetAccounts
  <2>4. /\ ~RunEnded
        /\ wk[w].budget.calls = used.calls + wk[w].due.calls
        /\ wk[w].budget.cost = used.cost + wk[w].due.cost
        /\ spent.calls = wk[w].budget.calls + waived.calls
        /\ spent.cost = wk[w].budget.cost + waived.cost
        /\ used.calls <= MaxCalls /\ used.cost < MaxCost + Max(CallCosts \cup {1})
    BY <2>1, <2>3 DEF StageInv, BudgetAccounts
  <2>5. /\ b.calls = used.calls + d.calls /\ b.cost = used.cost + d.cost
        /\ spent'.calls = b.calls + waived.calls /\ spent'.cost = b.cost + waived.cost
        /\ b.calls <= MaxCalls /\ b.cost < MaxCost + Max(CallCosts \cup {1})
    BY <1>2, <1>3, <1>4, <1>5, <2>4, StageAssumption DEF Usage
  <2>6. ~RunEnded' BY <1>3, <2>4 DEF RunEnded
  <2>7. \A u, v \in Workers : Active(u)' /\ Active(v)' => u = v BY <2>2, <2>3
  <2>8. \A v \in Workers : Active(v)' => wk'[v].budget = b /\ wk'[v].due = d
    BY <2>2, <2>3, <1>10, <1>11
  <2>9. Active(w)' BY <2>2, <2>3
  <2> QED BY <1>3, <2>4, <2>5, <2>6, <2>7, <2>8, <2>9 DEF BudgetAccounts
<1> QED BY <1>12, <1>13, <1>14 DEF StageInv

\* record_usage: without rivals GREATEST records exactly the worker's budget.
LEMMA FlushStep ==
  ASSUME StageInv, NEW w \in Workers, Flush(w)
  PROVE  StageInv'
<1> USE WorkerFacts
<1> DEFINE next == IF wk[w].output = None THEN "ending" ELSE IF RunEnded THEN "failing" ELSE "commit"
           q == [wk[w] EXCEPT !.due = NoUsage, !.pc = next]
<1>1. /\ wk[w].pc = "flush" /\ UNCHANGED <<run, rows, announced, spent, waived, overlapped, tampers>>
      /\ wk' = [wk EXCEPT ![w] = q]
      /\ used' = IF RunEnded THEN used ELSE FlushedUsage(used, wk[w].budget)
  BY DEF Flush, Unchanged
<1>2. /\ wk[w].budget \in Usage /\ wk[w].due \in Usage /\ spent \in Usage /\ used \in Usage
      /\ waived \in Usage
  BY DEF StageInv, StageTypeOK, WorkerState
<1>3. /\ next \in {"ending", "failing", "commit"}
      /\ next # "ending" => wk[w].output # None
  OBVIOUS
<1>4. NoUsage \in Usage /\ NoUsage.calls = 0 /\ NoUsage.cost = 0
  BY DEF Usage, NoUsage
<1> HIDE DEF next
<1>5. /\ q \in WorkerState /\ q.pc = next /\ q.token = wk[w].token
      /\ q.stage = wk[w].stage /\ q.input = wk[w].input /\ q.output = wk[w].output
      /\ q.budget = wk[w].budget /\ q.due = NoUsage
  BY <1>3, <1>4 DEF WorkerState, WorkerPhases
<1> HIDE DEF q
<1>6. wk'[w] = q /\ wk' \in [Workers -> WorkerState] /\ \A v \in Workers : v # w => wk'[v] = wk[v]
  BY <1>1, <1>5
<1>7. FlushedUsage(used, wk[w].budget) \in Usage
  BY <1>2, GreatestOfTwo DEF FlushedUsage, Greatest, Usage
<1>8. StageTypeOK'
  BY <1>1, <1>6, <1>7 DEF StageInv, StageTypeOK
<1>9. RowsInv'
  <2>1. StepsAlone(w) BY <1>1, <1>6 DEF StepsAlone
  <2>2. PhaseOK(wk'[w]) /\ TokenOK(wk'[w]) /\ Moved(wk[w], wk'[w])
    BY <1>1, <1>3, <1>5, <1>6 DEF PhaseOK, TokenOK, Moved
  <2> QED BY <2>1, <2>2, WorkerMoves DEF StageInv
<1>10. BudgetAccounts'
  <2>1. SUFFICES ASSUME ~overlapped PROVE BudgetAccounts'
    BY <1>1 DEF BudgetAccounts
  <2>2. \A v \in Workers : Active(v) <=> Active(v)'
    BY <1>1, <1>3, <1>5, <1>6 DEF Active
  <2>3. Active(w) /\ \A v \in Workers : Active(v) => v = w
    BY <2>1, <1>1 DEF Active, StageInv, BudgetAccounts
  <2>4. /\ ~RunEnded
        /\ wk[w].budget.calls = used.calls + wk[w].due.calls
        /\ wk[w].budget.cost = used.cost + wk[w].due.cost
        /\ spent.calls = wk[w].budget.calls + waived.calls
        /\ spent.cost = wk[w].budget.cost + waived.cost
        /\ wk[w].budget.calls <= MaxCalls
        /\ wk[w].budget.cost < MaxCost + Max(CallCosts \cup {1})
    BY <2>1, <2>3 DEF StageInv, BudgetAccounts
  <2>5. used'.calls = wk[w].budget.calls /\ used'.cost = wk[w].budget.cost
    <3>1. used.calls <= wk[w].budget.calls /\ used.cost <= wk[w].budget.cost
      BY <1>2, <2>4 DEF Usage
    <3>2. /\ Max({used.calls, wk[w].budget.calls}) = wk[w].budget.calls
          /\ Max({used.cost, wk[w].budget.cost}) = wk[w].budget.cost
      BY <1>2, <3>1, GreatestOfTwo DEF Usage
    <3> QED BY <1>1, <2>4, <3>2 DEF FlushedUsage, Greatest
  <2>6. /\ wk[w].budget.calls = used'.calls + NoUsage.calls
        /\ wk[w].budget.cost = used'.cost + NoUsage.cost
        /\ used'.calls <= MaxCalls /\ used'.cost < MaxCost + Max(CallCosts \cup {1})
    BY <1>2, <1>4, <2>4, <2>5 DEF Usage
  <2>7. ~RunEnded' BY <1>1, <2>4 DEF RunEnded
  <2>8. \A u, v \in Workers : Active(u)' /\ Active(v)' => u = v BY <2>2, <2>3
  <2>9. \A v \in Workers : Active(v)' => wk'[v].budget = wk[w].budget /\ wk'[v].due = NoUsage
    BY <2>2, <2>3, <1>5, <1>6
  <2>10. Active(w)' BY <2>2, <2>3
  <2> QED BY <1>1, <2>4, <2>6, <2>7, <2>8, <2>9, <2>10 DEF BudgetAccounts
<1> QED BY <1>8, <1>9, <1>10 DEF StageInv

\* A delivery of the job starts from what earlier ones recorded.
LEMMA ClaimStep ==
  ASSUME StageInv, NEW w \in Workers, Claim(w)
  PROVE  StageInv'
<1> USE WorkerFacts
<1> DEFINE q == [Idle EXCEPT !.pc = "boundary", !.lease = TRUE, !.budget = CarriedUsage]
<1>1. /\ ~Active(w) /\ ~RunEnded /\ wk' = [wk EXCEPT ![w] = q]
      /\ ~(overlapped' = TRUE) => ~overlapped /\ \A v \in Workers : ~Active(v)
      /\ overlapped' \in BOOLEAN
      /\ UNCHANGED <<run, used, rows, announced, spent, waived, tampers>>
  BY DEF Claim
<1>2. used \in Usage /\ spent \in Usage /\ waived \in Usage
  BY DEF StageInv, StageTypeOK
<1>3. NoUsage \in Usage /\ NoUsage.calls = 0 /\ NoUsage.cost = 0
  BY DEF Usage, NoUsage
<1>4. 1 \in 1 .. LastStage + 1 /\ Request \in Values
  BY StageAssumption DEF Values
<1>5. /\ q.pc = "boundary" /\ q.token = None /\ q.stage = 1 /\ q.input = Request
      /\ q.output = None /\ q.budget = used /\ q.due = NoUsage /\ q \in WorkerState
  BY <1>2, <1>3, <1>4 DEF Idle, CarriedUsage, WorkerState, WorkerPhases, Endings
<1> HIDE DEF q
<1>6. wk'[w] = q /\ wk' \in [Workers -> WorkerState] /\ \A v \in Workers : v # w => wk'[v] = wk[v]
  BY <1>1, <1>5
<1>7. StageTypeOK'
  BY <1>1, <1>6 DEF StageInv, StageTypeOK
<1>8. RowsInv'
  <2>1. StepsAlone(w) BY <1>1, <1>6 DEF StepsAlone
  <2>2. PhaseOK(wk'[w]) /\ TokenOK(wk'[w]) /\ Moved(wk[w], wk'[w])
    BY <1>5, <1>6 DEF PhaseOK, TokenOK, Moved
  <2> QED BY <2>1, <2>2, WorkerMoves DEF StageInv
<1>9. BudgetAccounts'
  <2>1. SUFFICES ASSUME ~(overlapped' = TRUE) PROVE BudgetAccounts'
    BY <1>1 DEF BudgetAccounts
  <2>2. ~overlapped /\ \A v \in Workers : ~Active(v) BY <1>1, <2>1
  <2>3. /\ spent.calls = used.calls + waived.calls /\ spent.cost = used.cost + waived.cost
        /\ used.calls <= MaxCalls /\ used.cost < MaxCost + Max(CallCosts \cup {1})
    BY <2>2 DEF StageInv, BudgetAccounts
  <2>4. used.calls = used.calls + NoUsage.calls /\ used.cost = used.cost + NoUsage.cost
    BY <1>2, <1>3 DEF Usage
  <2>5. \A v \in Workers : Active(v)' => v = w BY <1>6, <2>2 DEF Active
  <2>6. Active(w)' /\ ~RunEnded' BY <1>1, <1>5, <1>6 DEF Active, RunEnded
  <2> QED BY <1>1, <1>5, <1>6, <2>3, <2>4, <2>5, <2>6 DEF BudgetAccounts
<1> QED BY <1>7, <1>8, <1>9 DEF StageInv

\* An attempt ends, or its process dies: what it had not flushed is waived.
LEMMA EndingSteps ==
  ASSUME StageInv, NEW w \in Workers, End(w) \/ Crash(w)
  PROVE  StageInv'
<1> USE WorkerFacts
<1>1. /\ Active(w) /\ wk' = [wk EXCEPT ![w] = Idle]
      /\ waived' = [calls |-> waived.calls + wk[w].due.calls,
                    cost |-> waived.cost + wk[w].due.cost]
      /\ UNCHANGED <<used, rows, announced, spent, overlapped, tampers>>
  BY DEF End, Crash, Active, Unchanged
<1>2. /\ used \in Usage /\ spent \in Usage /\ waived \in Usage /\ wk[w].due \in Usage
      /\ wk[w].budget \in Usage
  BY DEF StageInv, StageTypeOK, WorkerState
<1>3. /\ waived' \in Usage /\ waived'.calls = waived.calls + wk[w].due.calls
      /\ waived'.cost = waived.cost + wk[w].due.cost
  BY <1>1, <1>2 DEF Usage
<1>4. run' \in {"running", "waiting_review", "succeeded"} \cup Endings
  <2>1. run' = run \/ run' \in {"waiting_review", "succeeded"} \/ run' = wk[w].why
    BY DEF End, Crash, Outcomes
  <2> QED BY <2>1 DEF StageInv, StageTypeOK, WorkerState
<1>5. NoUsage \in Usage
  BY DEF Usage, NoUsage
<1>6. 1 \in 1 .. LastStage + 1 /\ Request \in Values
  BY StageAssumption DEF Values
<1>7. /\ Idle.pc = "idle" /\ Idle.token = None /\ Idle.stage = 1 /\ Idle.input = Request
      /\ Idle.output = None /\ Idle \in WorkerState
  BY <1>5, <1>6 DEF Idle, WorkerState, WorkerPhases, Endings
<1>8. wk'[w] = Idle /\ wk' \in [Workers -> WorkerState] /\ \A v \in Workers : v # w => wk'[v] = wk[v]
  BY <1>1, <1>7
<1>9. StageTypeOK'
  BY <1>1, <1>3, <1>4, <1>8 DEF StageInv, StageTypeOK
<1>10. RowsInv'
  <2>1. StepsAlone(w) BY <1>1, <1>8 DEF StepsAlone
  <2>2. PhaseOK(wk'[w]) /\ TokenOK(wk'[w]) /\ Moved(wk[w], wk'[w])
    BY <1>7, <1>8 DEF PhaseOK, TokenOK, Moved
  <2> QED BY <2>1, <2>2, WorkerMoves DEF StageInv
<1>11. BudgetAccounts'
  <2>1. SUFFICES ASSUME ~overlapped PROVE BudgetAccounts'
    BY <1>1 DEF BudgetAccounts
  <2>2. \A v \in Workers : Active(v) => v = w
    BY <1>1, <2>1 DEF StageInv, BudgetAccounts
  <2>3. \A v \in Workers : ~Active(v)'
    BY <1>7, <1>8, <2>2 DEF Active
  <2>4. /\ wk[w].budget.calls = used.calls + wk[w].due.calls
        /\ wk[w].budget.cost = used.cost + wk[w].due.cost
        /\ spent.calls = wk[w].budget.calls + waived.calls
        /\ spent.cost = wk[w].budget.cost + waived.cost
        /\ used.calls <= MaxCalls /\ used.cost < MaxCost + Max(CallCosts \cup {1})
    BY <1>1, <2>1 DEF StageInv, BudgetAccounts
  <2>5. spent.calls = used.calls + waived'.calls /\ spent.cost = used.cost + waived'.cost
    BY <1>2, <1>3, <2>4 DEF Usage
  <2> QED BY <1>1, <2>3, <2>4, <2>5 DEF BudgetAccounts
<1> QED BY <1>9, <1>10, <1>11 DEF StageInv

-----------------------------------------------------------------------------
\* The worker after its commit: at the next stage, with its output as input.
LEMMA CommittedWorker ==
  ASSUME StageInv, NEW w \in Workers, Committing(w), wk' = [wk EXCEPT ![w] = NextStage(w, wk[w].output)],
         UNCHANGED <<run, used, spent, waived, overlapped>>
  PROVE  /\ wk[w].stage \in Stages \ Skipped /\ wk[w].output \in Values /\ wk[w].input \in Values
         /\ wk' \in [Workers -> WorkerState] /\ \A v \in Workers : v # w => wk'[v] = wk[v]
         /\ wk'[w].stage = wk[w].stage + 1 /\ wk'[w].input = wk[w].output
         /\ wk'[w].pc = "boundary" /\ wk'[w].output = None /\ wk'[w].token = None
         /\ BudgetAccounts'
<1> USE WorkerFacts
<1>1. wk[w].stage \in Stages \ Skipped /\ wk[w].output \in Values /\ wk[w].input \in Values
  BY DEF Committing, PhaseOK, WorkerState
<1>2. wk[w].stage + 1 \in 1 .. LastStage + 1
  BY <1>1, StageAssumption DEF Stages
<1> DEFINE q == NextStage(w, wk[w].output)
<1>3. /\ q \in WorkerState /\ q.pc = "boundary" /\ q.output = None /\ q.token = None
      /\ q.stage = wk[w].stage + 1 /\ q.input = wk[w].output
      /\ q.budget = wk[w].budget /\ q.due = wk[w].due
  BY <1>1, <1>2 DEF NextStage, WorkerState, WorkerPhases
<1> HIDE DEF q
<1>4. wk'[w] = q /\ wk' \in [Workers -> WorkerState] /\ \A v \in Workers : v # w => wk'[v] = wk[v]
  BY <1>3 DEF q
<1>5. SpendsNothing(w)
  BY <1>3, <1>4 DEF SpendsNothing, Committing, Active
<1> QED BY <1>1, <1>3, <1>4, <1>5, AccountsStand DEF StageInv

\* Rows that are only added leave every reached stage reached.
LEMMA ReachedStays ==
  ASSUME \A s \in Stages, a \in Attempts : Success(s, a) => Success(s, a)'
  PROVE  \A t : Reached(t) => Reached(t)'
BY DEF Reached

\* INSERT ... ON CONFLICT DO NOTHING with its step_completed: the first of
\* several workers gives the stage its answer (commit_succeeded_atomic).
LEMMA InsertRowStep ==
  ASSUME StageInv, NEW w \in Workers, InsertRow(w)
  PROVE  StageInv'
<1> USE WorkerFacts
<1>0. PICK s, n, in, out, row :
        /\ s = wk[w].stage /\ n = NumberFor(w) /\ in = wk[w].input /\ out = wk[w].output
        /\ row = NewRow("succeeded", in, out)
  OBVIOUS
<1>1. /\ Committing(w) /\ n \in Attempts /\ rows[s][n] = None /\ Succeeded(s, in) = {}
      /\ rows' = [rows EXCEPT ![s][n] = row] /\ announced' = [announced EXCEPT ![<<s, in>>] = out]
      /\ wk' = [wk EXCEPT ![w] = NextStage(w, out)]
      /\ UNCHANGED <<run, used, spent, waived, overlapped, tampers>>
  BY <1>0 DEF InsertRow, Inserts, Announce, Unchanged
<1>2. /\ s \in Stages \ Skipped /\ out \in Values /\ in \in Values
      /\ wk' \in [Workers -> WorkerState] /\ \A v \in Workers : v # w => wk'[v] = wk[v]
      /\ wk'[w].stage = s + 1 /\ wk'[w].input = out
      /\ wk'[w].pc = "boundary" /\ wk'[w].output = None /\ wk'[w].token = None
      /\ BudgetAccounts'
  BY <1>0, <1>1, CommittedWorker
<1>3. /\ row \in StepRow /\ row.status = "succeeded" /\ row.input = in /\ row.output = out
      /\ row.hash = out /\ row # None
  BY <1>0, <1>2, NoneAssumption DEF NewRow, StepRow
<1>4. /\ rows \in [Stages -> [Attempts -> {None} \cup StepRow]]
      /\ announced \in [Stages \X Values -> Values \cup {None}]
  BY DEF StageInv, StageTypeOK
<1>5. /\ rows' \in [Stages -> [Attempts -> {None} \cup StepRow]]
      /\ rows'[s][n] = row
      /\ \A t \in Stages, a \in Attempts : t # s \/ a # n => rows'[t][a] = rows[t][a]
  BY <1>1, <1>2, <1>3, <1>4
<1>6. /\ announced' \in [Stages \X Values -> Values \cup {None}]
      /\ announced'[<<s, in>>] = out
      /\ \A t \in Stages, v \in Values : t # s \/ v # in => announced'[<<t, v>>] = announced[<<t, v>>]
  BY <1>1, <1>2, <1>4
<1>7. StageTypeOK'
  BY <1>1, <1>2, <1>5, <1>6 DEF StageInv, StageTypeOK
<1>8. /\ Success(s, n)' /\ ~Success(s, n)
      /\ \A t \in Stages, a \in Attempts : t # s \/ a # n => (Success(t, a)' <=> Success(t, a))
  BY <1>1, <1>3, <1>5 DEF Success
<1>9. \A a \in Attempts : Success(s, a) => rows[s][a].input # in
  BY <1>1 DEF Succeeded, Taken, Success
<1>10. PhasesAreSound'
  BY <1>2 DEF StageInv, RowsInv, PhasesAreSound, PhaseOK
<1>11. TokensAreOfDamage'
  <2>1. SUFFICES ASSUME NEW v \in Workers, v # w PROVE TokenOK(wk[v])'
    BY <1>2 DEF TokensAreOfDamage, TokenOK
  <2>2. CASE wk[v].token = None BY <2>1, <2>2, <1>2 DEF TokenOK
  <2>3. CASE wk[v].token # None
    <3>1. TokenOK(wk[v]) /\ wk[v] \in WorkerState BY WorkerFacts
    <3>2. wk[v].token[1] \in Attempts BY <2>3, <3>1 DEF WorkerState
    <3>3. wk[v].stage # s \/ wk[v].token[1] # n BY <1>8, <2>3, <3>1 DEF TokenOK
    <3>4. wk'[v] = wk[v] BY <1>2, <2>1
    <3>5. rows'[wk[v].stage][wk[v].token[1]] = rows[wk[v].stage][wk[v].token[1]]
      BY <1>5, <2>3, <3>1, <3>2, <3>3 DEF TokenOK
    <3> QED BY <3>1, <3>4, <3>5 DEF TokenOK, Recoverable, Success
  <2> QED BY <2>2, <2>3
<1>12. KeysAreUnique'
  <2>1. \A t \in Stages, a, b \in Attempts :
          Success(t, a)' /\ Success(t, b)' /\ rows'[t][a].input = rows'[t][b].input => a = b
    BY <1>3, <1>5, <1>8, <1>9 DEF StageInv, RowsInv, KeysAreUnique
  <2>2. \A t \in Stages, a \in Attempts : Success(t, a)' => t \notin Skipped
    BY <1>2, <1>8 DEF StageInv, RowsInv, KeysAreUnique
  <2> QED BY <2>1, <2>2 DEF KeysAreUnique
<1>13. StagesInOrder'
  <2>1. \A t : Reached(t) => Reached(t)'
    <3>1. \A t \in Stages, a \in Attempts : Success(t, a) => Success(t, a)' BY <1>8
    <3> QED BY <3>1, ReachedStays
  <2>2. Reached(s) /\ \A v \in Workers : Reached(wk[v].stage)
    BY <1>0 DEF StageInv, RowsInv, StagesInOrder
  <2>3. Reached(s + 1)'
    <3>1. Reached(s)' BY <2>1, <2>2
    <3> QED BY <1>1, <1>2, <1>8, <3>1, StageAssumption DEF Reached, Stages
  <2>4. \A v \in Workers : Reached(wk[v].stage)'
    <3>1. \A v \in Workers : v # w => Reached(wk[v].stage)' BY <1>2, <2>1, <2>2 DEF Reached
    <3>2. Reached(wk[w].stage)' BY <1>2, <2>3 DEF Reached
    <3> QED BY <3>1, <3>2
  <2>5. \A t \in Stages, a \in Attempts : Success(t, a)' => Reached(t)'
    BY <1>8, <2>1, <2>2 DEF StageInv, RowsInv, StagesInOrder
  <2> QED BY <2>4, <2>5 DEF StagesInOrder
<1>14. CompletionNamesRow'
  <2>1. SUFFICES ASSUME NEW t \in Stages, NEW a \in Attempts, Success(t, a)'
                 PROVE  announced'[<<t, rows'[t][a].input>>] = rows'[t][a].hash
    BY DEF CompletionNamesRow
  <2>2. CASE t = s /\ a = n BY <2>2, <1>3, <1>5, <1>6
  <2>3. CASE t # s \/ a # n
    <3>1. Success(t, a) /\ rows'[t][a] = rows[t][a] BY <1>5, <1>8, <2>1, <2>3
    <3>2. announced[<<t, rows[t][a].input>>] = rows[t][a].hash
      BY <3>1 DEF StageInv, RowsInv, CompletionNamesRow
    <3>3. t # s \/ rows[t][a].input # in BY <1>9, <3>1
    <3>4. rows[t][a].input \in Values BY <3>1 DEF StepRow
    <3> QED BY <1>6, <3>1, <3>2, <3>3, <3>4
  <2> QED BY <2>2, <2>3
<1>15. OnePath'
  <2>1. SUFFICES ASSUME tampers = 0
                 PROVE  \E f \in [1 .. LastStage + 1 -> Values] : OnPath(f)'
    BY <1>1 DEF OnePath
  <2>2. PICK f \in [1 .. LastStage + 1 -> Values] : OnPath(f)
    BY <2>1 DEF StageInv, RowsInv, OnePath
  <2>g. PICK g : g = [t \in 1 .. LastStage + 1 |-> IF t <= s THEN f[t] ELSE out]
    OBVIOUS
  <2>3. in = f[s] BY <1>0, <2>2 DEF OnPath
  <2>4. \A a \in Attempts : ~Success(s, a) BY <1>2, <1>9, <2>2, <2>3 DEF OnPath
  <2>5. \A t \in 1 .. LastStage + 1 : Reached(t) => t <= s
    BY <1>2, <2>4, StageAssumption DEF Reached, Stages
  <2>6. \A t \in Stages, a \in Attempts : Success(t, a) => t + 1 <= s
    <3>1. SUFFICES ASSUME NEW t \in Stages, NEW a \in Attempts, Success(t, a) PROVE t + 1 <= s
      OBVIOUS
    <3>2. Reached(t) /\ t \in 1 .. LastStage + 1
      BY <3>1, StageAssumption DEF StageInv, RowsInv, StagesInOrder, Stages
    <3>3. t # s BY <2>4, <3>1
    <3> QED BY <1>2, <2>5, <3>2, <3>3, StageAssumption DEF Stages
  <2>7. \A v \in Workers : wk[v].stage \in 1 .. LastStage + 1 /\ wk[v].stage <= s
    BY <2>5 DEF StageInv, StageTypeOK, RowsInv, StagesInOrder, WorkerState
  <2>8. g \in [1 .. LastStage + 1 -> Values] BY <1>2, <2>2, <2>g
  <2>9. g[1] = Request /\ \A t \in Skipped : g[t + 1] = g[t]
    <3>1. 1 <= s /\ 1 \in 1 .. LastStage + 1 BY <1>2, StageAssumption DEF Stages
    <3>2. \A t \in Skipped : t \in Nat /\ t # s /\ t \in 1 .. LastStage + 1 /\ t + 1 \in 1 .. LastStage + 1
      BY <1>2, StageAssumption DEF Stages
    <3>3. \A t \in Skipped : f[t + 1] = f[t] BY <2>2 DEF OnPath
    <3>4. s \in Nat BY <1>2, StageAssumption DEF Stages
    <3>5. \A t \in Skipped : t + 1 <= s <=> t <= s BY <3>2, <3>4
    <3> QED BY <2>2, <2>g, <3>1, <3>2, <3>3, <3>5 DEF OnPath
  <2>10. \A t \in Stages, a \in Attempts :
           Success(t, a) => /\ rows[t][a].input = g[t]
                            /\ rows[t][a].output = g[t + 1] /\ rows[t][a].hash = g[t + 1]
    <3>1. \A t \in Stages : t \in 1 .. LastStage + 1 /\ t + 1 \in 1 .. LastStage + 1 /\ t <= t + 1
      BY StageAssumption DEF Stages
    <3>2. \A t \in Stages : t + 1 <= s => t <= s BY <1>2, StageAssumption DEF Stages
    <3> QED BY <2>2, <2>6, <2>g, <3>1, <3>2 DEF OnPath
  <2>11. g[s] = in /\ g[s + 1] = out
    BY <1>2, <2>3, <2>g, StageAssumption DEF Stages
  <2>12. \A v \in Workers : wk[v].input = g[wk[v].stage]
    BY <2>2, <2>7, <2>g DEF OnPath
  <2>13. \A t \in Stages, a \in Attempts :
           Success(t, a)' => /\ rows'[t][a].input = g[t]
                             /\ rows'[t][a].output = g[t + 1] /\ rows'[t][a].hash = g[t + 1]
    BY <1>3, <1>5, <1>8, <2>10, <2>11
  <2>14. \A v \in Workers : wk'[v].input = g[wk'[v].stage]
    BY <1>2, <2>11, <2>12
  <2>15. OnPath(g)' BY <2>9, <2>13, <2>14 DEF OnPath
  <2> QED BY <2>8, <2>15
<1>16. RowsInv' BY <1>10, <1>11, <1>12, <1>13, <1>14, <1>15 DEF RowsInv
<1> QED BY <1>2, <1>7, <1>16 DEF StageInv

\* The compare-and-swap of _insert_step_row: only the damaged version that this
\* worker rejected is replaced, so nothing was repaired before any damage.
LEMMA RepairRowStep ==
  ASSUME StageInv, NEW w \in Workers, RepairRow(w)
  PROVE  /\ StageInv'
         /\ \A s \in Stages, a \in Attempts :
              Success(s, a) /\ Recoverable(rows[s][a]) => rows'[s][a] = rows[s][a]
<1> USE WorkerFacts
<1>0. PICK s, in, out : s = wk[w].stage /\ in = wk[w].input /\ out = wk[w].output
  OBVIOUS
<1>1. /\ Committing(w) /\ announced' = [announced EXCEPT ![<<s, in>>] = out]
      /\ wk' = [wk EXCEPT ![w] = NextStage(w, wk[w].output)]
      /\ UNCHANGED <<run, used, spent, waived, overlapped, tampers>>
  BY <1>0 DEF RepairRow, Announce, Unchanged
<1>2. PICK n \in Repairable(s, in, wk[w].token) :
        rows' = [rows EXCEPT ![s][n].output = out, ![s][n].hash = out, ![s][n].xmin = @ + 1]
  BY <1>0 DEF RepairRow
<1>3. /\ s \in Stages \ Skipped /\ out \in Values /\ in \in Values
      /\ wk' \in [Workers -> WorkerState] /\ \A v \in Workers : v # w => wk'[v] = wk[v]
      /\ wk'[w].stage = s + 1 /\ wk'[w].input = out
      /\ wk'[w].pc = "boundary" /\ wk'[w].output = None /\ wk'[w].token = None
      /\ BudgetAccounts'
  BY <1>0, <1>1, CommittedWorker
<1>4. /\ n \in Attempts /\ Success(s, n) /\ rows[s][n].input = in
      /\ wk[w].token = <<n, rows[s][n].xmin>>
  BY <1>2 DEF Repairable, Succeeded, Taken, Success
<1>5. /\ rows \in [Stages -> [Attempts -> {None} \cup StepRow]] /\ rows[s][n] \in StepRow
      /\ announced \in [Stages \X Values -> Values \cup {None}]
  BY <1>3, <1>4 DEF StageInv, StageTypeOK
<1>6. ~Recoverable(rows[s][n])
  <2>1. /\ wk[w].token # None /\ wk[w].token[1] = n /\ wk[w].token[2] = rows[s][n].xmin
    BY <1>4, <1>5, NoneAssumption DEF StepRow
  <2> QED BY <2>1, <1>0 DEF TokenOK
<1>7. PICK row : row = [rows[s][n] EXCEPT !.output = out, !.hash = out, !.xmin = @ + 1]
  OBVIOUS
<1>8. /\ row \in StepRow /\ row.status = "succeeded" /\ row.input = in /\ row.output = out
      /\ row.hash = out /\ row # None /\ row.xmin = rows[s][n].xmin + 1
  <2>1. rows[s][n].status = "succeeded" BY <1>4 DEF Success
  <2>2. /\ row \in StepRow /\ row.status = rows[s][n].status /\ row.input = rows[s][n].input
        /\ row.output = out /\ row.hash = out /\ row.xmin = rows[s][n].xmin + 1
    <3>1. PICK x \in Nat : x = rows[s][n].xmin + 1 BY <1>5 DEF StepRow
    <3>2. row = [rows[s][n] EXCEPT !.output = out, !.hash = out, !.xmin = x] BY <1>7, <3>1
    <3>3. out \in Values \cup {None} BY <1>3
    <3> QED BY <1>5, <3>1, <3>2, <3>3 DEF StepRow
  <2> QED BY <1>4, <2>1, <2>2, NoneAssumption
<1>9. /\ rows' \in [Stages -> [Attempts -> {None} \cup StepRow]]
      /\ rows'[s][n] = row
      /\ \A t \in Stages, a \in Attempts : t # s \/ a # n => rows'[t][a] = rows[t][a]
  <2>1. rows' = [rows EXCEPT ![s] = [rows[s] EXCEPT ![n] = row]]
    BY <1>2, <1>3, <1>4, <1>5, <1>7
  <2> QED BY <2>1, <1>3, <1>4, <1>5, <1>8
<1>10. /\ announced' \in [Stages \X Values -> Values \cup {None}]
       /\ announced'[<<s, in>>] = out
       /\ \A t \in Stages, v \in Values : t # s \/ v # in => announced'[<<t, v>>] = announced[<<t, v>>]
  BY <1>1, <1>3, <1>5
<1>11. StageTypeOK'
  BY <1>1, <1>3, <1>9, <1>10 DEF StageInv, StageTypeOK
<1>12. \A t \in Stages, a \in Attempts : /\ Success(t, a)' <=> Success(t, a)
                                         /\ Success(t, a) => rows'[t][a].input = rows[t][a].input
  BY <1>4, <1>8, <1>9 DEF Success
<1>13. PhasesAreSound'
  BY <1>3 DEF StageInv, RowsInv, PhasesAreSound, PhaseOK
<1>14. TokensAreOfDamage'
  <2>1. SUFFICES ASSUME NEW v \in Workers, v # w, wk[v].token # None PROVE TokenOK(wk[v])'
    BY <1>3 DEF TokensAreOfDamage, TokenOK
  <2>2. PICK t, a : t = wk[v].stage /\ a = wk[v].token[1] OBVIOUS
  <2>3. /\ wk'[v] = wk[v] /\ a \in Attempts /\ t \in Stages /\ wk[v].token[2] \in Nat
        /\ Success(t, a) /\ wk[v].token[2] <= rows[t][a].xmin
        /\ rows[t][a].xmin = wk[v].token[2] => ~Recoverable(rows[t][a])
    BY <1>3, <2>1, <2>2, WorkerFacts DEF TokenOK, WorkerState
  <2>4. CASE t = s /\ a = n
    <3>1. rows'[t][a].xmin = rows[t][a].xmin + 1 /\ rows[t][a].xmin \in Nat
      BY <1>5, <1>8, <1>9, <2>4 DEF StepRow
    <3>2. Success(t, a)' BY <1>12, <2>3
    <3>3. wk[v].token[2] <= rows'[t][a].xmin /\ rows'[t][a].xmin # wk[v].token[2]
      BY <2>3, <3>1
    <3> QED BY <2>2, <2>3, <3>2, <3>3 DEF TokenOK, Success
  <2>5. CASE t # s \/ a # n
    <3>1. rows'[t][a] = rows[t][a] BY <1>9, <2>3, <2>5
    <3> QED BY <2>2, <2>3, <3>1 DEF TokenOK, Recoverable, Success
  <2> QED BY <2>4, <2>5
<1>15. KeysAreUnique'
  BY <1>12 DEF StageInv, RowsInv, KeysAreUnique
<1>16. StagesInOrder'
  <2>1. \A t : Reached(t) => Reached(t)' BY <1>12, ReachedStays
  <2>2. \A v \in Workers : Reached(wk[v].stage)
    BY DEF StageInv, RowsInv, StagesInOrder
  <2>3. Reached(s + 1)'
    <3>1. Reached(s)' BY <1>0, <2>1, <2>2
    <3>2. Success(s, n)' BY <1>3, <1>4, <1>12
    <3> QED BY <1>3, <1>4, <3>1, <3>2, StageAssumption DEF Reached, Stages
  <2>4. \A v \in Workers : Reached(wk[v].stage)'
    <3>1. \A v \in Workers : v # w => Reached(wk[v].stage)' BY <1>3, <2>1, <2>2 DEF Reached
    <3>2. Reached(wk[w].stage)' BY <1>3, <2>3 DEF Reached
    <3> QED BY <3>1, <3>2
  <2>5. \A t \in Stages, a \in Attempts : Success(t, a)' => Reached(t)'
    BY <1>12, <2>1 DEF StageInv, RowsInv, StagesInOrder
  <2> QED BY <2>4, <2>5 DEF StagesInOrder
<1>17. CompletionNamesRow'
  <2>1. SUFFICES ASSUME NEW t \in Stages, NEW a \in Attempts, Success(t, a)'
                 PROVE  announced'[<<t, rows'[t][a].input>>] = rows'[t][a].hash
    BY DEF CompletionNamesRow
  <2>2. CASE t = s /\ a = n BY <2>2, <1>8, <1>9, <1>10
  <2>3. CASE t # s \/ a # n
    <3>1. Success(t, a) /\ rows'[t][a] = rows[t][a] BY <1>9, <1>12, <2>1, <2>3
    <3>2. announced[<<t, rows[t][a].input>>] = rows[t][a].hash
      BY <3>1 DEF StageInv, RowsInv, CompletionNamesRow
    <3>3. t # s \/ rows[t][a].input # in
      BY <1>4, <2>3, <3>1 DEF StageInv, RowsInv, KeysAreUnique
    <3>4. rows[t][a].input \in Values BY <3>1 DEF StepRow
    <3> QED BY <1>10, <3>1, <3>2, <3>3, <3>4
  <2> QED BY <2>2, <2>3
<1>18. OnePath'
  <2>1. SUFFICES ASSUME tampers = 0 PROVE FALSE
    BY <1>1 DEF OnePath
  <2>2. PICK f \in [1 .. LastStage + 1 -> Values] : OnPath(f)
    BY <2>1 DEF StageInv, RowsInv, OnePath
  <2>3. rows[s][n].output = f[s + 1] /\ rows[s][n].hash = f[s + 1]
    BY <1>3, <1>4, <2>2 DEF OnPath
  <2>4. f[s + 1] \in Values /\ f[s + 1] # None
    BY <1>3, <2>2, StageAssumption DEF Stages, Values
  <2> QED BY <1>6, <2>3, <2>4 DEF Recoverable
<1>19. RowsInv' BY <1>13, <1>14, <1>15, <1>16, <1>17, <1>18 DEF RowsInv
<1>20. StageInv' BY <1>3, <1>11, <1>19 DEF StageInv
<1> QED BY <1>6, <1>9, <1>20

\* A write that changes no successful row (a failed row) keeps the rows and the
\* workers in agreement.
LEMMA FailureStep ==
  ASSUME StageInv, NEW w \in Workers, RecordStageFailure(w)
  PROVE  /\ StageInv'
         /\ \A s \in Stages, a \in Attempts : Success(s, a) => rows'[s][a] = rows[s][a]
<1> USE WorkerFacts
<1>0. PICK s, row : s = wk[w].stage /\ row = NewRow("failed", wk[w].input, None)
  OBVIOUS
<1>1. /\ wk[w].pc = "failing" /\ wk' = [wk EXCEPT ![w] = Leave(w, "failed")]
      /\ UNCHANGED <<run, used, announced, spent, waived, overlapped, tampers>>
      /\ rows' = rows \/ (rows[s][1] = None /\ rows' = [rows EXCEPT ![s][1] = row])
  BY <1>0 DEF RecordStageFailure, Unchanged
<1>2. s \in Stages \ Skipped /\ wk[w].input \in Values
  BY <1>0, <1>1 DEF PhaseOK, WorkerState
<1>3. row \in StepRow /\ row.status = "failed"
  BY <1>0, <1>2 DEF NewRow, StepRow
<1>4. rows \in [Stages -> [Attempts -> {None} \cup StepRow]] /\ 1 \in Attempts
  BY StageAssumption DEF StageInv, StageTypeOK, Attempts
<1>5. /\ rows' \in [Stages -> [Attempts -> {None} \cup StepRow]]
      /\ \A t \in Stages, a \in Attempts :
           rows'[t][a] = rows[t][a] \/ (rows[t][a] = None /\ rows'[t][a] = row)
  BY <1>1, <1>2, <1>3, <1>4
<1>6. \A t \in Stages, a \in Attempts : /\ Success(t, a)' <=> Success(t, a)
                                        /\ Success(t, a) => rows'[t][a] = rows[t][a]
  BY <1>3, <1>5 DEF Success
<1> DEFINE q == Leave(w, "failed")
<1>7. /\ q \in WorkerState /\ q.pc \in {"flush", "ending"} /\ q.output = None
      /\ q.stage = wk[w].stage /\ q.input = wk[w].input /\ q.token = wk[w].token
      /\ q.budget = wk[w].budget /\ q.due = wk[w].due
  BY DEF Leave, WorkerState, WorkerPhases, Endings
<1> HIDE DEF q
<1>8. wk'[w] = q /\ wk' \in [Workers -> WorkerState] /\ \A v \in Workers : v # w => wk'[v] = wk[v]
  BY <1>1, <1>7 DEF q
<1>9. \A v \in Workers : /\ wk'[v].stage = wk[v].stage /\ wk'[v].input = wk[v].input
                         /\ wk'[v].token = wk[v].token
  BY <1>7, <1>8
<1>10. StageTypeOK'
  BY <1>1, <1>5, <1>8 DEF StageInv, StageTypeOK
<1>11. BudgetAccounts'
  <2>1. SpendsNothing(w) BY <1>1, <1>7, <1>8 DEF SpendsNothing, Active
  <2> QED BY <2>1, AccountsStand DEF StageInv
<1>12. PhasesAreSound'
  BY <1>7, <1>8 DEF StageInv, RowsInv, PhasesAreSound, PhaseOK
<1>13. TokensAreOfDamage'
  <2>1. SUFFICES ASSUME NEW v \in Workers, wk[v].token # None PROVE TokenOK(wk[v])'
    BY <1>9 DEF TokensAreOfDamage, TokenOK
  <2>2. PICK t, a : t = wk[v].stage /\ a = wk[v].token[1] OBVIOUS
  <2>3. /\ a \in Attempts /\ t \in Stages /\ Success(t, a) /\ wk[v].token[2] <= rows[t][a].xmin
        /\ rows[t][a].xmin = wk[v].token[2] => ~Recoverable(rows[t][a])
    BY <2>1, <2>2, WorkerFacts DEF TokenOK, WorkerState
  <2>4. rows'[t][a] = rows[t][a] BY <1>6, <2>3
  <2> QED BY <1>9, <2>2, <2>3, <2>4 DEF TokenOK, Recoverable, Success
<1>14. KeysAreUnique' /\ CompletionNamesRow'
  BY <1>1, <1>6 DEF StageInv, RowsInv, KeysAreUnique, CompletionNamesRow
<1>15. StagesInOrder'
  <2>1. \A t : Reached(t) => Reached(t)' BY <1>6, ReachedStays
  <2>2. \A v \in Workers : Reached(wk[v].stage)' BY <1>9, <2>1 DEF StageInv, RowsInv, StagesInOrder, Reached
  <2>3. \A t \in Stages, a \in Attempts : Success(t, a)' => Reached(t)'
    BY <1>6, <2>1 DEF StageInv, RowsInv, StagesInOrder
  <2> QED BY <2>2, <2>3 DEF StagesInOrder
<1>16. OnePath'
  <2>1. SUFFICES ASSUME tampers = 0
                 PROVE  \E f \in [1 .. LastStage + 1 -> Values] : OnPath(f)'
    BY <1>1 DEF OnePath
  <2>2. PICK f \in [1 .. LastStage + 1 -> Values] : OnPath(f)
    BY <2>1 DEF StageInv, RowsInv, OnePath
  <2>3. OnPath(f)' BY <1>6, <1>9, <2>2 DEF OnPath
  <2> QED BY <2>3
<1>17. StageInv' BY <1>10, <1>11, <1>12, <1>13, <1>14, <1>15, <1>16 DEF RowsInv, StageInv
<1> QED BY <1>6, <1>17

\* A stored output is lost or altered: its key and its hash stay, its version
\* does not.
LEMMA TamperStep ==
  ASSUME StageInv, NEW s \in Stages, NEW n \in Attempts, Tamper(s, n)
  PROVE  StageInv'
<1>1. PICK v \in (Values \cup {None}) \ {rows[s][n].hash} :
        rows' = [rows EXCEPT ![s][n].output = v, ![s][n].xmin = @ + 1]
  BY DEF Tamper
<1>2. /\ Success(s, n) /\ tampers' = tampers + 1
      /\ UNCHANGED <<run, used, announced, wk, spent, waived, overlapped>>
  BY DEF Tamper, Success
<1>3. rows \in [Stages -> [Attempts -> {None} \cup StepRow]] /\ rows[s][n] \in StepRow /\ tampers \in Nat
  BY <1>2 DEF StageInv, StageTypeOK, Success
<1>4. PICK row : row = [rows[s][n] EXCEPT !.output = v, !.xmin = @ + 1]
  OBVIOUS
<1>5. /\ row \in StepRow /\ row.status = rows[s][n].status /\ row.input = rows[s][n].input
      /\ row.hash = rows[s][n].hash /\ row.xmin = rows[s][n].xmin + 1
  <2>1. PICK x \in Nat : x = rows[s][n].xmin + 1 BY <1>3 DEF StepRow
  <2>2. row = [rows[s][n] EXCEPT !.output = v, !.xmin = x] BY <1>4, <2>1
  <2> QED BY <1>1, <1>3, <2>1, <2>2 DEF StepRow
<1>6. /\ rows' \in [Stages -> [Attempts -> {None} \cup StepRow]]
      /\ rows'[s][n] = row
      /\ \A t \in Stages, a \in Attempts : t # s \/ a # n => rows'[t][a] = rows[t][a]
  <2>1. rows' = [rows EXCEPT ![s] = [rows[s] EXCEPT ![n] = row]]
    BY <1>1, <1>3, <1>4
  <2> QED BY <2>1, <1>3, <1>5
<1>7. row # None BY <1>5, NoneAssumption
<1>8. \A t \in Stages, a \in Attempts :
        /\ Success(t, a)' <=> Success(t, a)
        /\ Success(t, a) => rows'[t][a].input = rows[t][a].input /\ rows'[t][a].hash = rows[t][a].hash
  BY <1>2, <1>5, <1>6, <1>7 DEF Success
<1>9. tampers' \in Nat /\ tampers' # 0 BY <1>2, <1>3
<1>10. StageTypeOK'
  BY <1>2, <1>6, <1>9 DEF StageInv, StageTypeOK
<1>11. BudgetAccounts'
  <2>1. \A w \in Workers : Active(w)' <=> Active(w) BY <1>2 DEF Active
  <2> QED BY <1>2, <2>1 DEF StageInv, BudgetAccounts, RunEnded
<1>12. PhasesAreSound' /\ OnePath'
  BY <1>2, <1>9 DEF StageInv, RowsInv, PhasesAreSound, PhaseOK, OnePath
<1>13. TokensAreOfDamage'
  <2>1. SUFFICES ASSUME NEW w \in Workers, wk[w].token # None PROVE TokenOK(wk[w])'
    BY <1>2 DEF TokensAreOfDamage, TokenOK
  <2>2. PICK t, a : t = wk[w].stage /\ a = wk[w].token[1] OBVIOUS
  <2>3. /\ a \in Attempts /\ t \in Stages /\ wk[w].token[2] \in Nat
        /\ Success(t, a) /\ wk[w].token[2] <= rows[t][a].xmin
        /\ rows[t][a].xmin = wk[w].token[2] => ~Recoverable(rows[t][a])
    BY <2>1, <2>2, WorkerFacts DEF TokenOK, WorkerState
  <2>4. Success(t, a)' BY <1>8, <2>3
  <2>5. CASE t = s /\ a = n
    <3>1. rows'[t][a].xmin = rows[t][a].xmin + 1 /\ rows[t][a].xmin \in Nat
      BY <1>3, <1>5, <1>6, <2>5 DEF StepRow
    <3>2. wk[w].token[2] <= rows'[t][a].xmin /\ rows'[t][a].xmin # wk[w].token[2]
      BY <2>3, <3>1
    <3> QED BY <1>2, <2>2, <2>3, <2>4, <3>2 DEF TokenOK, Success
  <2>6. CASE t # s \/ a # n
    <3>1. rows'[t][a] = rows[t][a] BY <1>6, <2>3, <2>6
    <3> QED BY <1>2, <2>2, <2>3, <3>1 DEF TokenOK, Recoverable, Success
  <2> QED BY <2>5, <2>6
<1>14. KeysAreUnique' /\ CompletionNamesRow'
  BY <1>2, <1>8 DEF StageInv, RowsInv, KeysAreUnique, CompletionNamesRow
<1>15. StagesInOrder'
  <2>1. \A t : Reached(t) => Reached(t)' BY <1>8, ReachedStays
  <2>2. \A w \in Workers : Reached(wk[w].stage)' BY <1>2, <2>1 DEF StageInv, RowsInv, StagesInOrder, Reached
  <2>3. \A t \in Stages, a \in Attempts : Success(t, a)' => Reached(t)'
    BY <1>8, <2>1 DEF StageInv, RowsInv, StagesInOrder
  <2> QED BY <2>2, <2>3 DEF StagesInOrder
<1> QED BY <1>10, <1>11, <1>12, <1>13, <1>14, <1>15 DEF RowsInv, StageInv

-----------------------------------------------------------------------------
\* The run starts with no row, no attempt and nothing spent.
LEMMA StageInitInv == StageInit => StageInv
<1>1. SUFFICES ASSUME StageInit PROVE StageInv
  OBVIOUS
<1>2. NoUsage \in Usage /\ NoUsage.calls = 0 /\ NoUsage.cost = 0
  BY DEF NoUsage, Usage
<1>3. 1 \in 1 .. LastStage + 1 /\ Request \in Values
  BY StageAssumption DEF Values
<1>4. /\ Idle.pc = "idle" /\ Idle.token = None /\ Idle.stage = 1 /\ Idle.input = Request
      /\ Idle.output = None /\ Idle \in WorkerState
  BY <1>2, <1>3 DEF Idle, WorkerState, WorkerPhases, Endings
<1>5. wk \in [Workers -> WorkerState] /\ \A w \in Workers : wk[w] = Idle
  BY <1>1, <1>4 DEF StageInit
<1>6. \A s \in Stages, a \in Attempts : ~Success(s, a)
  BY <1>1 DEF StageInit, Success
<1>7. StageTypeOK
  BY <1>1, <1>2, <1>5 DEF StageInit, StageTypeOK
<1>8. PhasesAreSound /\ TokensAreOfDamage /\ KeysAreUnique /\ CompletionNamesRow
  BY <1>4, <1>5, <1>6 DEF PhasesAreSound, PhaseOK, TokensAreOfDamage, TokenOK, KeysAreUnique,
                         CompletionNamesRow
<1>9. StagesInOrder
  BY <1>4, <1>5, <1>6, StageAssumption DEF StagesInOrder, Reached, Stages
<1>10. OnePath
  <2>1. PICK f : f = [t \in 1 .. LastStage + 1 |-> Request] OBVIOUS
  <2>2. f \in [1 .. LastStage + 1 -> Values] BY <1>3, <2>1
  <2>3. \A t \in Skipped : t \in 1 .. LastStage + 1 /\ t + 1 \in 1 .. LastStage + 1
    BY StageAssumption
  <2>4. OnPath(f) BY <1>3, <1>4, <1>5, <1>6, <2>1, <2>3 DEF OnPath
  <2> QED BY <2>2, <2>4 DEF OnePath
<1>11. BudgetAccounts
  <2>1. \A w \in Workers : ~Active(w) BY <1>4, <1>5 DEF Active
  <2>2. used = NoUsage /\ spent = NoUsage /\ waived = NoUsage BY <1>1 DEF StageInit
  <2>3. used.calls <= MaxCalls /\ used.cost < MaxCost + Max(CallCosts \cup {1})
    BY <1>2, <2>2, DearestCall, StageAssumption
  <2>4. spent.calls = used.calls + waived.calls /\ spent.cost = used.cost + waived.cost
    BY <1>2, <2>2
  <2> QED BY <2>1, <2>3, <2>4 DEF BudgetAccounts
<1> QED BY <1>7, <1>8, <1>9, <1>10, <1>11 DEF StageInv, RowsInv

\* Every step of a worker, every fault and every stutter keeps the invariant.
LEMMA StageNextInv == StageInv /\ [StageNext]_stageVars => StageInv'
<1>1. SUFFICES ASSUME StageInv, [StageNext]_stageVars PROVE StageInv'
  OBVIOUS
<1>2. ASSUME NEW w \in Workers, Claim(w) PROVE StageInv' BY <1>1, <1>2, ClaimStep
<1>3. ASSUME NEW w \in Workers, Step(w) PROVE StageInv'
  BY <1>1, <1>3, LeavingSteps, SkipResumeSteps, ExecuteStep, InsideSteps, CallModelStep,
     FlushStep, InsertRowStep, RepairRowStep, FailureStep, EndingSteps DEF Step
<1>4. ASSUME NEW w \in Workers, Crash(w) \/ LoseLease(w) PROVE StageInv'
  BY <1>1, <1>4, EndingSteps, InsideSteps
<1>5. ASSUME NEW s \in Stages, NEW a \in Attempts, Tamper(s, a) PROVE StageInv'
  BY <1>1, <1>5, TamperStep
<1>6. CASE UNCHANGED stageVars
  <2>1. UNCHANGED <<run, used, rows, announced, wk, spent, waived, overlapped, tampers>>
    BY <1>6 DEF stageVars
  <2>2. StageTypeOK' /\ BudgetAccounts'
    BY <1>1, <2>1 DEF StageInv, StageTypeOK, BudgetAccounts, Active, RunEnded
  <2>3. \A s \in Stages, a \in Attempts : Success(s, a)' <=> Success(s, a) BY <2>1 DEF Success
  <2>4. \A t : Reached(t)' <=> Reached(t) BY <2>3 DEF Reached
  <2>5. StagesInOrder' BY <1>1, <2>1, <2>3, <2>4 DEF StageInv, RowsInv, StagesInOrder
  <2>6. PhasesAreSound' /\ TokensAreOfDamage' /\ KeysAreUnique' /\ CompletionNamesRow' /\ OnePath'
    BY <1>1, <2>1 DEF StageInv, RowsInv, PhasesAreSound, PhaseOK, TokensAreOfDamage, TokenOK,
         KeysAreUnique, CompletionNamesRow, OnePath, OnPath, Success, Recoverable
  <2> QED BY <2>2, <2>5, <2>6 DEF StageInv, RowsInv
<1> QED BY <1>1, <1>2, <1>3, <1>4, <1>5, <1>6 DEF StageNext

\* The invariant of the stages holds in every reachable state.
THEOREM StageSpecInv == StageSpec => []StageInv
<1>1. QED BY StageInitInv, StageNextInv, PTL DEF StageSpec

\* One answer per stage: while nothing is damaged, workers that execute one run
\* at the same time go on from one output per stage, and every step_completed
\* names the row that won (commit_succeeded_atomic).
THEOREM StageSpecOneAnswer == StageSpec => []OneAnswerPerStage
<1>1. StageInv => OneAnswerPerStage
  <2>1. SUFFICES ASSUME StageInv PROVE OneAnswerPerStage
    OBVIOUS
  <2>2. CompletionNamesRow BY <2>1 DEF StageInv, RowsInv
  <2>3. ASSUME tampers = 0
        PROVE  /\ \A s \in Stages : Cardinality({a \in Attempts : Success(s, a)}) <= 1
               /\ \A v, w \in Workers : wk[v].stage = wk[w].stage => wk[v].input = wk[w].input
    <3>1. PICK f \in [1 .. LastStage + 1 -> Values] : OnPath(f)
      BY <2>1, <2>3 DEF StageInv, RowsInv, OnePath
    <3>2. \A s \in Stages : Cardinality({a \in Attempts : Success(s, a)}) <= 1
      <4>1. SUFFICES ASSUME NEW s \in Stages
                     PROVE  Cardinality({a \in Attempts : Success(s, a)}) <= 1
        OBVIOUS
      <4> DEFINE S == {a \in Attempts : Success(s, a)}
      <4>2. \A a, b \in S : a = b
        BY <2>1, <3>1 DEF OnPath, StageInv, RowsInv, KeysAreUnique
      <4>3. S = {} \/ \E a : S = {a}
        <5>1. CASE S # {}
          <6>1. PICK a \in S : TRUE BY <5>1
          <6>2. S = {a} BY <4>2, <6>1
          <6> QED BY <6>2
        <5> QED BY <5>1
      <4>4. Cardinality(S) = 0 \/ Cardinality(S) = 1
        BY <4>3, FS_EmptySet, FS_Singleton
      <4> QED BY <4>4
    <3> QED BY <3>1, <3>2 DEF OnPath
  <2> QED BY <2>2, <2>3 DEF OneAnswerPerStage
<1> QED BY <1>1, StageSpecInv, PTL

\* The caps bound the run: deliveries one after another make no more calls than
\* MaxCalls and overshoot MaxCost by less than a call, but for what was waived
\* (budget.py).
THEOREM StageSpecBudget == StageSpec => []BudgetHolds
<1>1. StageInv => BudgetHolds
  <2>1. SUFFICES ASSUME StageInv, ~overlapped
                 PROVE  /\ spent.calls <= MaxCalls + waived.calls
                        /\ spent.cost < MaxCost + Max(CallCosts \cup {1}) + waived.cost
    BY DEF BudgetHolds
  <2>2. used \in Usage /\ spent \in Usage /\ waived \in Usage
    BY <2>1 DEF StageInv, StageTypeOK
  <2>3. MaxCalls \in Nat /\ MaxCost \in Nat /\ Max(CallCosts \cup {1}) \in Nat
    BY DearestCall, StageAssumption
  <2>4. CASE \E w \in Workers : Active(w)
    <3>1. PICK w \in Workers : Active(w) BY <2>4
    <3>2. /\ spent.calls = wk[w].budget.calls + waived.calls
          /\ spent.cost = wk[w].budget.cost + waived.cost
          /\ wk[w].budget.calls <= MaxCalls
          /\ wk[w].budget.cost < MaxCost + Max(CallCosts \cup {1})
      BY <2>1, <3>1 DEF StageInv, BudgetAccounts
    <3>3. wk[w].budget \in Usage BY <2>1 DEF StageInv, StageTypeOK, WorkerState
    <3> QED BY <2>2, <2>3, <3>2, <3>3 DEF Usage
  <2>5. CASE \A w \in Workers : ~Active(w)
    <3>1. /\ spent.calls = used.calls + waived.calls /\ spent.cost = used.cost + waived.cost
          /\ used.calls <= MaxCalls /\ used.cost < MaxCost + Max(CallCosts \cup {1})
      BY <2>1, <2>5 DEF StageInv, BudgetAccounts
    <3> QED BY <2>2, <2>3, <3>1 DEF Usage
  <2> QED BY <2>4, <2>5
<1> QED BY <1>1, StageSpecInv, PTL

\* A checkpoint that verifies is replaced by no repair and no concurrent commit
\* (persist_checkpoint._insert_step_row): only damage changes it.
THEOREM StageSpecKeepsCheckpoints == StageSpec => GoodCheckpointKept
<1> DEFINE Kept == \A s \in Stages, a \in Attempts :
                     Success(s, a) /\ Recoverable(rows[s][a])
                       => rows'[s][a] = rows[s][a] \/ tampers' > tampers
<1>1. StageInv /\ [StageNext]_stageVars => [Kept]_stageVars
  <2>1. SUFFICES ASSUME StageInv, StageNext PROVE Kept
    OBVIOUS
  <2>2. CASE rows' = rows BY <2>2
  <2>3. ASSUME NEW w \in Workers, InsertRow(w) PROVE Kept
    <3>1. PICK s, n : s = wk[w].stage /\ n = NumberFor(w) OBVIOUS
    <3>2. /\ rows[s][n] = None
          /\ rows' = [rows EXCEPT ![s][n] = NewRow("succeeded", wk[w].input, wk[w].output)]
      BY <2>3, <3>1 DEF InsertRow, Inserts
    <3>3. rows \in [Stages -> [Attempts -> {None} \cup StepRow]] BY <2>1 DEF StageInv, StageTypeOK
    <3>4. \A t \in Stages, a \in Attempts : t # s \/ a # n => rows'[t][a] = rows[t][a]
      BY <3>2, <3>3
    <3> QED BY <3>2, <3>4 DEF Success
  <2>4. ASSUME NEW w \in Workers, RepairRow(w) PROVE Kept BY <2>1, <2>4, RepairRowStep
  <2>5. ASSUME NEW w \in Workers, RecordStageFailure(w) PROVE Kept BY <2>1, <2>5, FailureStep
  <2>6. ASSUME NEW s \in Stages, NEW a \in Attempts, Tamper(s, a) PROVE Kept
    <3>1. tampers' = tampers + 1 /\ tampers \in Nat
      BY <2>1, <2>6 DEF Tamper, StageInv, StageTypeOK
    <3> QED BY <3>1
  <2>7. ASSUME NEW w \in Workers,
               \/ Claim(w) \/ Crash(w) \/ LoseLease(w) \/ BoundaryStops(w) \/ Skip(w)
               \/ Resume(w) \/ Execute(w) \/ Compute(w) \/ Refuse(w) \/ CallModel(w)
               \/ Flush(w) \/ FenceStops(w) \/ CommitRefused(w) \/ Superseded(w) \/ End(w)
        PROVE  rows' = rows
    BY <2>7 DEF Claim, Crash, LoseLease, BoundaryStops, Skip, Resume, Execute, Compute, Refuse,
         CallModel, Flush, FenceStops, CommitRefused, Superseded, End
  <2> QED BY <2>1, <2>2, <2>3, <2>4, <2>5, <2>6, <2>7 DEF StageNext, Step
<1>2. StageSpec => [][Kept]_stageVars
  BY <1>1, StageSpecInv, PTL DEF StageSpec
<1> QED BY <1>2 DEF GoodCheckpointKept

(* ---------------------------- extracted values ---------------------------- *)
(* ----------------------------- powers of ten ----------------------------- *)
\* A table of the first powers.
PowersTo(g, n) ==
  \A k \in 0 .. n : g[k] \in Nat \ {0} /\ g[k] = IF k = 0 THEN 1 ELSE 10 * g[k - 1]

(* The recursion has a solution.                                            *)
LEMMA PowersExist ==
  \E h : h = [n \in Nat |-> IF n = 0 THEN 1 ELSE 10 * h[n - 1]] /\ \A n \in Nat : h[n] \in Nat \ {0}
<1>1. PICK Q : Q = {n \in Nat : \E g : PowersTo(g, n)}
  OBVIOUS
<1>2. 0 \in Q
  <2>1. PICK g : g = [k \in 0 .. 0 |-> 1]
    OBVIOUS
  <2>2. PowersTo(g, 0)
    BY <2>1 DEF PowersTo
  <2> QED BY <1>1, <2>2
<1>3. ASSUME NEW n \in Nat, n \in Q PROVE n + 1 \in Q
  <2>1. PICK g : PowersTo(g, n)
    BY <1>1, <1>3
  <2>2. PICK h : h = [k \in 0 .. n + 1 |-> IF k <= n THEN g[k] ELSE 10 * g[n]]
    OBVIOUS
  <2>3. ASSUME NEW k \in 0 .. n + 1
        PROVE  h[k] \in Nat \ {0} /\ h[k] = IF k = 0 THEN 1 ELSE 10 * h[k - 1]
    <3>1. CASE k <= n
      <4>1. k \in 0 .. n /\ (k # 0 => k - 1 \in 0 .. n + 1 /\ k - 1 <= n)
        BY <3>1
      <4> QED BY <2>1, <2>2, <3>1, <4>1 DEF PowersTo
    <3>2. CASE ~(k <= n)
      <4>1. k = n + 1 /\ k # 0 /\ k - 1 = n /\ n \in 0 .. n + 1 /\ n \in 0 .. n /\ n <= n
        BY <3>2
      <4>2. g[n] \in Nat \ {0}
        BY <2>1, <4>1 DEF PowersTo
      <4>3. h[k] = 10 * g[n] /\ h[k - 1] = g[n]
        BY <2>2, <3>2, <4>1
      <4> QED BY <4>1, <4>2, <4>3
    <3> QED BY <3>1, <3>2
  <2>4. PowersTo(h, n + 1)
    BY <2>3 DEF PowersTo
  <2> QED BY <1>1, <2>4
<1>4. \A n \in Nat : \E g : PowersTo(g, n)
  BY <1>1, <1>2, <1>3, NaturalSteps
<1>5. ASSUME NEW n \in Nat, NEW f, PowersTo(f, n), NEW m \in Nat, NEW g, PowersTo(g, m), n <= m
      PROVE  f[n] = g[n]
  <2>1. PICK P : P = {k \in Nat : k <= n => f[k] = g[k]}
    OBVIOUS
  <2>2. 0 \in P
    <3>1. 0 \in 0 .. n /\ 0 \in 0 .. m
      BY <1>5
    <3> QED BY <1>5, <2>1, <3>1 DEF PowersTo
  <2>3. ASSUME NEW k \in Nat, k \in P PROVE k + 1 \in P
    <3>1. CASE k + 1 <= n
      <4>1. k + 1 \in 0 .. n /\ k + 1 \in 0 .. m /\ k + 1 # 0 /\ (k + 1) - 1 = k /\ k <= n
        BY <1>5, <3>1
      <4>2. f[k + 1] = 10 * f[k] /\ g[k + 1] = 10 * g[k] /\ f[k] = g[k]
        BY <1>5, <2>1, <2>3, <4>1 DEF PowersTo
      <4> QED BY <2>1, <4>2
    <3>2. CASE ~(k + 1 <= n)
      BY <2>1, <3>2
    <3> QED BY <3>1, <3>2
  <2>4. n \in P
    BY <2>2, <2>3, NaturalSteps
  <2> QED BY <2>1, <2>4
<1> DEFINE table(n) == CHOOSE g : PowersTo(g, n)
<1>6. \A n \in Nat : PowersTo(table(n), n)
  BY <1>4
<1> HIDE DEF table
<1>7. PICK h : h = [n \in Nat |-> table(n)[n]]
  OBVIOUS
<1>8. ASSUME NEW n \in Nat
      PROVE  h[n] \in Nat \ {0} /\ h[n] = IF n = 0 THEN 1 ELSE 10 * h[n - 1]
  <2>1. n \in 0 .. n /\ h[n] = table(n)[n]
    BY <1>7
  <2>2. h[n] \in Nat \ {0} /\ h[n] = IF n = 0 THEN 1 ELSE 10 * table(n)[n - 1]
    BY <1>6, <2>1 DEF PowersTo
  <2>3. CASE n = 0
    BY <2>2, <2>3
  <2>4. CASE n # 0
    <3>1. n - 1 \in Nat /\ n - 1 <= n
      BY <2>4
    <3>2. h[n - 1] = table(n - 1)[n - 1]
      BY <1>7, <3>1
    <3>3. table(n - 1)[n - 1] = table(n)[n - 1]
      BY <1>5, <1>6, <3>1
    <3> QED BY <2>2, <2>4, <3>2, <3>3
  <2> QED BY <2>3, <2>4
<1>9. h = [n \in Nat |-> IF n = 0 THEN 1 ELSE 10 * h[n - 1]]
  <2>1. h = [n \in Nat |-> h[n]]
    BY <1>7
  <2> QED BY <1>8, <2>1
<1> QED BY <1>8, <1>9

LEMMA Powers ==
  /\ \A n \in Nat : Pow10[n] \in Nat \ {0} /\ Pow10[n] = IF n = 0 THEN 1 ELSE 10 * Pow10[n - 1]
  /\ Pow10[0] = 1
<1> DEFINE P(h) == h = [n \in Nat |-> IF n = 0 THEN 1 ELSE 10 * h[n - 1]]
<1>1. PICK h : P(h) /\ \A n \in Nat : h[n] \in Nat \ {0}
  BY PowersExist
<1>2. Pow10 = CHOOSE g : P(g)
  BY Zenon DEF Pow10
<1>3. P(Pow10)
  BY <1>1, <1>2, Zenon
<1>4. \A n \in Nat : Pow10[n] = IF n = 0 THEN 1 ELSE 10 * Pow10[n - 1]
  BY <1>3
<1>5. PICK Q : Q = {n \in Nat : Pow10[n] \in Nat \ {0}}
  OBVIOUS
<1>6. 0 \in Q
  BY <1>4, <1>5
<1>7. ASSUME NEW n \in Nat, n \in Q PROVE n + 1 \in Q
  <2>1. n + 1 \in Nat /\ n + 1 # 0 /\ (n + 1) - 1 = n
    OBVIOUS
  <2>2. Pow10[n + 1] = 10 * Pow10[n]
    BY <1>4, <2>1
  <2> QED BY <1>5, <1>7, <2>2
<1>8. \A n \in Nat : n \in Q
  BY <1>6, <1>7, NaturalSteps
<1> QED BY <1>4, <1>5, <1>8

(* Shifting twice is shifting once by both.                                 *)
LEMMA PowersMultiply ==
  \A a, b \in Nat : Pow10[a + b] = Pow10[a] * Pow10[b]
<1>1. SUFFICES ASSUME NEW a \in Nat PROVE \A b \in Nat : Pow10[a + b] = Pow10[a] * Pow10[b]
  OBVIOUS
<1>2. PICK Q : Q = {b \in Nat : Pow10[a + b] = Pow10[a] * Pow10[b]}
  OBVIOUS
<1>3. 0 \in Q
  <2>1. a + 0 = a /\ Pow10[a] \in Nat
    BY Powers
  <2> QED BY <1>2, <2>1, Powers
<1>4. ASSUME NEW b \in Nat, b \in Q PROVE b + 1 \in Q
  <2>1. b + 1 \in Nat /\ b + 1 # 0 /\ (b + 1) - 1 = b /\ a + (b + 1) \in Nat /\ a + (b + 1) # 0
        /\ (a + (b + 1)) - 1 = a + b /\ a + b \in Nat
    OBVIOUS
  <2>2. PICK x, y, z : x = Pow10[a] /\ y = Pow10[b] /\ z = Pow10[a + b]
    OBVIOUS
  <2>3. Pow10[a + (b + 1)] = 10 * z /\ Pow10[b + 1] = 10 * y
    BY <2>1, <2>2, Powers
  <2>4. z = x * y /\ x \in Nat /\ y \in Nat
    BY <1>2, <1>4, <2>2, Powers
  <2>5. 10 * (x * y) = x * (10 * y)
    BY <2>4
  <2> QED BY <1>2, <2>1, <2>2, <2>3, <2>4, <2>5
<1>5. \A b \in Nat : b \in Q
  BY <1>3, <1>4, NaturalSteps
<1> QED BY <1>2, <1>5

(* ----------------------------- normalisation ----------------------------- *)
\* A row at any stage, with what normalising may have written into it.
Carried == {"rejected", "scale", "sign", "dimension", "currency"}
Written ==
  [kind : STRING, metric : STRING, dim : STRING \cup {"none"},
   sign : STRING \cup {"positive", "negative", "zero"}, currency : STRING,
   qualifier : STRING, note : STRING, broken : BOOLEAN, carried : SUBSET Carried,
   nums : [1..1 -> Numbers] \cup [1..2 -> Numbers], scale : Int \cup {NoScale},
   cites : Seq([span : STRING, hash : STRING])]

InReach(p) == p \in Written /\ (p.scale # NoScale => p.scale >= -Decimals)

LEMMA RawsInReach ==
  ASSUME NEW i \in DOMAIN Raws
  PROVE  InReach(Raws[i]) /\ Raws[i].carried = {}
<1>1. Raws[i] \in Raw /\ (Raws[i].scale # NoScale => Raws[i].scale >= -Decimals)
  BY ValidationAssumption
<1>2. Raw \subseteq Written
  <2>1. {{}} \subseteq SUBSET Carried
    OBVIOUS
  <2> QED BY <2>1 DEF Raw, Written
<1> QED BY <1>1, <1>2 DEF InReach, Raw

(* What a declared exponent comes to.                                       *)
LEMMA HintIs ==
  ASSUME NEW p, InReach(p)
  PROVE  Hint(p) \in Nat \cup {NoScale}
<1>1. p.scale \in Int \cup {NoScale}
  BY DEF InReach, Written
<1> QED BY <1>1, ValidationAssumption DEF Hint, ScaleBlocked

(* Every amount keeps its value, and the numbers come out in order.          *)
LEMMA ReconciledKeeps ==
  ASSUME NEW nums \in [1..1 -> Numbers] \cup [1..2 -> Numbers],
         NEW hint \in Nat \cup {NoScale}, NEW r, r = Reconciled(nums, hint)
  PROVE  /\ r.scale \in Nat
         /\ r.nums \in [DOMAIN nums -> Int]
         /\ \A k \in DOMAIN nums : EffectiveScale(nums[k], hint) \in Nat
         /\ \A k \in DOMAIN nums : \E j \in DOMAIN nums :
              r.nums[j] * Pow10[r.scale] = nums[k].m * Pow10[EffectiveScale(nums[k], hint)]
         /\ ~(2 \in DOMAIN nums /\ r.nums[2] < r.nums[1] /\ r.nums[1] < 0)
<1> DEFINE eff == [k \in DOMAIN nums |-> EffectiveScale(nums[k], hint)]
           common == Min({eff[k] : k \in DOMAIN nums})
           plain == [k \in DOMAIN nums |-> nums[k].m * Pow10[eff[k] - common]]
           inverted == 2 \in DOMAIN nums /\ plain[2] < plain[1] /\ plain[1] < 0
<1>1. r = [scale |-> common, nums |-> IF inverted THEN <<plain[2], plain[1]>> ELSE plain]
  BY DEF Reconciled
<1>2. \A k \in DOMAIN nums : nums[k].m \in Int /\ nums[k].suffix \in Nat
  BY DEF Numbers
<1>3. \A k \in DOMAIN nums : EffectiveScale(nums[k], hint) \in Nat
  BY <1>2, ValidationAssumption DEF EffectiveScale
<1>4. PICK T : T = {eff[k] : k \in DOMAIN nums}
  OBVIOUS
<1>5. T \subseteq Nat /\ T # {}
  <2>1. 1 \in DOMAIN nums
    OBVIOUS
  <2> QED BY <1>3, <1>4, <2>1
<1>6. common \in T /\ \A y \in T : common <= y
  BY <1>4, <1>5, MinOfNaturals
<1>7. PICK c \in Nat : c = common /\ \A k \in DOMAIN nums : eff[k] - c \in Nat
  <2>1. \A k \in DOMAIN nums : eff[k] \in T /\ eff[k] \in Nat
    BY <1>3, <1>4
  <2> HIDE DEF common, eff
  <2>2. common \in Nat
    BY <1>5, <1>6
  <2>3. \A k \in DOMAIN nums : eff[k] - common \in Nat
    BY <1>6, <2>1, <2>2
  <2> QED BY <2>2, <2>3
<1> HIDE DEF common
<1>8. \A k \in DOMAIN nums : plain[k] = nums[k].m * Pow10[eff[k] - c] /\ plain[k] \in Int
  <2>1. \A k \in DOMAIN nums : Pow10[eff[k] - c] \in Int
    BY <1>7, Powers
  <2> QED BY <1>2, <1>7, <2>1
<1>9. ASSUME NEW k \in DOMAIN nums
      PROVE  plain[k] * Pow10[c] = nums[k].m * Pow10[EffectiveScale(nums[k], hint)]
  <2>1. PICK d \in Nat : d = eff[k] - c
    BY <1>7
  <2>2. EffectiveScale(nums[k], hint) = d + c
    BY <1>3, <1>7, <2>1
  <2>3. PICK m, x, y : m = nums[k].m /\ x = Pow10[d] /\ y = Pow10[c]
    OBVIOUS
  <2>4. m \in Int /\ x \in Int /\ y \in Int
    BY <1>2, <1>7, <2>1, <2>3, Powers
  <2>5. Pow10[d + c] = x * y
    BY <1>7, <2>1, <2>3, PowersMultiply
  <2>6. plain[k] = m * x
    BY <1>8, <2>1, <2>3
  <2>7. (m * x) * y = m * (x * y)
    BY <2>4
  <2> QED BY <2>2, <2>3, <2>5, <2>6, <2>7
<1>10. plain = [k \in DOMAIN nums |-> plain[k]]
  OBVIOUS
<1> HIDE DEF plain, eff
<1>11. CASE inverted
  <2>1. DOMAIN nums = 1..2
    BY <1>11
  <2>2. r.nums = <<plain[2], plain[1]>> /\ r.scale = c
    BY <1>1, <1>7, <1>11
  <2>3. plain[1] \in Int /\ plain[2] \in Int /\ plain[2] < plain[1]
    BY <1>8, <1>11, <2>1
  <2>4. r.nums \in [1..2 -> Int] /\ r.nums[1] = plain[2] /\ r.nums[2] = plain[1]
    BY <2>2, <2>3
  <2>5. \A k \in DOMAIN nums : \E j \in DOMAIN nums : r.nums[j] = plain[k]
    <3>1. \A k \in DOMAIN nums : 3 - k \in DOMAIN nums /\ r.nums[3 - k] = plain[k]
      BY <2>1, <2>4
    <3> QED BY <3>1
  <2> QED BY <1>3, <1>7, <1>9, <2>1, <2>2, <2>3, <2>4, <2>5
<1>12. CASE ~inverted
  <2>1. r.nums = plain /\ r.scale = c
    BY <1>1, <1>7, <1>12
  <2>2. r.nums \in [DOMAIN nums -> Int]
    BY <1>8, <1>10, <2>1
  <2> QED BY <1>3, <1>7, <1>9, <1>12, <2>1, <2>2
<1> QED BY <1>11, <1>12

(* Numbers that came out once come out again as they are.                   *)
LEMMA ReconciledStays ==
  ASSUME NEW nums \in [1..1 -> Numbers] \cup [1..2 -> Numbers],
         \A k \in DOMAIN nums : nums[k].suffix = 0,
         ~(2 \in DOMAIN nums /\ nums[2].m < nums[1].m /\ nums[1].m < 0),
         NEW hint \in Nat \cup {NoScale}, NEW r, r = Reconciled(nums, hint)
  PROVE  /\ r.scale = IF hint = NoScale THEN 0 ELSE hint
         /\ r.nums = [k \in DOMAIN nums |-> nums[k].m]
<1> DEFINE eff == [k \in DOMAIN nums |-> EffectiveScale(nums[k], hint)]
           common == Min({eff[k] : k \in DOMAIN nums})
           plain == [k \in DOMAIN nums |-> nums[k].m * Pow10[eff[k] - common]]
           inverted == 2 \in DOMAIN nums /\ plain[2] < plain[1] /\ plain[1] < 0
<1>1. r = [scale |-> common, nums |-> IF inverted THEN <<plain[2], plain[1]>> ELSE plain]
  BY DEF Reconciled
<1>2. PICK c \in Nat : c = IF hint = NoScale THEN 0 ELSE hint
  BY ValidationAssumption
<1>3. \A k \in DOMAIN nums : eff[k] = c
  BY <1>2 DEF EffectiveScale
<1>4. common = c
  <2>1. PICK T : T = {eff[k] : k \in DOMAIN nums}
    OBVIOUS
  <2>2. 1 \in DOMAIN nums
    OBVIOUS
  <2>3. T = {c}
    BY <1>3, <2>1, <2>2
  <2>4. Min(T) \in T
    BY <2>3, MinOfNaturals
  <2> QED BY <2>1, <2>3, <2>4
<1> HIDE DEF common, eff
<1>5. \A k \in DOMAIN nums : nums[k].m \in Int /\ Pow10[eff[k] - common] = 1
  <2>1. c - c = 0
    OBVIOUS
  <2> QED BY <1>3, <1>4, <2>1, Powers DEF Numbers
<1>6. plain = [k \in DOMAIN nums |-> nums[k].m]
  BY <1>5
<1> HIDE DEF plain
<1>7. 2 \in DOMAIN nums => plain[2] = nums[2].m /\ plain[1] = nums[1].m
  BY <1>6
<1> QED BY <1>1, <1>2, <1>4, <1>6, <1>7

\* What normalising keeps of a row.
SameFact(n, p) ==
  /\ n.kind = p.kind /\ n.metric = p.metric /\ n.currency = p.currency
  /\ n.qualifier = p.qualifier /\ n.note = p.note /\ n.broken = p.broken

\* A row whose numbers are plain decimals, in order.
Tidy(n) ==
  /\ \A k \in DOMAIN n.nums : n.nums[k].suffix = 0
  /\ ~(2 \in DOMAIN n.nums /\ n.nums[2].m < n.nums[1].m /\ n.nums[1].m < 0)
  /\ n.scale # NoScale /\ n.sign = SignOf(n.nums[1].m) /\ n.dim # "mistyped"

\* What normalising makes of a row it can read, whose numbers become r.
NormalizedTo(p, n, r) ==
  /\ InReach(n) /\ SameFact(n, p) /\ Tidy(n) /\ n.cites = p.cites
  /\ n.dim = IF p.dim = "mistyped" THEN "none" ELSE p.dim
  /\ n.nums = [k \in DOMAIN p.nums |-> [m |-> r.nums[k], suffix |-> 0]]
  /\ n.scale = IF ScaleBlocked(p.scale) THEN p.scale ELSE r.scale
  /\ n.carried = p.carried \cup {b \in {"scale", "sign", "dimension", "currency"} :
       \/ b = "scale" /\ ScaleBlocked(p.scale)
       \/ b = "sign" /\ p.sign \notin {"none", n.sign}
       \/ b = "dimension" /\ p.dim = "mistyped"
       \/ b = "currency" /\ p.currency = "none" /\ ~Percent(p)}

(* Normalising does that.                                                   *)
LEMMA NormalizedRow ==
  ASSUME NEW p, InReach(p), ~p.broken, NEW n, n = Normalized(p),
         NEW r, r = Reconciled(p.nums, Hint(p))
  PROVE  NormalizedTo(p, n, r)
<1>1. p \in Written /\ (p.scale # NoScale => p.scale >= -Decimals)
  BY DEF InReach
<1>2. /\ p.nums \in [1..1 -> Numbers] \cup [1..2 -> Numbers] /\ Hint(p) \in Nat \cup {NoScale}
      /\ p.scale \in Int \cup {NoScale}
  BY <1>1, HintIs DEF Written
<1>3. /\ r.scale \in Nat /\ r.nums \in [DOMAIN p.nums -> Int]
      /\ ~(2 \in DOMAIN p.nums /\ r.nums[2] < r.nums[1] /\ r.nums[1] < 0)
  BY <1>2, ReconciledKeeps
<1>4. DOMAIN r.nums = DOMAIN p.nums /\ 1 \in DOMAIN p.nums
  BY <1>2, <1>3
<1>5. PICK found : found = {b \in {"scale", "sign", "dimension", "currency"} :
              \/ b = "scale" /\ ScaleBlocked(p.scale)
              \/ b = "sign" /\ p.sign \notin {"none", SignOf(r.nums[1])}
              \/ b = "dimension" /\ p.dim = "mistyped"
              \/ b = "currency" /\ p.currency = "none" /\ ~Percent(p)}
  OBVIOUS
<1>6. PICK nums, scale, sign :
        /\ nums = [k \in DOMAIN p.nums |-> [m |-> r.nums[k], suffix |-> 0]]
        /\ scale = IF ScaleBlocked(p.scale) THEN p.scale ELSE r.scale
        /\ sign = SignOf(r.nums[1])
  OBVIOUS
<1>7. n = [p EXCEPT !.nums = nums, !.scale = scale, !.sign = sign,
                    !.dim = IF @ = "mistyped" THEN "none" ELSE @,
                    !.carried = @ \cup found]
  BY <1>4, <1>5, <1>6 DEF Normalized
<1>8. /\ nums \in [1..1 -> Numbers] \cup [1..2 -> Numbers]
      /\ sign \in {"positive", "negative", "zero"} /\ found \in SUBSET Carried
      /\ scale \in Int /\ scale >= -Decimals
  <2>1. nums \in [DOMAIN p.nums -> Numbers]
    BY <1>3, <1>6 DEF Numbers
  <2>2. DOMAIN p.nums = 1..1 \/ DOMAIN p.nums = 1..2
    BY <1>2
  <2>3. nums \in [1..1 -> Numbers] \cup [1..2 -> Numbers]
    BY <2>1, <2>2
  <2>4. sign \in {"positive", "negative", "zero"}
    BY <1>6 DEF SignOf
  <2>5. found \in SUBSET Carried
    BY <1>5 DEF Carried
  <2>6. scale \in Int /\ scale >= -Decimals
    BY <1>1, <1>2, <1>3, <1>6, ValidationAssumption DEF ScaleBlocked
  <2> QED BY <2>3, <2>4, <2>5, <2>6
<1>9. /\ n.nums = nums /\ n.scale = scale /\ n.sign = sign /\ n.carried = p.carried \cup found
      /\ n.dim = IF p.dim = "mistyped" THEN "none" ELSE p.dim
      /\ n.cites = p.cites /\ SameFact(n, p)
  BY <1>1, <1>7 DEF Written, SameFact
<1>10. n \in Written
  BY <1>1, <1>7, <1>8 DEF Written
<1>11. \A k \in DOMAIN p.nums : nums[k].m = r.nums[k] /\ nums[k].suffix = 0
  BY <1>6
<1>12. Tidy(n)
  <2>1. DOMAIN n.nums = DOMAIN p.nums
    BY <1>6, <1>9
  <2>2. n.scale # NoScale
    BY <1>8, <1>9, ValidationAssumption
  <2>3. n.sign = SignOf(n.nums[1].m)
    BY <1>4, <1>6, <1>9, <1>11
  <2>4. 2 \in DOMAIN p.nums => n.nums[2].m = r.nums[2] /\ n.nums[1].m = r.nums[1]
    BY <1>4, <1>9, <1>11
  <2> QED BY <1>3, <1>9, <1>11, <2>1, <2>2, <2>3, <2>4 DEF Tidy
<1>13. found = {b \in {"scale", "sign", "dimension", "currency"} :
              \/ b = "scale" /\ ScaleBlocked(p.scale)
              \/ b = "sign" /\ p.sign \notin {"none", n.sign}
              \/ b = "dimension" /\ p.dim = "mistyped"
              \/ b = "currency" /\ p.currency = "none" /\ ~Percent(p)}
  BY <1>5, <1>6, <1>9
<1>14. InReach(n)
  BY <1>8, <1>9, <1>10 DEF InReach
<1> QED BY <1>6, <1>9, <1>12, <1>13, <1>14 DEF NormalizedTo

\* The same numbers, sign and dimension.
SameContent(n, p) ==
  n.nums = p.nums /\ n.scale = p.scale /\ n.sign = p.sign /\ n.dim = p.dim

(* A row that is read again at review is what it was: normalising it again  *)
(* changes nothing but what was found.                                      *)
LEMMA NormalizedAgain ==
  ASSUME NEW n, InReach(n), Tidy(n), ~n.broken, NEW q, q = Normalized(Persisted(n))
  PROVE  /\ InReach(q) /\ SameFact(q, n) /\ SameContent(q, n)
         /\ q.carried = {b \in {"scale", "currency"} :
              \/ b = "scale" /\ ScaleBlocked(n.scale)
              \/ b = "currency" /\ n.currency = "none" /\ ~Percent(n)}
<1>1. PICK cites : cites = [k \in DOMAIN n.cites |->
                              [span |-> n.cites[k].span, hash |-> n.cites[k].span]]
  OBVIOUS
<1>2. PICK p : p = [n EXCEPT !.carried = {}, !.cites = cites]
  OBVIOUS
<1>3. n \in Written /\ (n.scale # NoScale => n.scale >= -Decimals)
  BY DEF InReach
<1>4. /\ p.nums = n.nums /\ p.scale = n.scale /\ p.sign = n.sign /\ p.dim = n.dim
      /\ p.carried = {} /\ SameFact(p, n)
  BY <1>2, <1>3 DEF Written, SameFact
<1>5. cites \in Seq([span : STRING, hash : STRING])
  <2>1. PICK c : c = n.cites
    OBVIOUS
  <2> DEFINE C == [span : STRING, hash : STRING]
  <2>2. c \in Seq([span : STRING, hash : STRING])
    BY <1>3, <2>1 DEF Written
  <2>3. /\ Len(c) \in Nat /\ DOMAIN c = 1..Len(c)
        /\ c \in [1..Len(c) -> [span : STRING, hash : STRING]]
    BY <2>2, LenProperties
  <2>4. \A k \in DOMAIN c : c[k].span \in STRING
    BY <2>3
  <2>5. cites \in [1..Len(c) -> C]
    BY <1>1, <2>1, <2>3, <2>4
  <2> HIDE DEF C
  <2>6. cites \in Seq(C)
    BY <2>3, <2>5, SeqDef
  <2> QED BY <2>6 DEF C
<1>6. p \in Written /\ InReach(p)
  <2>1. p \in Written
    BY <1>2, <1>3, <1>5 DEF Written
  <2> QED BY <1>3, <1>4, <2>1 DEF InReach
<1>7. ~p.broken /\ q = Normalized(p)
  <2>1. Persisted(n) = p
    BY <1>1, <1>2 DEF Persisted
  <2> QED BY <1>4, <2>1 DEF SameFact
<1>8. PICK r : r = Reconciled(p.nums, Hint(p))
  OBVIOUS
<1>9. /\ InReach(q) /\ SameFact(q, p) /\ Tidy(q)
      /\ q.dim = IF p.dim = "mistyped" THEN "none" ELSE p.dim
      /\ q.nums = [k \in DOMAIN p.nums |-> [m |-> r.nums[k], suffix |-> 0]]
      /\ q.scale = IF ScaleBlocked(p.scale) THEN p.scale ELSE r.scale
      /\ q.carried = p.carried \cup {b \in {"scale", "sign", "dimension", "currency"} :
              \/ b = "scale" /\ ScaleBlocked(p.scale)
              \/ b = "sign" /\ p.sign \notin {"none", q.sign}
              \/ b = "dimension" /\ p.dim = "mistyped"
              \/ b = "currency" /\ p.currency = "none" /\ ~Percent(p)}
  <2>1. NormalizedTo(p, q, r)
    BY <1>6, <1>7, <1>8, NormalizedRow
  <2> QED BY <2>1 DEF NormalizedTo
<1>10. /\ n.nums \in [1..1 -> Numbers] \cup [1..2 -> Numbers]
       /\ Hint(p) \in Nat \cup {NoScale}
  BY <1>3, <1>6, HintIs DEF Written
<1>11. /\ r.scale = IF Hint(p) = NoScale THEN 0 ELSE Hint(p)
       /\ r.nums = [k \in DOMAIN n.nums |-> n.nums[k].m]
  BY <1>4, <1>8, <1>10, ReconciledStays DEF Tidy
<1>12. q.nums = n.nums
  <2>1. \A k \in DOMAIN n.nums : n.nums[k] = [m |-> n.nums[k].m, suffix |-> 0]
    <3>1. \A k \in DOMAIN n.nums : n.nums[k] \in Numbers /\ n.nums[k].suffix = 0
      BY <1>10 DEF Tidy
    <3> QED BY <3>1 DEF Numbers
  <2>2. q.nums = [k \in DOMAIN n.nums |-> [m |-> n.nums[k].m, suffix |-> 0]]
    BY <1>4, <1>9, <1>11
  <2>3. n.nums = [k \in DOMAIN n.nums |-> n.nums[k]]
    BY <1>10
  <2> QED BY <2>1, <2>2, <2>3
<1>13. q.scale = n.scale
  BY <1>4, <1>9, <1>11 DEF Tidy, Hint
<1>14. q.dim = n.dim /\ n.dim # "mistyped"
  BY <1>4, <1>9 DEF Tidy
<1>15. q.sign = n.sign
  BY <1>9, <1>12 DEF Tidy
<1>16. SameFact(q, n)
  BY <1>4, <1>9 DEF SameFact
<1>17. q.carried = {b \in {"scale", "currency"} :
              \/ b = "scale" /\ ScaleBlocked(n.scale)
              \/ b = "currency" /\ n.currency = "none" /\ ~Percent(n)}
  <2>1. Percent(p) = Percent(n) /\ p.currency = n.currency
    BY <1>4 DEF SameFact, Percent
  <2> QED BY <1>4, <1>9, <1>14, <1>15, <2>1
<1> QED BY <1>9, <1>12, <1>13, <1>14, <1>15, <1>16, <1>17 DEF SameContent

(* ------------------------------ one row's own ---------------------------- *)
(* Rows of the same content break the same rules and say the same thing.     *)
LEMMA SameRules ==
  ASSUME NEW n, NEW q, SameFact(q, n), SameContent(q, n)
  PROVE  /\ RuleErrors(q) = RuleErrors(n)
         /\ Identity(q) = Identity(n) /\ ConflictKey(q) = ConflictKey(n)
         /\ Fingerprint(q) = Fingerprint(n)
         /\ Value(q) = Value(n) /\ RpoSlice(q) = RpoSlice(n)
<1>1. /\ q.kind = n.kind /\ q.metric = n.metric /\ q.currency = n.currency
      /\ q.qualifier = n.qualifier /\ q.note = n.note /\ q.broken = n.broken
      /\ q.nums = n.nums /\ q.scale = n.scale /\ q.dim = n.dim
  BY DEF SameFact, SameContent
<1>2. /\ Percent(q) = Percent(n) /\ Shift(q) = Shift(n) /\ Known(q) = Known(n)
      /\ Comparable(q) = Comparable(n) /\ UnknownKpi(q) = UnknownKpi(n)
  BY <1>1 DEF Percent, Shift, Known, Comparable, UnknownKpi
<1>3. \A k : Magnitude(q, k) = Magnitude(n, k)
  BY <1>1, <1>2 DEF Magnitude
<1>4. Fingerprint(q) = Fingerprint(n) /\ Value(q) = Value(n)
  BY <1>1, <1>3 DEF Fingerprint, Value
<1>5. Identity(q) = Identity(n) /\ ConflictKey(q) = ConflictKey(n) /\ RpoSlice(q) = RpoSlice(n)
  BY <1>1, <1>2 DEF Identity, ConflictKey, RpoSlice
<1>6. PercentErrors(q) = PercentErrors(n)
  BY <1>1, <1>2, <1>3 DEF PercentErrors
<1>7. /\ SchemaErrors(q) = SchemaErrors(n) /\ MetricRuleErrors(q) = MetricRuleErrors(n)
      /\ RangeErrors(q) = RangeErrors(n) /\ DefinitionErrors(q) = DefinitionErrors(n)
  BY <1>1, <1>2 DEF SchemaErrors, MetricRuleErrors, RangeErrors, DefinitionErrors
<1>8. AccountingErrors(q) = AccountingErrors(n)
  BY <1>1, <1>2, <1>6, <1>7 DEF AccountingErrors
<1> QED BY <1>1, <1>2, <1>4, <1>5, <1>7, <1>8 DEF RuleErrors

\* The findings a row has by itself and that a reviewer must see.
Lasting == {"sign", "dimension", "scale", "currency", "unit", "range",
            "timing", "comparability", "exponent", "margin", "unknown", "qualifier"}

(* Of a row's findings, only these come from its payload.                   *)
LEMMA LastingFindings ==
  ASSUME NEW ps, NEW i
  PROVE  Findings(ps, i) \cap Lasting = (ps[i].carried \cup RuleErrors(ps[i])) \cap Lasting
<1>1. CitationErrors(ps[i]) \subseteq {"unpinned", "mismatch", "unverified"}
  BY DEF CitationErrors
<1>2. IdentityErrors(ps, i) \subseteq {"crpo_exceeds_rpo", "segments", "gross_profit"}
  BY DEF IdentityErrors
<1> QED BY <1>1, <1>2 DEF Findings, Lasting

(* What was found in a row is found again, or kept.                          *)
LEMMA FoundAgain ==
  ASSUME NEW p, InReach(p), ~p.broken, p.carried = {}, NEW n, n = Normalized(p),
         NEW q, q = Normalized(Persisted(n)),
         NEW ps, NEW i, ps[i] = n, NEW qs, NEW k, qs[k] = q
  PROVE  Findings(ps, i) \cap Lasting
            \subseteq Findings(qs, k) \cup (Findings(ps, i) \cap {"dimension", "sign"})
<1>1. PICK r : r = Reconciled(p.nums, Hint(p))
  OBVIOUS
<1>2. /\ InReach(n) /\ SameFact(n, p) /\ Tidy(n)
      /\ n.carried \subseteq {"scale", "sign", "dimension", "currency"}
      /\ n.scale = IF ScaleBlocked(p.scale) THEN p.scale ELSE r.scale
      /\ ("scale" \in n.carried => ScaleBlocked(p.scale))
      /\ ("currency" \in n.carried => p.currency = "none" /\ ~Percent(p))
  <2>1. NormalizedTo(p, n, r)
    BY <1>1, NormalizedRow
  <2>2. n.carried \subseteq {"scale", "sign", "dimension", "currency"}
    BY <2>1 DEF NormalizedTo
  <2> QED BY <2>1, <2>2 DEF NormalizedTo
<1>3. ~n.broken
  BY <1>2 DEF SameFact
<1>4. /\ SameFact(q, n) /\ SameContent(q, n)
      /\ n.currency = "none" /\ ~Percent(n) => "currency" \in q.carried
  BY <1>2, <1>3, NormalizedAgain
<1>5. RuleErrors(q) = RuleErrors(n)
  BY <1>4, SameRules
<1>6. "scale" \in n.carried => "scale" \in RuleErrors(n)
  BY <1>2 DEF RuleErrors, RangeErrors
<1>7. "currency" \in n.carried => "currency" \in q.carried
  BY <1>2, <1>4 DEF SameFact, Percent
<1>8. q.carried \cup RuleErrors(q) \subseteq Findings(qs, k)
  BY DEF Findings
<1>9. Findings(ps, i) \cap Lasting \subseteq n.carried \cup RuleErrors(n)
  BY LastingFindings
<1> QED BY <1>2, <1>5, <1>6, <1>7, <1>8, <1>9

(* --------------------------- the rows at review -------------------------- *)
\* The rows of a request are the ones it compares, each once.
ListsRows(r, among, M) ==
  /\ r.rows \in [1..M -> among]
  /\ \A k, j \in 1..M : r.rows[k] = r.rows[j] => k = j
  /\ \A i \in among : \E k \in 1..M : r.rows[k] = i
  /\ r.ps = [k \in 1..M |-> Normalized(Persisted(normalized[r.rows[k]]))]

(* SortedBy lists each of them once.                                        *)
LEMMA RevalidatedRows ==
  ASSUME NEW N \in Nat, NEW among \in SUBSET (1..N), NEW r, r = Revalidated(among)
  PROVE  \E M \in Nat : ListsRows(r, among, M)
<1>0. among \subseteq Int
  OBVIOUS
<1>1. IsFiniteSet(among)
  <2>1. IsFiniteSet(1..N)
    BY FS_Interval
  <2> QED BY <2>1, FS_Subset
<1>2. PICK M \in Nat : M = Cardinality(among)
  BY <1>1, FS_CardinalityType
<1> DEFINE at(k) == CHOOSE x \in among : Cardinality({y \in among : y < x}) = k - 1
<1>3. PICK order : order = RowOrder(among)
  OBVIOUS
<1>4. order = [k \in 1..M |-> at(k)]
  BY <1>2, <1>3, Zenon DEF RowOrder, SortedBy
<1> HIDE DEF at
<1>5. PICK R : R = {p \in among \X among : p[1] < p[2]}
  OBVIOUS
<1>6. \A x, y \in among : <<x, y>> \in R <=> x < y
  BY <1>5
<1>7. OrdersStrictly(R, among)
  BY <1>0, <1>6 DEF OrdersStrictly
<1>8. PICK B : B = Before(R, among)
  OBVIOUS
<1>9. \A x \in among : {y \in among : y < x} = B[x]
  BY <1>6, <1>8 DEF Before
<1>10. ASSUME NEW k \in 1..M, NEW x \in among, Cardinality(B[x]) = k - 1
       PROVE  order[k] \in among /\ Cardinality(B[order[k]]) = k - 1
  <2>1. Cardinality({y \in among : y < x}) = k - 1
    BY <1>9, <1>10
  <2>2. order[k] = at(k)
    BY <1>4
  <2>3. order[k] \in among /\ Cardinality({y \in among : y < order[k]}) = k - 1
    BY <2>1, <2>2, Zenon DEF at
  <2> QED BY <1>9, <2>3
<1>11. PlacedBy(order, B, among)
  <2>1. order = [k \in 1..M |-> order[k]]
    BY <1>4
  <2> QED BY <1>2, <1>10, <2>1 DEF PlacedBy
<1>12. ListsInOrder(order, among, R)
  BY <1>1, <1>7, <1>8, <1>11, RanksOrder
<1>13. /\ order \in [1..M -> among]
       /\ \A i \in among : \E k \in 1..M : order[k] = i
       /\ \A k, j \in 1..M : k < j => order[k] < order[j]
  BY <1>2, <1>6, <1>12 DEF ListsInOrder
<1>14. \A k, j \in 1..M : order[k] = order[j] => k = j
  <2>1. \A k \in 1..M : order[k] \in among
    BY <1>13
  <2>2. SUFFICES ASSUME NEW k \in 1..M, NEW j \in 1..M, order[k] = order[j], k # j PROVE FALSE
    OBVIOUS
  <2>3. order[k] \in Int /\ order[j] \in Int
    BY <1>0, <2>1
  <2>4. k < j \/ j < k
    BY <2>2
  <2>5. order[k] < order[j] \/ order[j] < order[k]
    BY <1>13, <2>4
  <2> QED BY <2>2, <2>3, <2>5
<1>15. DOMAIN order = 1..M
  BY <1>13
<1>16. /\ r.rows = order
       /\ r.ps = [k \in DOMAIN order |-> Normalized(Persisted(normalized[order[k]]))]
  BY <1>3, Zenon DEF Revalidated
<1>17. ListsRows(r, among, M)
  BY <1>13, <1>14, <1>15, <1>16 DEF ListsRows
<1> QED BY <1>17

(* ------------------- a row among fewer rows, or among all ----------------- *)
\* Rows k of qs are the rows e[k] of ps.
Picks(e, M, N, ps, qs) ==
  /\ M \in Nat /\ N \in Nat /\ e \in [1..M -> 1..N]
  /\ \A k, j \in 1..M : e[k] = e[j] => k = j
  /\ DOMAIN ps = 1..N /\ DOMAIN qs = 1..M
  /\ \A k \in 1..M : qs[k] = ps[e[k]]

\* Metrics that an identity, or a fact, may relate.
Related(a, b) == a = b \/ \E f \in Families : a \in f /\ b \in f

\* Every row that has to do with the metric is among the picked.
Covers(e, M, N, ps, metric) ==
  \A i \in 1..N : Related(ps[i].metric, metric) => \E k \in 1..M : e[k] = i

\* The picked ones of a set of rows.
Picked(e, M, A) == {k \in 1..M : e[k] \in A}

\* The only one of its metric.
IsSole(ps, among, m, i) ==
  i \in among /\ ps[i].metric = m /\ \A j \in among : ps[j].metric = m => j = i

(* A sole figure is that.                                                   *)
LEMMA SolesAre ==
  ASSUME NEW ps, NEW among, IsFiniteSet(among), NEW m
  PROVE  \A i : i \in Soles(ps, among, m) <=> IsSole(ps, among, m, i)
<1>1. PICK found : found = {j \in among : ps[j].metric = m}
  OBVIOUS
<1>2. IsFiniteSet(found)
  BY <1>1, FS_Subset
<1>3. Cardinality(found) = 1 <=> \E x : found = {x}
  BY <1>2, FS_Singleton
<1>4. Soles(ps, among, m) = IF Cardinality(found) = 1 THEN found ELSE {}
  BY <1>1 DEF Soles
<1>5. ASSUME NEW i PROVE i \in Soles(ps, among, m) <=> IsSole(ps, among, m, i)
  <2>1. \A x : x \in found <=> x \in among /\ ps[x].metric = m
    BY <1>1
  <2>2. ASSUME i \in Soles(ps, among, m) PROVE IsSole(ps, among, m, i)
    <3>1. i \in found /\ \E x : found = {x}
      BY <1>3, <1>4, <2>2
    <3>2. \A j \in found : j = i
      BY <3>1
    <3> QED BY <2>1, <3>1, <3>2 DEF IsSole
  <2>3. ASSUME IsSole(ps, among, m, i) PROVE i \in Soles(ps, among, m)
    <3>1. found = {i}
      BY <2>1, <2>3 DEF IsSole
    <3> QED BY <1>3, <1>4, <3>1
  <2> QED BY <2>2, <2>3
<1> QED BY <1>5

(* It is one among the picked as among all.                                 *)
LEMMA SolesPicked ==
  ASSUME NEW e, NEW M, NEW N, NEW ps, NEW qs, Picks(e, M, N, ps, qs),
         NEW m, NEW metric, Related(m, metric), Covers(e, M, N, ps, metric),
         NEW A \in SUBSET (1..N), NEW B, B = Picked(e, M, A)
  PROVE  /\ \A k \in 1..M : k \in Soles(qs, B, m) <=> e[k] \in Soles(ps, A, m)
         /\ \A i \in Soles(ps, A, m) : i \in A /\ \E k \in 1..M : e[k] = i
         /\ Soles(qs, B, m) \subseteq 1..M
<1>1. M \in Nat /\ N \in Nat /\ B \in SUBSET (1..M)
  BY DEF Picks, Picked
<1>2. IsFiniteSet(A) /\ IsFiniteSet(B)
  <2>1. IsFiniteSet(1..N) /\ IsFiniteSet(1..M)
    BY <1>1, FS_Interval
  <2> QED BY <1>1, <2>1, FS_Subset
<1>3. \A i \in 1..N : ps[i].metric = m => \E k \in 1..M : e[k] = i
  BY DEF Covers
<1>4. \A k \in 1..M : /\ e[k] \in 1..N /\ qs[k] = ps[e[k]] /\ (k \in B <=> e[k] \in A)
  BY DEF Picks, Picked
<1>5. \A k, j \in 1..M : e[k] = e[j] => k = j
  BY DEF Picks
<1>6. /\ \A i : i \in Soles(ps, A, m) <=>
           i \in A /\ ps[i].metric = m /\ \A j \in A : ps[j].metric = m => j = i
      /\ \A i : i \in Soles(qs, B, m) <=>
           i \in B /\ qs[i].metric = m /\ \A j \in B : qs[j].metric = m => j = i
  <2>1. \A i : i \in Soles(ps, A, m) <=> IsSole(ps, A, m, i)
    BY <1>2, SolesAre
  <2>2. \A i : i \in Soles(qs, B, m) <=> IsSole(qs, B, m, i)
    BY <1>2, SolesAre
  <2> QED BY <2>1, <2>2 DEF IsSole
<1>7. ASSUME NEW k \in 1..M, k \in Soles(qs, B, m) PROVE e[k] \in Soles(ps, A, m)
  <2>1. e[k] \in A /\ ps[e[k]].metric = m
    BY <1>4, <1>6, <1>7
  <2>2. ASSUME NEW j \in A, ps[j].metric = m PROVE j = e[k]
    <3>1. PICK l \in 1..M : e[l] = j
      BY <1>3, <2>2
    <3>2. l \in B /\ qs[l].metric = m
      BY <1>4, <2>2, <3>1
    <3> QED BY <1>6, <1>7, <3>1, <3>2
  <2> QED BY <1>6, <2>1, <2>2
<1>8. ASSUME NEW k \in 1..M, e[k] \in Soles(ps, A, m) PROVE k \in Soles(qs, B, m)
  <2>1. k \in B /\ qs[k].metric = m
    BY <1>4, <1>6, <1>8
  <2>2. ASSUME NEW j \in B, qs[j].metric = m PROVE j = k
    <3>1. j \in 1..M /\ e[j] \in A /\ ps[e[j]].metric = m
      BY <1>1, <1>4, <2>2
    <3>2. e[j] = e[k]
      BY <1>6, <1>8, <3>1
    <3> QED BY <1>5, <3>1, <3>2
  <2> QED BY <1>6, <2>1, <2>2
<1>9. \A i \in Soles(ps, A, m) : i \in A /\ \E k \in 1..M : e[k] = i
  BY <1>3, <1>6
<1> QED BY <1>1, <1>6, <1>7, <1>8, <1>9

(* An impossible balance is one among the picked as among all.              *)
LEMMA RpoPicked ==
  ASSUME NEW e, NEW M, NEW N, NEW ps, NEW qs, Picks(e, M, N, ps, qs),
         NEW k0 \in 1..M, Covers(e, M, N, ps, qs[k0].metric),
         NEW A \in SUBSET (1..N), NEW B, B = Picked(e, M, A)
  PROVE  k0 \in RpoBroken(qs, B) <=> e[k0] \in RpoBroken(ps, A)
<1>1. PICK S, T : /\ S = {j \in A : RpoSlice(ps[j]) = RpoSlice(ps[e[k0]])}
                  /\ T = {j \in B : RpoSlice(qs[j]) = RpoSlice(qs[k0])}
  OBVIOUS
<1>2. \A k \in 1..M : /\ e[k] \in 1..N /\ qs[k] = ps[e[k]] /\ (k \in B <=> e[k] \in A)
  BY DEF Picks, Picked
<1>3. B \subseteq 1..M
  BY DEF Picked
<1>4. T = Picked(e, M, S) /\ S \in SUBSET (1..N)
  BY <1>1, <1>2, <1>3 DEF Picked
<1> DEFINE Worse(xs, r, c) == /\ Abs(Value(xs[c])) > Abs(Value(xs[r]))
                              /\ ~RelativelyEqual(Abs(Value(xs[c])), Abs(Value(xs[r])))
<1>5. /\ k0 \in RpoBroken(qs, B) <=> k0 \in B /\ \E r \in Soles(qs, T, "rpo"), c \in Soles(qs, T, "crpo") :
                                       k0 \in {r, c} /\ Worse(qs, r, c)
      /\ e[k0] \in RpoBroken(ps, A) <=>
           e[k0] \in A /\ \E r \in Soles(ps, S, "rpo"), c \in Soles(ps, S, "crpo") :
                            e[k0] \in {r, c} /\ Worse(ps, r, c)
  BY <1>1 DEF RpoBroken
<1>6. \A r, c \in 1..M : Worse(qs, r, c) <=> Worse(ps, e[r], e[c])
  BY <1>2
<1> HIDE DEF Worse
<1>7. CASE qs[k0].metric \in {"rpo", "crpo"}
  <2>1. Related("rpo", qs[k0].metric) /\ Related("crpo", qs[k0].metric)
    BY <1>7 DEF Related, Families
  <2>2. /\ \A k \in 1..M : k \in Soles(qs, T, "rpo") <=> e[k] \in Soles(ps, S, "rpo")
        /\ \A i \in Soles(ps, S, "rpo") : i \in S /\ \E k \in 1..M : e[k] = i
        /\ Soles(qs, T, "rpo") \subseteq 1..M
    BY <1>4, <2>1, SolesPicked
  <2>3. /\ \A k \in 1..M : k \in Soles(qs, T, "crpo") <=> e[k] \in Soles(ps, S, "crpo")
        /\ \A i \in Soles(ps, S, "crpo") : i \in S /\ \E k \in 1..M : e[k] = i
        /\ Soles(qs, T, "crpo") \subseteq 1..M
    BY <1>4, <2>1, SolesPicked
  <2>4. \A k, j \in 1..M : e[k] = e[j] => k = j
    BY DEF Picks
  <2>5. ASSUME k0 \in RpoBroken(qs, B) PROVE e[k0] \in RpoBroken(ps, A)
    <3>1. PICK r \in Soles(qs, T, "rpo"), c \in Soles(qs, T, "crpo") :
                 k0 \in {r, c} /\ Worse(qs, r, c)
      BY <1>5, <2>5
    <3>2. r \in 1..M /\ c \in 1..M /\ e[k0] \in A
      BY <1>2, <1>5, <2>2, <2>3, <2>5
    <3>3. e[r] \in Soles(ps, S, "rpo") /\ e[c] \in Soles(ps, S, "crpo")
      BY <2>2, <2>3, <3>1, <3>2
    <3>4. Worse(ps, e[r], e[c]) /\ e[k0] \in {e[r], e[c]}
      BY <1>6, <3>1, <3>2
    <3> QED BY <1>5, <3>2, <3>3, <3>4
  <2>6. ASSUME e[k0] \in RpoBroken(ps, A) PROVE k0 \in RpoBroken(qs, B)
    <3>1. PICK r \in Soles(ps, S, "rpo"), c \in Soles(ps, S, "crpo") :
                 e[k0] \in {r, c} /\ Worse(ps, r, c)
      BY <1>5, <2>6
    <3>2. PICK x \in 1..M, y \in 1..M : e[x] = r /\ e[y] = c
      BY <2>2, <2>3
    <3>3. x \in Soles(qs, T, "rpo") /\ y \in Soles(qs, T, "crpo")
      BY <2>2, <2>3, <3>2
    <3>4. Worse(qs, x, y) /\ k0 \in {x, y}
      BY <1>6, <2>4, <3>1, <3>2
    <3>5. k0 \in B
      BY <1>2, <1>5, <2>6
    <3> QED BY <1>5, <3>3, <3>4, <3>5
  <2> QED BY <2>5, <2>6
<1>8. CASE qs[k0].metric \notin {"rpo", "crpo"}
  <2>1. IsFiniteSet(S) /\ IsFiniteSet(T)
    <3>1. IsFiniteSet(1..N) /\ IsFiniteSet(1..M)
      BY FS_Interval DEF Picks
    <3>2. T \in SUBSET (1..M)
      BY <1>4 DEF Picked
    <3> QED BY <1>4, <3>1, <3>2, FS_Subset
  <2>2. \A m : /\ \A i \in Soles(ps, S, m) : ps[i].metric = m
               /\ \A i \in Soles(qs, T, m) : qs[i].metric = m
    <3>1. ASSUME NEW m
          PROVE  /\ \A i : i \in Soles(ps, S, m) <=> IsSole(ps, S, m, i)
                 /\ \A i : i \in Soles(qs, T, m) <=> IsSole(qs, T, m, i)
      BY <2>1, SolesAre
    <3> QED BY <3>1 DEF IsSole
  <2>3. qs[k0].metric = ps[e[k0]].metric
    BY <1>2
  <2> QED BY <1>5, <1>8, <2>2, <2>3
<1> QED BY <1>7, <1>8

(* So is a gross profit that does not come out.                             *)
LEMMA GrossProfitPicked ==
  ASSUME NEW e, NEW M, NEW N, NEW ps, NEW qs, Picks(e, M, N, ps, qs),
         NEW k0 \in 1..M, Covers(e, M, N, ps, qs[k0].metric),
         NEW A \in SUBSET (1..N), NEW B, B = Picked(e, M, A)
  PROVE  k0 \in GrossProfitBroken(qs, B) <=> e[k0] \in GrossProfitBroken(ps, A)
<1>1. PICK S, T : /\ S = {j \in A : ps[j].currency = ps[e[k0]].currency /\ ps[j].dim = ps[e[k0]].dim}
                  /\ T = {j \in B : qs[j].currency = qs[k0].currency /\ qs[j].dim = qs[k0].dim}
  OBVIOUS
<1>2. \A k \in 1..M : /\ e[k] \in 1..N /\ qs[k] = ps[e[k]] /\ (k \in B <=> e[k] \in A)
  BY DEF Picks, Picked
<1>3. B \subseteq 1..M
  BY DEF Picked
<1>4. T = Picked(e, M, S) /\ S \in SUBSET (1..N)
  BY <1>1, <1>2, <1>3 DEF Picked
<1> DEFINE Misses(xs, r, c, p) ==
             ~RelativelyEqual(Value(xs[p]), Value(xs[r]) - Abs(Value(xs[c])))
<1>5. /\ k0 \in GrossProfitBroken(qs, B) <=>
           k0 \in B /\ \E r \in Soles(qs, T, "revenue"), c \in Soles(qs, T, "cogs"),
                          p \in Soles(qs, T, "gross_profit") :
                         k0 \in {r, c, p} /\ Misses(qs, r, c, p)
      /\ e[k0] \in GrossProfitBroken(ps, A) <=>
           e[k0] \in A /\ \E r \in Soles(ps, S, "revenue"), c \in Soles(ps, S, "cogs"),
                             p \in Soles(ps, S, "gross_profit") :
                            e[k0] \in {r, c, p} /\ Misses(ps, r, c, p)
  BY <1>1 DEF GrossProfitBroken
<1>6. \A r, c, p \in 1..M : Misses(qs, r, c, p) <=> Misses(ps, e[r], e[c], e[p])
  BY <1>2
<1> HIDE DEF Misses
<1> DEFINE Family == {"revenue", "cogs", "gross_profit"}
<1>7. CASE qs[k0].metric \in Family
  <2>1. \A m \in Family : Related(m, qs[k0].metric)
    BY <1>7 DEF Related, Families
  <2>2. ASSUME NEW m \in Family
        PROVE  /\ \A k \in 1..M : k \in Soles(qs, T, m) <=> e[k] \in Soles(ps, S, m)
               /\ \A i \in Soles(ps, S, m) : i \in S /\ \E k \in 1..M : e[k] = i
               /\ Soles(qs, T, m) \subseteq 1..M
    BY <1>4, <2>1, SolesPicked
  <2>3. "revenue" \in Family /\ "cogs" \in Family /\ "gross_profit" \in Family
    OBVIOUS
  <2> HIDE DEF Family
  <2>4. \A k, j \in 1..M : e[k] = e[j] => k = j
    BY DEF Picks
  <2>5. ASSUME k0 \in GrossProfitBroken(qs, B) PROVE e[k0] \in GrossProfitBroken(ps, A)
    <3>1. PICK r \in Soles(qs, T, "revenue"), c \in Soles(qs, T, "cogs"),
               p \in Soles(qs, T, "gross_profit") : k0 \in {r, c, p} /\ Misses(qs, r, c, p)
      BY <1>5, <2>5
    <3>2. r \in 1..M /\ c \in 1..M /\ p \in 1..M /\ e[k0] \in A
      BY <1>2, <1>5, <2>2, <2>3, <2>5
    <3>3. /\ e[r] \in Soles(ps, S, "revenue") /\ e[c] \in Soles(ps, S, "cogs")
          /\ e[p] \in Soles(ps, S, "gross_profit")
      BY <2>2, <2>3, <3>1, <3>2
    <3>4. Misses(ps, e[r], e[c], e[p]) /\ e[k0] \in {e[r], e[c], e[p]}
      BY <1>6, <3>1, <3>2
    <3> QED BY <1>5, <3>2, <3>3, <3>4
  <2>6. ASSUME e[k0] \in GrossProfitBroken(ps, A) PROVE k0 \in GrossProfitBroken(qs, B)
    <3>1. PICK r \in Soles(ps, S, "revenue"), c \in Soles(ps, S, "cogs"),
               p \in Soles(ps, S, "gross_profit") : e[k0] \in {r, c, p} /\ Misses(ps, r, c, p)
      BY <1>5, <2>6
    <3>2. PICK x \in 1..M, y \in 1..M, z \in 1..M : e[x] = r /\ e[y] = c /\ e[z] = p
      BY <2>2, <2>3
    <3>3. /\ x \in Soles(qs, T, "revenue") /\ y \in Soles(qs, T, "cogs")
          /\ z \in Soles(qs, T, "gross_profit")
      BY <2>2, <2>3, <3>2
    <3>4. Misses(qs, x, y, z) /\ k0 \in {x, y, z}
      BY <1>6, <2>4, <3>1, <3>2
    <3>5. k0 \in B
      BY <1>2, <1>5, <2>6
    <3> QED BY <1>5, <3>3, <3>4, <3>5
  <2> QED BY <2>5, <2>6
<1>8. CASE qs[k0].metric \notin Family
  <2>1. IsFiniteSet(S) /\ IsFiniteSet(T)
    <3>1. IsFiniteSet(1..N) /\ IsFiniteSet(1..M)
      BY FS_Interval DEF Picks
    <3>2. T \in SUBSET (1..M)
      BY <1>4 DEF Picked
    <3> QED BY <1>4, <3>1, <3>2, FS_Subset
  <2>2. \A m : /\ \A i \in Soles(ps, S, m) : ps[i].metric = m
               /\ \A i \in Soles(qs, T, m) : qs[i].metric = m
    <3>1. ASSUME NEW m
          PROVE  /\ \A i : i \in Soles(ps, S, m) <=> IsSole(ps, S, m, i)
                 /\ \A i : i \in Soles(qs, T, m) <=> IsSole(qs, T, m, i)
      BY <2>1, SolesAre
    <3> QED BY <3>1 DEF IsSole
  <2>3. qs[k0].metric = ps[e[k0]].metric
    BY <1>2
  <2> QED BY <1>5, <1>8, <2>2, <2>3
<1> QED BY <1>7, <1>8

(* ------------------------------- segments -------------------------------- *)
OneToOne(e, D) == \A k, j \in D : e[k] = e[j] => k = j

(* An injection keeps the count.                                            *)
LEMMA SameCount ==
  ASSUME NEW D, NEW T \in SUBSET D, NEW e, IsFiniteSet(T), OneToOne(e, D)
  PROVE  Cardinality(Image(e, T)) = Cardinality(T)
<1>1. PICK I, f : I = Image(e, T) /\ f = [k \in T |-> e[k]]
  OBVIOUS
<1>2. f \in Bijection(T, I)
  <2>1. f \in [T -> I]
    BY <1>1 DEF Image, OneToOne
  <2>2. \A k, j \in T : f[k] = f[j] => k = j
    BY <1>1 DEF Image, OneToOne
  <2>3. \A i \in I : \E k \in T : f[k] = i
    BY <1>1 DEF Image, OneToOne
  <2> QED BY <2>1, <2>2, <2>3 DEF Bijection, Injection, Surjection, IsInjective
<1>3. ExistsBijection(T, I)
  BY <1>2 DEF ExistsBijection
<1>4. IsFiniteSet(I) /\ Cardinality(I) = Cardinality(T)
  BY <1>3, FS_Bijection
<1> QED BY <1>1, <1>4

(* Every amount of a row in reach is an integer.                            *)
LEMMA ValuesAreIntegers ==
  ASSUME NEW p, InReach(p)
  PROVE  /\ Value(p) \in Int
         /\ \A k \in DOMAIN p.nums : p.nums[k].m \in Int /\ Magnitude(p, k) \in Int
         /\ Shift(p) + Decimals \in Nat /\ Shift(p) \in Int
<1>1. /\ p.nums \in [1..1 -> Numbers] \cup [1..2 -> Numbers]
      /\ p.scale \in Int \cup {NoScale} /\ (p.scale # NoScale => p.scale >= -Decimals)
  BY DEF InReach, Written
<1>2. Shift(p) + Decimals \in Nat /\ Shift(p) \in Int
  BY <1>1, ValidationAssumption DEF Shift
<1>3. Pow10[Shift(p) + Decimals] \in Int
  BY <1>2, Powers
<1>4. \A k \in DOMAIN p.nums : p.nums[k].m \in Int
  BY <1>1 DEF Numbers
<1>5. \A k \in DOMAIN p.nums : Magnitude(p, k) \in Int
  BY <1>3, <1>4 DEF Magnitude
<1>6. 1 \in DOMAIN p.nums
  BY <1>1
<1> QED BY <1>2, <1>4, <1>5, <1>6 DEF Value

\* What each of some rows is worth.
ValuesOf(ps, D) == [i \in D |-> Value(ps[i])]

(* The sum of the segments is the library's.                                *)
LEMMA ValuesSum ==
  ASSUME NEW D, IsFiniteSet(D), NEW ps, NEW F \in [D -> Int], F = ValuesOf(ps, D),
         NEW T \in SUBSET D
  PROVE  SegmentTotal(ps, T) = Total(F, T)
<1> DEFINE pick(t) == CHOOSE x \in t : TRUE
           P(g) == g = [t \in SUBSET T |-> IF t = {} THEN 0
                          ELSE Value(ps[pick(t)]) + g[t \ {pick(t)}]]
<1>1. SegmentTotal(ps, T) = (CHOOSE g : P(g))[T]
  BY Zenon DEF SegmentTotal, MapThenSumSet, MapThenFoldSet
<1>2. \A t \in SUBSET T : t # {} => pick(t) \in T
  OBVIOUS
<1> HIDE DEF pick
<1>3. \A t \in SUBSET T : t # {} => Value(ps[pick(t)]) = F[pick(t)]
  BY <1>2 DEF ValuesOf
<1>4. \A g : P(g) <=> g = [t \in SUBSET T |-> IF t = {} THEN 0 ELSE F[pick(t)] + g[t \ {pick(t)}]]
  BY <1>3
<1>5. \A g : P(g) <=> IsSum(g, F, T)
  BY <1>4 DEF IsSum, pick
<1> HIDE DEF P
<1>6. PICK h : IsSum(h, F, T)
  BY IntegerTotals
<1>7. PICK k : k = CHOOSE g : P(g)
  OBVIOUS
<1>8. IsSum(k, F, T)
  BY <1>5, <1>6, <1>7, Zenon
<1> QED BY <1>1, <1>7, <1>8, TotalIs

(* Segments that miss their total do so under other names of the rows.       *)
LEMMA MissPicked ==
  ASSUME NEW e, NEW M, NEW N, NEW ps, NEW qs, Picks(e, M, N, ps, qs),
         \A i \in 1..N : Value(ps[i]) \in Int,
         NEW G \in SUBSET (1..N), \A i \in G : \E k \in 1..M : e[k] = i,
         NEW H, H = Picked(e, M, G)
  PROVE  SegmentsMiss(qs, H) <=> SegmentsMiss(ps, G)
<1>1. \A k \in 1..M : /\ e[k] \in 1..N /\ qs[k] = ps[e[k]] /\ (k \in H <=> e[k] \in G)
  BY DEF Picks, Picked
<1>2. /\ M \in Nat /\ N \in Nat /\ e \in [1..M -> 1..N] /\ H \subseteq 1..M
      /\ \A k, j \in 1..M : e[k] = e[j] => k = j
  BY DEF Picks, Picked
<1>3. IsFiniteSet(1..N) /\ IsFiniteSet(1..M)
  BY <1>2, FS_Interval
<1>4. PICK tp, tq, pp, pq : /\ tp = {i \in G : ps[i].dim = "none"} /\ pp = G \ tp
                            /\ tq = {k \in H : qs[k].dim = "none"} /\ pq = H \ tq
  OBVIOUS
<1>5. tp = {e[k] : k \in tq} /\ pp = {e[k] : k \in pq}
  <2>1. \A k \in H : (k \in tq <=> e[k] \in tp) /\ (k \in pq <=> e[k] \in pp)
    BY <1>1, <1>2, <1>4
  <2>2. \A i \in G : \E k \in H : e[k] = i
    BY <1>1
  <2>3. tp \subseteq G /\ pp \subseteq G /\ tq \subseteq H /\ pq \subseteq H
    BY <1>4
  <2> QED BY <2>1, <2>2, <2>3
<1>6. tq \in SUBSET (1..M) /\ pq \in SUBSET (1..M) /\ pp \in SUBSET (1..N)
  BY <1>2, <1>4
<1>7. IsFiniteSet(tq) /\ IsFiniteSet(pq)
  BY <1>3, <1>6, FS_Subset
<1>8. Cardinality(tp) = Cardinality(tq) /\ Cardinality(pp) = Cardinality(pq)
  <2>1. PICK C : C = 1..M
    OBVIOUS
  <2>2. OneToOne(e, C) /\ tq \in SUBSET C /\ pq \in SUBSET C
    BY <1>2, <1>6, <2>1 DEF OneToOne
  <2>3. /\ Cardinality(Image(e, tq)) = Cardinality(tq)
        /\ Cardinality(Image(e, pq)) = Cardinality(pq)
    BY <1>7, <2>2, SameCount
  <2>4. tp = Image(e, tq) /\ pp = Image(e, pq)
    BY <1>5 DEF Image
  <2> QED BY <2>3, <2>4
<1>9. {ps[i].dim : i \in pp} = {qs[k].dim : k \in pq}
  BY <1>1, <1>5, <1>6
<1>10. PICK F, E : F = ValuesOf(ps, 1..N) /\ E = ValuesOf(qs, 1..M)
  OBVIOUS
<1>11. F \in [1..N -> Int] /\ E \in [1..M -> Int] /\ E = [k \in 1..M |-> F[e[k]]]
  <2>1. \A k \in 1..M : Value(qs[k]) \in Int /\ Value(qs[k]) = F[e[k]]
    BY <1>1, <1>10 DEF ValuesOf
  <2> QED BY <1>10, <2>1 DEF ValuesOf
<1>12. SegmentTotal(ps, pp) = SegmentTotal(qs, pq)
  <2>1. PICK D, C : D = 1..N /\ C = 1..M
    OBVIOUS
  <2>2. IsFiniteSet(D) /\ IsFiniteSet(C) /\ F \in [D -> Int] /\ E \in [C -> Int]
    BY <1>3, <1>11, <2>1
  <2>3. pp \in SUBSET D /\ pq \in SUBSET C
    BY <1>6, <2>1
  <2>4. Renames(e, C, D, F, E)
    BY <1>2, <1>11, <2>1 DEF Renames
  <2>5. Total(E, pq) = Total(F, Image(e, pq))
    BY <2>2, <2>3, <2>4, TotalRenamed
  <2>6. Image(e, pq) = pp
    BY <1>5 DEF Image
  <2>7. F = ValuesOf(ps, D) /\ E = ValuesOf(qs, C)
    BY <1>10, <2>1
  <2>8. SegmentTotal(ps, pp) = Total(F, pp)
    BY <2>2, <2>3, <2>7, ValuesSum
  <2>9. SegmentTotal(qs, pq) = Total(E, pq)
    BY <2>2, <2>3, <2>7, ValuesSum
  <2> QED BY <2>5, <2>6, <2>8, <2>9
<1>13. PICK sum : sum = SegmentTotal(ps, pp) /\ sum = SegmentTotal(qs, pq)
  BY <1>12
<1> DEFINE Off(xs, t) == ~RelativelyEqual(sum, Value(xs[t]))
<1>14. /\ SegmentsMiss(ps, G) <=>
            /\ Cardinality(tp) = 1 /\ Cardinality(pp) > 1 /\ "horizon" \notin {ps[i].dim : i \in pp}
            /\ Cardinality({ps[i].dim : i \in pp}) = Cardinality(pp)
            /\ \E t \in tp : Off(ps, t)
       /\ SegmentsMiss(qs, H) <=>
            /\ Cardinality(tq) = 1 /\ Cardinality(pq) > 1 /\ "horizon" \notin {qs[i].dim : i \in pq}
            /\ Cardinality({qs[i].dim : i \in pq}) = Cardinality(pq)
            /\ \E t \in tq : Off(qs, t)
  BY <1>4, <1>13, Zenon DEF SegmentsMiss
<1>15. \A k \in 1..M : Off(qs, k) <=> Off(ps, e[k])
  BY <1>1
<1> HIDE DEF Off
<1>16. (\E t \in tp : Off(ps, t)) <=> (\E t \in tq : Off(qs, t))
  <2>1. ASSUME NEW t \in tp, Off(ps, t) PROVE \E k \in tq : Off(qs, k)
    <3>1. PICK k \in tq : e[k] = t
      BY <1>5
    <3> QED BY <1>6, <1>15, <2>1, <3>1
  <2>2. ASSUME NEW k \in tq, Off(qs, k) PROVE \E t \in tp : Off(ps, t)
    <3>1. e[k] \in tp /\ k \in 1..M
      BY <1>5, <1>6
    <3> QED BY <1>15, <2>2, <3>1
  <2> QED BY <2>1, <2>2
<1> QED BY <1>8, <1>9, <1>14, <1>16

(* A broken breakdown is one among the picked as among all.                 *)
LEMMA SegmentsPicked ==
  ASSUME NEW e, NEW M, NEW N, NEW ps, NEW qs, Picks(e, M, N, ps, qs),
         \A i \in 1..N : Value(ps[i]) \in Int,
         NEW k0 \in 1..M, Covers(e, M, N, ps, qs[k0].metric),
         NEW A \in SUBSET (1..N), NEW B, B = Picked(e, M, A),
         NEW W \in SUBSET (1..N), NEW V, V = Picked(e, M, W)
  PROVE  k0 \in SegmentsBroken(qs, B, V) <=> e[k0] \in SegmentsBroken(ps, A, W)
<1>1. \A k \in 1..M : /\ e[k] \in 1..N /\ qs[k] = ps[e[k]]
                      /\ (k \in B <=> e[k] \in A) /\ (k \in V <=> e[k] \in W)
  BY DEF Picks, Picked
<1>2. B \subseteq 1..M /\ V \subseteq 1..M /\ DOMAIN ps = 1..N /\ DOMAIN qs = 1..M
  BY DEF Picks, Picked
<1>3. PICK G, H : /\ G = {j \in A : SegmentSlice(ps[j]) = SegmentSlice(ps[e[k0]])}
                  /\ H = {j \in B : SegmentSlice(qs[j]) = SegmentSlice(qs[k0])}
  OBVIOUS
<1>4. H = Picked(e, M, G) /\ G \in SUBSET (1..N)
  BY <1>1, <1>2, <1>3 DEF Picked
<1>5. \A j \in 1..N : SegmentSlice(ps[j]) = SegmentSlice(ps[e[k0]]) => \E k \in 1..M : e[k] = j
  <2>1. ASSUME NEW j \in 1..N, SegmentSlice(ps[j]) = SegmentSlice(ps[e[k0]])
        PROVE  \E k \in 1..M : e[k] = j
    <3>1. ps[j].metric = qs[k0].metric
      BY <1>1, <2>1 DEF SegmentSlice
    <3> QED BY <3>1 DEF Covers, Related
  <2> QED BY <2>1
<1>6. SegmentsMiss(qs, H) <=> SegmentsMiss(ps, G)
  <2>1. \A i \in G : \E k \in 1..M : e[k] = i
    BY <1>3, <1>4, <1>5
  <2> QED BY <1>4, <2>1, MissPicked
<1> DEFINE Silences(xs, j, i) == ~(xs[j].dim = "none" \/ SegmentSlice(xs[j]) # SegmentSlice(xs[i]))
<1>7. /\ e[k0] \in SegmentsBroken(ps, A, W) <=>
           /\ e[k0] \in A /\ \A j \in W \cap Facts(ps) : ~Silences(ps, j, e[k0])
           /\ SegmentsMiss(ps, G)
      /\ k0 \in SegmentsBroken(qs, B, V) <=>
           /\ k0 \in B /\ \A j \in V \cap Facts(qs) : ~Silences(qs, j, k0)
           /\ SegmentsMiss(qs, H)
  BY <1>3 DEF SegmentsBroken
<1>8. \A k \in 1..M : k \in Facts(qs) <=> e[k] \in Facts(ps)
  BY <1>1, <1>2 DEF Facts
<1>9. \A k \in 1..M : Silences(qs, k, k0) <=> Silences(ps, e[k], e[k0])
  BY <1>1
<1>10. \A j \in 1..N : Silences(ps, j, e[k0]) => \E k \in 1..M : e[k] = j
  BY <1>5
<1> HIDE DEF Silences
<1>11. (\A j \in W \cap Facts(ps) : ~Silences(ps, j, e[k0]))
          <=> (\A j \in V \cap Facts(qs) : ~Silences(qs, j, k0))
  <2>1. ASSUME NEW j \in W \cap Facts(ps), Silences(ps, j, e[k0])
        PROVE  \E k \in V \cap Facts(qs) : Silences(qs, k, k0)
    <3>1. PICK k \in 1..M : e[k] = j
      BY <1>10, <2>1
    <3> QED BY <1>1, <1>8, <1>9, <2>1, <3>1
  <2>2. ASSUME NEW k \in V \cap Facts(qs), Silences(qs, k, k0)
        PROVE  \E j \in W \cap Facts(ps) : Silences(ps, j, e[k0])
    <3>1. k \in 1..M
      BY <1>2
    <3> QED BY <1>1, <1>8, <1>9, <2>2, <3>1
  <2> QED BY <2>1, <2>2
<1> QED BY <1>1, <1>6, <1>7, <1>11

(* ------------------------- a row's findings picked ----------------------- *)
(* A row is in a group when another one has its key.                         *)
LEMMA InGroup ==
  ASSUME NEW ps, NEW i \in DOMAIN ps
  PROVE  (\E g \in Groups(ps) : i \in g.members) <=>
            \E j \in (DOMAIN ps) \ {i} : ConflictKey(ps[j]) = ConflictKey(ps[i])
<1>1. \A key : Group(ps, key).members = {j \in DOMAIN ps : ConflictKey(ps[j]) = key}
  BY DEF Group
<1>2. ASSUME NEW g \in Groups(ps), i \in g.members
      PROVE  \E j \in (DOMAIN ps) \ {i} : ConflictKey(ps[j]) = ConflictKey(ps[i])
  <2>1. PICK key \in SharedKeys(ps) : g = Group(ps, key)
    BY DEF Groups
  <2>2. ConflictKey(ps[i]) = key
    BY <1>1, <1>2, <2>1
  <2>3. PICK j \in DOMAIN ps : ConflictKey(ps[j]) = key /\ \E m \in (DOMAIN ps) \ {j} :
                                  ConflictKey(ps[j]) = ConflictKey(ps[m])
    BY <2>1 DEF SharedKeys
  <2> QED BY <2>2, <2>3
<1>3. ASSUME NEW j \in (DOMAIN ps) \ {i}, ConflictKey(ps[j]) = ConflictKey(ps[i])
      PROVE  \E g \in Groups(ps) : i \in g.members
  <2>1. ConflictKey(ps[i]) \in SharedKeys(ps)
    BY <1>3 DEF SharedKeys
  <2>2. Group(ps, ConflictKey(ps[i])) \in Groups(ps)
    BY <2>1 DEF Groups
  <2> QED BY <1>1, <2>2
<1> QED BY <1>2, <1>3

(* What is found in a row among the picked is what is found among all, and   *)
(* it is in conflict among them if it is in conflict at all.                 *)
LEMMA FindingsPicked ==
  ASSUME NEW e, NEW M, NEW N, NEW ps, NEW qs, Picks(e, M, N, ps, qs),
         \A i \in 1..N : Value(ps[i]) \in Int,
         NEW k0 \in 1..M, Covers(e, M, N, ps, qs[k0].metric)
  PROVE  /\ Findings(qs, k0) = Findings(ps, e[k0])
         /\ (\E g \in Groups(qs) : k0 \in g.members) <=> (\E g \in Groups(ps) : e[k0] \in g.members)
<1>1. /\ \A k \in 1..M : e[k] \in 1..N /\ qs[k] = ps[e[k]]
      /\ \A k, j \in 1..M : e[k] = e[j] => k = j
      /\ DOMAIN ps = 1..N /\ DOMAIN qs = 1..M
  BY DEF Picks
<1>2. PICK A, B, W, V : /\ A = Facts(ps) \ Withheld(ps) /\ B = Facts(qs) \ Withheld(qs)
                        /\ W = Withheld(ps) /\ V = Withheld(qs)
  OBVIOUS
<1>3. /\ A \in SUBSET (1..N) /\ W \in SUBSET (1..N)
      /\ B = Picked(e, M, A) /\ V = Picked(e, M, W)
  BY <1>1, <1>2 DEF Facts, Withheld, Picked
<1>4. /\ k0 \in RpoBroken(qs, B) <=> e[k0] \in RpoBroken(ps, A)
      /\ k0 \in GrossProfitBroken(qs, B) <=> e[k0] \in GrossProfitBroken(ps, A)
      /\ k0 \in SegmentsBroken(qs, B, V) <=> e[k0] \in SegmentsBroken(ps, A, W)
  BY <1>3, RpoPicked, GrossProfitPicked, SegmentsPicked
<1>5. IdentityErrors(qs, k0) = IdentityErrors(ps, e[k0])
  BY <1>2, <1>4 DEF IdentityErrors
<1>6. ASSUME NEW i \in 1..N, ps[i].metric = qs[k0].metric PROVE \E k \in 1..M : e[k] = i
  BY <1>6 DEF Covers, Related
<1>7. Duplicated(qs, k0) <=> Duplicated(ps, e[k0])
  <2>1. ASSUME Duplicated(qs, k0) PROVE Duplicated(ps, e[k0])
    <3>1. PICK k \in (1..M) \ {k0} : Identity(qs[k0]) = Identity(qs[k])
                                     /\ Fingerprint(qs[k0]) = Fingerprint(qs[k])
      BY <1>1, <2>1 DEF Duplicated
    <3>2. e[k] \in (1..N) \ {e[k0]}
      BY <1>1
    <3> QED BY <1>1, <3>1, <3>2 DEF Duplicated
  <2>2. ASSUME Duplicated(ps, e[k0]) PROVE Duplicated(qs, k0)
    <3>1. PICK j \in (1..N) \ {e[k0]} : Identity(ps[e[k0]]) = Identity(ps[j])
                                        /\ Fingerprint(ps[e[k0]]) = Fingerprint(ps[j])
      BY <1>1, <2>2 DEF Duplicated
    <3>2. ps[j].metric = qs[k0].metric
      BY <1>1, <3>1 DEF Identity
    <3>3. PICK k \in 1..M : e[k] = j
      BY <1>6, <3>2
    <3> QED BY <1>1, <3>1, <3>3 DEF Duplicated
  <2> QED BY <2>1, <2>2
<1>8. Findings(qs, k0) = Findings(ps, e[k0])
  BY <1>1, <1>5, <1>7 DEF Findings
<1>9. /\ (\E g \in Groups(qs) : k0 \in g.members) <=>
           \E j \in (1..M) \ {k0} : ConflictKey(qs[j]) = ConflictKey(qs[k0])
      /\ (\E g \in Groups(ps) : e[k0] \in g.members) <=>
           \E j \in (1..N) \ {e[k0]} : ConflictKey(ps[j]) = ConflictKey(ps[e[k0]])
  <2>1. k0 \in DOMAIN qs /\ e[k0] \in DOMAIN ps
    BY <1>1
  <2>2. (\E g \in Groups(qs) : k0 \in g.members) <=>
           \E j \in (DOMAIN qs) \ {k0} : ConflictKey(qs[j]) = ConflictKey(qs[k0])
    BY <2>1, InGroup
  <2>3. (\E g \in Groups(ps) : e[k0] \in g.members) <=>
           \E j \in (DOMAIN ps) \ {e[k0]} : ConflictKey(ps[j]) = ConflictKey(ps[e[k0]])
    BY <2>1, InGroup
  <2> QED BY <1>1, <2>2, <2>3
<1>10. (\E k \in (1..M) \ {k0} : ConflictKey(qs[k]) = ConflictKey(qs[k0])) <=>
         (\E j \in (1..N) \ {e[k0]} : ConflictKey(ps[j]) = ConflictKey(ps[e[k0]]))
  <2>1. ASSUME NEW k \in (1..M) \ {k0}, ConflictKey(qs[k]) = ConflictKey(qs[k0])
        PROVE  \E j \in (1..N) \ {e[k0]} : ConflictKey(ps[j]) = ConflictKey(ps[e[k0]])
    BY <1>1, <2>1
  <2>2. ASSUME NEW j \in (1..N) \ {e[k0]}, ConflictKey(ps[j]) = ConflictKey(ps[e[k0]])
        PROVE  \E k \in (1..M) \ {k0} : ConflictKey(qs[k]) = ConflictKey(qs[k0])
    <3>1. ConflictKey(ps[j])[2] = ps[j].metric /\ ConflictKey(ps[e[k0]])[2] = ps[e[k0]].metric
      BY DEF ConflictKey, Identity
    <3>2. ps[j].metric = qs[k0].metric
      BY <1>1, <2>2, <3>1
    <3>3. PICK k \in 1..M : e[k] = j
      BY <1>6, <3>2
    <3> QED BY <1>1, <2>2, <3>3
  <2> QED BY <2>1, <2>2
<1> QED BY <1>8, <1>9, <1>10

(* ------------------------- the inductive invariant ----------------------- *)
\* The rows the normalize stage leaves, and what the validate stage makes of them.
NormalizedRows == normalized = [i \in Rows |-> Normalized(Raws[batch[i]])]
ValidatedRows ==
  /\ NormalizedRows
  /\ drafts = Validated(normalized) /\ conflicts = Groups(normalized)

\* What a request was admitted on, and what it found.
DecidedRow ==
  /\ ValidatedRows /\ selected \in Rows
  /\ \A i \in Relevant(selected) : ~SourceRefused(normalized[i])
  /\ reviewed = [i \in Relevant(selected) |-> EvaluateRow(Relevant(selected), i)]

ValInv ==
  /\ \E n \in Nat \ {0} : batch \in [1..n -> DOMAIN Raws]
  /\ normalized = <<>> \/ NormalizedRows
  /\ (drafts = <<>> /\ conflicts = {}) \/ ValidatedRows
  /\ selected = 0 \/ DecidedRow

LEMMA ValStarts == ValInit => ValInv
<1>1. SUFFICES ASSUME ValInit PROVE ValInv
  OBVIOUS
<1>2. PICK n \in 1..MaxBatch : batch \in [1..n -> DOMAIN Raws]
  BY <1>1 DEF ValInit
<1>3. n \in Nat
  BY ValidationAssumption
<1> QED BY <1>1, <1>2, <1>3 DEF ValInit, ValInv

(* The three steps of a batch keep it.                                      *)
LEMMA ValSteps ==
  ASSUME ValInv, [ValNext]_valVars
  PROVE  ValInv'
<1>1. /\ \E n \in Nat \ {0} : batch \in [1..n -> DOMAIN Raws]
      /\ normalized = <<>> \/ NormalizedRows
      /\ (drafts = <<>> /\ conflicts = {}) \/ ValidatedRows
      /\ selected = 0 \/ DecidedRow
  BY DEF ValInv
<1>0. /\ NormalizedRows => normalized # <<>>
      /\ ValidatedRows => drafts # <<>>
  <2>1. 1 \in Rows
    BY <1>1 DEF Rows
  <2>2. NormalizedRows => DOMAIN normalized = Rows
    BY DEF NormalizedRows
  <2>3. ValidatedRows => DOMAIN drafts = Rows
    BY <2>2 DEF ValidatedRows, Validated
  <2>4. DOMAIN <<>> = {}
    OBVIOUS
  <2> QED BY <2>1, <2>2, <2>3, <2>4
<1>2. CASE Normalize
  <2>1. /\ normalized = <<>> /\ normalized' = [i \in Rows |-> Normalized(Raws[batch[i]])]
        /\ batch' = batch /\ drafts' = drafts /\ conflicts' = conflicts
        /\ selected' = selected /\ reviewed' = reviewed
    BY <1>2 DEF Normalize
  <2>2. NormalizedRows'
    BY <2>1 DEF NormalizedRows, Rows
  <2>3. drafts = <<>> /\ conflicts = {} /\ selected = 0
    BY <1>0, <1>1, <2>1 DEF ValidatedRows, DecidedRow
  <2> QED BY <1>1, <2>1, <2>2, <2>3 DEF ValInv
<1>3. CASE Validate
  <2>1. /\ normalized # <<>> /\ drafts = <<>> /\ drafts' = Validated(normalized)
        /\ conflicts' = Groups(normalized) /\ batch' = batch /\ normalized' = normalized
        /\ selected' = selected /\ reviewed' = reviewed
    BY <1>3 DEF Validate
  <2>2. NormalizedRows /\ NormalizedRows'
    BY <1>1, <2>1 DEF NormalizedRows, Rows
  <2>3. ValidatedRows'
    BY <2>1, <2>2 DEF ValidatedRows
  <2>4. selected = 0
    BY <1>0, <1>1, <2>1 DEF DecidedRow
  <2> QED BY <1>1, <2>1, <2>2, <2>3, <2>4 DEF ValInv
<1>4. CASE ReviewRow
  <2>1. PICK sel \in Rows :
          /\ \A i \in Relevant(sel) : ~SourceRefused(normalized[i])
          /\ selected' = sel
          /\ reviewed' = [i \in Relevant(sel) |-> EvaluateRow(Relevant(sel), i)]
    BY <1>4 DEF ReviewRow
  <2>2. /\ drafts # <<>> /\ batch' = batch /\ normalized' = normalized
        /\ drafts' = drafts /\ conflicts' = conflicts
    BY <1>4 DEF ReviewRow
  <2>3. ValidatedRows
    BY <1>1, <2>2
  <2>4. ValidatedRows' /\ (NormalizedRows' <=> NormalizedRows)
    BY <2>2, <2>3 DEF ValidatedRows, NormalizedRows, Rows
  <2>5. \A i : Relevant(i)' = Relevant(i)
    BY <2>2 DEF Relevant, Rows
  <2>6. Relevant(selected)' = Relevant(sel)
    BY <2>1, <2>2 DEF Relevant, Rows
  <2>7. ASSUME NEW i PROVE EvaluateRow(Relevant(selected), i)' = EvaluateRow(Relevant(sel), i)
    BY <2>2, <2>6 DEF EvaluateRow, Revalidated, Retained
  <2>8. DecidedRow'
    <3>1. selected' \in Rows'
      BY <2>1, <2>2 DEF Rows
    <3>2. \A i \in Relevant(selected)' : ~SourceRefused(normalized'[i])
      BY <2>1, <2>2, <2>6
    <3>3. reviewed' = [i \in Relevant(selected)' |-> EvaluateRow(Relevant(selected), i)']
      BY <2>1, <2>6, <2>7
    <3> QED BY <2>4, <3>1, <3>2, <3>3 DEF DecidedRow
  <2> QED BY <1>1, <2>2, <2>4, <2>8 DEF ValInv
<1>5. CASE UNCHANGED valVars
  <2>1. /\ batch' = batch /\ normalized' = normalized /\ drafts' = drafts
        /\ conflicts' = conflicts /\ selected' = selected /\ reviewed' = reviewed
    BY <1>5 DEF valVars
  <2>2. NormalizedRows' <=> NormalizedRows
    BY <2>1 DEF NormalizedRows, Rows
  <2>3. ValidatedRows' <=> ValidatedRows
    BY <2>1, <2>2 DEF ValidatedRows
  <2>4. Relevant(selected)' = Relevant(selected)
    BY <2>1 DEF Relevant, Rows
  <2>5. ASSUME NEW i PROVE EvaluateRow(Relevant(selected), i)' = EvaluateRow(Relevant(selected), i)
    BY <2>1, <2>4 DEF EvaluateRow, Revalidated, Retained
  <2>6. DecidedRow => DecidedRow'
    BY <2>1, <2>3, <2>4, <2>5 DEF DecidedRow, Rows
  <2> QED BY <1>1, <2>1, <2>2, <2>3, <2>6 DEF ValInv
<1> QED BY <1>2, <1>3, <1>4, <1>5 DEF ValNext

(* Each row of a batch is a raw one, normalised.                             *)
LEMMA RowsInReach ==
  ASSUME ValInv, NormalizedRows
  PROVE  \E N \in Nat :
           /\ Rows = 1..N /\ DOMAIN normalized = 1..N
           /\ \A i \in 1..N : \E p : /\ p = Raws[batch[i]] /\ InReach(p) /\ p.carried = {}
                                  /\ normalized[i] = Normalized(p)
<1>1. PICK N \in Nat \ {0} : batch \in [1..N -> DOMAIN Raws]
  BY DEF ValInv
<1>2. Rows = 1..N
  BY <1>1 DEF Rows
<1>3. DOMAIN normalized = 1..N /\ \A i \in 1..N : normalized[i] = Normalized(Raws[batch[i]])
  BY <1>2 DEF NormalizedRows
<1>4. \A i \in 1..N : InReach(Raws[batch[i]]) /\ Raws[batch[i]].carried = {}
  BY <1>1, RawsInReach
<1> QED BY <1>2, <1>3, <1>4

(* What a normalised row keeps, and that only one that is not broken is tidy. *)
LEMMA RowIs ==
  ASSUME NEW p, InReach(p), p.carried = {}, NEW n, n = Normalized(p)
  PROVE  /\ InReach(n) /\ SameFact(n, p) /\ n.cites = p.cites
         /\ IF p.broken THEN "rejected" \in n.carried ELSE Tidy(n)
<1>1. CASE p.broken
  <2>1. p \in Written /\ (p.scale # NoScale => p.scale >= -Decimals)
    BY DEF InReach
  <2>2. n = [p EXCEPT !.carried = {"rejected"}]
    BY <1>1 DEF Normalized
  <2>3. {"rejected"} \in SUBSET Carried
    BY DEF Carried
  <2>4. n \in Written
    BY <2>1, <2>2, <2>3 DEF Written
  <2>5. /\ n.scale = p.scale /\ n.cites = p.cites /\ n.carried = {"rejected"} /\ SameFact(n, p)
    BY <2>1, <2>2 DEF Written, SameFact
  <2> QED BY <1>1, <2>1, <2>4, <2>5 DEF InReach
<1>2. CASE ~p.broken
  <2>1. NormalizedTo(p, n, Reconciled(p.nums, Hint(p)))
    BY <1>2, NormalizedRow
  <2> QED BY <1>2, <2>1 DEF NormalizedTo
<1> QED BY <1>1, <1>2

(* ---------------------------- what a reviewer sees ----------------------- *)
(* A request places each row it compares once, as it would be read again.    *)
LEMMA RowPlaced ==
  ASSUME NEW N \in Nat, NEW among \in SUBSET (1..N), NEW i \in among
  PROVE  \E r, M, k : /\ r = Revalidated(among) /\ M \in Nat /\ ListsRows(r, among, M)
                      /\ k \in 1..M /\ r.rows[k] = i
                      /\ EvaluateRow(among, i) =
                           [blockers |-> Findings(r.ps, k) \cup Retained(i),
                            conflict |-> \E g \in Groups(r.ps) : k \in g.members]
<1>1. PICK r : r = Revalidated(among)
  OBVIOUS
<1>2. PICK M \in Nat : ListsRows(r, among, M)
  BY <1>1, RevalidatedRows
<1>3. DOMAIN r.rows = 1..M /\ \E k \in 1..M : r.rows[k] = i
  BY <1>2 DEF ListsRows
<1>4. PICK k : k = CHOOSE j \in DOMAIN r.rows : r.rows[j] = i
  OBVIOUS
<1>5. k \in 1..M /\ r.rows[k] = i
  BY <1>3, <1>4
<1>6. EvaluateRow(among, i) = [blockers |-> Findings(r.ps, k) \cup Retained(i),
                               conflict |-> \E g \in Groups(r.ps) : k \in g.members]
  BY <1>1, <1>4 DEF EvaluateRow
<1> QED BY <1>1, <1>2, <1>5, <1>6

\* Each row as it would be read again.
ReadAgain(N) == [i \in 1..N |-> Normalized(Persisted(normalized[i]))]

(* Judged with every row its metric relates it to, a row is judged as among  *)
(* all.                                                                      *)
LEMMA JudgedAmongAll ==
  ASSUME NEW N \in Nat, NEW among \in SUBSET (1..N), NEW i \in among,
         NEW ps, ps = ReadAgain(N), \A j \in 1..N : Value(ps[j]) \in Int,
         \A j \in 1..N : Related(ps[j].metric, ps[i].metric) => j \in among
  PROVE  EvaluateRow(among, i) = [blockers |-> Findings(ps, i) \cup Retained(i),
                                  conflict |-> \E g \in Groups(ps) : i \in g.members]
<1>1. PICK r, M, k : /\ r = Revalidated(among) /\ M \in Nat /\ ListsRows(r, among, M)
                     /\ k \in 1..M /\ r.rows[k] = i
                     /\ EvaluateRow(among, i) =
                          [blockers |-> Findings(r.ps, k) \cup Retained(i),
                           conflict |-> \E g \in Groups(r.ps) : k \in g.members]
  BY RowPlaced
<1>2. PICK e, qs : e = r.rows /\ qs = r.ps
  OBVIOUS
<1>3. /\ e \in [1..M -> among] /\ \A x, y \in 1..M : e[x] = e[y] => x = y
      /\ \A j \in among : \E x \in 1..M : e[x] = j
      /\ qs = [x \in 1..M |-> Normalized(Persisted(normalized[e[x]]))]
  BY <1>1, <1>2 DEF ListsRows
<1>4. \A x \in 1..M : e[x] \in 1..N
  BY <1>3
<1>5. \A x \in 1..M : qs[x] = ps[e[x]]
  BY <1>3, <1>4 DEF ReadAgain
<1>6. Picks(e, M, N, ps, qs)
  <2>1. e \in [1..M -> 1..N]
    BY <1>3, <1>4
  <2>2. DOMAIN ps = 1..N /\ DOMAIN qs = 1..M
    BY <1>3 DEF ReadAgain
  <2> QED BY <1>1, <1>3, <1>5, <2>1, <2>2 DEF Picks
<1>7. Covers(e, M, N, ps, qs[k].metric)
  <2>1. qs[k].metric = ps[i].metric
    BY <1>1, <1>2, <1>5
  <2> QED BY <1>3, <2>1 DEF Covers
<1>8. /\ Findings(qs, k) = Findings(ps, e[k])
      /\ (\E g \in Groups(qs) : k \in g.members) <=> (\E g \in Groups(ps) : e[k] \in g.members)
  BY <1>1, <1>6, <1>7, FindingsPicked
<1>9. e[k] = i
  BY <1>1, <1>2
<1> QED BY <1>1, <1>2, <1>8, <1>9

LEMMA SurvivesReview == ValInv => FindingsSurviveReview
<1>1. SUFFICES ASSUME ValInv, selected # 0, NEW i \in DOMAIN reviewed
               PROVE  drafts[i].blockers \cap Lasting \subseteq reviewed[i].blockers
  BY DEF FindingsSurviveReview, Lasting
<1>2. DecidedRow
  BY <1>1 DEF ValInv
<1>3. PICK N \in Nat :
        /\ Rows = 1..N /\ DOMAIN normalized = 1..N
        /\ \A j \in 1..N : \E p : /\ p = Raws[batch[j]] /\ InReach(p) /\ p.carried = {}
                               /\ normalized[j] = Normalized(p)
  BY <1>1, <1>2, RowsInReach DEF DecidedRow, ValidatedRows
<1>4. PICK among : among = Relevant(selected)
  OBVIOUS
<1>5. among \in SUBSET (1..N)
  BY <1>3, <1>4 DEF Relevant
<1>6. i \in among /\ reviewed[i] = EvaluateRow(among, i) /\ ~SourceRefused(normalized[i])
  BY <1>1, <1>2, <1>4 DEF DecidedRow
<1>7. PICK p : InReach(p) /\ p.carried = {} /\ normalized[i] = Normalized(p)
  BY <1>3, <1>5, <1>6
<1>8. ~p.broken
  <2>1. SameFact(normalized[i], p)
    BY <1>7, RowIs
  <2> QED BY <1>6, <2>1 DEF SourceRefused, SameFact
<1>9. PICK r, M, k : /\ r = Revalidated(among) /\ M \in Nat /\ ListsRows(r, among, M)
                     /\ k \in 1..M /\ r.rows[k] = i
                     /\ EvaluateRow(among, i) =
                          [blockers |-> Findings(r.ps, k) \cup Retained(i),
                           conflict |-> \E g \in Groups(r.ps) : k \in g.members]
  BY <1>5, <1>6, RowPlaced
<1>10. r.ps[k] = Normalized(Persisted(normalized[i]))
  BY <1>9 DEF ListsRows
<1>11. Findings(normalized, i) \cap Lasting
          \subseteq Findings(r.ps, k) \cup (Findings(normalized, i) \cap {"dimension", "sign"})
  BY <1>7, <1>8, <1>10, FoundAgain
<1>12. drafts[i].blockers = Findings(normalized, i)
  BY <1>2, <1>3, <1>5, <1>6 DEF DecidedRow, ValidatedRows, Validated
<1>13. reviewed[i].blockers = Findings(r.ps, k) \cup (Findings(normalized, i) \cap {"dimension", "sign"})
  BY <1>6, <1>9, <1>12 DEF Retained
<1> QED BY <1>11, <1>12, <1>13

LEMMA RelevantSuffice == ValInv => RelevantRowsSuffice
<1>1. SUFFICES ASSUME ValInv, selected # 0, \A i \in Rows : ~SourceRefused(normalized[i])
               PROVE  reviewed[selected] = EvaluateRow(Rows, selected)
  BY DEF RelevantRowsSuffice
<1>2. DecidedRow
  BY <1>1 DEF ValInv
<1>3. PICK N \in Nat :
        /\ Rows = 1..N /\ DOMAIN normalized = 1..N
        /\ \A j \in 1..N : \E p : /\ p = Raws[batch[j]] /\ InReach(p) /\ p.carried = {}
                               /\ normalized[j] = Normalized(p)
  BY <1>1, <1>2, RowsInReach DEF DecidedRow, ValidatedRows
<1>4. PICK among : among = Relevant(selected)
  OBVIOUS
<1>5. among \in SUBSET (1..N) /\ selected \in among /\ selected \in 1..N
  BY <1>2, <1>3, <1>4 DEF Relevant, DecidedRow
<1>6. PICK ps : ps = ReadAgain(N)
  OBVIOUS
<1>7. ASSUME NEW j \in 1..N PROVE InReach(ps[j]) /\ ps[j].metric = normalized[j].metric
  <2>1. PICK p : InReach(p) /\ p.carried = {} /\ normalized[j] = Normalized(p)
    BY <1>3
  <2>2. /\ InReach(normalized[j]) /\ SameFact(normalized[j], p)
        /\ IF p.broken THEN "rejected" \in normalized[j].carried ELSE Tidy(normalized[j])
    BY <2>1, RowIs
  <2>3. ~normalized[j].broken
    BY <1>1, <1>3 DEF SourceRefused
  <2>4. Tidy(normalized[j])
    BY <2>2, <2>3 DEF SameFact
  <2>5. ps[j] = Normalized(Persisted(normalized[j]))
    BY <1>6 DEF ReadAgain
  <2>6. InReach(ps[j]) /\ SameFact(ps[j], normalized[j])
    BY <2>2, <2>3, <2>4, <2>5, NormalizedAgain
  <2> QED BY <2>6 DEF SameFact
<1>8. \A j \in 1..N : Value(ps[j]) \in Int
  BY <1>7, ValuesAreIntegers
<1>9. \A j \in 1..N : Related(ps[j].metric, ps[selected].metric) => j \in among
  <2>1. ASSUME NEW j \in 1..N, Related(ps[j].metric, ps[selected].metric) PROVE j \in among
    <3>1. Related(normalized[j].metric, normalized[selected].metric)
      BY <1>5, <1>7, <2>1
    <3>2. normalized[j].metric \in UNION ({{normalized[selected].metric}}
                                     \cup {f \in Families : normalized[selected].metric \in f})
      BY <3>1 DEF Related
    <3> QED BY <1>3, <1>4, <3>2 DEF Relevant
  <2> QED BY <2>1
<1>10. EvaluateRow(among, selected) =
         [blockers |-> Findings(ps, selected) \cup Retained(selected),
          conflict |-> \E g \in Groups(ps) : selected \in g.members]
  BY <1>5, <1>6, <1>8, <1>9, JudgedAmongAll
<1>11. EvaluateRow(1..N, selected) =
         [blockers |-> Findings(ps, selected) \cup Retained(selected),
          conflict |-> \E g \in Groups(ps) : selected \in g.members]
  <2>1. PICK all : all = 1..N
    OBVIOUS
  <2>2. all \in SUBSET (1..N) /\ \A j \in 1..N : Related(ps[j].metric, ps[selected].metric) => j \in all
    BY <2>1
  <2>3. selected \in all
    BY <1>5, <2>1
  <2>4. EvaluateRow(all, selected) =
         [blockers |-> Findings(ps, selected) \cup Retained(selected),
          conflict |-> \E g \in Groups(ps) : selected \in g.members]
    BY <1>6, <1>8, <2>2, <2>3, JudgedAmongAll
  <2> QED BY <2>1, <2>4
<1>12. reviewed[selected] = EvaluateRow(among, selected)
  BY <1>2, <1>4, <1>5 DEF DecidedRow
<1> QED BY <1>3, <1>10, <1>11, <1>12

(* Whatever the vocabulary, the batch and the exponents, a reviewer judges a *)
(* row by what the worker found in it and on rows that are enough            *)
(* (validation.evaluate, relevant_rows).                                     *)
THEOREM ValSpecReviewed == ValSpec => []ReviewSeesTheFindings
<1>1. ValInv => ReviewSeesTheFindings
  BY SurvivesReview, RelevantSuffice DEF ReviewSeesTheFindings
<1> QED BY <1>1, ValStarts, ValSteps, PTL DEF ValSpec

(* --------------------------- what notation hides ------------------------- *)
\* What the four properties are told of a validated batch.
Batch(N) ==
  /\ N \in Nat /\ Rows = 1..N /\ DOMAIN normalized = 1..N
  /\ \A i \in 1..N : \E p : /\ p = Raws[batch[i]] /\ InReach(p) /\ p.carried = {}
                         /\ normalized[i] = Normalized(p)
  /\ drafts = Validated(normalized)

LEMMA ValidatedBatch ==
  ASSUME ValInv, ValidatedRows
  PROVE  \E N : Batch(N)
BY RowsInReach DEF ValidatedRows, Batch

\* The grades of a row's citations.
GradesOf(p) == [k \in DOMAIN p.cites |-> Grade(p.cites[k])]

(* A row without an impugning finding is in reach and is a plain decimal.   *)
LEMMA RowsClean ==
  ASSUME NEW N, Batch(N), NEW i \in 1..N
  PROVE  /\ InReach(normalized[i]) /\ Value(normalized[i]) \in Int
         /\ ("rejected" \notin normalized[i].carried => Plain(normalized[i].nums[1]))
         /\ drafts[i].blockers = Findings(normalized, i)
         /\ drafts[i].priority = Priority(normalized, i)
         /\ drafts[i].grades = GradesOf(normalized[i])
<1>1. PICK p : InReach(p) /\ p.carried = {} /\ normalized[i] = Normalized(p)
  BY DEF Batch
<1>2. /\ InReach(normalized[i])
      /\ IF p.broken THEN "rejected" \in normalized[i].carried ELSE Tidy(normalized[i])
  BY <1>1, RowIs
<1>3. Value(normalized[i]) \in Int
  BY <1>2, ValuesAreIntegers
<1>4. 1 \in DOMAIN normalized[i].nums
  BY <1>2 DEF InReach, Written
<1>5. /\ drafts[i].blockers = Findings(normalized, i)
      /\ drafts[i].priority = Priority(normalized, i)
      /\ drafts[i].grades = GradesOf(normalized[i])
  BY DEF Batch, Validated, GradesOf
<1> QED BY <1>2, <1>3, <1>4, <1>5 DEF Tidy, Plain

(* The larger of two amounts.                                               *)
LEMMA MaxOfTwo ==
  ASSUME NEW a \in Nat, NEW b \in Nat, a > b
  PROVE  Max({a, b}) = a
<1>1. {a, b} \subseteq 0..a /\ {a, b} # {}
  OBVIOUS
<1>2. PICK m : m = Max({a, b})
  OBVIOUS
<1>3. m \in {a, b} /\ \A y \in {a, b} : m >= y
  BY <1>1, <1>2, MaxOfNaturals
<1> QED BY <1>2, <1>3

(* One percent more is more than what rounding explains.                    *)
LEMMA NotByRounding ==
  ASSUME NEW r \in Int, NEW c \in Int, 101 * Abs(r) < 100 * Abs(c)
  PROVE  Abs(c) > Abs(r) /\ ~RelativelyEqual(Abs(c), Abs(r))
<1>1. PICK x \in Nat, y \in Nat : x = Abs(r) /\ y = Abs(c)
  BY DEF Abs
<1>2. 101 * x < 100 * y /\ y > x
  BY <1>1
<1>3. Abs(y) = y /\ Abs(x) = x /\ Abs(y - x) = y - x
  BY <1>2 DEF Abs
<1>4. Max({y, x}) = y
  BY <1>2, MaxOfTwo
<1>5. ~(200 * (y - x) <= y)
  BY <1>2
<1> QED BY <1>1, <1>2, <1>3, <1>4, <1>5 DEF RelativelyEqual

LEMMA BalanceFlagged ==
  ASSUME NEW N, Batch(N)
  PROVE  ImpossibleBalanceFlagged
<1> DEFINE clean(r, m) == {i \in Rows : /\ normalized[i].kind = "kpi"
                                        /\ normalized[i].metric = m
                                        /\ RpoSlice(normalized[i]) = RpoSlice(normalized[r])
                                        /\ normalized[i].carried \subseteq {"dimension", "currency"}}
<1>1. SUFFICES ASSUME NEW r \in Rows, NEW c \in Rows, clean(r, "rpo") = {r}, clean(r, "crpo") = {c},
                      101 * Abs(Value(normalized[r])) < 100 * Abs(Value(normalized[c]))
               PROVE  "crpo_exceeds_rpo" \in drafts[r].blockers \cap drafts[c].blockers
  BY DEF ImpossibleBalanceFlagged
<1>2. /\ N \in Nat /\ Rows = 1..N /\ DOMAIN normalized = 1..N
  BY DEF Batch
<1>3. PICK A : A = Facts(normalized) \ Withheld(normalized)
  OBVIOUS
<1>4. \A i \in 1..N : i \in A <=> /\ normalized[i].kind = "kpi" /\ Plain(normalized[i].nums[1])
                                /\ normalized[i].carried \subseteq {"dimension", "currency"}
  BY <1>2, <1>3 DEF Facts, Withheld
<1>5. A \in SUBSET (1..N)
  BY <1>2, <1>3 DEF Facts
<1>6. PICK S : S = {j \in A : RpoSlice(normalized[j]) = RpoSlice(normalized[r])}
  OBVIOUS
<1>7. RpoSlice(normalized[c]) = RpoSlice(normalized[r])
  BY <1>1
<1>8. \A m : \A i \in 1..N : i \in clean(r, m) <=> i \in S /\ normalized[i].metric = m
  <2>1. ASSUME NEW i \in 1..N, normalized[i].carried \subseteq {"dimension", "currency"}
        PROVE  Plain(normalized[i].nums[1])
    BY <2>1, RowsClean
  <2> QED BY <1>2, <1>4, <1>6, <2>1
<1>9. \A m : clean(r, m) \subseteq 1..N
  BY <1>2
<1> HIDE DEF clean
<1>10. S \in SUBSET (1..N) /\ IsFiniteSet(S)
  <2>1. IsFiniteSet(1..N)
    BY <1>2, FS_Interval
  <2>2. S \in SUBSET (1..N)
    BY <1>5, <1>6
  <2> QED BY <2>1, <2>2, FS_Subset
<1>11. r \in Soles(normalized, S, "rpo") /\ c \in Soles(normalized, S, "crpo")
  <2>1. IsSole(normalized, S, "rpo", r)
    BY <1>1, <1>2, <1>8, <1>10 DEF IsSole
  <2>2. IsSole(normalized, S, "crpo", c)
    BY <1>1, <1>2, <1>8, <1>10 DEF IsSole
  <2> QED BY <1>10, <2>1, <2>2, SolesAre
<1>12. r \in A /\ c \in A
  BY <1>1, <1>2, <1>6, <1>8
<1>13. /\ Abs(Value(normalized[c])) > Abs(Value(normalized[r]))
       /\ ~RelativelyEqual(Abs(Value(normalized[c])), Abs(Value(normalized[r])))
  <2>1. Value(normalized[r]) \in Int /\ Value(normalized[c]) \in Int
    BY <1>2, RowsClean
  <2> QED BY <1>1, <2>1, NotByRounding
<1>14. ASSUME NEW i \in {r, c} PROVE "crpo_exceeds_rpo" \in drafts[i].blockers
  <2>1. S = {j \in A : RpoSlice(normalized[j]) = RpoSlice(normalized[i])}
    BY <1>6, <1>7
  <2>2. i \in RpoBroken(normalized, A)
    BY <1>11, <1>12, <1>13, <2>1 DEF RpoBroken
  <2>3. "crpo_exceeds_rpo" \in Findings(normalized, i)
    BY <1>3, <2>2 DEF IdentityErrors, Findings
  <2>4. i \in 1..N
    BY <1>2
  <2>5. drafts[i].blockers = Findings(normalized, i)
    BY <2>4, RowsClean
  <2> QED BY <2>3, <2>5
<1> QED BY <1>14

(* A margin above 100 percent is found however it was written.              *)
LEMMA LargerByPower ==
  ASSUME NEW x \in Int, NEW d \in Nat, x > 100
  PROVE  x * Pow10[d] > 100 * Pow10[d]
<1>1. PICK t : t = Pow10[d] /\ t \in Nat \ {0}
  BY Powers
<1>2. x * t > 100 * t
  <2>1. (x - 100) \in Nat \ {0} /\ (x - 100) * t = x * t - 100 * t
    BY <1>1
  <2>2. PICK y \in Nat \ {0} : y = x - 100
    BY <2>1
  <2>3. y * t > 0
    BY <1>1, <2>2
  <2> QED BY <1>1, <2>1, <2>2, <2>3
<1> QED BY <1>1, <1>2

LEMMA ThreeDigits ==
  ASSUME NEW n \in Nat, n > 2
  PROVE  Pow10[n] > 100
<1>1. PICK k \in Nat : n = 3 + k
  <2>1. n - 3 \in Nat /\ n = 3 + (n - 3)
    OBVIOUS
  <2> QED BY <2>1
<1>2. Pow10[n] = Pow10[3] * Pow10[k]
  BY <1>1, PowersMultiply
<1>3. Pow10[3] = 1000
  <2>1. Pow10[1] = 10 * Pow10[0] /\ Pow10[2] = 10 * Pow10[1] /\ Pow10[3] = 10 * Pow10[2]
    BY Powers
  <2> QED BY <2>1, Powers
<1>4. PICK t : t = Pow10[k] /\ t \in Nat \ {0}
  BY Powers
<1>5. 1000 * t > 100
  BY <1>4
<1> QED BY <1>2, <1>3, <1>4, <1>5

LEMMA MarginFlagged ==
  ASSUME NEW N, Batch(N)
  PROVE  ImpossibleMarginFlagged
<1>1. SUFFICES ASSUME NEW i \in Rows, NEW p, p = Raws[batch[i]], Percent(p),
                      NEW k \in DOMAIN p.nums,
                      p.nums[k].m * Pow10[EffectiveScale(p.nums[k], Hint(p))] > 100
               PROVE  \/ "margin" \in drafts[i].blockers
                      \/ Shift(p) < 0 /\ {"scale", "exponent"} \subseteq drafts[i].blockers
                      \/ p.broken /\ {"rejected", "flawed"} \subseteq drafts[i].blockers
  BY DEF ImpossibleMarginFlagged
<1>2. PICK n : n = normalized[i]
  OBVIOUS
<1>3. i \in 1..N /\ InReach(p) /\ p.carried = {} /\ n = Normalized(p)
  BY <1>1, <1>2 DEF Batch
<1>4. drafts[i].blockers = Findings(normalized, i)
  BY <1>3, RowsClean
<1>5. n.carried \cup RuleErrors(n) \subseteq drafts[i].blockers
  BY <1>2, <1>4 DEF Findings
<1>6. SameFact(n, p) /\ (p.broken => "rejected" \in n.carried)
  BY <1>3, RowIs
<1>7. CASE p.broken
  <2>1. "flawed" \in RuleErrors(n)
    BY <1>6, <1>7 DEF SameFact, RuleErrors, SchemaErrors
  <2> QED BY <1>5, <1>6, <1>7, <2>1
<1>8. CASE ~p.broken
  <2>1. PICK r : r = Reconciled(p.nums, Hint(p))
    OBVIOUS
  <2>2. NormalizedTo(p, n, r)
    BY <1>3, <1>8, <2>1, NormalizedRow
  <2>3. /\ n.nums = [j \in DOMAIN p.nums |-> [m |-> r.nums[j], suffix |-> 0]]
        /\ n.scale = IF ScaleBlocked(p.scale) THEN p.scale ELSE r.scale
        /\ n.scale # NoScale /\ (ScaleBlocked(p.scale) => "scale" \in n.carried)
    BY <2>2 DEF NormalizedTo, Tidy
  <2>4. p.nums \in [1..1 -> Numbers] \cup [1..2 -> Numbers] /\ Hint(p) \in Nat \cup {NoScale}
        /\ p.scale \in Int \cup {NoScale}
    BY <1>3, HintIs DEF InReach, Written
  <2>5. /\ r.scale \in Nat /\ r.nums \in [DOMAIN p.nums -> Int]
        /\ \A x \in DOMAIN p.nums : \E j \in DOMAIN p.nums :
             r.nums[j] * Pow10[r.scale] = p.nums[x].m * Pow10[EffectiveScale(p.nums[x], Hint(p))]
    BY <2>1, <2>4, ReconciledKeeps
  <2>6. PICK j \in DOMAIN p.nums : r.nums[j] * Pow10[r.scale] > 100
    BY <1>1, <2>5
  <2>7. j \in DOMAIN n.nums /\ n.nums[j].m = r.nums[j] /\ Plain(n.nums[j]) /\ r.nums[j] \in Int
    BY <2>3, <2>5 DEF Plain
  <2>8. Percent(n) /\ Shift(n) = n.scale
    BY <1>1, <1>6, <2>3 DEF SameFact, Percent, Shift
  <2>9. ASSUME Magnitude(n, j) > 100 * Pow10[Decimals] PROVE "margin" \in drafts[i].blockers
    <3>1. "margin" \in PercentErrors(n)
      BY <2>7, <2>8, <2>9 DEF PercentErrors
    <3> QED BY <1>5, <3>1 DEF RuleErrors, AccountingErrors
  <2>10. Magnitude(n, j) = r.nums[j] * Pow10[n.scale + Decimals]
    BY <2>7, <2>8 DEF Magnitude
  <2>11. ASSUME NEW s \in Nat, n.scale = s, r.nums[j] * Pow10[s] > 100
         PROVE  Magnitude(n, j) > 100 * Pow10[Decimals]
    <3>1. PICK x, a, b : x = r.nums[j] /\ a = Pow10[s] /\ b = Pow10[Decimals]
      OBVIOUS
    <3>2. x \in Int /\ a \in Int /\ b \in Int
      BY <2>7, <2>11, <3>1, Powers, ValidationAssumption
    <3>3. Pow10[s + Decimals] = a * b
      BY <3>1, PowersMultiply, ValidationAssumption
    <3>4. x * (a * b) = (x * a) * b /\ x * a \in Int
      BY <3>2
    <3>5. (x * a) * b > 100 * b
      BY <2>11, <3>1, <3>4, LargerByPower, ValidationAssumption
    <3> QED BY <2>10, <2>11, <3>1, <3>3, <3>4, <3>5
  <2>12. CASE ~ScaleBlocked(p.scale)
    BY <2>3, <2>5, <2>6, <2>9, <2>11, <2>12
  <2>13. CASE ScaleBlocked(p.scale) /\ p.scale < 0
    <3>1. "scale" \in n.carried /\ n.scale = p.scale /\ p.scale # NoScale
      BY <2>3, <2>13
    <3>2. Shift(p) < 0 /\ Shift(n) # 0
      <4>1. p.scale \in Int
        BY <2>4, <3>1
      <4> QED BY <2>8, <2>13, <3>1, <4>1 DEF Shift
    <3>3. "exponent" \in PercentErrors(n)
      BY <2>8, <3>2 DEF PercentErrors
    <3> QED BY <1>5, <3>1, <3>2, <3>3 DEF RuleErrors, AccountingErrors
  <2>14. CASE ScaleBlocked(p.scale) /\ ~(p.scale < 0)
    <3>1. n.scale \in Nat /\ n.scale > 2
      BY <2>3, <2>4, <2>14, ValidationAssumption DEF ScaleBlocked
    <3>2. PICK x, a, b : x = r.nums[j] /\ a = Pow10[r.scale] /\ b = Pow10[n.scale]
      OBVIOUS
    <3>3. x \in Int /\ a \in Nat \ {0} /\ b \in Nat /\ b > 100 /\ x * a > 100
      BY <2>5, <2>6, <2>7, <3>1, <3>2, Powers, ThreeDigits
    <3>4. x > 0
      <4>1. SUFFICES ASSUME ~(x > 0) PROVE x * a <= 0
        BY <3>3
      <4>2. PICK y \in Nat : x = -y
        BY <3>3, <4>1
      <4>3. y * a >= 0 /\ x * a = -(y * a)
        BY <3>3, <4>2
      <4> QED BY <3>3, <4>2, <4>3
    <3>5. x * b > 100
      <4>1. PICK y \in Nat : x = y + 1
        <5>1. x - 1 \in Nat /\ x = (x - 1) + 1
          BY <3>3, <3>4
        <5> QED BY <5>1
      <4>2. y * b >= 0 /\ x * b = y * b + b /\ y * b \in Int
        BY <3>3, <4>1
      <4> QED BY <3>3, <4>2
    <3> QED BY <2>9, <2>11, <3>1, <3>2, <3>5
  <2> QED BY <2>12, <2>13, <2>14
<1> QED BY <1>7, <1>8

(* A row without a citation finding has one that was really opened.          *)
LEMMA OpenedCitation ==
  ASSUME NEW p, InReach(p), CitationErrors(p) = {}
  PROVE  \E k \in DOMAIN GradesOf(p) : GradesOf(p)[k] = "verified"
<1>1. "unverified" \notin CitationErrors(p)
  OBVIOUS
<1>2. PICK s \in PinnedSpans : Claimed(p, s) = s
  BY <1>1 DEF CitationErrors
<1>3. PICK said : said = {k \in DOMAIN p.cites : p.cites[k].span = s /\ p.cites[k].hash # "none"}
  OBVIOUS
<1>4. Claimed(p, s) = IF said = {} THEN "none" ELSE p.cites[Max(said)].hash
  BY <1>3 DEF Claimed
<1>5. said # {} /\ p.cites[Max(said)].hash = s
  <2>1. s # "none"
    BY DEF PinnedSpans
  <2> QED BY <1>2, <1>4, <2>1
<1>6. Max(said) \in said
  <2>1. PICK c : c = p.cites
    OBVIOUS
  <2>2. c \in Seq([span : STRING, hash : STRING])
    BY <2>1 DEF InReach, Written
  <2>3. Len(c) \in Nat /\ DOMAIN c = 1..Len(c)
    BY <2>2, LenProperties
  <2>4. PICK n \in Nat : n = Len(c)
    BY <2>3
  <2>5. said \subseteq 0..n
    BY <1>3, <2>1, <2>3, <2>4
  <2> QED BY <1>5, <2>4, <2>5, MaxOfNaturals
<1>7. PICK k \in DOMAIN p.cites : p.cites[k].span = s /\ p.cites[k].hash = s
  BY <1>3, <1>5, <1>6
<1>8. s # "none"
  BY DEF PinnedSpans
<1>9. Grade(p.cites[k]) = "verified"
  BY <1>7, <1>8 DEF Grade
<1> QED BY <1>9 DEF GradesOf

LEMMA OrdinaryClean ==
  ASSUME NEW N, Batch(N)
  PROVE  OrdinaryMeansClean
<1>1. SUFFICES ASSUME NEW i \in Rows, drafts[i].priority = "normal"
               PROVE  /\ drafts[i].blockers = {}
                      /\ \E k \in DOMAIN drafts[i].grades : drafts[i].grades[k] = "verified"
                      /\ \A j \in Rows \ {i} : Identity(normalized[j]) # Identity(normalized[i])
  BY DEF OrdinaryMeansClean
<1>2. i \in 1..N /\ Rows = 1..N /\ DOMAIN normalized = 1..N
  BY <1>1 DEF Batch
<1>3. /\ InReach(normalized[i]) /\ drafts[i].blockers = Findings(normalized, i)
      /\ drafts[i].priority = Priority(normalized, i) /\ drafts[i].grades = GradesOf(normalized[i])
  BY <1>2, RowsClean
<1>4. Findings(normalized, i) = {} /\ ~(\E g \in Groups(normalized) : i \in g.members)
  BY <1>1, <1>3 DEF Priority
<1>5. CitationErrors(normalized[i]) = {}
  BY <1>4 DEF Findings
<1>6. \E k \in DOMAIN drafts[i].grades : drafts[i].grades[k] = "verified"
  BY <1>3, <1>5, OpenedCitation
<1>7. ASSUME NEW j \in (DOMAIN normalized) \ {i}, Identity(normalized[j]) = Identity(normalized[i])
      PROVE  FALSE
  <2>1. ConflictKey(normalized[j]) = ConflictKey(normalized[i])
    <3>1. PICK a, b : a = normalized[j] /\ b = normalized[i]
      OBVIOUS
    <3>2. /\ a.kind = b.kind /\ a.metric = b.metric /\ a.currency = b.currency
          /\ a.dim = b.dim /\ a.qualifier = b.qualifier /\ a.note = b.note
      BY <1>7, <3>1 DEF Identity
    <3> QED BY <3>1, <3>2 DEF ConflictKey, Comparable, Known, Identity
  <2>2. i \in DOMAIN normalized
    BY <1>2
  <2>3. \E g \in Groups(normalized) : i \in g.members
    BY <1>7, <2>1, <2>2, InGroup
  <2> QED BY <1>4, <2>3
<1> QED BY <1>2, <1>3, <1>4, <1>6, <1>7

\* What makes the numbers of two rows differ, one by one.
NumbersDiffer(p, q) ==
  \E k \in DOMAIN p.nums :
     \/ k \notin DOMAIN q.nums
     \/ LET a == p.nums[k]
            b == q.nums[k]
            d == Shift(p) - Shift(q)
        IN IF ~Plain(a) \/ ~Plain(b) THEN a # b
           ELSE IF d >= 0 THEN a.m * Pow10[d] # b.m
           ELSE a.m # b.m * Pow10[-d]

\* An exponent both sides have makes no difference.
SameRescaled(x, y, d, t) == x * Pow10[d + t] = y * Pow10[t] <=> x * Pow10[d] = y

(* It does not, for any integers and exponents.                             *)
LEMMA Rescaled ==
  ASSUME NEW x \in Int, NEW y \in Int, NEW d \in Nat, NEW t \in Nat
  PROVE  SameRescaled(x, y, d, t)
<1>1. PICK a, b : a = Pow10[d] /\ b = Pow10[t]
  OBVIOUS
<1>2. a \in Int /\ b \in Nat \ {0} /\ Pow10[d + t] = a * b
  <2>1. Pow10[d + t] = Pow10[d] * Pow10[t]
    BY PowersMultiply
  <2> QED BY <1>1, <2>1, Powers
<1>3. x * (a * b) = (x * a) * b /\ x * a \in Int
  BY <1>2
<1>4. PICK z \in Int : z = x * a
  BY <1>3
<1>5. z * b = y * b <=> z = y
  <2>1. SUFFICES ASSUME z * b = y * b, z # y PROVE FALSE
    OBVIOUS
  <2>2. (z - y) * b = 0
    BY <1>2, <2>1
  <2>3. PICK w \in Int : w = z - y /\ w # 0
    BY <2>1
  <2>4. w * b # 0
    <3>1. CASE w > 0
      BY <1>2, <3>1
    <3>2. CASE ~(w > 0)
      <4>1. PICK v \in Nat \ {0} : w = -v
        <5>1. -w \in Nat \ {0} /\ w = -(-w)
          BY <2>3, <3>2
        <5> QED BY <5>1
      <4>2. v * b > 0 /\ w * b = -(v * b) /\ v * b \in Int
        BY <1>2, <4>1
      <4> QED BY <4>2
    <3> QED BY <3>1, <3>2
  <2> QED BY <2>2, <2>3, <2>4
<1> QED BY <1>1, <1>2, <1>3, <1>4, <1>5 DEF SameRescaled

(* One number of two rows prints the same just when it is the same.         *)
LEMMA SameNumber ==
  ASSUME NEW p, InReach(p), NEW q, InReach(q), NEW k \in DOMAIN p.nums, k \in DOMAIN q.nums,
         NEW a, a = p.nums[k], NEW b, b = q.nums[k], NEW d, d = Shift(p) - Shift(q)
  PROVE  Fingerprint(p)[k] # Fingerprint(q)[k] <=>
           IF ~Plain(a) \/ ~Plain(b) THEN a # b
           ELSE IF d >= 0 THEN a.m * Pow10[d] # b.m
           ELSE a.m # b.m * Pow10[-d]
<1>1. /\ a \in Numbers /\ b \in Numbers
  BY DEF InReach, Written
<1>2. /\ Fingerprint(p)[k] = IF Plain(a) THEN <<0, Magnitude(p, k)>> ELSE <<a.suffix, a.m>>
      /\ Fingerprint(q)[k] = IF Plain(b) THEN <<0, Magnitude(q, k)>> ELSE <<b.suffix, b.m>>
  BY DEF Fingerprint
<1>3. CASE ~Plain(a) \/ ~Plain(b)
  <2>1. a = b <=> a.m = b.m /\ a.suffix = b.suffix
    BY <1>1 DEF Numbers
  <2>2. PICK fp, fq : fp = Fingerprint(p)[k] /\ fq = Fingerprint(q)[k]
    OBVIOUS
  <2>3. CASE ~Plain(a) /\ ~Plain(b)
    BY <1>2, <1>3, <2>1, <2>3
  <2>4. CASE Plain(a) /\ ~Plain(b)
    BY <1>2, <1>3, <2>1, <2>4 DEF Plain
  <2>5. CASE ~Plain(a) /\ Plain(b)
    BY <1>2, <1>3, <2>1, <2>5 DEF Plain
  <2> QED BY <1>3, <2>3, <2>4, <2>5
<1>4. CASE Plain(a) /\ Plain(b)
  <2>1. Fingerprint(p)[k] = Fingerprint(q)[k] <=> Magnitude(p, k) = Magnitude(q, k)
    BY <1>2, <1>4
  <2>2. /\ Shift(p) \in Int /\ Shift(p) + Decimals \in Nat
        /\ Shift(q) \in Int /\ Shift(q) + Decimals \in Nat
    BY ValuesAreIntegers
  <2>3. /\ Magnitude(p, k) = a.m * Pow10[Shift(p) + Decimals]
        /\ Magnitude(q, k) = b.m * Pow10[Shift(q) + Decimals]
    BY DEF Magnitude
  <2>4. a.m \in Int /\ b.m \in Int
    BY <1>1 DEF Numbers
  <2>5. CASE d >= 0
    <3>1. PICK t \in Nat : t = Shift(q) + Decimals
      BY <2>2
    <3>2. d \in Nat /\ Shift(p) + Decimals = d + t
      BY <2>2, <2>5, <3>1, ValidationAssumption
    <3>3. PICK x \in Int, y \in Int, c \in Nat : x = a.m /\ y = b.m /\ c = d
      BY <2>4, <3>2
    <3>4. x * Pow10[c + t] = y * Pow10[t] <=> x * Pow10[c] = y
      <4>1. SameRescaled(x, y, c, t)
        BY Rescaled
      <4> QED BY <4>1 DEF SameRescaled
    <3> QED BY <1>4, <2>1, <2>3, <2>5, <3>1, <3>2, <3>3, <3>4
  <2>6. CASE ~(d >= 0)
    <3>1. PICK t \in Nat : t = Shift(p) + Decimals
      BY <2>2
    <3>2. PICK c \in Nat : c = -d /\ Shift(q) + Decimals = c + t
      <4>1. -d \in Nat /\ Shift(q) + Decimals = -d + t
        BY <2>2, <2>6, <3>1, ValidationAssumption
      <4> QED BY <4>1
    <3>3. PICK x \in Int, y \in Int : x = b.m /\ y = a.m
      BY <2>4
    <3>4. x * Pow10[c + t] = y * Pow10[t] <=> x * Pow10[c] = y
      <4>1. SameRescaled(x, y, c, t)
        BY Rescaled
      <4> QED BY <4>1 DEF SameRescaled
    <3> QED BY <1>4, <2>1, <2>3, <2>6, <3>1, <3>2, <3>3, <3>4
  <2> QED BY <2>5, <2>6
<1> QED BY <1>3, <1>4

(* Two rows print differently just when, read one way or the other, their    *)
(* numbers differ.                                                          *)
LEMMA PrintsDiffer ==
  ASSUME NEW p, InReach(p), NEW q, InReach(q)
  PROVE  Fingerprint(p) # Fingerprint(q) <=> NumbersDiffer(p, q) \/ NumbersDiffer(q, p)
<1>1. /\ DOMAIN p.nums = 1..1 \/ DOMAIN p.nums = 1..2
      /\ DOMAIN q.nums = 1..1 \/ DOMAIN q.nums = 1..2
  BY DEF InReach, Written
<1>2. PICK fp, fq : fp = Fingerprint(p) /\ fq = Fingerprint(q)
  OBVIOUS
<1>3. /\ DOMAIN fp = DOMAIN p.nums /\ DOMAIN fq = DOMAIN q.nums
      /\ fp = [k \in DOMAIN fp |-> fp[k]] /\ fq = [k \in DOMAIN fq |-> fq[k]]
  BY <1>2 DEF Fingerprint
<1>4. ASSUME NEW k \in DOMAIN p.nums, k \in DOMAIN q.nums
      PROVE  fp[k] # fq[k] <=>
               LET a == p.nums[k]
                   b == q.nums[k]
                   d == Shift(p) - Shift(q)
               IN IF ~Plain(a) \/ ~Plain(b) THEN a # b
                  ELSE IF d >= 0 THEN a.m * Pow10[d] # b.m
                  ELSE a.m # b.m * Pow10[-d]
  BY <1>2, <1>4, SameNumber
<1>5. ASSUME NEW k \in DOMAIN q.nums, k \in DOMAIN p.nums
      PROVE  fq[k] # fp[k] <=>
               LET a == q.nums[k]
                   b == p.nums[k]
                   d == Shift(q) - Shift(p)
               IN IF ~Plain(a) \/ ~Plain(b) THEN a # b
                  ELSE IF d >= 0 THEN a.m * Pow10[d] # b.m
                  ELSE a.m # b.m * Pow10[-d]
  BY <1>2, <1>5, SameNumber
<1>6. /\ NumbersDiffer(p, q) <=> \E k \in DOMAIN p.nums : k \notin DOMAIN q.nums \/ fp[k] # fq[k]
      /\ NumbersDiffer(q, p) <=> \E k \in DOMAIN q.nums : k \notin DOMAIN p.nums \/ fq[k] # fp[k]
  BY <1>4, <1>5 DEF NumbersDiffer
<1>7. fp = fq <=> DOMAIN fp = DOMAIN fq /\ \A k \in DOMAIN fp : fp[k] = fq[k]
  BY <1>3
<1> QED BY <1>1, <1>2, <1>3, <1>6, <1>7

(* A set of more than one member has two that differ.                       *)
LEMMA TwoDiffer ==
  ASSUME NEW S, IsFiniteSet(S)
  PROVE  Cardinality(S) > 1 <=> \E x, y \in S : x # y
<1>1. PICK n \in Nat : n = Cardinality(S)
  BY FS_CardinalityType
<1>2. n = 0 <=> S = {}
  BY <1>1, FS_EmptySet
<1>3. n = 1 <=> \E x : S = {x}
  BY <1>1, FS_Singleton
<1>4. ASSUME n > 1 PROVE \E x, y \in S : x # y
  <2>1. PICK x \in S : TRUE
    BY <1>2, <1>4
  <2>2. S # {x}
    BY <1>3, <1>4
  <2> QED BY <2>1, <2>2
<1>5. ASSUME NEW x \in S, NEW y \in S, x # y PROVE n > 1
  <2>1. S # {} /\ ~(\E z : S = {z})
    BY <1>5
  <2> QED BY <1>2, <1>3, <2>1
<1> QED BY <1>1, <1>4, <1>5

LEMMA DisagreementReal ==
  ASSUME NEW N, Batch(N), conflicts = Groups(normalized)
  PROVE  DisagreementIsReal
<1>1. SUFFICES ASSUME NEW g \in Groups(normalized)
               PROVE  ("value_disagreement" \in g.reasons) <=>
                         \E i, j \in g.members : NumbersDiffer(normalized[i], normalized[j])
  BY Zenon DEF DisagreementIsReal, NumbersDiffer
<1>2. PICK key : g = Group(normalized, key)
  BY DEF Groups
<1>3. N \in Nat /\ DOMAIN normalized = 1..N
  BY DEF Batch
<1>4. g.members = {i \in 1..N : ConflictKey(normalized[i]) = key}
  BY <1>2, <1>3 DEF Group
<1>5. PICK prints : prints = {Fingerprint(normalized[i]) : i \in g.members}
  OBVIOUS
<1>6. "value_disagreement" \in g.reasons <=> Cardinality(prints) > 1
  BY <1>2, <1>5 DEF Group
<1>7. IsFiniteSet(prints)
  <2>1. IsFiniteSet(1..N)
    BY <1>3, FS_Interval
  <2>2. PICK members : members = g.members
    OBVIOUS
  <2>3. members \in SUBSET (1..N)
    BY <1>4, <2>2
  <2>4. IsFiniteSet(members)
    BY <2>1, <2>3, FS_Subset
  <2>5. PICK f : f = [i \in members |-> Fingerprint(normalized[i])]
    OBVIOUS
  <2>6. prints = {f[i] : i \in members}
    BY <1>5, <2>2, <2>5
  <2>7. f \in Surjection(members, prints)
    BY <2>5, <2>6 DEF Surjection
  <2> QED BY <2>4, <2>7, FS_Surjection
<1>8. Cardinality(prints) > 1 <=> \E x, y \in prints : x # y
  BY <1>7, TwoDiffer
<1>9. \A i, j \in g.members :
         Fingerprint(normalized[i]) # Fingerprint(normalized[j]) <=>
           NumbersDiffer(normalized[i], normalized[j]) \/ NumbersDiffer(normalized[j], normalized[i])
  <2>1. SUFFICES ASSUME NEW i \in g.members, NEW j \in g.members
                 PROVE  Fingerprint(normalized[i]) # Fingerprint(normalized[j]) <=>
                          NumbersDiffer(normalized[i], normalized[j])
                             \/ NumbersDiffer(normalized[j], normalized[i])
    OBVIOUS
  <2>2. InReach(normalized[i]) /\ InReach(normalized[j])
    BY <1>4, RowsClean
  <2> QED BY <2>2, PrintsDiffer
<1> QED BY <1>5, <1>6, <1>8, <1>9

(* Whatever the vocabulary, the batch and the exponents, no way of writing a *)
(* value hides what it contradicts (normalize_payload, identity_errors,      *)
(* detect_conflicts).                                                       *)
THEOREM ValSpecFlags == ValSpec => []NotationHidesNothing
<1>1. ValInv => NotationHidesNothing
  <2>1. SUFFICES ASSUME ValInv PROVE NotationHidesNothing
    OBVIOUS
  <2>2. CASE drafts = <<>> /\ conflicts = {}
    BY <2>2 DEF NotationHidesNothing, ImpossibleBalanceFlagged, ImpossibleMarginFlagged,
       OrdinaryMeansClean, DisagreementIsReal
  <2>3. CASE ValidatedRows
    <3>1. PICK N : Batch(N)
      BY <2>1, <2>3, ValidatedBatch
    <3>2. conflicts = Groups(normalized)
      BY <2>3 DEF ValidatedRows
    <3> QED BY <3>1, <3>2, BalanceFlagged, MarginFlagged, OrdinaryClean, DisagreementReal
            DEF NotationHidesNothing
  <2> QED BY <2>1, <2>2, <2>3 DEF ValInv
<1> QED BY <1>1, ValStarts, ValSteps, PTL DEF ValSpec
=============================================================================
