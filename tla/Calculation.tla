----------------------------- MODULE Calculation -----------------------------
(* Snapshots of a calculation model, the scenarios layered over them and      *)
(* their evaluation (packages/calculation-engine/fel_calculation_engine:      *)
(* engine.py, scenario.py, snapshot.py, store.py, iteration.py, nodes.py).    *)
(*                                                                            *)
(* The ids of a model end in 0; the override of node n by scenario k has id   *)
(* n + k, which sorts where its name does, after n and before the next node.  *)
(* A snapshot's id and a result's id are hashes of everything they stand for: *)
(* the model compares what is hashed. Values are integers and formulas add or *)
(* subtract; units, periods, rounding and validation checks are left out.     *)
EXTENDS ModelGraph, TLC

CONSTANTS
    BaseIds,          \* node ids of a model, multiples of 10
    LeafValues,       \* per base id: the value if it is a leaf
    LeafTimes,        \* per base id: its as_of stamp then
    OverrideValue,    \* the value scenario k gives to node n: n * OverrideValue + k
    ScenarioTimes,    \* as_of stamps of scenarios
    CutoffTime,
    Tolerance, MaxSweeps,    \* of an iteration group
    MaxScenarios

ASSUME CalculationAssumption ==
    /\ \A n \in BaseIds : n \in Nat /\ n % 10 = 0
    /\ LeafValues \in [BaseIds -> Int] /\ LeafTimes \in [BaseIds -> Nat]
    /\ OverrideValue \in Int /\ ScenarioTimes \subseteq Nat /\ CutoffTime \in Nat
    /\ Tolerance \in Nat /\ MaxSweeps \in Nat \ {0} /\ MaxScenarios \in 0 .. 9

VARIABLES
    snapshots,     \* the chain of snapshots in the store, the root first
    modelGraph,    \* the ModelGraph of the last snapshot: its plan or its refusal
    outcome,       \* what evaluating the last snapshot came to, once it was asked for
    substituted    \* per base id: the scenario that overrode it last, or 0

calcVars == <<snapshots, modelGraph, outcome, substituted>>

Unbuilt == Refused("unbuilt", <<>>)

Leaves == {"assumption", "fact", "override"}
Overridable == {"assumption", "driver"}

Leaf(kind, value, asOf) == [kind |-> kind, op |-> "none", refs |-> <<>>, value |-> value, asOf |-> asOf]
Derived(kind, op, refs) == [kind |-> kind, op |-> op, refs |-> refs, value |-> 0, asOf |-> 0]

\* The nodes a model may have under an id: the validated shapes of nodes.py.
NodesOf(n) ==
    {Leaf(kind, LeafValues[n], LeafTimes[n]) : kind \in {"assumption", "fact"}}
      \cup {Derived("driver", "none", <<m>>) : m \in BaseIds \ {n}}
      \cup {Derived("formula", op, <<m, k>>) :
              <<op, m, k>> \in {x \in {"add", "sub"} \X (BaseIds \ {n}) \X (BaseIds \ {n}) :
                                  x[2] # x[3]}}

\* No group, or one whose members all start from the same seed.
GroupsOf ==
    {{}} \cup {{[members |-> c, seeds |-> [m \in c |-> s]]} :
                 <<c, s>> \in ((SUBSET BaseIds) \ {{}}) \X BaseIds}

(* ------------------------------- evaluation ------------------------------- *)
Failed(why) == [error |-> why, value |-> <<>>, available |-> <<>>]
Unevaluated == Failed("unevaluated")

Combine(op, x, y) == IF op = "sub" THEN x - y ELSE x + y

\* _fold.
Folded(node, value) == Combine(node.op, value[node.refs[1]], value[node.refs[2]])

\* Leaves carry their own value and stamp; derived nodes the latest of their inputs.
ComputedValue(node, value) ==
    CASE node.kind \in Leaves -> node.value
      [] node.kind = "driver" -> value[node.refs[1]]
      [] OTHER -> Folded(node, value)

ComputedStamp(node, available) ==
    IF node.kind \in Leaves THEN node.asOf
    ELSE Max({available[r] : r \in Range(node.refs)})

\* _require_available.
TooNew(node) == node.kind \in Leaves /\ node.asOf > CutoffTime

EvaluateNode(nodes, n, results) ==
    IF TooNew(nodes[n]) THEN Failed("cutoff")
    ELSE [results EXCEPT
            !.value = (n :> ComputedValue(nodes[n], results.value)) @@ @,
            !.available = (n :> ComputedStamp(nodes[n], results.available)) @@ @]

Distance(x, y) == IF x > y THEN x - y ELSE y - x

\* Jacobi sweeps from the seeds until no member moves by more than the tolerance.
Sweeps(nodes, group, results) ==
    LET start == [m \in group.members |-> results.value[group.seeds[m]]]
        sweep(s, k) ==
          IF s.done THEN s
          ELSE LET inputs == s.now @@ results.value
                   next == [m \in group.members |-> ComputedValue(nodes[m], inputs)]
               IN  [now |-> next,
                    done |-> \A m \in group.members : Distance(next[m], s.now[m]) <= Tolerance]
    IN  FoldLeft(sweep, [now |-> start, done |-> FALSE], [k \in 1 .. MaxSweeps |-> k])

\* All members share the stamp of everything read from outside, seeds included.
EvaluateGroup(nodes, group, results) ==
    LET last == Sweeps(nodes, group, results)
        outside == (UNION {Range(nodes[m].refs) : m \in group.members} \ group.members)
                     \cup Range(group.seeds)
        stamp == Max({results.available[r] : r \in outside})
    IN  IF ~last.done THEN Failed("convergence")
        ELSE [results EXCEPT !.value = last.now @@ @,
                             !.available = [m \in group.members |-> stamp] @@ @]

\* One walk over the execution plan; the first error ends it.
Evaluate(model, plan) ==
    LET step(results, c) ==
          IF results.error # "none" THEN results
          ELSE IF \E g \in model.groups : g.members = c
            THEN EvaluateGroup(model.nodes, CHOOSE g \in model.groups : g.members = c, results)
            ELSE EvaluateNode(model.nodes, CHOOSE n \in c : TRUE, results)
    IN  FoldLeft(step, [error |-> "none", value |-> <<>>, available |-> <<>>],
                 plan)

(* ------------------------------- scenarios -------------------------------- *)
\* The tail of the chain of overrides that shadow n.
Effective(nodes, n) ==
    LET shadow(m) == {d \in DOMAIN nodes : nodes[d].kind = "override" /\ nodes[d].refs = <<m>>}
        step(m, k) == IF shadow(m) = {} THEN m ELSE CHOOSE d \in shadow(m) : TRUE
    IN  FoldLeft(step, n, [k \in 1 .. MaxScenarios |-> k])

\* An override stands on the node it names and not on the tail of its chain.
UnlayeredMutant(nodes, n) == n

\* The node an override shadows.
Shadowed(nodes, n) == Effective(nodes, n)

Override(shadowed, n, k, t) ==
    [Leaf("override", n * OverrideValue + k, t) EXCEPT !.refs = <<shadowed>>]

\* What a consumer of the shadowed nodes reads instead.
Rewired(node, instead) ==
    IF node.kind = "override" THEN node
    ELSE [node EXCEPT !.refs = [i \in DOMAIN @ |->
            IF @[i] \in DOMAIN instead THEN instead[@[i]] ELSE @[i]]]

\* apply_scenario: overrides are added and their consumers and seeds re-pointed.
ApplyScenario(model, targets, k, t) ==
    LET shadowed == [n \in targets |-> Shadowed(model.nodes, n)]
        instead == [e \in Range(shadowed) |-> (CHOOSE n \in targets : shadowed[n] = e) + k]
        added == [id \in {n + k : n \in targets} |-> Override(shadowed[id - k], id - k, k, t)]
    IN  [nodes |-> added @@ [n \in DOMAIN model.nodes |-> Rewired(model.nodes[n], instead)],
         groups |-> {[g EXCEPT !.seeds = [m \in g.members |->
                         IF @[m] \in DOMAIN instead THEN instead[@[m]] ELSE @[m]]] :
                       g \in model.groups}]

(* -------------------------------- the store ------------------------------- *)
Latest == Last(snapshots)

CalcInit ==
    /\ \E nodes \in [BaseIds -> UNION {NodesOf(n) : n \in BaseIds}], groups \in GroupsOf :
          /\ \A n \in BaseIds : nodes[n] \in NodesOf(n)
          /\ groups # {} => Cyclic(Deps(nodes), Components(Deps(nodes))) # {}
          /\ snapshots = <<[nodes |-> nodes, groups |-> groups]>>
    /\ modelGraph = Unbuilt /\ outcome = Unevaluated
    /\ substituted = [n \in BaseIds |-> 0]

\* GraphSnapshot.build and put of the root snapshot.
BuildRoot ==
    /\ modelGraph = Unbuilt
    /\ modelGraph' = Build(Latest.nodes, Latest.groups)
    /\ UNCHANGED <<snapshots, outcome, substituted>>

BuildChild(child) ==
    /\ snapshots' = Append(snapshots, child)
    /\ modelGraph' = Build(child.nodes, child.groups)

\* A scenario over the latest snapshot; its child is built, and stored after it.
ScenarioRun(targets, t) ==
    /\ modelGraph.error = "none" /\ Len(snapshots) <= MaxScenarios /\ targets # {}
    /\ \A n \in targets : Latest.nodes[n].kind \in Overridable
    /\ BuildChild(ApplyScenario(Latest, targets, Len(snapshots), t))
    /\ outcome' = Unevaluated
    /\ substituted' = [n \in BaseIds |-> IF n \in targets THEN Len(snapshots)
                                         ELSE substituted[n]]

EvaluateLatest ==
    /\ modelGraph.error = "none" /\ outcome = Unevaluated
    /\ outcome' = Evaluate(Latest, modelGraph.plan)
    /\ UNCHANGED <<snapshots, modelGraph, substituted>>

CalcNext ==
    \/ BuildRoot \/ EvaluateLatest
    \/ \E targets \in SUBSET BaseIds, t \in ScenarioTimes : ScenarioRun(targets, t)

(* ------------------------------- properties ------------------------------- *)
\* The nodes n reads, directly or not.
Upstream(deps, n) ==
    LET step(found, k) == found \cup UNION {Range(deps[m]) : m \in found}
    IN  FoldLeft(step, Range(deps[n]), [k \in 1 .. Cardinality(DOMAIN deps) |-> k])

OnCycle(deps) == {n \in DOMAIN deps : n \in Upstream(deps, n)}

\* A model gets a plan exactly when every cycle in it is declared as a group with
\* outside seeds that do not wait for it; then every node is computed once and
\* after everything it reads; a model refused for a cycle is told a real one
\* (ModelGraph.build).
PlanIsSound ==
    LET model == Latest
        deps == Deps(model.nodes)
        built == modelGraph
        declared == UNION {g.members : g \in model.groups}
        members(n) == {m \in OnCycle(deps) : m \in Upstream(deps, n) /\ n \in Upstream(deps, m)}
    IN  modelGraph # Unbuilt =>
        /\ built.error = "none" =>
             /\ OnCycle(deps) = declared
             /\ \A n \in DOMAIN deps :
                  Cardinality({i \in DOMAIN built.plan : n \in built.plan[i]}) = 1
             /\ \A i \in DOMAIN built.plan : \A n \in built.plan[i] :
                  /\ Range(deps[n]) \subseteq UNION {built.plan[j] : j \in 1 .. i - 1}
                                                \cup (built.plan[i] \cap OnCycle(deps))
                  /\ \A g \in model.groups : n \in g.members =>
                       /\ g.members = built.plan[i]
                       /\ g.seeds[n] \in UNION {built.plan[j] : j \in 1 .. i - 1}
        /\ built.error = "cycle" =>
             /\ OnCycle(deps) # {}
             /\ Len(built.cycle) > 1 /\ built.cycle[1] = Last(built.cycle)
             /\ \A i \in 1 .. Len(built.cycle) - 1 :
                  built.cycle[i + 1] \in Range(deps[built.cycle[i]])
        /\ model.groups = {} => (built.error = "none" <=> OnCycle(deps) = {})
        /\ \A g \in model.groups :
             (built.error = "policy" /\ g.members = members(Min(g.members))
                /\ \A m \in g.members : model.nodes[m].kind = "formula") =>
                  \E m \in g.members : g.seeds[m] \in g.members
                                         \/ m \in Upstream(deps, g.seeds[m])

\* The model with the overridden nodes replaced by what overrode them last.
Substituted ==
    [Head(snapshots) EXCEPT !.nodes = [n \in BaseIds |->
        IF substituted[n] = 0 THEN @[n]
        ELSE [Latest.nodes[n + substituted[n]] EXCEPT !.refs = <<>>]]]

EvaluateAnew(model) == Evaluate(model, Build(model.nodes, model.groups).plan)

Alike(child, reference) ==
    /\ reference.error = "none"
    /\ \A n \in BaseIds : substituted[n] = 0 =>
          /\ child.value[n] = reference.value[n]
          /\ child.available[n] = reference.available[n]

\* Layers of scenarios amount to substituting, in the base model, the last value
\* given to each overridden node: every other node has the value and the stamp it
\* has there. No scenario makes a model that built fail to build
\* (apply_scenario).
ScenarioIsSubstitution ==
    Len(snapshots) > 1 =>
        /\ modelGraph.error = "none"
        /\ outcome.error = "none" => Alike(outcome, EvaluateAnew(Substituted))

\* No look-ahead: a result is stamped with the latest publication among all the
\* leaves its value rests on, and none of them is newer than the cutoff (evaluate).
NoLookAhead ==
    outcome.error = "none" =>
        LET seeded == [n \in DOMAIN Latest.nodes |->
                         Latest.nodes[n].refs \o
                           SetToSeq({g.seeds[n] : g \in {h \in Latest.groups : n \in h.members}})]
            reads == [n \in DOMAIN seeded |->
                        IF Latest.nodes[n].kind = "override" THEN <<>> ELSE seeded[n]]
        IN  \A n \in DOMAIN Latest.nodes :
              LET from == {m \in Upstream(reads, n) \cup {n} : Latest.nodes[m].kind \in Leaves}
              IN  /\ outcome.available[n] = Max({Latest.nodes[m].asOf : m \in from})
                  /\ outcome.available[n] <= CutoffTime

\* What an evaluation returns is what the model says, layered or not, and known
\* at the cutoff: the two above together (evaluate, apply_scenario).
ResultsAreSound == ScenarioIsSubstitution /\ NoLookAhead
=============================================================================
