----------------------------- MODULE ModelGraph ------------------------------
(* The dependency graph of a calculation model and its execution plan         *)
(* (packages/calculation-engine/fel_calculation_engine/graph.py).             *)
(*                                                                            *)
(* A model is its nodes, a function on node ids, and its iteration groups. A  *)
(* node names its inputs in `refs`, in declaration order; ids are numbers, in *)
(* the order of the ids' names. Units and periods are left out: build rejects *)
(* a model whose units or periods do not fit before it has a plan.            *)
EXTENDS Integers, Sequences, FiniteSets, FiniteSetsExt, SequencesExt

Deps(nodes) == [n \in DOMAIN nodes |-> nodes[n].refs]

Dependents(deps, n) == {m \in DOMAIN deps : n \in Range(deps[m])}

\* A traversal enters and leaves every node once and looks at every edge once.
Rounds(deps) ==
    [k \in 1 .. 3 * Cardinality(DOMAIN deps)
                  + MapThenSumSet(LAMBDA n : Len(deps[n]), DOMAIN deps) |-> k]

(* --------------------------- topological order --------------------------- *)
\* The next node off the heap.
NextReady(ready) == Min(ready)

\* Kahn's algorithm with a min-heap.
TopologicalOrder(deps) ==
    LET step(s, k) ==
          IF s.ready = {} THEN s
          ELSE LET n == NextReady(s.ready)
                   left == [m \in DOMAIN deps |->
                              IF n \in Range(deps[m]) THEN s.indegree[m] - 1 ELSE s.indegree[m]]
               IN  [order |-> Append(s.order, n), indegree |-> left,
                    ready |-> (s.ready \ {n})
                                \cup {m \in Dependents(deps, n) : left[m] = 0}]
        degree == [n \in DOMAIN deps |-> Len(deps[n])]
    IN  FoldLeft(step, [order |-> <<>>, indegree |-> degree,
                        ready |-> {n \in DOMAIN deps : degree[n] = 0}], Rounds(deps)).order

(* ------------------------ depth-first traversals ------------------------- *)
\* The iterative traversal of _components and _find_cycle, within `within`: the
\* order in which nodes are left and the first cycle that is closed.
Traverse(within, deps) ==
    LET onStack(s) == {s.stack[i][1] : i \in DOMAIN s.stack}
        position(s, n) == CHOOSE i \in DOMAIN s.stack : s.stack[i][1] = n
        enter(s, n) == [s EXCEPT !.visited = @ \cup {n}, !.stack = Append(@, <<n, 1>>)]
        step(s, k) ==
          IF s.stack = <<>>
            THEN IF within \subseteq s.visited THEN s ELSE enter(s, Min(within \ s.visited))
          ELSE LET top == Last(s.stack)
                   node == top[1]
                   at == top[2]
               IN  IF at > Len(deps[node])
                     THEN [s EXCEPT !.stack = Front(@), !.finished = Append(@, node)]
                   ELSE LET dep == deps[node][at]
                            advanced == [s EXCEPT !.stack[Len(s.stack)][2] = at + 1]
                        IN  CASE dep \notin within -> advanced
                              [] dep \in onStack(s) ->
                                   [advanced EXCEPT !.cycle = IF @ # <<>> THEN @ ELSE Append(
                                      [i \in 1 .. Len(s.stack) - position(s, dep) + 1 |->
                                         s.stack[position(s, dep) + i - 1][1]], dep)]
                              [] dep \notin s.visited /\ dep \notin onStack(s) ->
                                   enter(advanced, dep)
                              [] OTHER -> advanced
    IN  FoldLeft(step, [visited |-> {}, stack |-> <<>>, finished |-> <<>>, cycle |-> <<>>],
                 Rounds(deps))

FindCycle(remaining, deps) == Traverse(remaining, deps).cycle

\* The nodes that depend on n, through nodes outside `visited`.
Downstream(deps, n, visited) ==
    LET step(found, k) ==
          found \cup {m \in (DOMAIN deps) \ visited : Range(deps[m]) \cap found # {}}
    IN  FoldLeft(step, {n}, [k \in 1 .. Cardinality(DOMAIN deps) |-> k])

\* The second pass goes through the nodes as they were entered, not as they were
\* left.
FirstInMutant(deps) == SetToSortSeq(DOMAIN deps, <)

LastLeftFirst(deps) == Reverse(Traverse(DOMAIN deps, deps).finished)

\* Kosaraju's second pass: the strongly connected components.
Components(deps) ==
    LET step(s, n) ==
          IF n \in s.visited THEN s
          ELSE LET members == Downstream(deps, n, s.visited)
               IN  [visited |-> s.visited \cup members, found |-> s.found \cup {members}]
    IN  FoldLeft(step, [visited |-> {}, found |-> {}], LastLeftFirst(deps)).found

(* ---------------------------- execution plan ----------------------------- *)
Cyclic(deps, components) ==
    {c \in components : Cardinality(c) > 1 \/ \E n \in c : n \in Range(deps[n])}

\* A policy that does not fit its graph: not one cyclic component, members that
\* are no formulas, or seeds that are missing or inside the group.
BadPolicy(nodes, groups, cyclic) ==
    \/ \E g \in groups : g.members \notin cyclic
    \/ \E g, h \in groups : g # h /\ g.members = h.members
    \/ \E g \in groups : \E m \in g.members :
          \/ nodes[m].kind # "formula"
          \/ g.seeds[m] \notin (DOMAIN nodes) \ g.members

ComponentOf(components, n) == CHOOSE c \in components : n \in c

\* What a step of the plan waits for: the inputs of its members from elsewhere and
\* the seeds of its group.
Prerequisites(deps, groups, c) ==
    (UNION {Range(deps[m]) : m \in c} \ c)
        \cup UNION {Range(g.seeds) : g \in {h \in groups : h.members = c}}

Refused(why, cycle) == [error |-> why, cycle |-> cycle, plan |-> <<>>]
Accepted(plan) == [error |-> "none", cycle |-> <<>>, plan |-> plan]

\* What each component waits for, by the first members of the components.
Waits(deps, groups, components) ==
    [k \in {Min(c) : c \in components} |->
        SetToSeq({Min(ComponentOf(components, r)) :
            r \in Prerequisites(deps, groups, ComponentOf(components, k))})]

\* A group that waits for itself leaves components out of the order.
Scheduled(components, order) ==
    IF Len(order) # Cardinality(components) THEN Refused("policy", <<>>)
    ELSE Accepted([i \in DOMAIN order |-> ComponentOf(components, order[i])])

FirstComponent(components) == CHOOSE c \in components : \A d \in components : Min(c) <= Min(d)

\* The plan of a model with groups: a sequence of sets of nodes, each of one node
\* or the members of a group. A step is known by its first member.
IterationPlan(nodes, groups, deps, components, cyclic) ==
    IF BadPolicy(nodes, groups, cyclic) THEN Refused("policy", <<>>)
    ELSE IF cyclic \subseteq {g.members : g \in groups}
      THEN Scheduled(components, TopologicalOrder(Waits(deps, groups, components)))
      ELSE Refused("cycle", FindCycle(FirstComponent(cyclic \ {g.members : g \in groups}), deps))

\* The plan of a model without groups is the order of its nodes.
PlainPlan(deps, order) ==
    IF Len(order) = Cardinality(DOMAIN deps)
    THEN Accepted([i \in DOMAIN order |-> {order[i]}])
    ELSE Refused("cycle", FindCycle((DOMAIN deps) \ Range(order), deps))

WithComponents(nodes, groups, deps, components) ==
    IterationPlan(nodes, groups, deps, components, Cyclic(deps, components))

\* ModelGraph.build: inputs must exist.
BuildFrom(nodes, groups, deps) ==
    IF \E n \in DOMAIN deps : ~(Range(deps[n]) \subseteq DOMAIN deps)
      THEN Refused("missing", <<>>)
    ELSE IF groups # {} THEN WithComponents(nodes, groups, deps, Components(deps))
    ELSE PlainPlan(deps, TopologicalOrder(deps))

Build(nodes, groups) == BuildFrom(nodes, groups, Deps(nodes))
=============================================================================
