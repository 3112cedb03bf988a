---------------------------- MODULE ReviewProofs ----------------------------
(***************************************************************************)
(* Reviews and corrections next to the workers, for any number of runs,    *)
(* groups, proposals and requests.                                         *)
(*                                                                         *)
(* The argument turns on who may change what: proposals and memberships    *)
(* appear only when a worker commits (PersistedRows), a group changes only *)
(* under its lock (HeldByWorkers, HeldByCalls), a decided proposal's       *)
(* groups are resolved (DecidedIsSettled) and what a request has locked is *)
(* still all it depends on when it decides (LocksStillCover).              *)
(***************************************************************************)
EXTENDS Review, FiniteSetTheorems, NaturalsInduction, WellFoundedInduction, TLAPS

Decided == {"accepted", "rejected", "superseded"}
Locking == {"runs", "groups", "decide"}
Before(S, T) == \A m \in S, n \in T : m < n

\* Proposals, memberships and groups are visible from their worker's commit on.
PersistedRows ==
  /\ \A p \in Proposals : state[p] # "absent" <=> persist[RunOf[p]] = "after"
  /\ \A g \in Groups :
       /\ members[g] = {p \in Proposals : GroupOf[p] = g /\ persist[RunOf[p]] = "after"}
       /\ members[g] # {} => group[g] # "absent"
  /\ \A r \in Runs :
       /\ persist[r] \in {"before", "upsert", "member"} => run[r] = "running"
       /\ run[r] \notin {"running", "failed"} => persist[r] = "after"

\* What a worker's transaction has locked: its run, and groups it writes that no
\* review has resolved.
WorkerHolds(r) ==
  /\ \A q \in Runs : runLock[q] = r => q = r
  /\ persist[r] \notin {"upsert", "member"} => GroupsHeld(r) = {}
  /\ persist[r] = "member" => GroupsHeld(r) # DraftGroups(r)
  /\ \A g \in GroupsHeld(r) : g \in DraftGroups(r) /\ group[g] # "resolved"

HeldByWorkers == \A r \in Runs : WorkerHolds(r)

\* What a request's transaction has locked: its key, then its runs and then its
\* groups, each in order.
CallHolds(c) ==
  /\ \A k \in Keys : keyLock[k] = c => pc[c] \in Locking /\ cmd[c].key = k
  /\ pc[c] \notin Locking => RunsHeld(c) = {}
  /\ pc[c] \notin {"groups", "decide"} => GroupsHeld(c) = {}
  /\ pc[c] \in Locking =>
       /\ keyLock[cmd[c].key] = c /\ receipts[cmd[c].key] = NoCommand
       /\ RunsHeld(c) \subseteq found[c].runs /\ GroupsHeld(c) \subseteq found[c].groups
       /\ Before(RunsHeld(c), found[c].runs \ RunsHeld(c))
       /\ Before(GroupsHeld(c), found[c].groups \ GroupsHeld(c))
  /\ pc[c] \in {"groups", "decide"} => RunsHeld(c) = found[c].runs
  /\ pc[c] = "decide" => GroupsHeld(c) = found[c].groups

HeldByCalls == \A c \in Calls : CallHolds(c)

\* A request is about proposals its client has seen, a merge about one of them
\* and a correction about a record that is there.
CommandMakesSense(c) ==
  pc[c] # "idle" =>
    /\ \A p \in cmd[c].ids : state[p] # "absent"
    /\ cmd[c].action = "merge" => cmd[c].patch \in cmd[c].ids
    /\ cmd[c].action = "correct" =>
         \E x \in records : x.key = cmd[c].record /\ cmd[c].ids = {x.origin}

CommandsMakeSense == \A c \in Calls : CommandMakesSense(c)

\* A record pins the run of its own proposal.
RecordsPinTheirRun == \A x \in records : RunOf[x.origin] \in x.pins

\* The groups of a proposal that was decided are resolved.
DecidedIsSettled ==
  \A p \in Proposals, g \in Groups :
    state[p] \in Decided /\ p \in members[g] => group[g] = "resolved"

\* A run is reviewed while it waits for review, and until nothing is left.
RunsFollowReviews ==
  \A r \in Runs :
    /\ run[r] = "running" =>
         \A p \in Proposals : RunOf[p] = r => state[p] \in {"absent", "needs_review"}
    /\ run[r] = "waiting_review" => \E p \in Proposals : RunOf[p] = r /\ state[p] = "needs_review"
    /\ run[r] = "succeeded" => \A p \in Proposals : RunOf[p] = r => state[p] # "needs_review"

\* What a request locked is what it depends on.
Covered(c) ==
  pc[c] = "decide" \/ (pc[c] = "groups" /\ cmd[c].action = "correct") => Needs(c) = found[c]

LocksStillCover == \A c \in Calls : Covered(c)

ReviewInv ==
  /\ ReviewTypeOK /\ PersistedRows /\ HeldByWorkers /\ HeldByCalls /\ CommandsMakeSense
  /\ OneRecordPerProposal /\ RecordsPinTheirRun /\ DecidedIsSettled /\ RunsFollowReviews
  /\ LocksStillCover

-----------------------------------------------------------------------------
\* A nonempty set of natural numbers has a least element, the one Least chooses.
LEMMA LeastIsLeast ==
  ASSUME NEW S \in SUBSET Nat, S # {}
  PROVE  Least(S) \in S /\ \A m \in S : Least(S) <= m
<1>1. \E n \in S : \A m \in S : ~(<<m, n>> \in OpToRel(<, Nat))
  BY NatLessThanWellFounded, WFMin
<1>2. PICK n \in S : \A m \in S : ~(m < n)
  BY <1>1 DEF OpToRel
<1>3. \A m \in S : n <= m
  BY <1>2
<1>4. \E x \in S : \A m \in S : x <= m
  BY <1>3
<1> QED BY <1>4 DEF Least

\* Of finitely many transactions one is last in line.
LEMMA LastInLine ==
  ASSUME NEW S, IsFiniteSet(S), S # {}, NEW f \in [S -> Nat]
  PROVE  \E t \in S : \A u \in S : f[u] <= f[t]
<1> DEFINE Last(T) == {t \in T : \A u \in T : f[u] <= f[t]}
           Bad == {n \in Nat : \E T \in SUBSET S : T # {} /\ Cardinality(T) = n /\ Last(T) = {}}
<1>1. Bad = {}
  <2>1. SUFFICES ASSUME Bad # {} PROVE FALSE
    OBVIOUS
  <2>2. PICK n \in Bad : \A k \in Bad : ~(k < n)
    <3>1. \E x \in Bad : \A y \in Bad : ~(<<y, x>> \in OpToRel(<, Nat))
      BY <2>1, NatLessThanWellFounded, WFMin, Bad \subseteq Nat
    <3> QED BY <3>1 DEF OpToRel
  <2>3. PICK T \in SUBSET S : T # {} /\ Cardinality(T) = n /\ Last(T) = {}
    BY <2>2
  <2>4. PICK x \in T : TRUE
    BY <2>3
  <2> DEFINE U == T \ {x}
  <2>5. IsFiniteSet(T) /\ IsFiniteSet(U) /\ Cardinality(U) = n - 1 /\ n \in Nat
    BY <2>2, <2>3, <2>4, FS_Subset, FS_RemoveElement
  <2>6. n - 1 \in Nat
    BY <2>5, FS_CardinalityType
  <2>7. U = {} \/ Last(U) # {}
    <3>1. n - 1 \notin Bad BY <2>2, <2>5, <2>6
    <3> QED BY <3>1, <2>5, <2>6
  <2>8. CASE U = {}
    <3>1. T = {x} BY <2>8, <2>4
    <3>2. x \in Last(T) BY <3>1, <2>3
    <3> QED BY <3>2, <2>3
  <2>9. CASE Last(U) # {}
    <3>1. PICK m \in U : \A u \in U : f[u] <= f[m] BY <2>9
    <3>2. f[m] \in Nat /\ f[x] \in Nat /\ \A u \in T : f[u] \in Nat BY <2>3, <2>4, <3>1
    <3>3. CASE f[x] <= f[m]
      <4>1. m \in Last(T) BY <3>1, <3>2, <3>3
      <4> QED BY <4>1, <2>3
    <3>4. CASE f[m] <= f[x]
      <4>1. x \in Last(T) BY <3>1, <3>2, <3>4
      <4> QED BY <4>1, <2>3
    <3> QED BY <3>2, <3>3, <3>4
  <2> QED BY <2>7, <2>8, <2>9
<1>2. Cardinality(S) \in Nat
  BY FS_CardinalityType
<1>3. Last(S) # {}
  BY <1>1, <1>2
<1> QED BY <1>3

-----------------------------------------------------------------------------
(* What requests depend on, as a function of the memberships and records.   *)

TouchedBy(M, ids) == {g \in Groups : M[g] \cap ids # {}}
RelatedRuns(M, ids) == {RunOf[p] : p \in ids \cup UNION {M[g] : g \in TouchedBy(M, ids)}}

ClosedIn(R, S) == \A x \in R : Ties(x) \cap S # {} => Ties(x) \subseteq S
LeastIn(R, S, T) ==
  /\ T \in SUBSET Runs /\ S \subseteq T /\ ClosedIn(R, T)
  /\ \A U \in SUBSET Runs : S \subseteq U /\ ClosedIn(R, U) => T \subseteq U
ExpandIn(R, S) == CHOOSE T \in SUBSET Runs :
    /\ S \subseteq T /\ ClosedIn(R, T)
    /\ \A U \in SUBSET Runs : S \subseteq U /\ ClosedIn(R, U) => T \subseteq U
RecordIn(R, m) == CHOOSE x \in R : x.key = m.record /\ x.origin \in m.ids
NeedsIn(M, R, m) ==
  [runs |-> IF m.action = "correct"
            THEN ExpandIn(R, RelatedRuns(M, m.ids)) \cup RecordIn(R, m).pins
            ELSE ExpandIn(R, RelatedRuns(M, m.ids)),
   groups |-> TouchedBy(M, m.ids)]

\* Needs depends on memberships, records and the command alone.
LEMMA NeedsForm ==
  ASSUME NEW c \in Calls
  PROVE  /\ Needs(c) = NeedsIn(members, records, cmd[c])
         /\ Needs(c)' = NeedsIn(members', records', cmd'[c])
<1>1. \A S : ExpandRuns(S) = ExpandIn(records, S) /\ ExpandRuns(S)' = ExpandIn(records', S)
  BY Zenon DEF ExpandRuns, ExpandIn, ClosedUnderTies, ClosedIn
<1>2. \A ids : /\ Touching(ids) = TouchedBy(members, ids)
               /\ Touching(ids)' = TouchedBy(members', ids)
  BY Zenon DEF Touching, TouchedBy
<1>3. TheRecord(c) = RecordIn(records, cmd[c]) /\ TheRecord(c)' = RecordIn(records', cmd'[c])
  BY Zenon DEF TheRecord, RecordIn
<1>4. \A ids : /\ Discover(ids) = [runs |-> ExpandIn(records, RelatedRuns(members, ids)),
                                   groups |-> TouchedBy(members, ids)]
               /\ Discover(ids)' = [runs |-> ExpandIn(records', RelatedRuns(members', ids)),
                                    groups |-> TouchedBy(members', ids)]
  BY <1>1, <1>2, Zenon DEF Discover, RelatedRuns
<1>5. Needs(c) = NeedsIn(members, records, cmd[c])
  BY <1>3, <1>4 DEF Needs, NeedsIn
<1>6. Needs(c)' = NeedsIn(members', records', cmd'[c])
  <2>1. Discover(cmd[c].ids)' = [runs |-> ExpandIn(records', RelatedRuns(members', cmd'[c].ids)),
                                 groups |-> TouchedBy(members', cmd'[c].ids)]
    BY <1>4, Zenon
  <2>2. PICK d, x : d = Discover(cmd[c].ids)' /\ x = TheRecord(c)'
    OBVIOUS
  <2>3. Needs(c)' = IF cmd'[c].action = "correct" THEN [d EXCEPT !.runs = @ \cup x.pins] ELSE d
    BY <2>2, Zenon DEF Needs
  <2>4. PICK A, B, m : /\ A = ExpandIn(records', RelatedRuns(members', cmd'[c].ids))
                       /\ B = TouchedBy(members', cmd'[c].ids) /\ m = cmd'[c]
    OBVIOUS
  <2>5. d = [runs |-> A, groups |-> B] BY <2>1, <2>2, <2>4, Zenon
  <2>6. [d EXCEPT !.runs = @ \cup x.pins] = [runs |-> A \cup x.pins, groups |-> B]
    BY <2>5
  <2>7. NeedsIn(members', records', m)
          = [runs |-> IF m.action = "correct" THEN A \cup x.pins ELSE A, groups |-> B]
    BY <1>3, <2>2, <2>4, Zenon DEF NeedsIn
  <2>8. Needs(c)' = IF m.action = "correct" THEN [runs |-> A \cup x.pins, groups |-> B]
                    ELSE [runs |-> A, groups |-> B]
    BY <2>3, <2>4, <2>5, <2>6, Zenon
  <2>9. Needs(c)' = NeedsIn(members', records', m)
    BY <2>7, <2>8
  <2> QED BY <2>4, <2>9, Zenon
<1> QED BY <1>5, <1>6

\* The runs that approved records tie to some runs have a least closure, and
\* expand_runs finds it.
LEMMA ExpandIsLeast ==
  ASSUME NEW R, NEW S \in SUBSET Runs, \A x \in R : Ties(x) \subseteq Runs
  PROVE  LeastIn(R, S, ExpandIn(R, S))
<1> DEFINE T == {r \in Runs : \A U \in SUBSET Runs : S \subseteq U /\ ClosedIn(R, U) => r \in U}
<1>1. ClosedIn(R, T)
  BY DEF ClosedIn
<1>2. T \in SUBSET Runs /\ S \subseteq T
  OBVIOUS
<1>3. \A U \in SUBSET Runs : S \subseteq U /\ ClosedIn(R, U) => T \subseteq U
  OBVIOUS
<1> HIDE DEF T
<1> QED BY <1>1, <1>2, <1>3 DEF ExpandIn, LeastIn

\* There is only one.
LEMMA LeastIsExpand ==
  ASSUME NEW R, NEW S, NEW T, LeastIn(R, S, T)
  PROVE  ExpandIn(R, S) = T
<1>1. LeastIn(R, S, ExpandIn(R, S))
  BY DEF ExpandIn, LeastIn
<1>2. ExpandIn(R, S) \subseteq T /\ T \subseteq ExpandIn(R, S)
  BY <1>1 DEF LeastIn
<1> QED BY <1>2

\* Records that tie nothing to the closure leave it as it is, and records that
\* tie what others tied leave every closure.
LEMMA ExpandStable ==
  ASSUME NEW R, NEW Q, NEW S \in SUBSET Runs,
         \A x \in R : Ties(x) \subseteq Runs,
         \A x \in R : \E y \in Q : Ties(y) = Ties(x),
         \A y \in Q : \/ \E x \in R : Ties(y) = Ties(x)
                      \/ Ties(y) \cap ExpandIn(R, S) = {}
  PROVE  ExpandIn(Q, S) = ExpandIn(R, S)
<1>1. LeastIn(R, S, ExpandIn(R, S))
  BY ExpandIsLeast
<1>2. PICK T : T = ExpandIn(R, S)
  OBVIOUS
<1>3. ClosedIn(Q, T)
  BY <1>1, <1>2 DEF LeastIn, ClosedIn
<1>4. \A U \in SUBSET Runs : ClosedIn(Q, U) => ClosedIn(R, U)
  BY DEF ClosedIn
<1>5. LeastIn(Q, S, T)
  BY <1>1, <1>2, <1>3, <1>4 DEF LeastIn
<1> QED BY <1>2, <1>5, LeastIsExpand

\* A correction's record is found by its proposal alone, which has only one.
LEMMA RecordIsFound ==
  ASSUME NEW R, \A x, y \in R : x.origin = y.origin => x = y,
         NEW m, NEW x \in R, x.key = m.record, m.ids = {x.origin}
  PROVE  RecordIn(R, m) = x
BY DEF RecordIn

-----------------------------------------------------------------------------
\* What a step of transaction t leaves to the others.
OthersKeep(t) ==
  /\ \A d \in Calls : d # t => pc'[d] = pc[d] /\ cmd'[d] = cmd[d] /\ found'[d] = found[d]
  /\ \A u \in Txns : u # t => /\ RunsHeld(u)' = RunsHeld(u) /\ GroupsHeld(u)' = GroupsHeld(u)
                              /\ \A k \in Keys : keyLock'[k] = u <=> keyLock[k] = u

\* COMMIT and ROLLBACK give back the locks of their own transaction only.
LEMMA ReleaseFacts ==
  ASSUME CallTypeOK, NEW t \in Txns, ReleaseLocks(t)
  PROVE  /\ runLock' \in [Runs -> Txns \cup {Free}]
         /\ groupLock' \in [Groups -> Txns \cup {Free}]
         /\ keyLock' \in [Keys -> Calls \cup {Free}]
         /\ RunsHeld(t)' = {} /\ GroupsHeld(t)' = {} /\ \A k \in Keys : keyLock'[k] # t
         /\ \A u \in Txns : u # t => /\ RunsHeld(u)' = RunsHeld(u) /\ GroupsHeld(u)' = GroupsHeld(u)
                                     /\ \A k \in Keys : keyLock'[k] = u <=> keyLock[k] = u
<1>1. Free \notin Txns
  BY ReviewAssumption DEF Txns
<1>2. /\ \A r \in Runs : runLock'[r] = IF runLock[r] = t THEN Free ELSE runLock[r]
      /\ \A g \in Groups : groupLock'[g] = IF groupLock[g] = t THEN Free ELSE groupLock[g]
      /\ \A k \in Keys : keyLock'[k] = IF keyLock[k] = t THEN Free ELSE keyLock[k]
  BY DEF ReleaseLocks
<1>3. /\ runLock' \in [Runs -> Txns \cup {Free}]
      /\ groupLock' \in [Groups -> Txns \cup {Free}]
      /\ keyLock' \in [Keys -> Calls \cup {Free}]
  BY DEF ReleaseLocks, CallTypeOK
<1>4. RunsHeld(t)' = {} /\ GroupsHeld(t)' = {} /\ \A k \in Keys : keyLock'[k] # t
  BY <1>1, <1>2 DEF RunsHeld, GroupsHeld
<1>5. ASSUME NEW u \in Txns, u # t
      PROVE  /\ RunsHeld(u)' = RunsHeld(u) /\ GroupsHeld(u)' = GroupsHeld(u)
             /\ \A k \in Keys : keyLock'[k] = u <=> keyLock[k] = u
  BY <1>1, <1>2, <1>5 DEF RunsHeld, GroupsHeld
<1> QED BY <1>3, <1>4, <1>5

\* A step of a request that changes no row.
LEMMA CallStep ==
  ASSUME ReviewInv, NEW c \in Calls, CallTypeOK', UNCHANGED dataVars, OthersKeep(c),
         CallHolds(c)', CommandMakesSense(c)', Covered(c)'
  PROVE  ReviewInv'
<1>0. /\ run' = run /\ persist' = persist /\ state' = state /\ version' = version
      /\ members' = members /\ group' = group /\ resolution' = resolution
      /\ records' = records /\ receipts' = receipts
  BY DEF dataVars
<1>1. ReviewTypeOK'
  BY <1>0 DEF ReviewInv, ReviewTypeOK, DataTypeOK
<1>2. PersistedRows' /\ OneRecordPerProposal' /\ RecordsPinTheirRun' /\ DecidedIsSettled'
      /\ RunsFollowReviews'
  BY <1>0 DEF ReviewInv, PersistedRows, OneRecordPerProposal, RecordsPinTheirRun, DecidedIsSettled,
              RunsFollowReviews
<1>3. HeldByWorkers'
  <2>1. SUFFICES ASSUME NEW r \in Runs PROVE WorkerHolds(r)'
    BY DEF HeldByWorkers
  <2>2. RunsHeld(r)' = RunsHeld(r) /\ GroupsHeld(r)' = GroupsHeld(r)
    BY ReviewAssumption DEF OthersKeep, Txns
  <2>3. \A q \in Runs : runLock'[q] = r => runLock[q] = r
    BY <2>2 DEF RunsHeld
  <2> QED BY <1>0, <2>2, <2>3 DEF ReviewInv, HeldByWorkers, WorkerHolds, DraftGroups, DraftMembers
<1>4. ASSUME NEW d \in Calls, d # c
      PROVE  CallHolds(d)' /\ CommandMakesSense(d)' /\ Covered(d)'
  <2>1. /\ pc'[d] = pc[d] /\ cmd'[d] = cmd[d] /\ found'[d] = found[d]
        /\ RunsHeld(d)' = RunsHeld(d) /\ GroupsHeld(d)' = GroupsHeld(d)
        /\ \A k \in Keys : keyLock'[k] = d <=> keyLock[k] = d
    BY <1>4 DEF OthersKeep, Txns
  <2>2. pc[d] # "idle" => cmd[d].key \in Keys
    BY DEF ReviewInv, ReviewTypeOK, CallTypeOK
  <2>3. CallHolds(d)'
    BY <1>0, <2>1, <2>2 DEF ReviewInv, HeldByCalls, CallHolds, Locking, Before
  <2>4. CommandMakesSense(d)'
    BY <1>0, <2>1 DEF ReviewInv, CommandsMakeSense, CommandMakesSense
  <2>5. Needs(d)' = Needs(d)
    BY <1>0, <2>1, NeedsForm
  <2>6. Covered(d)'
    BY <1>4, <2>1, <2>5 DEF ReviewInv, LocksStillCover, Covered
  <2> QED BY <2>3, <2>4, <2>6
<1>5. HeldByCalls' /\ CommandsMakeSense' /\ LocksStillCover'
  BY <1>4 DEF HeldByCalls, CommandsMakeSense, LocksStillCover
<1> QED BY <1>1, <1>2, <1>3, <1>5 DEF ReviewInv

\* How a request's transaction ends, or begins anew: it holds nothing.
LEMMA ReleaseCall ==
  ASSUME ReviewInv, NEW c \in Calls, pc[c] # "idle", ReleaseLocks(c), cmd' = cmd,
         NEW label \in {"begin", "answered", "refused"}, pc' = [pc EXCEPT ![c] = label],
         found' = [found EXCEPT ![c] = Nothing], tries' \in [Calls -> 0 .. MaxTries]
  PROVE  /\ CallTypeOK' /\ OthersKeep(c) /\ CallHolds(c)' /\ Covered(c)'
         /\ pc'[c] = label
<1>1. /\ CallTypeOK /\ c \in Txns
  BY DEF ReviewInv, ReviewTypeOK, Txns
<1>2. pc'[c] = label /\ pc' \in [Calls -> Labels] /\ \A d \in Calls : d # c => pc'[d] = pc[d]
  BY <1>1 DEF CallTypeOK, Labels
<1>3. Nothing \in [runs : SUBSET Runs, groups : SUBSET Groups]
  BY DEF Nothing
<1>4. /\ found' \in [Calls -> [runs : SUBSET Runs, groups : SUBSET Groups]]
      /\ \A d \in Calls : d # c => found'[d] = found[d]
  BY <1>1, <1>3 DEF CallTypeOK
<1>5. /\ runLock' \in [Runs -> Txns \cup {Free}]
      /\ groupLock' \in [Groups -> Txns \cup {Free}]
      /\ keyLock' \in [Keys -> Calls \cup {Free}]
      /\ RunsHeld(c)' = {} /\ GroupsHeld(c)' = {} /\ \A k \in Keys : keyLock'[k] # c
      /\ \A u \in Txns : u # c => /\ RunsHeld(u)' = RunsHeld(u) /\ GroupsHeld(u)' = GroupsHeld(u)
                                  /\ \A k \in Keys : keyLock'[k] = u <=> keyLock[k] = u
  BY <1>1, ReleaseFacts
<1>6. CallTypeOK'
  BY <1>1, <1>2, <1>4, <1>5 DEF CallTypeOK
<1>7. OthersKeep(c)
  BY <1>2, <1>4, <1>5 DEF OthersKeep
<1>8. CallHolds(c)'
  BY <1>2, <1>5 DEF CallHolds, Locking
<1>9. Covered(c)'
  BY <1>2 DEF Covered
<1> QED BY <1>2, <1>6, <1>7, <1>8, <1>9

-----------------------------------------------------------------------------
\* A request arrives.
LEMMA IssueStep ==
  ASSUME ReviewInv, NEW c \in Calls, NEW m, Issue(c, m),
         m # NoCommand, m.key \in Keys, m.action \in AllActions, m.ids \subseteq Proposals,
         \A p \in m.ids : state[p] # "absent",
         m.action = "merge" => m.patch \in m.ids,
         m.action = "correct" => \E x \in records : x.key = m.record /\ m.ids = {x.origin}
  PROVE  ReviewInv'
<1>0. CallTypeOK /\ CallHolds(c)
  BY DEF ReviewInv, ReviewTypeOK, HeldByCalls
<1>1. /\ pc[c] = "idle" /\ cmd' = [cmd EXCEPT ![c] = m] /\ pc' = [pc EXCEPT ![c] = "begin"]
      /\ found' = found /\ tries' = tries /\ UNCHANGED lockVars /\ UNCHANGED dataVars
  BY DEF Issue
<1>2. /\ runLock' = runLock /\ groupLock' = groupLock /\ keyLock' = keyLock
      /\ records' = records /\ state' = state /\ receipts' = receipts
  BY <1>1 DEF lockVars, dataVars
<1>3. /\ cmd'[c] = m /\ pc'[c] = "begin" /\ DOMAIN cmd' = Calls /\ pc' \in [Calls -> Labels]
      /\ \A d \in Calls : d # c => cmd'[d] = cmd[d] /\ pc'[d] = pc[d]
  BY <1>0, <1>1 DEF CallTypeOK, Labels
<1>4. CallTypeOK'
  BY <1>0, <1>1, <1>2, <1>3 DEF CallTypeOK
<1>5. \A u : RunsHeld(u)' = RunsHeld(u) /\ GroupsHeld(u)' = GroupsHeld(u)
  BY <1>2 DEF RunsHeld, GroupsHeld
<1>6. OthersKeep(c)
  BY <1>1, <1>2, <1>3, <1>5 DEF OthersKeep
<1>7. CallHolds(c)'
  <2>1. RunsHeld(c) = {} /\ GroupsHeld(c) = {} /\ \A k \in Keys : keyLock[k] # c
    BY <1>0, <1>1 DEF CallHolds, Locking
  <2> QED BY <1>2, <1>3, <1>5, <2>1 DEF CallHolds, Locking
<1>8. CommandMakesSense(c)'
  BY <1>2, <1>3 DEF CommandMakesSense
<1>9. Covered(c)'
  BY <1>3 DEF Covered
<1> QED BY <1>1, <1>4, <1>6, <1>7, <1>8, <1>9, CallStep

\* A review, a correction or a repetition is sent.
LEMMA SendStep ==
  ASSUME ReviewInv, NEW c \in Calls, SendReview(c) \/ SendCorrection(c) \/ Resend(c)
  PROVE  ReviewInv'
<1>0. DataTypeOK /\ CallTypeOK
  BY DEF ReviewInv, ReviewTypeOK
<1>1. CASE SendReview(c)
  <2>1. PICK k \in Keys, a \in Actions \ {"correct"}, ids \in Selections :
          /\ \A p \in ids : state[p] # "absent"
          /\ \E patch \in Patches(a, ids), d \in Decisions(ids) :
               Issue(c, [key |-> k, action |-> a, ids |-> ids, patch |-> patch,
                         seen |-> VersionsOf(ids), decisions |-> d])
    BY <1>1 DEF SendReview
  <2>2. PICK patch \in Patches(a, ids), d \in Decisions(ids) :
          Issue(c, [key |-> k, action |-> a, ids |-> ids, patch |-> patch,
                    seen |-> VersionsOf(ids), decisions |-> d])
    BY <2>1
  <2>3. a \in AllActions \ {"correct"} /\ ids \in SUBSET Proposals
    BY ReviewAssumption, <2>1 DEF AllActions
  <2>4. PICK m : m = [key |-> k, action |-> a, ids |-> ids, patch |-> patch,
                      seen |-> VersionsOf(ids), decisions |-> d]
    OBVIOUS
  <2>5. \A S \in SUBSET Proposals : VersionsOf(S) \in Readings
    <3>1. SUFFICES ASSUME NEW S \in SUBSET Proposals PROVE VersionsOf(S) \in [S -> Nat]
      BY DEF Readings
    <3>2. \A p \in S : version[p] \in Nat
      BY <1>0 DEF DataTypeOK
    <3> QED BY <3>2 DEF VersionsOf
  <2>6. patch \in Proposals \cup {NoCommand} \cup UNION {[S -> Payloads] : S \in SUBSET Proposals}
    BY <2>3, <2>2 DEF Patches, AllActions
  <2>7. d \in UNION {[G -> [winners : SUBSET Proposals, seen : Readings]] : G \in SUBSET Groups}
    <3>1. PICK w \in SUBSET ids :
            d = [g \in OpenTouching(ids) |-> [winners |-> w \cap members[g],
                                              seen |-> VersionsOf(members[g])]]
      BY DEF Decisions
    <3>2. OpenTouching(ids) \in SUBSET Groups
      BY DEF OpenTouching, Touching
    <3>3. ASSUME NEW g \in OpenTouching(ids)
          PROVE  [winners |-> w \cap members[g], seen |-> VersionsOf(members[g])]
                   \in [winners : SUBSET Proposals, seen : Readings]
      <4>1. members[g] \in SUBSET Proposals
        BY <1>0, <3>2, <3>3 DEF DataTypeOK
      <4>2. VersionsOf(members[g]) \in Readings
        BY <4>1, <2>5
      <4> QED BY <4>1, <4>2
    <3>4. d \in [OpenTouching(ids) -> [winners : SUBSET Proposals, seen : Readings]]
      BY <3>1, <3>3
    <3> QED BY <3>2, <3>4
  <2>8. m \in Commands
    BY <2>1, <2>3, <2>4, <2>5, <2>6, <2>7 DEF Commands
  <2>9. m # NoCommand
    BY <2>8, NoCommandAssumption
  <2>10. /\ m.key = k /\ m.action = a /\ m.ids = ids /\ m.patch = patch
    BY <2>4
  <2>11. a = "merge" => patch \in ids
    BY <2>2 DEF Patches
  <2> QED BY <2>1, <2>2, <2>3, <2>4, <2>9, <2>10, <2>11, IssueStep
<1>2. CASE SendCorrection(c)
  <2>1. PICK k \in Keys, x \in records, payload \in Payloads :
          Issue(c, [key |-> k, action |-> "correct", ids |-> {x.origin},
                    patch |-> payload, record |-> x.key, seen |-> x.version])
    BY <1>2 DEF SendCorrection
  <2>2. PICK m : m = [key |-> k, action |-> "correct", ids |-> {x.origin},
                      patch |-> payload, record |-> x.key, seen |-> x.version]
    OBVIOUS
  <2>3. x.origin \in Proposals /\ x.key \in Keys /\ x.version \in Nat
    BY <1>0 DEF DataTypeOK
  <2>4. m \in Commands
    BY <2>1, <2>2, <2>3 DEF Commands
  <2>5. m # NoCommand
    BY <2>4, NoCommandAssumption
  <2>6. m.key = k /\ m.action = "correct" /\ m.ids = {x.origin} /\ m.record = x.key
    BY <2>2
  <2>7. state[x.origin] # "absent"
    BY DEF ReviewInv, OneRecordPerProposal
  <2> QED BY <2>1, <2>2, <2>3, <2>5, <2>6, <2>7, IssueStep DEF AllActions
<1>3. CASE Resend(c)
  <2>1. PICK d \in Calls : pc[d] # "idle" /\ Issue(c, cmd[d])
    BY <1>3 DEF Resend
  <2>2. /\ cmd[d] # NoCommand /\ cmd[d].key \in Keys /\ cmd[d].action \in AllActions
        /\ cmd[d].ids \subseteq Proposals
    BY <1>0, <2>1 DEF CallTypeOK
  <2>3. CommandMakesSense(d)
    BY DEF ReviewInv, CommandsMakeSense
  <2> QED BY <2>1, <2>2, <2>3, IssueStep DEF CommandMakesSense
<1> QED BY <1>1, <1>2, <1>3

\* A transaction ends without an effect, or begins anew after one.
LEMMA RestartStep ==
  ASSUME ReviewInv, NEW c \in Calls, pc[c] # "idle", UNCHANGED dataVars,
         Restart(c) \/ End(c, "answered") \/ End(c, "refused")
  PROVE  ReviewInv'
<1>1. CallTypeOK /\ CommandMakesSense(c)
  BY DEF ReviewInv, ReviewTypeOK, CommandsMakeSense
<1>2. PICK label \in {"begin", "answered", "refused"} :
        /\ pc' = [pc EXCEPT ![c] = label] /\ found' = [found EXCEPT ![c] = Nothing]
        /\ ReleaseLocks(c) /\ cmd' = cmd
        /\ tries' = tries \/ (tries' = [tries EXCEPT ![c] = @ + 1] /\ tries[c] + 1 < MaxTries)
  BY DEF Restart, End
<1>3. tries' \in [Calls -> 0 .. MaxTries]
  <2>1. CASE tries' = tries BY <1>1, <2>1 DEF CallTypeOK
  <2>2. CASE tries' = [tries EXCEPT ![c] = @ + 1] /\ tries[c] + 1 < MaxTries
    BY <1>1, <2>2, ReviewAssumption DEF CallTypeOK
  <2> QED BY <1>2, <2>1, <2>2
<1>4. /\ CallTypeOK' /\ OthersKeep(c) /\ CallHolds(c)' /\ Covered(c)' /\ pc'[c] = label
  BY <1>2, <1>3, ReleaseCall
<1>5. CommandMakesSense(c)'
  BY <1>1, <1>2 DEF CommandMakesSense, dataVars
<1> QED BY <1>4, <1>5, CallStep

\* What a request under way depends on are runs and groups; its proposals' runs
\* are among them, and so are the pins of the record it corrects.
LEMMA NeedsFacts ==
  ASSUME ReviewInv, NEW c \in Calls, pc[c] # "idle"
  PROVE  /\ RelatedRuns(members, cmd[c].ids) \in SUBSET Runs
         /\ \A x \in records : Ties(x) = x.pins /\ x.pins \subseteq Runs
         /\ ExpandIn(records, RelatedRuns(members, cmd[c].ids)) \in SUBSET Runs
         /\ \A p \in cmd[c].ids : RunOf[p] \in ExpandIn(records, RelatedRuns(members, cmd[c].ids))
         /\ cmd[c].action = "correct" => RecordIn(records, cmd[c]) \in records
         /\ Needs(c) \in [runs : SUBSET Runs, groups : SUBSET Groups]
         /\ ExpandIn(records, RelatedRuns(members, cmd[c].ids)) \subseteq Needs(c).runs
         /\ Needs(c).groups = TouchedBy(members, cmd[c].ids)
<1>1. DataTypeOK /\ cmd[c].ids \subseteq Proposals /\ CommandMakesSense(c)
  BY DEF ReviewInv, ReviewTypeOK, CallTypeOK, CommandsMakeSense
<1>2. PICK ids, S : ids = cmd[c].ids /\ S = RelatedRuns(members, ids)
  OBVIOUS
<1>3. S \in SUBSET Runs /\ \A p \in ids : RunOf[p] \in S
  <2>1. \A p \in Proposals : RunOf[p] \in Runs BY ReviewAssumption
  <2>2. \A g \in TouchedBy(members, ids) : members[g] \subseteq Proposals
    BY <1>1 DEF TouchedBy, DataTypeOK
  <2> QED BY <1>1, <1>2, <2>1, <2>2 DEF RelatedRuns
<1>4. \A x \in records : Ties(x) = x.pins /\ x.pins \subseteq Runs
  BY <1>1 DEF ReviewInv, RecordsPinTheirRun, Ties, DataTypeOK
<1>5. LeastIn(records, S, ExpandIn(records, S))
  BY <1>3, <1>4, ExpandIsLeast
<1>6. PICK T : T = ExpandIn(records, S) /\ T \in SUBSET Runs /\ S \subseteq T
  BY <1>5 DEF LeastIn
<1>7. PICK m : m = cmd[c] OBVIOUS
<1>8. m.action = "correct" => RecordIn(records, m) \in records
  <2>1. ASSUME m.action = "correct" PROVE RecordIn(records, m) \in records
    <3>1. PICK x \in records : x.key = m.record /\ m.ids = {x.origin}
      BY <1>1, <1>7, <2>1 DEF CommandMakesSense
    <3>2. RecordIn(records, m) = x
      BY <3>1, RecordIsFound DEF ReviewInv, OneRecordPerProposal
    <3> QED BY <3>2
  <2> QED BY <2>1
<1>9. PICK P : P = IF m.action = "correct" THEN T \cup RecordIn(records, m).pins ELSE T
  OBVIOUS
<1>10. P \in SUBSET Runs /\ T \subseteq P
  BY <1>4, <1>6, <1>8, <1>9
<1>11. Needs(c) = [runs |-> P, groups |-> TouchedBy(members, ids)]
  <2>1. Needs(c) = NeedsIn(members, records, m) BY <1>7, NeedsForm
  <2>2. m.ids = ids BY <1>2, <1>7
  <2> QED BY <1>2, <1>6, <1>9, <2>1, <2>2, Zenon DEF NeedsIn
<1>12. TouchedBy(members, ids) \in SUBSET Groups
  BY DEF TouchedBy
<1> QED BY <1>2, <1>3, <1>4, <1>6, <1>7, <1>8, <1>10, <1>11, <1>12

\* The receipt lock is taken and the first discovery made; or the key was used.
LEMMA BeginStep ==
  ASSUME ReviewInv, NEW c \in Calls, Begin(c)
  PROVE  ReviewInv'
<1>0. CallTypeOK /\ CallHolds(c) /\ CommandMakesSense(c) /\ pc[c] = "begin" /\ UNCHANGED dataVars
  BY DEF ReviewInv, ReviewTypeOK, HeldByCalls, CommandsMakeSense, Begin
<1>1. PICK k : k = cmd[c].key /\ k \in Keys
  BY <1>0 DEF CallTypeOK
<1>2. CASE End(c, "answered") \/ End(c, "refused")
  BY <1>0, <1>2, RestartStep
<1>3. CASE /\ receipts[k] = NoCommand /\ keyLock[k] = Free
           /\ keyLock' = [keyLock EXCEPT ![k] = c]
           /\ found' = [found EXCEPT ![c] = Needs(c)]
           /\ pc' = [pc EXCEPT ![c] = "runs"]
           /\ UNCHANGED <<cmd, tries, runLock, groupLock>>
  <2>1. PICK n \in [runs : SUBSET Runs, groups : SUBSET Groups] : n = Needs(c)
    BY <1>0, NeedsFacts
  <2>2. /\ found' \in [Calls -> [runs : SUBSET Runs, groups : SUBSET Groups]]
        /\ \A d \in Calls : d # c => found'[d] = found[d]
    BY <1>0, <1>3, <2>1 DEF CallTypeOK
  <2>3. /\ pc' \in [Calls -> Labels] /\ pc'[c] = "runs" /\ \A d \in Calls : d # c => pc'[d] = pc[d]
    BY <1>0, <1>3 DEF CallTypeOK, Labels
  <2>4. /\ keyLock' \in [Keys -> Calls \cup {Free}] /\ keyLock'[k] = c
        /\ \A j \in Keys : j # k => keyLock'[j] = keyLock[j]
    BY <1>0, <1>1, <1>3 DEF CallTypeOK
  <2>5. CallTypeOK'
    BY <1>0, <1>3, <2>2, <2>3, <2>4 DEF CallTypeOK
  <2>6. \A u : RunsHeld(u)' = RunsHeld(u) /\ GroupsHeld(u)' = GroupsHeld(u)
    BY <1>3 DEF RunsHeld, GroupsHeld
  <2>7. Free \notin Txns BY ReviewAssumption DEF Txns
  <2>8. OthersKeep(c)
    BY <1>3, <2>2, <2>3, <2>4, <2>6, <2>7 DEF OthersKeep
  <2>9. RunsHeld(c) = {} /\ GroupsHeld(c) = {} /\ \A j \in Keys : keyLock[j] # c
    BY <1>0 DEF CallHolds, Locking
  <2>10. receipts' = receipts /\ cmd' = cmd /\ state' = state /\ records' = records
    BY <1>0, <1>3 DEF dataVars
  <2>11. CallHolds(c)'
    BY <1>1, <1>3, <2>3, <2>4, <2>6, <2>9, <2>10 DEF CallHolds, Locking, Before
  <2>12. CommandMakesSense(c)'
    BY <1>0, <2>10 DEF CommandMakesSense
  <2>13. Covered(c)'
    BY <2>3 DEF Covered
  <2> QED BY <1>0, <2>5, <2>8, <2>11, <2>12, <2>13, CallStep
<1> QED BY <1>1, <1>2, <1>3 DEF Begin

\* A run or a group is locked, each time the first that is missing.
LEMMA LockStep ==
  ASSUME ReviewInv, NEW c \in Calls, LockRun(c) \/ LockGroup(c)
  PROVE  ReviewInv'
<1>0. CallTypeOK /\ CallHolds(c) /\ CommandMakesSense(c) /\ Covered(c)
  BY DEF ReviewInv, ReviewTypeOK, HeldByCalls, CommandsMakeSense, LocksStillCover
<1>1. UNCHANGED dataVars /\ keyLock' = keyLock /\ UNCHANGED callVars
  BY DEF LockRun, LockGroup
<1>2. /\ pc' = pc /\ cmd' = cmd /\ found' = found /\ tries' = tries
      /\ receipts' = receipts /\ state' = state /\ records' = records /\ members' = members
  BY <1>1 DEF callVars, dataVars
<1>3. Free \notin Txns /\ c \in Txns
  BY ReviewAssumption DEF Txns
<1>4. CommandMakesSense(c)'
  BY <1>0, <1>2 DEF CommandMakesSense
<1>5. Covered(c)'
  <2>1. Needs(c)' = Needs(c) BY <1>2, NeedsForm
  <2> QED BY <1>0, <1>2, <2>1 DEF Covered
<1>6. pc[c] \in {"runs", "groups"} /\ pc[c] # "idle"
  BY DEF LockRun, LockGroup
<1>7. /\ found[c].runs \subseteq Runs /\ found[c].groups \subseteq Groups
      /\ Runs \subseteq Nat /\ Groups \subseteq Nat
  BY <1>0, ReviewAssumption DEF CallTypeOK
<1>8. CASE LockRun(c)
  <2>1. PICK H, N, r : H = RunsHeld(c) /\ N = found[c].runs \ RunsHeld(c) /\ r = Least(N)
    OBVIOUS
  <2>2. /\ pc[c] = "runs" /\ runLock[r] = Free /\ runLock' = [runLock EXCEPT ![r] = c]
        /\ groupLock' = groupLock /\ found[c].runs # H
    BY <1>8, <2>1 DEF LockRun, NextRun
  <2>3. H \subseteq found[c].runs /\ Before(H, N)
    BY <1>0, <2>1, <2>2 DEF CallHolds, Locking
  <2>4. N \in SUBSET Nat /\ N # {}
    BY <1>7, <2>1, <2>2, <2>3
  <2>5. r \in N /\ \A m \in N : r <= m
    BY <2>1, <2>4, LeastIsLeast
  <2>6. r \in Runs
    BY <1>7, <2>1, <2>5
  <2>7. runLock' \in [Runs -> Txns \cup {Free}]
    BY <1>0, <1>3, <2>2 DEF CallTypeOK
  <2>8. RunsHeld(c)' = H \cup {r} /\ \A u \in Txns : u # c => RunsHeld(u)' = RunsHeld(u)
    BY <1>0, <1>3, <2>1, <2>2, <2>6 DEF RunsHeld, CallTypeOK
  <2>9. \A u : GroupsHeld(u)' = GroupsHeld(u)
    BY <2>2 DEF GroupsHeld
  <2>10. CallTypeOK'
    BY <1>0, <1>1, <1>2, <2>2, <2>7 DEF CallTypeOK
  <2>11. OthersKeep(c)
    BY <1>1, <1>2, <2>8, <2>9 DEF OthersKeep
  <2>12. Before(H \cup {r}, found[c].runs \ (H \cup {r})) /\ H \cup {r} \subseteq found[c].runs
    <3>1. found[c].runs \ (H \cup {r}) \subseteq N /\ N \subseteq Nat /\ H \subseteq Nat
      BY <1>7, <2>1, <2>3
    <3>2. \A m \in found[c].runs \ (H \cup {r}) : r < m
      BY <2>5, <3>1
    <3> QED BY <2>1, <2>3, <2>5, <3>1, <3>2 DEF Before
  <2>13. CallHolds(c)'
    BY <1>0, <1>1, <1>2, <2>2, <2>8, <2>9, <2>12 DEF CallHolds, Locking
  <2> QED BY <1>1, <1>4, <1>5, <2>10, <2>11, <2>13, CallStep
<1>9. CASE LockGroup(c)
  <2>1. PICK H, N, g : H = GroupsHeld(c) /\ N = found[c].groups \ GroupsHeld(c) /\ g = Least(N)
    OBVIOUS
  <2>2. /\ pc[c] = "groups" /\ groupLock[g] = Free /\ groupLock' = [groupLock EXCEPT ![g] = c]
        /\ runLock' = runLock /\ found[c].groups # H
    BY <1>9, <2>1 DEF LockGroup, NextGroup
  <2>3. H \subseteq found[c].groups /\ Before(H, N)
    BY <1>0, <2>1, <2>2 DEF CallHolds, Locking
  <2>4. N \in SUBSET Nat /\ N # {}
    BY <1>7, <2>1, <2>2, <2>3
  <2>5. g \in N /\ \A m \in N : g <= m
    BY <2>1, <2>4, LeastIsLeast
  <2>6. g \in Groups
    BY <1>7, <2>1, <2>5
  <2>7. groupLock' \in [Groups -> Txns \cup {Free}]
    BY <1>0, <1>3, <2>2 DEF CallTypeOK
  <2>8. GroupsHeld(c)' = H \cup {g} /\ \A u \in Txns : u # c => GroupsHeld(u)' = GroupsHeld(u)
    BY <1>0, <1>3, <2>1, <2>2, <2>6 DEF GroupsHeld, CallTypeOK
  <2>9. \A u : RunsHeld(u)' = RunsHeld(u)
    BY <2>2 DEF RunsHeld
  <2>10. CallTypeOK'
    BY <1>0, <1>1, <1>2, <2>2, <2>7 DEF CallTypeOK
  <2>11. OthersKeep(c)
    BY <1>1, <1>2, <2>8, <2>9 DEF OthersKeep
  <2>12. Before(H \cup {g}, found[c].groups \ (H \cup {g})) /\ H \cup {g} \subseteq found[c].groups
    <3>1. found[c].groups \ (H \cup {g}) \subseteq N /\ N \subseteq Nat /\ H \subseteq Nat
      BY <1>7, <2>1, <2>3
    <3>2. \A m \in found[c].groups \ (H \cup {g}) : g < m
      BY <2>5, <3>1
    <3> QED BY <2>1, <2>3, <2>5, <3>1, <3>2 DEF Before
  <2>13. CallHolds(c)'
    BY <1>0, <1>1, <1>2, <2>2, <2>8, <2>9, <2>12 DEF CallHolds, Locking
  <2> QED BY <1>1, <1>4, <1>5, <2>10, <2>11, <2>13, CallStep
<1> QED BY <1>8, <1>9

\* The discoveries under the run locks and under the group locks, a refusal, and
\* a deadlock that the database breaks at this request's cost.
LEMMA RecheckStep ==
  ASSUME ReviewInv, NEW c \in Calls,
         Recheck(c) \/ Confirm(c) \/ Refuse(c) \/ (DeadlockDetected(c) /\ UNCHANGED persist)
  PROVE  ReviewInv'
<1>0. CallTypeOK /\ CallHolds(c) /\ CommandMakesSense(c) /\ Covered(c)
  BY DEF ReviewInv, ReviewTypeOK, HeldByCalls, CommandsMakeSense, LocksStillCover
<1>1. UNCHANGED dataVars
  BY DEF Recheck, Confirm, Refuse, DeadlockDetected, dataVars
<1>2. CASE pc[c] # "idle" /\ (Restart(c) \/ End(c, "refused"))
  BY <1>1, <1>2, RestartStep
<1>3. CASE \/ pc[c] = "runs" /\ found[c].runs = RunsHeld(c) /\ Needs(c) = found[c]
                /\ Proceed(c, "groups")
           \/ /\ pc[c] = "groups" /\ found[c].groups = GroupsHeld(c)
              /\ cmd[c].action = "correct" \/ Needs(c) = found[c]
              /\ Proceed(c, "decide")
  <2>1. PICK label \in {"groups", "decide"} : Proceed(c, label) /\ pc[c] # "idle"
    BY <1>3
  <2>2. /\ pc' = [pc EXCEPT ![c] = label] /\ cmd' = cmd /\ found' = found /\ tries' = tries
        /\ runLock' = runLock /\ groupLock' = groupLock /\ keyLock' = keyLock
        /\ receipts' = receipts /\ state' = state /\ records' = records /\ members' = members
    BY <1>1, <2>1 DEF Proceed, lockVars, dataVars
  <2>3. pc' \in [Calls -> Labels] /\ pc'[c] = label /\ \A d \in Calls : d # c => pc'[d] = pc[d]
    BY <1>0, <2>2 DEF CallTypeOK, Labels
  <2>4. CallTypeOK'
    BY <1>0, <2>1, <2>2, <2>3 DEF CallTypeOK
  <2>5. \A u : RunsHeld(u)' = RunsHeld(u) /\ GroupsHeld(u)' = GroupsHeld(u)
    BY <2>2 DEF RunsHeld, GroupsHeld
  <2>6. OthersKeep(c)
    BY <2>2, <2>3, <2>5 DEF OthersKeep
  <2>7. /\ label = "groups" => pc[c] = "runs" /\ found[c].runs = RunsHeld(c) /\ Needs(c) = found[c]
        /\ label = "decide" =>
             /\ pc[c] = "groups" /\ found[c].groups = GroupsHeld(c)
             /\ cmd[c].action = "correct" \/ Needs(c) = found[c]
    <3>1. CASE label = "groups"
      <4>1. pc'[c] = "groups" BY <2>3, <3>1
      <4> QED BY <1>0, <1>3, <3>1, <4>1 DEF Proceed, CallTypeOK
    <3>2. CASE label = "decide"
      <4>1. pc'[c] = "decide" BY <2>3, <3>2
      <4> QED BY <1>0, <1>3, <3>2, <4>1 DEF Proceed, CallTypeOK
    <3> QED BY <3>1, <3>2
  <2>8. CallHolds(c)'
    BY <1>0, <2>2, <2>3, <2>5, <2>7 DEF CallHolds, Locking
  <2>9. CommandMakesSense(c)'
    BY <1>0, <2>1, <2>2 DEF CommandMakesSense
  <2>10. Covered(c)'
    <3>1. Needs(c)' = Needs(c) BY <2>2, NeedsForm
    <3>2. Needs(c) = found[c] BY <1>0, <2>7 DEF Covered
    <3> QED BY <2>2, <3>1, <3>2 DEF Covered
  <2> QED BY <1>1, <2>4, <2>6, <2>8, <2>9, <2>10, CallStep
<1>4. CASE Recheck(c) BY <1>2, <1>3, <1>4 DEF Recheck
<1>5. CASE Confirm(c) BY <1>2, <1>3, <1>5 DEF Confirm
<1>6. CASE Refuse(c) BY <1>2, <1>6 DEF Refuse
<1>7. CASE DeadlockDetected(c) /\ UNCHANGED persist
  <2>1. c \notin Runs BY ReviewAssumption
  <2>2. Restart(c) BY <1>7, <2>1 DEF DeadlockDetected
  <2>3. \E u : WaitsFor(c, u)
    BY <1>7 DEF DeadlockDetected, WaitCycle
  <2>4. pc[c] # "idle" BY <2>1, <2>3 DEF WaitsFor
  <2> QED BY <1>2, <2>2, <2>4
<1> QED BY <1>4, <1>5, <1>6, <1>7

-----------------------------------------------------------------------------
\* The next group a worker writes is one of those it has not locked.
LEMMA NextDraftIsLeft ==
  ASSUME NEW r \in Runs, GroupsHeld(r) \subseteq DraftGroups(r), GroupsHeld(r) # DraftGroups(r)
  PROVE  NextDraft(r) \in DraftGroups(r) \ GroupsHeld(r)
<1>1. PICK S \in SUBSET Groups : S = DraftGroups(r) \ GroupsHeld(r)
  BY DEF DraftGroups
<1>2. S # {}
  BY <1>1
<1>3. PICK T : T = {Rank[g] : g \in S}
  OBVIOUS
<1>4. T \in SUBSET Nat /\ T # {}
  <2>1. \A g \in S : Rank[g] \in Nat BY ReviewAssumption
  <2> QED BY <1>2, <1>3, <2>1
<1>5. Least(T) \in T /\ \A m \in T : Least(T) <= m
  BY <1>4, LeastIsLeast
<1>6. \E g \in S : \A h \in S : Rank[g] <= Rank[h]
  BY <1>3, <1>5
<1>7. FirstByRank(S) \in S
  BY <1>6 DEF FirstByRank
<1> QED BY <1>1, <1>7 DEF NextDraft

\* Nothing of a request is touched by a step of a worker that shows nothing.
LEMMA CallsKeep ==
  ASSUME ReviewInv, NEW r \in Runs, CallTypeOK', OthersKeep(r), UNCHANGED callVars,
         receipts' = receipts, records' = records, members' = members,
         \A p \in Proposals : state[p] # "absent" => state'[p] # "absent"
  PROVE  HeldByCalls' /\ CommandsMakeSense' /\ LocksStillCover'
<1>1. pc' = pc /\ cmd' = cmd /\ found' = found /\ \A d \in Calls : d \in Txns /\ d # r
  BY ReviewAssumption DEF callVars, Txns
<1>2. ASSUME NEW d \in Calls
      PROVE  CallHolds(d)' /\ CommandMakesSense(d)' /\ Covered(d)'
  <2>1. /\ RunsHeld(d)' = RunsHeld(d) /\ GroupsHeld(d)' = GroupsHeld(d)
        /\ \A k \in Keys : keyLock'[k] = d <=> keyLock[k] = d
    BY <1>1 DEF OthersKeep
  <2>2. pc[d] # "idle" => cmd[d].key \in Keys /\ cmd[d].ids \subseteq Proposals
    BY DEF ReviewInv, ReviewTypeOK, CallTypeOK
  <2>3. CallHolds(d)'
    BY <1>1, <2>1, <2>2 DEF ReviewInv, HeldByCalls, CallHolds, Locking, Before
  <2>4. CommandMakesSense(d)'
    BY <1>1, <2>2 DEF ReviewInv, CommandsMakeSense, CommandMakesSense
  <2>5. Needs(d)' = Needs(d)
    BY <1>1, NeedsForm
  <2>6. Covered(d)'
    BY <1>1, <2>5 DEF ReviewInv, LocksStillCover, Covered
  <2> QED BY <2>3, <2>4, <2>6
<1> QED BY <1>2 DEF HeldByCalls, CommandsMakeSense, LocksStillCover

\* A worker's step before its commit: it takes a lock or gives all of them back.
LEMMA WorkerStep ==
  ASSUME ReviewInv, NEW r \in Runs, CallTypeOK', OthersKeep(r), UNCHANGED callVars,
         UNCHANGED <<run, state, version, members, group, resolution, records, receipts>>,
         persist[r] # "after", NEW ph \in {"upsert", "member", "failing"},
         persist' = [persist EXCEPT ![r] = ph], run[r] = "running",
         WorkerHolds(r)'
  PROVE  ReviewInv'
<1>1. DataTypeOK /\ persist \in [Runs -> {"before", "upsert", "member", "after", "failing"}]
  BY DEF ReviewInv, ReviewTypeOK, DataTypeOK
<1>2. /\ persist' \in [Runs -> {"before", "upsert", "member", "after", "failing"}]
      /\ persist'[r] = ph /\ \A q \in Runs : q # r => persist'[q] = persist[q]
  BY <1>1
<1>3. \A q \in Runs : persist'[q] = "after" <=> persist[q] = "after"
  BY <1>2
<1>4. ReviewTypeOK'
  BY <1>1, <1>2 DEF ReviewTypeOK, DataTypeOK
<1>5. PersistedRows'
  <2>1. \A p \in Proposals : RunOf[p] \in Runs BY ReviewAssumption
  <2> QED BY <1>2, <1>3, <2>1 DEF ReviewInv, PersistedRows
<1>6. OneRecordPerProposal' /\ RecordsPinTheirRun' /\ DecidedIsSettled' /\ RunsFollowReviews'
  BY DEF ReviewInv, OneRecordPerProposal, RecordsPinTheirRun, DecidedIsSettled, RunsFollowReviews
<1>7. HeldByWorkers'
  <2>1. SUFFICES ASSUME NEW q \in Runs, q # r PROVE WorkerHolds(q)'
    BY DEF HeldByWorkers
  <2>2. RunsHeld(q)' = RunsHeld(q) /\ GroupsHeld(q)' = GroupsHeld(q)
    BY <2>1 DEF OthersKeep, Txns
  <2>3. \A s \in Runs : runLock'[s] = q => runLock[s] = q
    BY <2>2 DEF RunsHeld
  <2>4. persist'[q] = persist[q] BY <1>2, <2>1
  <2> QED BY <2>2, <2>3, <2>4 DEF ReviewInv, HeldByWorkers, WorkerHolds, DraftGroups, DraftMembers
<1>8. HeldByCalls' /\ CommandsMakeSense' /\ LocksStillCover'
  BY CallsKeep
<1> QED BY <1>4, <1>5, <1>6, <1>7, <1>8 DEF ReviewInv

\* The steps of a worker's transaction before its commit.
LEMMA PersistSteps ==
  ASSUME ReviewInv, NEW r \in Runs,
         \/ PersistBegin(r) \/ PersistUpsert(r) \/ PersistMember(r)
         \/ DeadlockDetected(r) /\ UNCHANGED callVars
  PROVE  ReviewInv'
<1>0. /\ CallTypeOK /\ WorkerHolds(r) /\ r \in Txns /\ Free \notin Txns
      /\ persist[r] \in {"before", "upsert", "member"} => run[r] = "running"
      /\ persist \in [Runs -> {"before", "upsert", "member", "after", "failing"}]
  BY ReviewAssumption DEF ReviewInv, ReviewTypeOK, DataTypeOK, HeldByWorkers, PersistedRows, Txns
<1>1. UNCHANGED callVars
      /\ UNCHANGED <<run, state, version, members, group, resolution, records, receipts>>
  BY DEF PersistBegin, PersistUpsert, PersistMember, DeadlockDetected
<1>2. pc' = pc /\ cmd' = cmd /\ found' = found /\ tries' = tries
  BY <1>1 DEF callVars
<1>3. CASE PersistFails(r) /\ persist[r] \in {"upsert", "member"}
  <2>1. persist' = [persist EXCEPT ![r] = "failing"] /\ ReleaseLocks(r)
    BY <1>3 DEF PersistFails
  <2>2. /\ runLock' \in [Runs -> Txns \cup {Free}]
        /\ groupLock' \in [Groups -> Txns \cup {Free}]
        /\ keyLock' \in [Keys -> Calls \cup {Free}]
        /\ RunsHeld(r)' = {} /\ GroupsHeld(r)' = {}
        /\ \A u \in Txns : u # r => /\ RunsHeld(u)' = RunsHeld(u) /\ GroupsHeld(u)' = GroupsHeld(u)
                                    /\ \A k \in Keys : keyLock'[k] = u <=> keyLock[k] = u
    BY <1>0, <2>1, ReleaseFacts
  <2>3. CallTypeOK' BY <1>0, <1>2, <2>2 DEF CallTypeOK
  <2>4. OthersKeep(r) BY <1>2, <2>2 DEF OthersKeep
  <2>5. persist'[r] = "failing" BY <1>0, <2>1
  <2>6. WorkerHolds(r)'
    BY <2>2, <2>5 DEF WorkerHolds, RunsHeld
  <2> QED BY <1>0, <1>1, <1>3, <2>1, <2>3, <2>4, <2>6, WorkerStep
<1>4. CASE PersistBegin(r)
  <2>1. /\ persist[r] = "before" /\ runLock[r] = Free /\ runLock' = [runLock EXCEPT ![r] = r]
        /\ persist' = [persist EXCEPT ![r] = "upsert"] /\ groupLock' = groupLock /\ keyLock' = keyLock
    BY <1>4 DEF PersistBegin
  <2>2. runLock' \in [Runs -> Txns \cup {Free}] BY <1>0, <2>1 DEF CallTypeOK
  <2>3. CallTypeOK' BY <1>0, <1>2, <2>1, <2>2 DEF CallTypeOK
  <2>4. /\ \A u : GroupsHeld(u)' = GroupsHeld(u)
        /\ \A u \in Txns : u # r => RunsHeld(u)' = RunsHeld(u)
        /\ RunsHeld(r)' = RunsHeld(r) \cup {r}
    BY <1>0, <2>1 DEF GroupsHeld, RunsHeld, CallTypeOK
  <2>5. OthersKeep(r) BY <1>2, <2>1, <2>4 DEF OthersKeep
  <2>6. persist'[r] = "upsert" /\ GroupsHeld(r)' = {}
    BY <1>0, <2>1, <2>4 DEF WorkerHolds
  <2>7. \A q \in Runs : runLock'[q] = r => q = r
    BY <1>0, <2>1 DEF WorkerHolds, CallTypeOK
  <2>8. WorkerHolds(r)' BY <2>6, <2>7 DEF WorkerHolds
  <2> QED BY <1>0, <1>1, <2>1, <2>3, <2>5, <2>8, WorkerStep
<1>5. ASSUME NEW g, g = NextDraft(r), groupLock[g] = Free, group[g] # "resolved",
             persist[r] \in {"upsert", "member"}, GroupsHeld(r) # DraftGroups(r),
             groupLock' = [groupLock EXCEPT ![g] = r], runLock' = runLock, keyLock' = keyLock,
             persist' = [persist EXCEPT ![r] = "upsert"]
      PROVE  ReviewInv'
  <2>1. g \in DraftGroups(r) /\ g \in Groups
    BY <1>0, <1>5, NextDraftIsLeft DEF WorkerHolds, DraftGroups
  <2>2. groupLock' \in [Groups -> Txns \cup {Free}] BY <1>0, <1>5 DEF CallTypeOK
  <2>3. CallTypeOK' BY <1>0, <1>2, <1>5, <2>2 DEF CallTypeOK
  <2>4. /\ \A u : RunsHeld(u)' = RunsHeld(u)
        /\ \A u \in Txns : u # r => GroupsHeld(u)' = GroupsHeld(u)
        /\ GroupsHeld(r)' = GroupsHeld(r) \cup {g}
    BY <1>0, <1>5, <2>1 DEF GroupsHeld, RunsHeld, CallTypeOK
  <2>5. OthersKeep(r) BY <1>2, <1>5, <2>4 DEF OthersKeep
  <2>6. persist'[r] = "upsert" /\ group' = group BY <1>0, <1>1, <1>5
  <2>7. WorkerHolds(r)'
    BY <1>0, <1>5, <2>1, <2>4, <2>6 DEF WorkerHolds, DraftGroups, DraftMembers
  <2> QED BY <1>0, <1>1, <1>5, <2>3, <2>5, <2>7, WorkerStep
<1>6. CASE PersistUpsert(r)
  <2>1. PICK g : g = NextDraft(r) OBVIOUS
  <2>2. persist[r] = "upsert" /\ GroupsHeld(r) # DraftGroups(r) BY <1>6 DEF PersistUpsert
  <2>3. CASE /\ group[g] = "absent" /\ groupLock[g] = Free
             /\ groupLock' = [groupLock EXCEPT ![g] = r]
             /\ UNCHANGED <<persist, runLock, keyLock>>
    <3>1. persist' = [persist EXCEPT ![r] = "upsert"] BY <1>0, <2>2, <2>3
    <3> QED BY <1>5, <2>1, <2>2, <2>3, <3>1
  <2>4. CASE group[g] = "open" /\ persist' = [persist EXCEPT ![r] = "member"] /\ UNCHANGED lockVars
    <3>1. runLock' = runLock /\ groupLock' = groupLock /\ keyLock' = keyLock
      BY <2>4 DEF lockVars
    <3>2. CallTypeOK' BY <1>0, <1>2, <3>1 DEF CallTypeOK
    <3>3. \A u : RunsHeld(u)' = RunsHeld(u) /\ GroupsHeld(u)' = GroupsHeld(u)
      BY <3>1 DEF RunsHeld, GroupsHeld
    <3>4. OthersKeep(r) BY <1>2, <3>1, <3>3 DEF OthersKeep
    <3>5. persist'[r] = "member" /\ group' = group BY <1>0, <1>1, <2>4
    <3>6. WorkerHolds(r)'
      BY <1>0, <2>2, <3>1, <3>3, <3>5 DEF WorkerHolds, DraftGroups, DraftMembers
    <3> QED BY <1>0, <1>1, <2>2, <2>4, <3>2, <3>4, <3>6, WorkerStep
  <2>5. CASE PersistFails(r) BY <1>3, <2>2, <2>5
  <2> QED BY <1>6, <2>1, <2>3, <2>4, <2>5 DEF PersistUpsert
<1>7. CASE PersistMember(r)
  <2>1. PICK g : g = NextDraft(r) OBVIOUS
  <2>2. persist[r] = "member" /\ groupLock[g] = Free BY <1>7, <2>1 DEF PersistMember
  <2>3. GroupsHeld(r) # DraftGroups(r) BY <1>0, <2>2 DEF WorkerHolds
  <2>4. CASE /\ group[g] = "open" /\ groupLock' = [groupLock EXCEPT ![g] = r]
             /\ persist' = [persist EXCEPT ![r] = "upsert"] /\ UNCHANGED <<runLock, keyLock>>
    BY <1>5, <2>1, <2>2, <2>3, <2>4
  <2>5. CASE PersistFails(r) BY <1>3, <2>2, <2>5
  <2> QED BY <1>7, <2>1, <2>4, <2>5 DEF PersistMember
<1>8. CASE DeadlockDetected(r)
  <2>1. r \notin Calls BY ReviewAssumption
  <2>2. PersistFails(r) BY <1>8, <2>1 DEF DeadlockDetected
  <2>3. \E u : WaitsFor(r, u) BY <1>8 DEF DeadlockDetected, WaitCycle
  <2>4. persist[r] \in {"upsert", "member"} BY <2>1, <2>3 DEF WaitsFor
  <2> QED BY <1>3, <2>2, <2>4
<1> QED BY <1>4, <1>6, <1>7, <1>8

\* The run alone changes: it fails, opens for review or is cancelled.
LEMMA RunSteps ==
  ASSUME ReviewInv, NEW r \in Runs, FailRun(r) \/ OpenReview(r) \/ CancelWaiting(r)
  PROVE  ReviewInv'
<1>0. /\ DataTypeOK /\ CallTypeOK
      /\ run \in [Runs -> {"running", "waiting_review", "succeeded", "failed", "cancelled"}]
      /\ persist[r] \in {"before", "upsert", "member"} => run[r] = "running"
  BY DEF ReviewInv, ReviewTypeOK, DataTypeOK, PersistedRows
<1>1. /\ UNCHANGED <<persist, state, version, members, group, resolution, records, receipts>>
      /\ UNCHANGED lockVars /\ UNCHANGED callVars
  BY DEF FailRun, OpenReview, CancelWaiting
<1>2. /\ pc' = pc /\ cmd' = cmd /\ found' = found /\ tries' = tries
      /\ runLock' = runLock /\ groupLock' = groupLock /\ keyLock' = keyLock
  BY <1>1 DEF callVars, lockVars
<1>3. CallTypeOK'
  BY <1>0, <1>2 DEF CallTypeOK
<1>4. \A u : RunsHeld(u)' = RunsHeld(u) /\ GroupsHeld(u)' = GroupsHeld(u)
  BY <1>2 DEF RunsHeld, GroupsHeld
<1>5. OthersKeep(r)
  BY <1>2, <1>4 DEF OthersKeep
<1>6. HeldByCalls' /\ CommandsMakeSense' /\ LocksStillCover'
  BY <1>1, <1>3, <1>5, CallsKeep
<1>7. HeldByWorkers'
  BY <1>1, <1>2, <1>4 DEF ReviewInv, HeldByWorkers, WorkerHolds, DraftGroups, DraftMembers
<1>8. OneRecordPerProposal' /\ RecordsPinTheirRun' /\ DecidedIsSettled'
  BY <1>1 DEF ReviewInv, OneRecordPerProposal, RecordsPinTheirRun, DecidedIsSettled
<1>9. PICK st \in {"failed", "waiting_review", "succeeded", "cancelled"} :
        /\ run' = [run EXCEPT ![r] = st]
        /\ \/ st = "failed" /\ persist[r] = "failing" /\ run[r] = "running"
           \/ /\ st = "waiting_review" /\ run[r] = "running" /\ persist[r] = "after"
              /\ \E p \in Proposals : RunOf[p] = r
           \/ /\ st = "succeeded" /\ run[r] = "running" /\ persist[r] = "after"
              /\ \A p \in Proposals : RunOf[p] # r
           \/ st = "cancelled" /\ run[r] = "waiting_review"
  <2>1. CASE FailRun(r) BY <2>1 DEF FailRun
  <2>2. CASE OpenReview(r)
    <3>1. CASE \E p \in Proposals : RunOf[p] = r
      BY <2>2, <3>1 DEF OpenReview
    <3>2. CASE ~ \E p \in Proposals : RunOf[p] = r
      BY <2>2, <3>2 DEF OpenReview
    <3> QED BY <3>1, <3>2
  <2>3. CASE CancelWaiting(r) BY <2>3 DEF CancelWaiting
  <2> QED BY <2>1, <2>2, <2>3
<1>10. /\ run' \in [Runs -> {"running", "waiting_review", "succeeded", "failed", "cancelled"}]
       /\ run'[r] = st /\ \A q \in Runs : q # r => run'[q] = run[q]
  BY <1>0, <1>9
<1>11. ReviewTypeOK'
  BY <1>0, <1>1, <1>3, <1>10 DEF ReviewTypeOK, DataTypeOK
<1>12. st # "failed" => persist[r] = "after"
  BY <1>9 DEF ReviewInv, PersistedRows
<1>13. PersistedRows'
  BY <1>1, <1>9, <1>10, <1>12 DEF ReviewInv, PersistedRows
<1>14. RunsFollowReviews'
  <2>1. SUFFICES ASSUME NEW q \in Runs
                 PROVE  /\ run'[q] = "running" =>
                             \A p \in Proposals : RunOf[p] = q => state[p] \in {"absent", "needs_review"}
                        /\ run'[q] = "waiting_review" =>
                             \E p \in Proposals : RunOf[p] = q /\ state[p] = "needs_review"
                        /\ run'[q] = "succeeded" =>
                             \A p \in Proposals : RunOf[p] = q => state[p] # "needs_review"
    BY <1>1 DEF RunsFollowReviews
  <2>2. CASE q # r
    BY <1>10, <2>2 DEF ReviewInv, RunsFollowReviews
  <2>3. CASE q = r
    <3>1. ASSUME st = "waiting_review"
          PROVE  \E p \in Proposals : RunOf[p] = r /\ state[p] = "needs_review"
      <4>1. PICK p \in Proposals : RunOf[p] = r BY <1>9, <3>1
      <4>2. persist[r] = "after" /\ run[r] = "running" BY <1>9, <3>1
      <4>3. state[p] # "absent" /\ state[p] \in {"absent", "needs_review"}
        BY <4>1, <4>2 DEF ReviewInv, PersistedRows, RunsFollowReviews
      <4> QED BY <4>1, <4>3
    <3>2. st = "succeeded" => \A p \in Proposals : RunOf[p] # r BY <1>9
    <3> QED BY <1>10, <2>3, <3>1, <3>2
  <2> QED BY <2>2, <2>3
<1> QED BY <1>6, <1>7, <1>8, <1>11, <1>13, <1>14 DEF ReviewInv

\* The worker commits: its proposals, memberships and groups are visible at once.
\* No group that it holds is resolved, so nothing a deciding request depends on
\* changes.
LEMMA PersistCommitStep ==
  ASSUME ReviewInv, NEW r \in Runs, PersistCommit(r)
  PROVE  ReviewInv'
<1>0. /\ DataTypeOK /\ CallTypeOK /\ WorkerHolds(r) /\ r \in Txns /\ Free \notin Txns
      /\ \A p \in Proposals : RunOf[p] \in Runs
  BY ReviewAssumption DEF ReviewInv, ReviewTypeOK, HeldByWorkers, Txns
<1>1. /\ persist[r] = "upsert" /\ DraftGroups(r) = GroupsHeld(r)
      /\ persist' = [persist EXCEPT ![r] = "after"]
      /\ state' = [p \in Proposals |-> IF RunOf[p] = r THEN "needs_review" ELSE state[p]]
      /\ members' = [g \in Groups |-> members[g] \cup DraftMembers(g, r)]
      /\ group' = [g \in Groups |-> IF g \in DraftGroups(r) THEN "open" ELSE group[g]]
      /\ ReleaseLocks(r)
      /\ run' = run /\ version' = version /\ resolution' = resolution /\ records' = records
      /\ receipts' = receipts /\ UNCHANGED callVars
  BY DEF PersistCommit
<1>2. pc' = pc /\ cmd' = cmd /\ found' = found /\ tries' = tries
  BY <1>1 DEF callVars
<1>3. /\ runLock' \in [Runs -> Txns \cup {Free}]
      /\ groupLock' \in [Groups -> Txns \cup {Free}]
      /\ keyLock' \in [Keys -> Calls \cup {Free}]
      /\ RunsHeld(r)' = {} /\ GroupsHeld(r)' = {}
      /\ \A u \in Txns : u # r => /\ RunsHeld(u)' = RunsHeld(u) /\ GroupsHeld(u)' = GroupsHeld(u)
                                  /\ \A k \in Keys : keyLock'[k] = u <=> keyLock[k] = u
  BY <1>0, <1>1, ReleaseFacts
<1>4. CallTypeOK'
  BY <1>0, <1>2, <1>3 DEF CallTypeOK
<1>5. OthersKeep(r)
  BY <1>2, <1>3 DEF OthersKeep
<1>6. /\ persist' \in [Runs -> {"before", "upsert", "member", "after", "failing"}]
      /\ persist'[r] = "after" /\ \A q \in Runs : q # r => persist'[q] = persist[q]
  BY <1>0, <1>1 DEF DataTypeOK
<1>7. /\ \A g \in Groups : members'[g] = members[g] \cup DraftMembers(g, r)
      /\ \A g \in Groups : g \notin DraftGroups(r) => DraftMembers(g, r) = {}
      /\ \A g \in Groups : DraftMembers(g, r) \subseteq Proposals
  BY <1>1 DEF DraftGroups, DraftMembers
<1>8. /\ \A g \in DraftGroups(r) : group[g] # "resolved" /\ group'[g] = "open"
      /\ \A g \in Groups : g \notin DraftGroups(r) => group'[g] = group[g] /\ members'[g] = members[g]
      /\ \A g \in Groups : group[g] = "resolved" => group'[g] = "resolved" /\ members'[g] = members[g]
  <2>1. \A g \in DraftGroups(r) : g \in Groups BY DEF DraftGroups
  <2> QED BY <1>0, <1>1, <1>7, <2>1 DEF WorkerHolds
<1>9. /\ \A p \in Proposals : RunOf[p] = r => state'[p] = "needs_review" /\ state[p] = "absent"
      /\ \A p \in Proposals : RunOf[p] # r => state'[p] = state[p]
  <2>1. \A p \in Proposals : RunOf[p] = r => state[p] = "absent"
    BY <1>1 DEF ReviewInv, PersistedRows
  <2> QED BY <1>1, <2>1
<1>10. ReviewTypeOK'
  <2>1. state' \in [Proposals -> {"absent", "needs_review", "accepted", "rejected", "superseded"}]
    BY <1>0, <1>1 DEF DataTypeOK
  <2>2. members' \in [Groups -> SUBSET Proposals]
    BY <1>0, <1>1, <1>7 DEF DataTypeOK
  <2>3. group' \in [Groups -> {"absent", "open", "resolved"}]
    BY <1>0, <1>1 DEF DataTypeOK
  <2> QED BY <1>0, <1>1, <1>4, <1>6, <2>1, <2>2, <2>3 DEF ReviewTypeOK, DataTypeOK
<1>11. PersistedRows'
  <2>1. \A p \in Proposals : state'[p] # "absent" <=> persist'[RunOf[p]] = "after"
    <3>1. SUFFICES ASSUME NEW p \in Proposals
                   PROVE  state'[p] # "absent" <=> persist'[RunOf[p]] = "after"
      OBVIOUS
    <3>2. CASE RunOf[p] = r BY <1>6, <1>9, <3>2
    <3>3. CASE RunOf[p] # r
      <4>1. state'[p] = state[p] /\ persist'[RunOf[p]] = persist[RunOf[p]] BY <1>0, <1>6, <1>9, <3>3
      <4> QED BY <4>1 DEF ReviewInv, PersistedRows
    <3> QED BY <3>2, <3>3
  <2>2. ASSUME NEW g \in Groups
        PROVE  /\ members'[g] = {p \in Proposals : GroupOf[p] = g /\ persist'[RunOf[p]] = "after"}
               /\ members'[g] # {} => group'[g] # "absent"
    <3>1. members[g] = {p \in Proposals : GroupOf[p] = g /\ persist[RunOf[p]] = "after"}
      BY DEF ReviewInv, PersistedRows
    <3>2. members'[g] = members[g] \cup {p \in Proposals : GroupOf[p] = g /\ RunOf[p] = r}
      BY <1>7 DEF DraftMembers
    <3>3. \A p \in Proposals : persist'[RunOf[p]] = "after" <=>
                                 persist[RunOf[p]] = "after" \/ RunOf[p] = r
      BY <1>0, <1>1, <1>6
    <3>4. members'[g] # {} => group'[g] # "absent"
      <4>1. CASE g \in DraftGroups(r) BY <1>8, <4>1
      <4>2. CASE g \notin DraftGroups(r)
        BY <1>8, <4>2 DEF ReviewInv, PersistedRows
      <4> QED BY <4>1, <4>2
    <3> QED BY <3>1, <3>2, <3>3, <3>4
  <2>3. \A q \in Runs :
          /\ persist'[q] \in {"before", "upsert", "member"} => run[q] = "running"
          /\ run[q] \notin {"running", "failed"} => persist'[q] = "after"
    BY <1>6 DEF ReviewInv, PersistedRows
  <2> QED BY <1>1, <2>1, <2>2, <2>3 DEF PersistedRows
<1>12. HeldByWorkers'
  <2>1. WorkerHolds(r)'
    BY <1>3, <1>6 DEF WorkerHolds, RunsHeld
  <2>2. ASSUME NEW q \in Runs, q # r PROVE WorkerHolds(q)'
    <3>1. /\ RunsHeld(q)' = RunsHeld(q) /\ GroupsHeld(q)' = GroupsHeld(q)
      BY <1>3, <2>2 DEF Txns
    <3>2. \A s \in Runs : runLock'[s] = q => runLock[s] = q BY <3>1 DEF RunsHeld
    <3>3. persist'[q] = persist[q] BY <1>6, <2>2
    <3>4. WorkerHolds(q) BY DEF ReviewInv, HeldByWorkers
    <3>5. \A g \in GroupsHeld(q) : g \in DraftGroups(q) /\ group'[g] # "resolved"
      <4>1. \A g \in GroupsHeld(q) : g \in Groups BY DEF GroupsHeld
      <4> QED BY <1>8, <3>4, <4>1 DEF WorkerHolds
    <3> QED BY <3>1, <3>2, <3>3, <3>4, <3>5 DEF WorkerHolds, DraftGroups, DraftMembers
  <2> QED BY <2>1, <2>2 DEF HeldByWorkers
<1>13. OneRecordPerProposal' /\ RecordsPinTheirRun'
  <2>1. \A x \in records : x.origin \in Proposals BY <1>0 DEF DataTypeOK
  <2> QED BY <1>1, <1>9, <2>1 DEF ReviewInv, OneRecordPerProposal, RecordsPinTheirRun
<1>14. DecidedIsSettled'
  <2>1. SUFFICES ASSUME NEW p \in Proposals, NEW g \in Groups, state'[p] \in Decided,
                        p \in members'[g]
                 PROVE  group'[g] = "resolved"
    BY DEF DecidedIsSettled, Decided
  <2>2. RunOf[p] # r /\ state[p] \in Decided BY <1>9, <2>1 DEF Decided
  <2>3. p \in members[g] BY <1>7, <2>1, <2>2 DEF DraftMembers
  <2>4. group[g] = "resolved" BY <2>2, <2>3 DEF ReviewInv, DecidedIsSettled
  <2> QED BY <1>8, <2>4
<1>15. RunsFollowReviews'
  <2>1. run[r] = "running" BY <1>1 DEF ReviewInv, PersistedRows
  <2>2. ASSUME NEW q \in Runs
        PROVE  /\ run[q] = "running" =>
                    \A p \in Proposals : RunOf[p] = q => state'[p] \in {"absent", "needs_review"}
               /\ run[q] = "waiting_review" =>
                    \E p \in Proposals : RunOf[p] = q /\ state'[p] = "needs_review"
               /\ run[q] = "succeeded" =>
                    \A p \in Proposals : RunOf[p] = q => state'[p] # "needs_review"
    <3>1. CASE q = r BY <1>9, <2>1, <3>1
    <3>2. CASE q # r
      <4>1. \A p \in Proposals : RunOf[p] = q => state'[p] = state[p] BY <1>9, <3>2
      <4> QED BY <4>1 DEF ReviewInv, RunsFollowReviews
    <3> QED BY <3>1, <3>2
  <2> QED BY <1>1, <2>2 DEF RunsFollowReviews
<1>16. ASSUME NEW d \in Calls
       PROVE  CallHolds(d)' /\ CommandMakesSense(d)' /\ Covered(d)'
  <2>1. /\ d \in Txns /\ d # r /\ RunsHeld(d)' = RunsHeld(d) /\ GroupsHeld(d)' = GroupsHeld(d)
        /\ \A k \in Keys : keyLock'[k] = d <=> keyLock[k] = d
    BY <1>3, ReviewAssumption DEF Txns
  <2>2. pc[d] # "idle" => cmd[d].key \in Keys /\ cmd[d].ids \subseteq Proposals
    BY <1>0 DEF CallTypeOK
  <2>3. CallHolds(d)'
    BY <1>1, <1>2, <2>1, <2>2 DEF ReviewInv, HeldByCalls, CallHolds, Locking, Before
  <2>4. CommandMakesSense(d) BY DEF ReviewInv, CommandsMakeSense
  <2>5. CommandMakesSense(d)'
    BY <1>1, <1>2, <1>9, <2>2, <2>4 DEF CommandMakesSense
  <2>6. ASSUME pc[d] = "decide" \/ (pc[d] = "groups" /\ cmd[d].action = "correct")
        PROVE  Needs(d)' = Needs(d)
    <3>1. PICK ids : ids = cmd[d].ids /\ ids \subseteq Proposals /\ \A p \in ids : RunOf[p] # r
      BY <1>9, <2>2, <2>4, <2>6 DEF CommandMakesSense
    <3>2. TouchedBy(members', ids) = TouchedBy(members, ids)
      BY <1>7, <3>1 DEF TouchedBy, DraftMembers
    <3>3. \A g \in TouchedBy(members, ids) : g \notin DraftGroups(r)
      <4>1. CASE pc[d] = "decide"
        <5>1. Needs(d) = found[d] /\ GroupsHeld(d) = found[d].groups
          BY <4>1 DEF ReviewInv, LocksStillCover, Covered, HeldByCalls, CallHolds
        <5>2. Needs(d).groups = TouchedBy(members, ids) BY <3>1, <4>1, NeedsFacts
        <5>3. \A g \in GroupsHeld(d) : g \notin GroupsHeld(r) BY <2>1 DEF GroupsHeld
        <5> QED BY <1>1, <5>1, <5>2, <5>3
      <4>2. CASE cmd[d].action = "correct"
        <5>1. PICK x \in records : ids = {x.origin}
          BY <2>4, <2>6, <3>1, <4>2 DEF CommandMakesSense
        <5>2. x.origin \in Proposals /\ state[x.origin] \in Decided
          BY <1>0 DEF DataTypeOK, ReviewInv, OneRecordPerProposal, Decided
        <5>3. \A g \in TouchedBy(members, ids) : g \in Groups /\ x.origin \in members[g]
          BY <5>1 DEF TouchedBy
        <5>4. \A g \in TouchedBy(members, ids) : group[g] = "resolved"
          BY <5>2, <5>3 DEF ReviewInv, DecidedIsSettled
        <5> QED BY <1>8, <5>4
      <4> QED BY <2>6, <4>1, <4>2
    <3>4. \A g \in TouchedBy(members, ids) : members'[g] = members[g]
      BY <1>8, <3>3 DEF TouchedBy
    <3>5. RelatedRuns(members', ids) = RelatedRuns(members, ids)
      BY <3>2, <3>4 DEF RelatedRuns
    <3>6. NeedsIn(members', records, cmd[d]) = NeedsIn(members, records, cmd[d])
      BY <3>1, <3>2, <3>5 DEF NeedsIn
    <3> QED BY <1>1, <1>2, <3>6, NeedsForm
  <2>7. Covered(d)'
    BY <1>2, <2>6 DEF ReviewInv, LocksStillCover, Covered
  <2> QED BY <2>3, <2>5, <2>7
<1>17. HeldByCalls' /\ CommandsMakeSense' /\ LocksStillCover'
  BY <1>16 DEF HeldByCalls, CommandsMakeSense, LocksStillCover
<1> QED BY <1>10, <1>11, <1>12, <1>13, <1>14, <1>15, <1>17 DEF ReviewInv

-----------------------------------------------------------------------------
\* Under the locks of a request that commits, no other transaction holds the
\* key, a run or a group of it.
LEMMA CommitKeepsOthers ==
  ASSUME ReviewInv, NEW c \in Calls, pc[c] = "decide", OthersKeep(c), persist' = persist,
         receipts' = [receipts EXCEPT ![cmd[c].key] = cmd[c]],
         \A g \in Groups : group'[g] # group[g] => groupLock[g] = c
  PROVE  HeldByWorkers' /\ \A d \in Calls : d # c => CallHolds(d)'
<1>0. /\ CallTypeOK /\ DataTypeOK /\ keyLock[cmd[c].key] = c /\ c \notin Runs
  BY ReviewAssumption DEF ReviewInv, ReviewTypeOK, HeldByCalls, CallHolds, Locking
<1>1. ASSUME NEW r \in Runs PROVE WorkerHolds(r)'
  <2>1. RunsHeld(r)' = RunsHeld(r) /\ GroupsHeld(r)' = GroupsHeld(r)
    BY <1>0 DEF OthersKeep, Txns
  <2>2. \A q \in Runs : runLock'[q] = r => runLock[q] = r BY <2>1 DEF RunsHeld
  <2>3. WorkerHolds(r) BY DEF ReviewInv, HeldByWorkers
  <2>4. \A g \in GroupsHeld(r) : g \in Groups /\ groupLock[g] # c BY <1>0 DEF GroupsHeld
  <2>5. \A g \in GroupsHeld(r) : group'[g] = group[g] BY <2>4
  <2> QED BY <2>1, <2>2, <2>3, <2>5 DEF WorkerHolds, DraftGroups, DraftMembers
<1>2. ASSUME NEW d \in Calls, d # c PROVE CallHolds(d)'
  <2>1. /\ pc'[d] = pc[d] /\ cmd'[d] = cmd[d] /\ found'[d] = found[d]
        /\ RunsHeld(d)' = RunsHeld(d) /\ GroupsHeld(d)' = GroupsHeld(d)
        /\ \A k \in Keys : keyLock'[k] = d <=> keyLock[k] = d
    BY <1>2 DEF OthersKeep, Txns
  <2>2. pc[d] # "idle" => cmd[d].key \in Keys
    BY <1>0 DEF CallTypeOK
  <2>3. CallHolds(d) BY DEF ReviewInv, HeldByCalls
  <2>4. pc[d] \in Locking => receipts'[cmd[d].key] = receipts[cmd[d].key]
    <3>1. ASSUME pc[d] \in Locking PROVE receipts'[cmd[d].key] = receipts[cmd[d].key]
      <4>1. keyLock[cmd[d].key] = d BY <2>3, <3>1 DEF CallHolds
      <4>2. cmd[d].key # cmd[c].key BY <1>0, <1>2, <4>1
      <4>3. cmd[d].key \in Keys BY <2>2, <3>1 DEF Locking
      <4> QED BY <1>0, <4>2, <4>3 DEF DataTypeOK
    <3> QED BY <3>1
  <2> QED BY <2>1, <2>2, <2>3, <2>4 DEF CallHolds, Locking, Before
<1> QED BY <1>1, <1>2 DEF HeldByWorkers

\* What another request has locked stays all it depends on when records are
\* approved or corrected under the locks of c.
LEMMA CommitKeepsNeeds ==
  ASSUME ReviewInv, NEW c \in Calls, pc[c] = "decide", members' = members,
         \A x, y \in records' : x.origin = y.origin => x = y,
         \A x \in records : \E y \in records' :
           y.key = x.key /\ y.origin = x.origin /\ y.pins = x.pins,
         \A y \in records' :
           \/ \E x \in records : y.origin = x.origin /\ y.pins = x.pins
           \/ Ties(y) \subseteq found[c].runs,
         NEW d \in Calls, d # c, cmd'[d] = cmd[d], pc'[d] = pc[d], found'[d] = found[d]
  PROVE  Covered(d)'
<1>1. SUFFICES ASSUME pc[d] = "decide" \/ (pc[d] = "groups" /\ cmd[d].action = "correct")
               PROVE  Needs(d)' = Needs(d)
  BY DEF Covered, ReviewInv, LocksStillCover
<1>2. /\ RunsHeld(c) = found[c].runs /\ RunsHeld(d) = found[d].runs /\ Needs(d) = found[d]
      /\ pc[d] # "idle" /\ CommandMakesSense(d)
  BY <1>1 DEF ReviewInv, HeldByCalls, CallHolds, LocksStillCover, Covered, CommandsMakeSense
<1>3. PICK m, S : m = cmd[d] /\ S = RelatedRuns(members, m.ids)
  OBVIOUS
<1>4. /\ S \in SUBSET Runs /\ ExpandIn(records, S) \subseteq found[d].runs
      /\ \A x \in records : Ties(x) \subseteq Runs
  BY <1>2, <1>3, NeedsFacts
<1>5. found[c].runs \cap ExpandIn(records, S) = {}
  BY <1>2, <1>4 DEF RunsHeld
<1>6. /\ \A x \in records : \E y \in records' : Ties(y) = Ties(x)
      /\ \A y \in records' : \/ \E x \in records : Ties(y) = Ties(x)
                             \/ Ties(y) \cap ExpandIn(records, S) = {}
  BY <1>5 DEF Ties
<1>7. ExpandIn(records', S) = ExpandIn(records, S)
  BY <1>4, <1>6, ExpandStable
<1>8. m.action = "correct" => RecordIn(records', m).pins = RecordIn(records, m).pins
  <2>1. ASSUME m.action = "correct"
        PROVE  RecordIn(records', m).pins = RecordIn(records, m).pins
    <3>1. PICK x \in records : x.key = m.record /\ m.ids = {x.origin}
      BY <1>2, <1>3, <2>1 DEF CommandMakesSense
    <3>2. RecordIn(records, m) = x
      BY <3>1, RecordIsFound DEF ReviewInv, OneRecordPerProposal
    <3>3. PICK y \in records' : y.key = x.key /\ y.origin = x.origin /\ y.pins = x.pins
      OBVIOUS
    <3>4. RecordIn(records', m) = y
      BY <3>1, <3>3, RecordIsFound
    <3> QED BY <3>2, <3>3, <3>4
  <2> QED BY <2>1
<1>9. NeedsIn(members, records', m) = NeedsIn(members, records, m)
  BY <1>3, <1>7, <1>8 DEF NeedsIn
<1> QED BY <1>3, <1>9, NeedsForm

\* What the checks of a review establish, and what it writes.
LEMMA ReviewFacts ==
  ASSUME ReviewInv, NEW c \in Calls, pc[c] = "decide", MayReview(c)
  PROVE  /\ Ids(c) \subseteq Proposals
         /\ \A p \in Ids(c) : state[p] = "needs_review" /\ run[RunOf[p]] = "waiting_review"
         /\ Action(c) \in {"accept", "edit", "reject", "merge"}
         /\ NextState(Action(c)) \in Decided
         /\ DOMAIN cmd[c].decisions = {g \in TouchedBy(members, Ids(c)) : group[g] = "open"}
         /\ \A g \in DOMAIN cmd[c].decisions : g \in Groups /\ groupLock[g] = c
         /\ \A g \in DOMAIN cmd[c].decisions : Winners(c, g) \subseteq Ids(c)
         /\ ApprovedBy(c) \subseteq Ids(c)
         /\ ApprovedBy(c) # {} => NextState(Action(c)) \in {"accepted", "superseded"}
         /\ \A x \in NewRecords(c) :
              /\ x.origin \in ApprovedBy(c) /\ x.key = cmd[c].key /\ x.version = 1
              /\ RunOf[x.origin] \in x.pins /\ x.pins \subseteq {RunOf[q] : q \in Ids(c)}
         /\ \A x, y \in NewRecords(c) : x.origin = y.origin => x = y
         /\ \A p \in Ids(c) : RunOf[p] \in found[c].runs
<1>1. /\ Ids(c) \subseteq Proposals /\ Action(c) \in AllActions
      /\ Action(c) = "merge" => cmd[c].patch \in Ids(c)
  BY DEF ReviewInv, ReviewTypeOK, CallTypeOK, CommandsMakeSense, CommandMakesSense, Ids, Action
<1>2. /\ Needs(c) = found[c] /\ GroupsHeld(c) = found[c].groups
  BY DEF ReviewInv, LocksStillCover, Covered, HeldByCalls, CallHolds
<1>3. /\ \A p \in cmd[c].ids : RunOf[p] \in ExpandIn(records, RelatedRuns(members, cmd[c].ids))
      /\ ExpandIn(records, RelatedRuns(members, cmd[c].ids)) \subseteq Needs(c).runs
      /\ Needs(c).groups = TouchedBy(members, cmd[c].ids)
  BY NeedsFacts
<1>4. \A p \in Ids(c) : state[p] = "needs_review" /\ run[RunOf[p]] = "waiting_review"
  BY DEF MayReview, SelectionCurrent
<1>5. Action(c) \in {"accept", "edit", "reject", "merge"}
  BY <1>1 DEF MayReview, AllActions
<1>6. NextState(Action(c)) \in Decided
  BY <1>5 DEF NextState, Decided
<1>7. /\ DOMAIN cmd[c].decisions = {g \in TouchedBy(members, Ids(c)) : group[g] = "open"}
      /\ \A g \in DOMAIN cmd[c].decisions : Winners(c, g) \subseteq Ids(c)
  BY <1>2, <1>3 DEF MayReview, DecisionsFor, Ids
<1>8. \A g \in DOMAIN cmd[c].decisions : g \in Groups /\ groupLock[g] = c
  <2>1. \A g \in DOMAIN cmd[c].decisions : g \in GroupsHeld(c)
    BY <1>2, <1>3, <1>7 DEF Ids
  <2> QED BY <2>1 DEF GroupsHeld
<1>9. ApprovedBy(c) \subseteq Ids(c)
  BY <1>1, <1>5 DEF ApprovedBy
<1>10. ApprovedBy(c) # {} => NextState(Action(c)) \in {"accepted", "superseded"}
  BY <1>5 DEF ApprovedBy, NextState
<1>11. /\ \A x \in NewRecords(c) :
            /\ x.origin \in ApprovedBy(c) /\ x.key = cmd[c].key /\ x.version = 1
            /\ RunOf[x.origin] \in x.pins /\ x.pins \subseteq {RunOf[q] : q \in Ids(c)}
       /\ \A x, y \in NewRecords(c) : x.origin = y.origin => x = y
  <2>2. ASSUME NEW x \in NewRecords(c)
        PROVE  \E p \in ApprovedBy(c) :
                 x = [origin |-> p, key |-> cmd[c].key, payload |-> CurrentRows(c)[p],
                      pins |-> IF Action(c) = "merge" THEN {RunOf[q] : q \in Ids(c)} ELSE {RunOf[p]},
                      version |-> 1]
    BY DEF NewRecords
  <2>3. ASSUME NEW x \in NewRecords(c)
        PROVE  /\ x.origin \in ApprovedBy(c) /\ x.key = cmd[c].key /\ x.version = 1
               /\ RunOf[x.origin] \in x.pins /\ x.pins \subseteq {RunOf[q] : q \in Ids(c)}
    BY <1>9, <2>2
  <2>4. ASSUME NEW x \in NewRecords(c), NEW y \in NewRecords(c), x.origin = y.origin
        PROVE  x = y
    <3>1. PICK p \in ApprovedBy(c) :
            x = [origin |-> p, key |-> cmd[c].key, payload |-> CurrentRows(c)[p],
                 pins |-> IF Action(c) = "merge" THEN {RunOf[q] : q \in Ids(c)} ELSE {RunOf[p]},
                 version |-> 1]
      BY <2>2
    <3>2. PICK q \in ApprovedBy(c) :
            y = [origin |-> q, key |-> cmd[c].key, payload |-> CurrentRows(c)[q],
                 pins |-> IF Action(c) = "merge" THEN {RunOf[s] : s \in Ids(c)} ELSE {RunOf[q]},
                 version |-> 1]
      BY <2>2
    <3>3. x.origin = p BY <3>1
    <3>4. y.origin = q BY <3>2
    <3>5. p = q BY <2>4, <3>3, <3>4
    <3> QED BY <3>1, <3>2, <3>5
  <2> QED BY <2>3, <2>4
<1> QED BY <1>1, <1>2, <1>3, <1>4, <1>5, <1>6, <1>7, <1>8, <1>9, <1>10, <1>11 DEF Ids

\* A review commits.
LEMMA CommitReviewStep ==
  ASSUME ReviewInv, NEW c \in Calls, CommitReview(c)
  PROVE  ReviewInv'
<1>0. /\ DataTypeOK /\ CallTypeOK /\ pc[c] = "decide" /\ MayReview(c)
      /\ \A p \in Proposals : RunOf[p] \in Runs
  BY ReviewAssumption DEF ReviewInv, ReviewTypeOK, CommitReview
<1>1. PICK I, a, A, D, N, st :
        /\ I = Ids(c) /\ a = Action(c) /\ A = ApprovedBy(c) /\ D = DOMAIN cmd[c].decisions
        /\ N = NewRecords(c) /\ st = NextState(Action(c))
  OBVIOUS
<1>2. /\ I \subseteq Proposals /\ I = cmd[c].ids
      /\ \A p \in I : state[p] = "needs_review" /\ run[RunOf[p]] = "waiting_review"
      /\ st \in Decided
      /\ D = {g \in TouchedBy(members, I) : group[g] = "open"}
      /\ \A g \in D : g \in Groups /\ groupLock[g] = c
      /\ \A g \in D : Winners(c, g) \subseteq I
      /\ A \subseteq I /\ (A # {} => st \in {"accepted", "superseded"})
      /\ \A x \in N : /\ x.origin \in A /\ x.key = cmd[c].key /\ x.version = 1
                      /\ RunOf[x.origin] \in x.pins /\ x.pins \subseteq {RunOf[q] : q \in I}
      /\ \A x, y \in N : x.origin = y.origin => x = y
      /\ \A p \in I : RunOf[p] \in found[c].runs
  BY <1>0, <1>1, ReviewFacts DEF Ids
<1>3. /\ state' = [p \in Proposals |-> IF p \in I THEN st ELSE state[p]]
      /\ version' = [p \in Proposals |-> IF p \in I THEN version[p] + 1 ELSE version[p]]
      /\ records' = records \cup N
      /\ group' = [g \in Groups |-> IF g \in D THEN "resolved" ELSE group[g]]
      /\ resolution' = [g \in Groups |-> IF g \in D THEN Resolve(c, g) ELSE resolution[g]]
      /\ run' = [r \in Runs |-> IF r \in {RunOf[p] : p \in I} /\ Finished(r)
                                THEN "succeeded" ELSE run[r]]
      /\ receipts' = [receipts EXCEPT ![cmd[c].key] = cmd[c]]
      /\ End(c, "answered") /\ persist' = persist /\ members' = members
  BY <1>1 DEF CommitReview
<1>4. /\ CallTypeOK' /\ OthersKeep(c) /\ CallHolds(c)' /\ Covered(c)' /\ pc'[c] = "answered"
      /\ cmd' = cmd
  <2>1. /\ pc' = [pc EXCEPT ![c] = "answered"] /\ found' = [found EXCEPT ![c] = Nothing]
        /\ ReleaseLocks(c) /\ cmd' = cmd /\ tries' = tries
    BY <1>3 DEF End
  <2>2. tries' \in [Calls -> 0 .. MaxTries] BY <1>0, <2>1 DEF CallTypeOK
  <2> QED BY <1>0, <2>1, <2>2, ReleaseCall
<1>5. /\ \A p \in Proposals : p \in I => state'[p] = st
      /\ \A p \in Proposals : p \notin I => state'[p] = state[p]
      /\ \A g \in Groups : g \in D => group'[g] = "resolved"
      /\ \A g \in Groups : g \notin D => group'[g] = group[g]
  BY <1>3
<1>6. ReviewTypeOK'
  <2>1. state' \in [Proposals -> {"absent", "needs_review", "accepted", "rejected", "superseded"}]
    BY <1>0, <1>2, <1>3 DEF DataTypeOK, Decided
  <2>2. version' \in [Proposals -> Nat]
    BY <1>0, <1>3 DEF DataTypeOK
  <2>3. group' \in [Groups -> {"absent", "open", "resolved"}]
    BY <1>0, <1>3 DEF DataTypeOK
  <2>4. resolution' \in [Groups -> [winners : SUBSET Proposals, approved : SUBSET Proposals]]
    <3>1. ASSUME NEW g \in D
          PROVE  Resolve(c, g) \in [winners : SUBSET Proposals, approved : SUBSET Proposals]
      <4>1. Winners(c, g) \in SUBSET Proposals /\ ApprovedBy(c) \in SUBSET Proposals
        BY <1>1, <1>2, <3>1
      <4> QED BY <4>1 DEF Resolve
    <3> QED BY <1>0, <1>3, <3>1 DEF DataTypeOK
  <2>5. run' \in [Runs -> {"running", "waiting_review", "succeeded", "failed", "cancelled"}]
    BY <1>0, <1>3 DEF DataTypeOK
  <2>6. \A x \in records' : /\ x.origin \in Proposals /\ x.key \in Keys
                            /\ x.pins \subseteq Runs /\ x.version \in Nat \ {0}
    <3>1. cmd[c].key \in Keys BY <1>0 DEF CallTypeOK
    <3>2. ASSUME NEW x \in N
          PROVE  /\ x.origin \in Proposals /\ x.key \in Keys
                 /\ x.pins \subseteq Runs /\ x.version \in Nat \ {0}
      <4>1. {RunOf[q] : q \in I} \subseteq Runs BY <1>0, <1>2
      <4>2. x.origin \in Proposals /\ x.key \in Keys /\ x.pins \subseteq Runs /\ x.version = 1
        BY <1>2, <3>1, <4>1
      <4> QED BY <4>2
    <3> QED BY <1>0, <1>3, <3>2 DEF DataTypeOK
  <2>7. DOMAIN receipts' = Keys
    BY <1>0, <1>3 DEF DataTypeOK
  <2> QED BY <1>0, <1>3, <1>4, <2>1, <2>2, <2>3, <2>4, <2>5, <2>6, <2>7 DEF ReviewTypeOK, DataTypeOK
<1>7. \A p \in Proposals : state'[p] # "absent" <=> state[p] # "absent"
  BY <1>2, <1>5 DEF Decided
<1>8. \A r \in Runs : /\ run'[r] # run[r] => run'[r] = "succeeded" /\ run[r] = "waiting_review"
  <2>1. \A r \in {RunOf[p] : p \in I} : run[r] = "waiting_review" BY <1>2
  <2> QED BY <1>3, <2>1
<1>9. PersistedRows'
  <2>1. \A g \in Groups : members[g] # {} => group'[g] # "absent"
    BY <1>5 DEF ReviewInv, PersistedRows
  <2>2. \A r \in Runs :
          /\ persist[r] \in {"before", "upsert", "member"} => run'[r] = "running"
          /\ run'[r] \notin {"running", "failed"} => persist[r] = "after"
    BY <1>8 DEF ReviewInv, PersistedRows
  <2> QED BY <1>3, <1>7, <2>1, <2>2 DEF ReviewInv, PersistedRows
<1>10. HeldByWorkers' /\ HeldByCalls'
  <2>1. \A g \in Groups : group'[g] # group[g] => groupLock[g] = c
    BY <1>2, <1>5
  <2> QED BY <1>0, <1>3, <1>4, <2>1, CommitKeepsOthers DEF HeldByCalls
<1>11. OneRecordPerProposal' /\ RecordsPinTheirRun'
  <2>1. \A x \in records : x.origin \in Proposals /\ x.origin \notin I /\ state'[x.origin] = state[x.origin]
    <3>1. \A x \in records : x.origin \in Proposals /\ state[x.origin] # "needs_review"
      BY <1>0 DEF DataTypeOK, ReviewInv, OneRecordPerProposal
    <3> QED BY <1>2, <1>5, <3>1
  <2>2. \A x \in N : x.origin \in I /\ state'[x.origin] \in {"accepted", "superseded"}
    BY <1>2, <1>5
  <2> QED BY <1>2, <1>3, <2>1, <2>2 DEF ReviewInv, OneRecordPerProposal, RecordsPinTheirRun
<1>12. DecidedIsSettled'
  <2>1. SUFFICES ASSUME NEW p \in Proposals, NEW g \in Groups, state'[p] \in Decided,
                        p \in members[g]
                 PROVE  group'[g] = "resolved"
    BY <1>3 DEF DecidedIsSettled, Decided
  <2>2. CASE p \in I
    <3>1. g \in TouchedBy(members, I) BY <2>1, <2>2 DEF TouchedBy
    <3>2. group[g] \in {"open", "resolved"}
      BY <1>0, <2>1 DEF ReviewInv, PersistedRows, DataTypeOK
    <3> QED BY <1>2, <1>5, <3>1, <3>2
  <2>3. CASE p \notin I
    <3>1. group[g] = "resolved" BY <1>5, <2>1, <2>3 DEF ReviewInv, DecidedIsSettled
    <3> QED BY <1>5, <3>1
  <2> QED BY <2>2, <2>3
<1>13. RunsFollowReviews'
  <2>1. SUFFICES ASSUME NEW r \in Runs
                 PROVE  /\ run'[r] = "running" =>
                             \A p \in Proposals : RunOf[p] = r => state'[p] \in {"absent", "needs_review"}
                        /\ run'[r] = "waiting_review" =>
                             \E p \in Proposals : RunOf[p] = r /\ state'[p] = "needs_review"
                        /\ run'[r] = "succeeded" =>
                             \A p \in Proposals : RunOf[p] = r => state'[p] # "needs_review"
    BY DEF RunsFollowReviews
  <2>2. CASE r \notin {RunOf[p] : p \in I}
    <3>1. run'[r] = run[r] /\ \A p \in Proposals : RunOf[p] = r => state'[p] = state[p]
      BY <1>3, <1>5, <2>2
    <3> QED BY <3>1 DEF ReviewInv, RunsFollowReviews
  <2>3. CASE r \in {RunOf[p] : p \in I}
    <3>1. run[r] = "waiting_review" BY <1>2, <2>3
    <3>2. CASE Finished(r)
      <4>1. run'[r] = "succeeded" BY <1>3, <2>3, <3>2
      <4>2. \A p \in Proposals : RunOf[p] = r => state'[p] # "needs_review"
        BY <3>2 DEF Finished
      <4> QED BY <4>1, <4>2
    <3>3. CASE ~Finished(r)
      <4>1. run'[r] = "waiting_review" BY <1>3, <3>1, <3>3
      <4>2. SUFFICES ASSUME \A p \in Proposals : RunOf[p] = r => state'[p] # "needs_review"
                     PROVE  FALSE
        BY <4>1
      <4>3. PICK g \in Groups : /\ \E p \in members[g] : RunOf[p] = r
                                /\ group'[g] = "open"
        BY <3>3, <4>2 DEF Finished
      <4>4. PICK p \in members[g] : RunOf[p] = r BY <4>3
      <4>5. p \in Proposals /\ state[p] # "absent"
        BY <4>4 DEF ReviewInv, PersistedRows
      <4>6. state'[p] \in Decided
        BY <1>6, <1>7, <4>2, <4>4, <4>5 DEF ReviewTypeOK, DataTypeOK, Decided
      <4>7. group'[g] = "resolved"
        BY <1>3, <1>12, <4>4, <4>5, <4>6 DEF DecidedIsSettled, Decided
      <4> QED BY <4>3, <4>7
    <3> QED BY <3>2, <3>3
  <2> QED BY <2>2, <2>3
<1>14. CommandsMakeSense'
  <2>1. \A d \in Calls : pc'[d] # "idle" => pc[d] # "idle" /\ cmd[d].ids \subseteq Proposals
    BY <1>0, <1>4 DEF OthersKeep, CallTypeOK
  <2> QED BY <1>3, <1>4, <1>7, <2>1 DEF ReviewInv, CommandsMakeSense, CommandMakesSense
<1>15. LocksStillCover'
  <2>1. \A x \in N : Ties(x) \subseteq found[c].runs
    <3>1. {RunOf[q] : q \in I} \subseteq found[c].runs BY <1>2
    <3> QED BY <1>2, <3>1 DEF Ties
  <2>2. \A x, y \in records' : x.origin = y.origin => x = y
    BY <1>11 DEF OneRecordPerProposal
  <2>3. /\ \A x \in records : \E y \in records' :
             y.key = x.key /\ y.origin = x.origin /\ y.pins = x.pins
        /\ \A y \in records' : \/ \E x \in records : y.origin = x.origin /\ y.pins = x.pins
                               \/ Ties(y) \subseteq found[c].runs
    BY <1>3, <2>1
  <2>4. ASSUME NEW d \in Calls, d # c PROVE Covered(d)'
    <3>1. cmd'[d] = cmd[d] /\ pc'[d] = pc[d] /\ found'[d] = found[d]
      BY <1>4, <2>4 DEF OthersKeep
    <3> QED BY <1>0, <1>3, <2>2, <2>3, <2>4, <3>1, CommitKeepsNeeds
  <2> QED BY <1>4, <2>4 DEF LocksStillCover
<1> QED BY <1>6, <1>9, <1>10, <1>11, <1>12, <1>13, <1>14, <1>15 DEF ReviewInv

\* A correction commits: its record keeps its proposal, key and pins.
LEMMA CommitCorrectionStep ==
  ASSUME ReviewInv, NEW c \in Calls, CommitCorrection(c)
  PROVE  ReviewInv'
<1>0. /\ DataTypeOK /\ CallTypeOK /\ pc[c] = "decide" /\ cmd[c].action = "correct"
      /\ records' = (records \ {TheRecord(c)}) \cup {Corrected(TheRecord(c), cmd[c].patch)}
      /\ receipts' = [receipts EXCEPT ![cmd[c].key] = cmd[c]] /\ End(c, "answered")
      /\ run' = run /\ persist' = persist /\ state' = state /\ version' = version
      /\ members' = members /\ group' = group /\ resolution' = resolution
  BY DEF ReviewInv, ReviewTypeOK, CommitCorrection, MayCorrect, Action
<1>1. PICK x, y : x = TheRecord(c) /\ y = Corrected(x, cmd[c].patch)
  OBVIOUS
<1>2. x \in records
  <2>1. RecordIn(records, cmd[c]) \in records BY <1>0, NeedsFacts
  <2> QED BY <1>1, <2>1 DEF TheRecord, RecordIn
<1>3. /\ y.origin = x.origin /\ y.key = x.key /\ y.pins = x.pins /\ y.version = x.version + 1
  BY <1>1 DEF Corrected
<1>4. /\ x.origin \in Proposals /\ x.key \in Keys /\ x.pins \subseteq Runs /\ x.version \in Nat \ {0}
      /\ RunOf[x.origin] \in x.pins /\ state[x.origin] \in {"accepted", "superseded"}
  BY <1>0, <1>2 DEF DataTypeOK, ReviewInv, RecordsPinTheirRun, OneRecordPerProposal
<1>5. records' = (records \ {x}) \cup {y}
  BY <1>0, <1>1
<1>6. /\ CallTypeOK' /\ OthersKeep(c) /\ CallHolds(c)' /\ Covered(c)' /\ pc'[c] = "answered"
      /\ cmd' = cmd
  <2>1. /\ pc' = [pc EXCEPT ![c] = "answered"] /\ found' = [found EXCEPT ![c] = Nothing]
        /\ ReleaseLocks(c) /\ cmd' = cmd /\ tries' = tries
    BY <1>0 DEF End
  <2>2. tries' \in [Calls -> 0 .. MaxTries] BY <1>0, <2>1 DEF CallTypeOK
  <2> QED BY <1>0, <2>1, <2>2, ReleaseCall
<1>7. ReviewTypeOK'
  <2>1. DOMAIN receipts' = Keys BY <1>0 DEF DataTypeOK
  <2>2. y.version \in Nat \ {0} BY <1>3, <1>4
  <2>3. \A z \in records' : /\ z.origin \in Proposals /\ z.key \in Keys
                            /\ z.pins \subseteq Runs /\ z.version \in Nat \ {0}
    BY <1>0, <1>3, <1>4, <1>5, <2>2 DEF DataTypeOK
  <2> QED BY <1>0, <1>6, <2>1, <2>3 DEF ReviewTypeOK, DataTypeOK
<1>8. PersistedRows' /\ DecidedIsSettled' /\ RunsFollowReviews'
  BY <1>0 DEF ReviewInv, PersistedRows, DecidedIsSettled, RunsFollowReviews
<1>9. HeldByWorkers' /\ HeldByCalls'
  BY <1>0, <1>6, CommitKeepsOthers DEF HeldByCalls
<1>10. OneRecordPerProposal' /\ RecordsPinTheirRun'
  BY <1>0, <1>2, <1>3, <1>4, <1>5 DEF ReviewInv, OneRecordPerProposal, RecordsPinTheirRun
<1>11. \A z \in records : \E w \in records' :
         w.key = z.key /\ w.origin = z.origin /\ w.pins = z.pins
  BY <1>3, <1>5
<1>12. CommandsMakeSense'
  <2>1. SUFFICES ASSUME NEW d \in Calls PROVE CommandMakesSense(d)'
    BY DEF CommandsMakeSense
  <2>2. CommandMakesSense(d) /\ (pc'[d] # "idle" => pc[d] # "idle")
    BY <1>0, <1>6 DEF ReviewInv, CommandsMakeSense, OthersKeep
  <2> QED BY <1>0, <1>6, <1>11, <2>2 DEF CommandMakesSense
<1>13. LocksStillCover'
  <2>1. \A z, w \in records' : z.origin = w.origin => z = w
    BY <1>10 DEF OneRecordPerProposal
  <2>2. \A w \in records' : \E z \in records : w.origin = z.origin /\ w.pins = z.pins
    BY <1>2, <1>3, <1>5
  <2>3. ASSUME NEW d \in Calls, d # c PROVE Covered(d)'
    <3>1. cmd'[d] = cmd[d] /\ pc'[d] = pc[d] /\ found'[d] = found[d]
      BY <1>6, <2>3 DEF OthersKeep
    <3> QED BY <1>0, <1>11, <2>1, <2>2, <2>3, <3>1, CommitKeepsNeeds
  <2> QED BY <1>6, <2>3 DEF LocksStillCover
<1> QED BY <1>7, <1>8, <1>9, <1>10, <1>12, <1>13 DEF ReviewInv

\* Before any worker or request.
LEMMA ReviewInitInv == ReviewInit => ReviewInv
<1> SUFFICES ASSUME ReviewInit PROVE ReviewInv
  OBVIOUS
<1>1. Free \notin Txns /\ \A p \in Proposals : RunOf[p] \in Runs
  BY ReviewAssumption DEF Txns
<1>2. DataTypeOK
  <2>1. PICK one \in Nat : one = 1 OBVIOUS
  <2>2. PICK none \in SUBSET Proposals : none = {} OBVIOUS
  <2>3. version = [p \in Proposals |-> one] /\ resolution = [g \in Groups |-> [winners |-> none, approved |-> none]]
    BY <2>1, <2>2 DEF ReviewInit
  <2>4. version \in [Proposals -> Nat] BY <2>3
  <2>5. resolution \in [Groups -> [winners : SUBSET Proposals, approved : SUBSET Proposals]] BY <2>3
  <2> QED BY <2>4, <2>5 DEF ReviewInit, DataTypeOK
<1>3. CallTypeOK
  <2>1. found \in [Calls -> [runs : SUBSET Runs, groups : SUBSET Groups]]
    BY DEF ReviewInit, Nothing
  <2>2. tries \in [Calls -> 0 .. MaxTries]
    <3>1. 0 \in 0 .. MaxTries BY ReviewAssumption
    <3> QED BY <3>1 DEF ReviewInit
  <2> QED BY <2>1, <2>2 DEF ReviewInit, CallTypeOK, Labels
<1>4. \A u \in Txns : RunsHeld(u) = {} /\ GroupsHeld(u) = {} /\ \A k \in Keys : keyLock[k] # u
  <2>1. SUFFICES ASSUME NEW u \in Txns
                 PROVE  RunsHeld(u) = {} /\ GroupsHeld(u) = {} /\ \A k \in Keys : keyLock[k] # u
    OBVIOUS
  <2>2. u # Free BY <1>1
  <2> QED BY <2>2 DEF ReviewInit, RunsHeld, GroupsHeld, Txns
<1>5. PersistedRows
  BY <1>1 DEF ReviewInit, PersistedRows
<1>6. HeldByWorkers
  BY <1>1, <1>4 DEF ReviewInit, HeldByWorkers, WorkerHolds, Txns
<1>7. HeldByCalls
  BY <1>4 DEF ReviewInit, HeldByCalls, CallHolds, Locking, Txns
<1>8. CommandsMakeSense /\ LocksStillCover
  BY DEF ReviewInit, CommandsMakeSense, CommandMakesSense, LocksStillCover, Covered
<1>9. OneRecordPerProposal /\ RecordsPinTheirRun /\ DecidedIsSettled /\ RunsFollowReviews
  BY <1>1 DEF ReviewInit, OneRecordPerProposal, RecordsPinTheirRun, DecidedIsSettled,
              RunsFollowReviews, Decided
<1> QED BY <1>2, <1>3, <1>5, <1>6, <1>7, <1>8, <1>9 DEF ReviewInv, ReviewTypeOK

\* No step of a worker, a request or the database breaks the invariant.
LEMMA ReviewStepInv == ReviewInv /\ [ReviewNext]_vars => ReviewInv'
<1> SUFFICES ASSUME ReviewInv, [ReviewNext]_vars PROVE ReviewInv'
  OBVIOUS
<1>1. ASSUME NEW r \in Runs,
             \/ PersistBegin(r) \/ PersistUpsert(r) \/ PersistMember(r)
             \/ PersistCommit(r) \/ FailRun(r) \/ OpenReview(r) \/ CancelWaiting(r)
      PROVE  ReviewInv'
  BY <1>1, PersistSteps, PersistCommitStep, RunSteps
<1>2. ASSUME NEW c \in Calls,
             \/ SendReview(c) \/ SendCorrection(c) \/ Resend(c)
             \/ Begin(c) \/ LockRun(c) \/ Recheck(c) \/ LockGroup(c)
             \/ Confirm(c) \/ CommitReview(c) \/ CommitCorrection(c) \/ Refuse(c)
      PROVE  ReviewInv'
  BY <1>2, SendStep, BeginStep, LockStep, RecheckStep, CommitReviewStep, CommitCorrectionStep
<1>3. ASSUME NEW t \in Txns, DeadlockDetected(t) PROVE ReviewInv'
  <2>1. CASE t \in Calls
    <3>1. UNCHANGED persist BY <1>3, <2>1, ReviewAssumption DEF DeadlockDetected
    <3> QED BY <1>3, <2>1, <3>1, RecheckStep
  <2>2. CASE t \in Runs
    <3>1. UNCHANGED callVars BY <1>3, <2>2, ReviewAssumption DEF DeadlockDetected
    <3> QED BY <1>3, <2>2, <3>1, PersistSteps
  <2> QED BY <2>1, <2>2 DEF Txns
<1>4. CASE UNCHANGED vars
  <2>1. /\ run' = run /\ persist' = persist /\ state' = state /\ version' = version
        /\ members' = members /\ group' = group /\ resolution' = resolution
        /\ records' = records /\ receipts' = receipts /\ runLock' = runLock
        /\ groupLock' = groupLock /\ keyLock' = keyLock
        /\ pc' = pc /\ cmd' = cmd /\ found' = found /\ tries' = tries
    BY <1>4 DEF vars, dataVars, lockVars, callVars
  <2>2. \A u : RunsHeld(u)' = RunsHeld(u) /\ GroupsHeld(u)' = GroupsHeld(u)
    BY <2>1 DEF RunsHeld, GroupsHeld
  <2>3. ReviewTypeOK' BY <2>1 DEF ReviewInv, ReviewTypeOK, DataTypeOK, CallTypeOK
  <2>4. PersistedRows' /\ OneRecordPerProposal' /\ RecordsPinTheirRun' /\ DecidedIsSettled'
        /\ RunsFollowReviews'
    BY <2>1 DEF ReviewInv, PersistedRows, OneRecordPerProposal, RecordsPinTheirRun,
                DecidedIsSettled, RunsFollowReviews
  <2>5. HeldByWorkers'
    BY <2>1, <2>2 DEF ReviewInv, HeldByWorkers, WorkerHolds, DraftGroups, DraftMembers
  <2>6. HeldByCalls' /\ CommandsMakeSense'
    BY <2>1, <2>2 DEF ReviewInv, HeldByCalls, CallHolds, Locking, Before, CommandsMakeSense,
                      CommandMakesSense
  <2>7. LocksStillCover'
    <3>1. \A c \in Calls : Needs(c)' = Needs(c) BY <2>1, NeedsForm
    <3> QED BY <2>1, <3>1 DEF ReviewInv, LocksStillCover, Covered
  <2> QED BY <2>3, <2>4, <2>5, <2>6, <2>7 DEF ReviewInv
<1> QED BY <1>1, <1>2, <1>3, <1>4 DEF ReviewNext

\* The invariant of reviews and persists: who holds which lock, what is visible
\* when, and that a request decides under every lock it depends on (review.py,
\* corrections.py, persist.py).
THEOREM ReviewSpecInv == ReviewSpec => []ReviewInv
<1>1. ReviewInit => ReviewInv
  BY ReviewInitInv
<1>2. ReviewInv /\ [ReviewNext]_vars => ReviewInv'
  BY ReviewStepInv
<1> QED BY <1>1, <1>2, PTL DEF ReviewSpec

-----------------------------------------------------------------------------
(* What the invariant means for the clients.                                *)

\* A proposal becomes at most one approved record, under whatever keys and in
\* however many concurrent reviews it is accepted, edited or merged (review.py,
\* approved.py).
THEOREM ReviewSpecOneRecord == ReviewSpec => []OneRecordPerProposal
<1>1. ReviewInv => OneRecordPerProposal
  BY DEF ReviewInv
<1> QED BY <1>1, ReviewSpecInv, PTL

\* Contradictory proposals are never visible without their group: the worker's
\* transaction shows both or neither (persist.py, persist_conflicts.py).
THEOREM ReviewSpecGrouped == ReviewSpec => []ContradictionsGrouped
<1>1. ReviewInv => ContradictionsGrouped
  <2>1. SUFFICES ASSUME ReviewInv, NEW p \in Proposals, state[p] # "absent", GroupOf[p] # NoGroup
                 PROVE  p \in members[GroupOf[p]] /\ group[GroupOf[p]] # "absent"
    BY DEF ContradictionsGrouped
  <2>2. GroupOf[p] \in Groups /\ RunOf[p] \in Runs
    BY <2>1, ReviewAssumption
  <2>3. p \in members[GroupOf[p]]
    BY <2>1, <2>2 DEF ReviewInv, PersistedRows
  <2> QED BY <2>1, <2>2, <2>3 DEF ReviewInv, PersistedRows
<1> QED BY <1>1, ReviewSpecInv, PTL

\* A run waits for review while something is left to decide, and succeeds only
\* when nothing is: finish_review never runs ahead (review.py).
THEOREM ReviewSpecSucceeds == ReviewSpec => []SucceededIffReviewed
<1>1. ReviewInv => SucceededIffReviewed
  <2>1. SUFFICES ASSUME ReviewInv, NEW r \in Runs
        PROVE  /\ run[r] = "waiting_review" =>
                    {p \in Proposals : RunOf[p] = r /\ state[p] = "needs_review"} # {}
               /\ run[r] = "succeeded" =>
                    /\ {p \in Proposals : RunOf[p] = r /\ state[p] = "needs_review"} = {}
                    /\ \A g \in Groups : group[g] = "open" => \A p \in members[g] : RunOf[p] # r
    BY DEF SucceededIffReviewed
  <2>2. run[r] = "waiting_review" => \E p \in Proposals : RunOf[p] = r /\ state[p] = "needs_review"
    BY <2>1 DEF ReviewInv, RunsFollowReviews
  <2>3. run[r] = "succeeded" => \A p \in Proposals : RunOf[p] = r => state[p] # "needs_review"
    BY <2>1 DEF ReviewInv, RunsFollowReviews
  <2>4. ASSUME run[r] = "succeeded", NEW g \in Groups, group[g] = "open",
               NEW p \in members[g], RunOf[p] = r
        PROVE  FALSE
    <3>1. p \in Proposals /\ state[p] # "absent"
      BY <2>1, <2>4 DEF ReviewInv, PersistedRows
    <3>2. state[p] \in Decided
      BY <2>1, <2>3, <2>4, <3>1 DEF ReviewInv, ReviewTypeOK, DataTypeOK, Decided
    <3> QED BY <2>1, <2>4, <3>1, <3>2 DEF ReviewInv, DecidedIsSettled
  <2> QED BY <2>2, <2>3, <2>4
<1> QED BY <1>1, ReviewSpecInv, PTL

\* The next lock a request asks for is one it needs and does not hold yet.
LEMMA NextIsLeft ==
  ASSUME ReviewInv, NEW c \in Calls, pc[c] \in Locking
  PROVE  /\ found[c].runs # RunsHeld(c) =>
              /\ NextRun(c) \in Runs /\ NextRun(c) \in found[c].runs \ RunsHeld(c)
         /\ found[c].groups # GroupsHeld(c) =>
              /\ NextGroup(c) \in Groups /\ NextGroup(c) \in found[c].groups \ GroupsHeld(c)
<1>1. /\ found[c].runs \subseteq Runs /\ found[c].groups \subseteq Groups
      /\ RunsHeld(c) \subseteq found[c].runs /\ GroupsHeld(c) \subseteq found[c].groups
  BY DEF ReviewInv, ReviewTypeOK, CallTypeOK, HeldByCalls, CallHolds
<1>2. PICK R, G : R = found[c].runs \ RunsHeld(c) /\ G = found[c].groups \ GroupsHeld(c)
  OBVIOUS
<1>3. R \in SUBSET Nat /\ G \in SUBSET Nat /\ R \subseteq Runs /\ G \subseteq Groups
  BY <1>1, <1>2, ReviewAssumption
<1>4. R # {} => Least(R) \in R
  BY <1>3, LeastIsLeast
<1>5. G # {} => Least(G) \in G
  BY <1>3, LeastIsLeast
<1> QED BY <1>1, <1>2, <1>3, <1>4, <1>5 DEF NextRun, NextGroup

\* Who waits for whom among requests: for the holder of a key, of a later run or
\* of a later group than all that the holder has.
LEMMA WaitForm ==
  ASSUME ReviewInv, NEW t \in Calls, NEW u \in Calls, WaitsFor(t, u)
  PROVE  \/ pc[t] = "begin" /\ pc[u] \in Locking
         \/ /\ pc[t] = "runs" /\ NextRun(t) \in RunsHeld(u) /\ pc[u] \in Locking
            /\ NextRun(t) \in Runs
         \/ /\ pc[t] = "groups" /\ NextGroup(t) \in GroupsHeld(u)
            /\ pc[u] \in {"groups", "decide"} /\ NextGroup(t) \in Groups
<1>1. t \notin Runs
  BY ReviewAssumption
<1>2. CASE pc[t] = "begin" /\ keyLock[cmd[t].key] = u
  <2>1. cmd[t].key \in Keys
    BY <1>2 DEF ReviewInv, ReviewTypeOK, CallTypeOK
  <2> QED BY <1>2, <2>1 DEF ReviewInv, HeldByCalls, CallHolds
<1>3. CASE pc[t] = "runs" /\ found[t].runs # RunsHeld(t) /\ runLock[NextRun(t)] = u
  <2>1. NextRun(t) \in Runs
    BY <1>3, NextIsLeft DEF Locking
  <2>2. NextRun(t) \in RunsHeld(u)
    BY <1>3, <2>1 DEF RunsHeld
  <2> QED BY <1>3, <2>1, <2>2 DEF ReviewInv, HeldByCalls, CallHolds
<1>4. CASE pc[t] = "groups" /\ found[t].groups # GroupsHeld(t) /\ groupLock[NextGroup(t)] = u
  <2>1. NextGroup(t) \in Groups
    BY <1>4, NextIsLeft DEF Locking
  <2>2. NextGroup(t) \in GroupsHeld(u)
    BY <1>4, <2>1 DEF GroupsHeld
  <2> QED BY <1>4, <2>1, <2>2 DEF ReviewInv, HeldByCalls, CallHolds
<1> QED BY <1>1, <1>2, <1>3, <1>4 DEF WaitsFor

\* Requests never wait for each other in a circle.  Whoever waits for a group has
\* all its runs, whoever waits for a run has its key; so the one that waits for
\* the last group (or the last run) waits for one that waits for none.
LEMMA NoCircle == ReviewInv => RequestsNeverDeadlock
<1>1. SUFFICES ASSUME ReviewInv, NEW S \in SUBSET (Waiting \cap Calls), WaitCycle(S) PROVE FALSE
  BY DEF RequestsNeverDeadlock
<1>2. S \subseteq Calls /\ S # {} /\ \A t \in S : \E u \in S : WaitsFor(t, u)
  BY <1>1 DEF WaitCycle
<1>3. \A t \in S : pc[t] \in {"begin", "runs", "groups"}
  BY <1>1, <1>2, WaitForm
<1>4. ASSUME NEW t \in S, pc[t] = "groups" PROVE FALSE
  <2> DEFINE T == {u \in S : pc[u] = "groups"}
             f == [u \in T |-> NextGroup(u)]
  <2>1. \A u \in T : \E v \in T : NextGroup(u) \in GroupsHeld(v) /\ NextGroup(u) \in Groups
    BY <1>1, <1>2, <1>3, WaitForm
  <2>2. f \in [T -> Nat]
    BY <2>1, ReviewAssumption
  <2>3. IsFiniteSet(T) /\ T # {}
    BY <1>2, <1>4, FS_Subset, ReviewAssumption
  <2>4. PICK u \in T : \A v \in T : f[v] <= f[u]
    BY <2>2, <2>3, LastInLine
  <2>5. PICK v \in T : NextGroup(u) \in GroupsHeld(v) /\ NextGroup(u) \in Groups
    BY <2>1
  <2>6. v \in Calls /\ pc[v] = "groups" /\ pc[v] \in Locking
    BY <1>2 DEF Locking
  <2>7. found[v].groups # GroupsHeld(v)
    <3>1. PICK w \in S : WaitsFor(v, w) BY <1>2
    <3>2. v \notin Runs BY <2>6, ReviewAssumption
    <3> QED BY <2>6, <3>1, <3>2 DEF WaitsFor
  <2>8. NextGroup(v) \in Groups /\ NextGroup(v) \in found[v].groups \ GroupsHeld(v)
    BY <1>1, <2>6, <2>7, NextIsLeft
  <2>9. NextGroup(u) < NextGroup(v)
    BY <1>1, <2>5, <2>6, <2>8 DEF ReviewInv, HeldByCalls, CallHolds, Before
  <2>10. NextGroup(v) <= NextGroup(u)
    BY <2>4
  <2>11. NextGroup(u) \in Nat /\ NextGroup(v) \in Nat
    BY <2>5, <2>8, ReviewAssumption
  <2> QED BY <2>9, <2>10, <2>11
<1>5. ASSUME NEW t \in S, pc[t] = "runs" PROVE FALSE
  <2> DEFINE T == {u \in S : pc[u] = "runs"}
             f == [u \in T |-> NextRun(u)]
  <2>1. \A u \in T : \E v \in T : NextRun(u) \in RunsHeld(v) /\ NextRun(u) \in Runs
    BY <1>1, <1>2, <1>3, <1>4, WaitForm DEF Locking
  <2>2. f \in [T -> Nat]
    BY <2>1, ReviewAssumption
  <2>3. IsFiniteSet(T) /\ T # {}
    BY <1>2, <1>5, FS_Subset, ReviewAssumption
  <2>4. PICK u \in T : \A v \in T : f[v] <= f[u]
    BY <2>2, <2>3, LastInLine
  <2>5. PICK v \in T : NextRun(u) \in RunsHeld(v) /\ NextRun(u) \in Runs
    BY <2>1
  <2>6. v \in Calls /\ pc[v] = "runs" /\ pc[v] \in Locking
    BY <1>2 DEF Locking
  <2>7. found[v].runs # RunsHeld(v)
    <3>1. PICK w \in S : WaitsFor(v, w) BY <1>2
    <3>2. v \notin Runs BY <2>6, ReviewAssumption
    <3> QED BY <2>6, <3>1, <3>2 DEF WaitsFor
  <2>8. NextRun(v) \in Runs /\ NextRun(v) \in found[v].runs \ RunsHeld(v)
    BY <1>1, <2>6, <2>7, NextIsLeft
  <2>9. NextRun(u) < NextRun(v)
    BY <1>1, <2>5, <2>6, <2>8 DEF ReviewInv, HeldByCalls, CallHolds, Before
  <2>10. NextRun(v) <= NextRun(u)
    BY <2>4
  <2>11. NextRun(u) \in Nat /\ NextRun(v) \in Nat
    BY <2>5, <2>8, ReviewAssumption
  <2> QED BY <2>9, <2>10, <2>11
<1>6. PICK t \in S, u \in S : WaitsFor(t, u)
  BY <1>2
<1>7. pc[t] = "begin" /\ pc[u] = "begin"
  BY <1>3, <1>4, <1>5
<1> QED BY <1>1, <1>2, <1>6, <1>7, WaitForm DEF Locking

\* Requests decide under the lock of every run and group they depend on by then,
\* and never deadlock among themselves (lock order of review.py, corrections.py).
THEOREM ReviewSpecLocking == ReviewSpec => []LockingIsSound
<1>1. ReviewInv => LocksCover
  <2>1. SUFFICES ASSUME ReviewInv, NEW c \in Calls, pc[c] = "decide"
        PROVE  /\ Needs(c) = found[c]
               /\ found[c].runs \subseteq RunsHeld(c) /\ found[c].groups \subseteq GroupsHeld(c)
    BY DEF LocksCover
  <2>2. Needs(c) = found[c]
    BY <2>1 DEF ReviewInv, LocksStillCover, Covered
  <2>3. RunsHeld(c) = found[c].runs /\ GroupsHeld(c) = found[c].groups
    BY <2>1 DEF ReviewInv, HeldByCalls, CallHolds
  <2> QED BY <2>2, <2>3
<1>2. ReviewInv => LockingIsSound
  BY <1>1, NoCircle DEF LockingIsSound
<1> QED BY <1>2, ReviewSpecInv, PTL

\* A resolved conflict keeps its members and its resolution: a worker commits
\* under the locks of groups that no review has resolved, and a review resolves
\* open groups only (persist_conflicts.py, conflicts.py, the guard of migration
\* 0011).
THEOREM ReviewSpecFinal == ReviewSpec => AdjudicationFinal
<1> DEFINE Kept == \A g \in Groups : group[g] = "resolved" =>
                     /\ group'[g] = "resolved" /\ members'[g] = members[g]
                     /\ resolution'[g] = resolution[g]
<1>1. ReviewInv /\ [ReviewNext]_vars => [Kept]_vars
  <2>1. SUFFICES ASSUME ReviewInv, ReviewNext PROVE Kept
    OBVIOUS
  <2>2. CASE group' = group /\ members' = members /\ resolution' = resolution
    BY <2>2
  <2>3. ASSUME NEW r \in Runs, PersistCommit(r) PROVE Kept
    <3>1. SUFFICES ASSUME NEW g \in Groups, group[g] = "resolved"
                   PROVE  /\ group'[g] = "resolved" /\ members'[g] = members[g]
                          /\ resolution'[g] = resolution[g]
      OBVIOUS
    <3>2. g \notin DraftGroups(r)
      BY <2>1, <2>3, <3>1 DEF ReviewInv, HeldByWorkers, WorkerHolds, PersistCommit
    <3>3. DraftMembers(g, r) = {}
      BY <3>2 DEF DraftGroups
    <3>4. /\ group'[g] = IF g \in DraftGroups(r) THEN "open" ELSE group[g]
          /\ members'[g] = members[g] \cup DraftMembers(g, r)
          /\ resolution' = resolution
      BY <2>3 DEF PersistCommit
    <3> QED BY <3>1, <3>2, <3>3, <3>4
  <2>4. ASSUME NEW c \in Calls, CommitReview(c) PROVE Kept
    <3>1. SUFFICES ASSUME NEW g \in Groups, group[g] = "resolved"
                   PROVE  /\ group'[g] = "resolved" /\ members'[g] = members[g]
                          /\ resolution'[g] = resolution[g]
      OBVIOUS
    <3>2. g \notin DOMAIN cmd[c].decisions
      BY <2>4, <3>1 DEF CommitReview, MayReview, DecisionsFor
    <3> QED BY <2>4, <3>1, <3>2 DEF CommitReview
  <2>5. ASSUME NEW r \in Runs,
               \/ PersistBegin(r) \/ PersistUpsert(r) \/ PersistMember(r)
               \/ FailRun(r) \/ OpenReview(r) \/ CancelWaiting(r)
        PROVE  group' = group /\ members' = members /\ resolution' = resolution
    BY <2>5 DEF PersistBegin, PersistUpsert, PersistMember, FailRun, OpenReview, CancelWaiting
  <2>6. ASSUME NEW c \in Calls,
               \/ SendReview(c) \/ SendCorrection(c) \/ Resend(c)
               \/ Begin(c) \/ LockRun(c) \/ Recheck(c) \/ LockGroup(c)
               \/ Confirm(c) \/ CommitCorrection(c) \/ Refuse(c)
        PROVE  group' = group /\ members' = members /\ resolution' = resolution
    BY <2>6 DEF SendReview, SendCorrection, Resend, Issue, Begin, LockRun, Recheck, LockGroup,
                Confirm, CommitCorrection, Refuse, dataVars
  <2>7. ASSUME NEW t \in Txns, DeadlockDetected(t)
        PROVE  group' = group /\ members' = members /\ resolution' = resolution
    BY <2>7 DEF DeadlockDetected
  <2> QED BY <2>1, <2>2, <2>3, <2>4, <2>5, <2>6, <2>7 DEF ReviewNext
<1>2. ReviewSpec => [][ReviewNext]_vars
  BY DEF ReviewSpec
<1>3. ReviewSpec => [][Kept]_vars
  BY <1>1, <1>2, ReviewSpecInv, PTL
<1> QED BY <1>3 DEF AdjudicationFinal

\* A key that a request's transaction has taken is not used up, by it or by any
\* other request; a request that waits for the key need not look yet.
LEMMA KeyIsFree ==
  ASSUME ReviewInv, NEW c \in Calls,
         \/ pc[c] \in Locking
         \/ \E u \in Calls : pc[c] = "begin" /\ keyLock[cmd[c].key] = u
  PROVE  receipts[cmd[c].key] = NoCommand /\ cmd[c] # NoCommand
<1>1. pc[c] # "idle" /\ cmd[c].key \in Keys /\ cmd[c] # NoCommand
  BY DEF Locking, ReviewInv, ReviewTypeOK, CallTypeOK
<1>2. CASE pc[c] \in Locking
  BY <1>1, <1>2 DEF ReviewInv, HeldByCalls, CallHolds
<1>3. CASE \E u \in Calls : pc[c] = "begin" /\ keyLock[cmd[c].key] = u
  <2>1. PICK u \in Calls : keyLock[cmd[c].key] = u
    BY <1>3
  <2>2. pc[u] \in Locking /\ cmd[u].key = cmd[c].key
    BY <1>1, <2>1 DEF ReviewInv, HeldByCalls, CallHolds
  <2> QED BY <1>1, <2>2 DEF ReviewInv, HeldByCalls, CallHolds
<1> QED BY <1>2, <1>3

\* A request that fails a deadlock or a second discovery has had no effect, so
\* that it may begin again or be refused.
LEMMA RestartRefuses ==
  ASSUME ReviewInv, NEW c \in Calls, Restart(c), receipts[cmd[c].key] # cmd[c], NEW d \in Calls
  PROVE  /\ pc[d] # "answered" /\ pc'[d] = "answered" => FALSE
         /\ pc[d] # "refused" /\ pc'[d] = "refused" => receipts[cmd[d].key] # cmd[d]
<1>1. pc' = [pc EXCEPT ![c] = "begin"] \/ pc' = [pc EXCEPT ![c] = "refused"]
  BY DEF Restart, End
<1>2. pc \in [Calls -> Labels]
  BY DEF ReviewInv, ReviewTypeOK, CallTypeOK
<1> QED BY <1>1, <1>2

\* An answer always comes from the commit of that very request, and a request
\* that took effect is never refused, however often it is sent (receipts.py).
THEOREM ReviewSpecReplay == ReviewSpec => ReplayExact
<1> DEFINE Exact == \A c \in Calls :
                      /\ pc[c] # "answered" /\ pc'[c] = "answered" =>
                           receipts'[cmd[c].key] = cmd[c]
                      /\ pc[c] # "refused" /\ pc'[c] = "refused" =>
                           receipts[cmd[c].key] # cmd[c]
<1>1. ReviewInv /\ [ReviewNext]_vars => [Exact]_vars
  <2>1. SUFFICES ASSUME ReviewInv, ReviewNext, NEW d \in Calls
        PROVE  /\ pc[d] # "answered" /\ pc'[d] = "answered" => receipts'[cmd[d].key] = cmd[d]
               /\ pc[d] # "refused" /\ pc'[d] = "refused" => receipts[cmd[d].key] # cmd[d]
    OBVIOUS
  <2> DEFINE Fine == /\ pc[d] # "answered" /\ pc'[d] = "answered" => receipts'[cmd[d].key] = cmd[d]
                     /\ pc[d] # "refused" /\ pc'[d] = "refused" => receipts[cmd[d].key] # cmd[d]
  <2>2. /\ pc \in [Calls -> Labels] /\ DOMAIN receipts = Keys
        /\ \A c \in Calls : pc[c] # "idle" => cmd[c].key \in Keys
    BY <2>1 DEF ReviewInv, ReviewTypeOK, DataTypeOK, CallTypeOK
  <2>3. ASSUME pc' = pc PROVE Fine
    BY <2>3
  <2>4. ASSUME NEW c \in Calls, SendReview(c) \/ SendCorrection(c) \/ Resend(c) PROVE Fine
    <3>1. pc' = [pc EXCEPT ![c] = "begin"]
      BY <2>4 DEF SendReview, SendCorrection, Resend, Issue
    <3> QED BY <3>1, <2>2
  <2>5. ASSUME NEW c \in Calls, Begin(c) PROVE Fine
    <3>1. receipts' = receipts
      BY <2>5 DEF Begin, dataVars
    <3>2. CASE receipts[cmd[c].key] = cmd[c] /\ pc' = [pc EXCEPT ![c] = "answered"]
      BY <2>2, <3>1, <3>2
    <3>3. CASE receipts[cmd[c].key] # cmd[c] /\ pc' = [pc EXCEPT ![c] = "refused"]
      BY <2>2, <3>1, <3>3
    <3>4. CASE pc' = [pc EXCEPT ![c] = "runs"]
      BY <2>2, <3>4
    <3> QED BY <2>5, <3>2, <3>3, <3>4 DEF Begin, End
  <2>6. ASSUME NEW c \in Calls, LockRun(c) \/ LockGroup(c) PROVE Fine
    <3>1. pc' = pc BY <2>6 DEF LockRun, LockGroup, callVars
    <3> QED BY <3>1
  <2>7. ASSUME NEW c \in Calls, Recheck(c) \/ Confirm(c) PROVE Fine
    <3>1. receipts[cmd[c].key] # cmd[c]
      BY <2>1, <2>7, KeyIsFree DEF Recheck, Confirm, Locking
    <3>2. CASE Restart(c)
      BY <2>1, <3>1, <3>2, RestartRefuses
    <3>3. CASE Proceed(c, "groups") \/ Proceed(c, "decide")
      <4>1. pc' = [pc EXCEPT ![c] = "groups"] \/ pc' = [pc EXCEPT ![c] = "decide"]
        BY <3>3 DEF Proceed
      <4> QED BY <2>2, <4>1
    <3> QED BY <2>7, <3>2, <3>3 DEF Recheck, Confirm
  <2>8. ASSUME NEW c \in Calls, CommitReview(c) \/ CommitCorrection(c) PROVE Fine
    <3>1. /\ pc' = [pc EXCEPT ![c] = "answered"] /\ pc[c] = "decide"
          /\ receipts' = [receipts EXCEPT ![cmd[c].key] = cmd[c]]
      BY <2>8 DEF CommitReview, CommitCorrection, End
    <3>2. receipts'[cmd[c].key] = cmd[c]
      BY <2>2, <3>1
    <3> QED BY <2>2, <3>1, <3>2
  <2>9. ASSUME NEW c \in Calls, Refuse(c) PROVE Fine
    <3>1. pc' = [pc EXCEPT ![c] = "refused"] /\ receipts[cmd[c].key] # cmd[c]
      BY <2>1, <2>9, KeyIsFree DEF Refuse, End, Locking
    <3> QED BY <2>2, <3>1
  <2>10. ASSUME NEW r \in Runs,
                \/ PersistBegin(r) \/ PersistUpsert(r) \/ PersistMember(r)
                \/ PersistCommit(r) \/ FailRun(r) \/ OpenReview(r) \/ CancelWaiting(r)
         PROVE  Fine
    <3>1. pc' = pc
      BY <2>10 DEF PersistBegin, PersistUpsert, PersistMember, PersistCommit, FailRun, OpenReview,
                   CancelWaiting, callVars
    <3> QED BY <3>1
  <2>11. ASSUME NEW t \in Txns, DeadlockDetected(t) PROVE Fine
    <3>1. CASE t \in Runs
      <4>1. pc' = pc BY <2>11, <3>1, ReviewAssumption DEF DeadlockDetected, callVars
      <4> QED BY <4>1
    <3>2. CASE t \in Calls
      <4>1. t \notin Runs /\ Restart(t) BY <2>11, <3>2, ReviewAssumption DEF DeadlockDetected
      <4>2. PICK u : WaitsFor(t, u) BY <2>11 DEF DeadlockDetected, WaitCycle
      <4>3. pc[t] = "begin" => cmd[t].key \in Keys /\ keyLock[cmd[t].key] = u /\ u \in Calls
        <5>1. SUFFICES ASSUME pc[t] = "begin"
                       PROVE  cmd[t].key \in Keys /\ keyLock[cmd[t].key] = u /\ u \in Calls
          OBVIOUS
        <5>2. cmd[t].key \in Keys /\ keyLock[cmd[t].key] = u /\ u # Free
          BY <2>2, <3>2, <4>1, <4>2, <5>1 DEF WaitsFor
        <5> QED BY <2>1, <5>2 DEF ReviewInv, ReviewTypeOK, CallTypeOK
      <4>4. pc[t] \in Locking \cup {"begin"}
        BY <3>2, <4>1, <4>2 DEF WaitsFor, Locking
      <4>5. receipts[cmd[t].key] # cmd[t]
        BY <2>1, <3>2, <4>3, <4>4, KeyIsFree
      <4> QED BY <2>1, <3>2, <4>1, <4>5, RestartRefuses
    <3> QED BY <3>1, <3>2 DEF Txns
  <2> QED BY <2>1, <2>4, <2>5, <2>6, <2>7, <2>8, <2>9, <2>10, <2>11 DEF ReviewNext
<1>2. ReviewSpec => [][ReviewNext]_vars
  BY DEF ReviewSpec
<1>3. ReviewSpec => [][Exact]_vars
  BY <1>1, <1>2, ReviewSpecInv, PTL
<1> QED BY <1>3 DEF ReplayExact

(* ------------------------- approvals that agree --------------------------- *)
\* Whatever record a decision has to be compared with has its run locked: records
\* tied by a pin to a run of the selection, and records in a group of it.
LEMMA ComparedRunsLocked ==
  ASSUME ReviewInv, NEW c \in Calls, pc[c] = "decide",
         NEW y \in records, NEW p \in Ids(c), NEW P,
         P \subseteq ExpandIn(records, RelatedRuns(members, Ids(c))),
         \/ P \cap y.pins # {}
         \/ \E g \in Groups : {p, y.origin} \subseteq members[g]
  PROVE  RunOf[y.origin] \in found[c].runs
<1>1. PICK S, T : S = RelatedRuns(members, Ids(c)) /\ T = ExpandIn(records, S)
  OBVIOUS
<1>2. /\ S \in SUBSET Runs /\ T \subseteq found[c].runs
      /\ \A x \in records : Ties(x) = x.pins /\ x.pins \subseteq Runs
  <2>1. Needs(c) = found[c]
    BY DEF ReviewInv, LocksStillCover, Covered
  <2> QED BY <1>1, <2>1, NeedsFacts DEF Ids
<1>3. S \subseteq T /\ ClosedIn(records, T)
  BY <1>1, <1>2, ExpandIsLeast DEF LeastIn
<1>4. CASE P \cap y.pins # {}
  <2>1. Ties(y) \cap T # {} BY <1>1, <1>2, <1>4
  <2>2. Ties(y) \subseteq T BY <1>3, <2>1 DEF ClosedIn
  <2>3. RunOf[y.origin] \in Ties(y) BY DEF Ties
  <2> QED BY <1>2, <2>2, <2>3
<1>5. CASE \E g \in Groups : {p, y.origin} \subseteq members[g]
  <2>1. PICK g \in Groups : {p, y.origin} \subseteq members[g] BY <1>5
  <2>2. g \in TouchedBy(members, Ids(c)) BY <2>1 DEF TouchedBy
  <2>3. RunOf[y.origin] \in S BY <1>1, <2>1, <2>2 DEF RelatedRuns
  <2> QED BY <1>2, <1>3, <2>3
<1> QED BY <1>4, <1>5

\* The content a decision is validated with, row by row.
LEMMA RowsOf ==
  ASSUME ReviewInv, NEW c \in Calls, NEW rows, rows = CurrentRows(c)
  PROVE  /\ \A y \in records : RunOf[y.origin] \in found[c].runs =>
              /\ y.origin \in DOMAIN rows
              /\ y.origin \notin Ids(c) => rows[y.origin] = y.payload
         /\ \A p \in Ids(c) : Action(c) = "correct" /\ p \in DOMAIN rows => rows[p] = cmd[c].patch
<1>1. ASSUME NEW y \in records PROVE y.origin \in Proposals /\ HasHead(y.origin) /\ Head(y.origin) = y
  <2>1. \A x \in records : x.origin = y.origin => x = y
    BY DEF ReviewInv, OneRecordPerProposal
  <2>2. HasHead(y.origin) BY DEF HasHead
  <2>3. Head(y.origin) = y BY <2>1 DEF Head
  <2>4. y.origin \in Proposals BY DEF ReviewInv, ReviewTypeOK, DataTypeOK
  <2> QED BY <2>2, <2>3, <2>4
<1>2. /\ DOMAIN rows = {q \in Proposals : /\ RunOf[q] \in found[c].runs
                                          /\ \/ state[q] \in {"needs_review", "accepted"}
                                             \/ HasHead(q)}
      /\ \A p \in DOMAIN rows :
           rows[p] = IF Action(c) = "edit" /\ p \in Ids(c) THEN cmd[c].patch[p]
                     ELSE IF Action(c) = "correct" /\ p \in Ids(c) THEN cmd[c].patch
                     ELSE IF HasHead(p) THEN Head(p).payload ELSE Original[p]
  BY DEF CurrentRows
<1>3. ASSUME NEW y \in records, RunOf[y.origin] \in found[c].runs
      PROVE  y.origin \in DOMAIN rows /\ (y.origin \notin Ids(c) => rows[y.origin] = y.payload)
  <2>1. y.origin \in DOMAIN rows BY <1>1, <1>2, <1>3
  <2> QED BY <1>1, <1>2, <2>1
<1>4. ASSUME NEW p \in Ids(c), Action(c) = "correct", p \in DOMAIN rows PROVE rows[p] = cmd[c].patch
  BY <1>2, <1>4
<1> QED BY <1>3, <1>4

\* Two members make a set that is larger than one.
LEMMA TwoOrMore ==
  ASSUME NEW S, IsFiniteSet(S), NEW p \in S, NEW q \in S, p # q
  PROVE  Cardinality(S) > 1
<1>1. Cardinality({p, q}) = 2 /\ IsFiniteSet({p, q})
  <2>1. IsFiniteSet({p}) /\ Cardinality({p}) = 1 BY FS_Singleton
  <2>2. q \notin {p} OBVIOUS
  <2>3. IsFiniteSet({p} \cup {q}) /\ Cardinality({p} \cup {q}) = 1 + 1
    BY <2>1, <2>2, FS_AddElement
  <2>4. {p} \cup {q} = {p, q} OBVIOUS
  <2> QED BY <2>3, <2>4
<1>2. Cardinality({p, q}) <= Cardinality(S) 
  <2>1. {p, q} \subseteq S OBVIOUS
  <2> QED BY <2>1, FS_Subset
<1>3. Cardinality(S) \in Nat BY FS_CardinalityType
<1> QED BY <1>1, <1>2, <1>3

\* A review leaves no approved record that contradicts another one it is compared
\* with: with a record that is there it shares a resolved group and repeats what the
\* group's winner says; two it approves itself are not both winners of an open group,
\* or repeat the same winner.
LEMMA ReviewAgrees ==
  ASSUME ReviewInv, ApprovalsAgree, NEW c \in Calls, CommitReview(c)
  PROVE  ApprovalsAgree'
<1>0. /\ pc[c] = "decide" /\ MayReview(c) /\ members' = members
      /\ records' = records \cup NewRecords(c)
  BY DEF CommitReview
<1>1. /\ Ids(c) \subseteq Proposals
      /\ \A p \in Ids(c) : state[p] = "needs_review"
      /\ Action(c) \in {"accept", "edit", "reject", "merge"}
      /\ DOMAIN cmd[c].decisions = {g \in TouchedBy(members, Ids(c)) : group[g] = "open"}
      /\ ApprovedBy(c) \subseteq Ids(c)
      /\ \A p \in Ids(c) : RunOf[p] \in found[c].runs
  BY <1>0, ReviewFacts
<1>2. PICK rows : rows = CurrentRows(c)
  OBVIOUS
<1>3. \A x \in NewRecords(c) : /\ x.origin \in ApprovedBy(c) /\ x.payload = rows[x.origin]
                               /\ x.pins \subseteq {RunOf[q] : q \in Ids(c)}
  <2>1. SUFFICES ASSUME NEW x \in NewRecords(c)
                 PROVE  /\ x.origin \in ApprovedBy(c) /\ x.payload = rows[x.origin]
                        /\ x.pins \subseteq {RunOf[q] : q \in Ids(c)}
    OBVIOUS
  <2>2. PICK p \in ApprovedBy(c) :
          x = [origin |-> p, key |-> cmd[c].key, payload |-> rows[p],
               pins |-> IF Action(c) = "merge" THEN {RunOf[q] : q \in Ids(c)} ELSE {RunOf[p]},
               version |-> 1]
    BY <1>2 DEF NewRecords
  <2>3. x.origin = p /\ x.payload = rows[p]
    BY <2>2
  <2> QED BY <1>0, <1>1, <2>2, <2>3, ReviewFacts
<1>4. NewRecords(c) # {} => /\ Action(c) # "reject" /\ CheckEvaluated(c, rows)
  <2>1. ApprovedBy(c) # {} => Action(c) # "reject" BY <1>1 DEF ApprovedBy
  <2> QED BY <1>0, <1>2, <1>3, <2>1 DEF MayReview
<1>5. \A p \in Ids(c) : p \in DOMAIN rows
  BY <1>1, <1>2 DEF CurrentRows
<1>6. \A p \in Ids(c) : IsFiniteSet(SameFact(rows, p)) /\ p \in SameFact(rows, p)
  <2>1. DOMAIN rows \subseteq Proposals BY <1>2 DEF CurrentRows
  <2>2. \A p : SameFact(rows, p) \subseteq Proposals BY <2>1 DEF SameFact
  <2> QED BY <1>5, <2>2, ReviewAssumption, FS_Subset DEF SameFact
<1>7. \A y \in records : y.origin \notin Ids(c) /\ state[y.origin] \in Decided
  BY <1>1 DEF ReviewInv, OneRecordPerProposal, Decided
<1>8. found[c].groups = TouchedBy(members, Ids(c))
  <2>1. Needs(c) = found[c] BY <1>0 DEF ReviewInv, LocksStillCover, Covered
  <2> QED BY <1>0, <2>1, NeedsFacts DEF Ids
\* A group has its members from one conflict key.
<1>9. \A g, h \in Groups : \A p \in members[g] \cap members[h] : g = h
  BY DEF ReviewInv, PersistedRows
\* What repeats a winner says what an approved record in the same group says.
<1>10. ASSUME NEW p \in Ids(c), CheckEvaluated(c, rows), p \in RepeatsWinner(c, rows),
              NEW g \in Groups, p \in members[g]
       PROVE  \E w \in RecordedWinners(g) : w \in SameFact(rows, p) /\ rows[p] = rows[w]
                /\ \A q \in Ids(c) : q \in members[g] /\ rows[q].fact = rows[p].fact => rows[q] = rows[w]
  <2>1. PICK h \in Adjudicated(c) : p \in members[h] /\ RecordedWinners(h) \cap SameFact(rows, p) # {}
    BY <1>10 DEF RepeatsWinner
  <2>2. h \in Groups BY <1>8, <2>1 DEF Adjudicated, TouchedBy
  <2>3. h = g BY <1>9, <1>10, <2>1, <2>2
  <2>4. PICK w \in RecordedWinners(g) : w \in SameFact(rows, p) BY <2>1, <2>3
  <2>5. ASSUME NEW q \in Ids(c), q \in members[g], rows[q].fact = rows[p].fact PROVE rows[q] = rows[w]
    <3>1. w \in SameFact(rows, q) BY <2>4, <2>5 DEF SameFact
    <3> QED BY <1>10, <2>1, <2>3, <2>4, <2>5, <3>1 DEF CheckEvaluated, AgreesWithWinners
  <2>6. rows[p] = rows[w] BY <1>10, <2>5
  <2> QED BY <2>4, <2>5, <2>6
<1>11. ASSUME NEW x \in NewRecords(c), NEW y \in records,
              Compared(x, y) \/ Compared(y, x), x.payload.fact = y.payload.fact
       PROVE  x.payload.value = y.payload.value
  <2>1. PICK p, q : p = x.origin /\ q = y.origin OBVIOUS
  <2>2. p \in Ids(c) /\ x.payload = rows[p] /\ q \notin Ids(c) /\ p # q /\ CheckEvaluated(c, rows)
    BY <1>1, <1>3, <1>4, <1>7, <2>1
  <2>3. RunOf[q] \in found[c].runs
    <3>1. x.pins \cap y.pins # {} \/ \E g \in Groups : {p, y.origin} \subseteq members[g]
      BY <1>11, <2>1 DEF Compared
    <3>2. x.pins \subseteq ExpandIn(records, RelatedRuns(members, Ids(c)))
      BY <1>0, <1>3, NeedsFacts DEF Ids
    <3> QED BY <1>0, <2>1, <2>2, <3>1, <3>2, ComparedRunsLocked
  <2>4. q \in DOMAIN rows /\ rows[q] = y.payload
    BY <1>2, <2>1, <2>2, <2>3, RowsOf
  <2>5. PICK S : S = SameFact(rows, p) OBVIOUS
  <2>6. p \in S /\ q \in S /\ IsFiniteSet(S)
    BY <1>6, <1>11, <2>2, <2>4, <2>5 DEF SameFact
  <2>7. Settled(c, rows, S)
    <3>1. Cardinality(S) > 1 BY <2>2, <2>6, TwoOrMore
    <3> QED BY <2>2, <2>5, <3>1 DEF CheckEvaluated
  <2>8. PICK g \in found[c].groups : S \subseteq members[g] /\ g \in Covering(c, S)
    BY <2>7 DEF Settled, Covering
  <2>9. g \in Groups /\ p \in members[g] /\ q \in members[g] BY <1>8, <2>6, <2>8 DEF TouchedBy
  <2>10. group[g] = "resolved"
    <3>1. q \in Proposals BY <2>1 DEF ReviewInv, ReviewTypeOK, DataTypeOK
    <3> QED BY <1>7, <2>1, <2>9, <3>1 DEF ReviewInv, DecidedIsSettled
  <2>11. p \in RepeatsWinner(c, rows)
    BY <2>2, <2>6, <2>7, <2>8, <2>10 DEF Settled
  <2>12. PICK w \in RecordedWinners(g) : w \in SameFact(rows, p) /\ rows[p] = rows[w]
    BY <1>10, <2>2, <2>9, <2>11
  <2>13. PICK z \in records : z.origin = w BY <2>12 DEF RecordedWinners, HasHead
  <2>14. rows[w] = z.payload
    <3>1. w \in DOMAIN rows BY <2>12 DEF SameFact
    <3>2. RunOf[z.origin] \in found[c].runs BY <1>2, <2>13, <3>1 DEF CurrentRows
    <3> QED BY <1>2, <1>7, <2>13, <3>2, RowsOf
  <2>15. Compared(z, y) /\ z.payload.fact = y.payload.fact
    <3>1. {z.origin, y.origin} \subseteq members[g] BY <2>1, <2>9, <2>12, <2>13 DEF RecordedWinners
    <3> QED BY <1>11, <2>2, <2>9, <2>12, <2>14, <3>1 DEF Compared
  <2>16. z.payload.value = y.payload.value BY <2>15 DEF ApprovalsAgree
  <2> QED BY <2>2, <2>12, <2>14, <2>16
<1>12. ASSUME NEW x \in NewRecords(c), NEW y \in NewRecords(c), x.payload.fact = y.payload.fact
       PROVE  x.payload.value = y.payload.value
  <2>1. PICK p, q : p = x.origin /\ q = y.origin OBVIOUS
  <2>2. /\ p \in Ids(c) /\ q \in Ids(c) /\ x.payload = rows[p] /\ y.payload = rows[q]
        /\ CheckEvaluated(c, rows) /\ p \in ApprovedBy(c) /\ q \in ApprovedBy(c)
    BY <1>1, <1>3, <1>4, <2>1
  <2>3. CASE p = q BY <2>2, <2>3
  <2>4. CASE p # q
    <3>1. Action(c) \in {"accept", "edit"} BY <1>1, <2>2, <2>4 DEF ApprovedBy
    <3>2. PICK S : S = SameFact(rows, p) OBVIOUS
    <3>3. p \in S /\ q \in S /\ IsFiniteSet(S)
      BY <1>5, <1>6, <1>12, <2>2, <3>2 DEF SameFact
    <3>4. Settled(c, rows, S)
      <4>1. Cardinality(S) > 1 BY <2>4, <3>3, TwoOrMore
      <4> QED BY <2>2, <3>2, <4>1 DEF CheckEvaluated
    <3>5. PICK g \in found[c].groups : S \subseteq members[g] /\ g \in Covering(c, S)
      BY <3>4 DEF Settled, Covering
    <3>6. g \in Groups /\ p \in members[g] /\ q \in members[g] BY <1>8, <3>3, <3>5 DEF TouchedBy
    <3>7. group[g] # "open"
      <4>1. SUFFICES ASSUME group[g] = "open" PROVE FALSE OBVIOUS
      <4>2. Cardinality(S \cap Winners(c, g)) <= 1
        BY <3>1, <3>4, <3>5, <4>1 DEF Settled
      <4>3. Winners(c, g) = Ids(c) \cap members[g]
        BY <1>0, <1>1, <1>8, <3>1, <3>5, <4>1 DEF MayReview, DecisionsFor
      <4>4. p \in S \cap Winners(c, g) /\ q \in S \cap Winners(c, g) BY <2>2, <3>3, <3>6, <4>3
      <4>5. IsFiniteSet(S \cap Winners(c, g)) BY <3>3, FS_Subset
      <4>6. Cardinality(S \cap Winners(c, g)) > 1 BY <2>4, <4>4, <4>5, TwoOrMore
      <4>7. Cardinality(S \cap Winners(c, g)) \in Nat BY <4>5, FS_CardinalityType
      <4> QED BY <4>2, <4>6, <4>7
    <3>8. p \in RepeatsWinner(c, rows)
      BY <2>2, <3>3, <3>4, <3>5, <3>7 DEF Settled
    <3>9. rows[p] = rows[q]
      BY <1>10, <1>12, <2>2, <3>6, <3>8
    <3> QED BY <2>2, <3>9
  <2> QED BY <2>3, <2>4
<1>13. SUFFICES ASSUME NEW x \in records', NEW y \in records', Compared(x, y)',
                       x.payload.fact = y.payload.fact
                PROVE  x.payload.value = y.payload.value
  BY DEF ApprovalsAgree
<1>14. Compared(x, y) /\ Compared(y, x)
  BY <1>0, <1>13 DEF Compared
<1>15. CASE x \in records /\ y \in records
  BY <1>13, <1>14, <1>15 DEF ApprovalsAgree
<1>16. CASE x \in NewRecords(c) /\ y \in records
  BY <1>11, <1>13, <1>14, <1>16
<1>17. CASE x \in records /\ y \in NewRecords(c)
  BY <1>11, <1>13, <1>14, <1>17
<1>18. CASE x \in NewRecords(c) /\ y \in NewRecords(c)
  BY <1>12, <1>13, <1>18
<1> QED BY <1>0, <1>15, <1>16, <1>17, <1>18

\* A correction is the only row on its fact in all runs tied to its record.
LEMMA CorrectionAgrees ==
  ASSUME ReviewInv, ApprovalsAgree, NEW c \in Calls, CommitCorrection(c)
  PROVE  ApprovalsAgree'
<1>0. /\ pc[c] = "decide" /\ Action(c) = "correct" /\ cmd[c].action = "correct"
      /\ members' = members /\ MayCorrect(c)
      /\ records' = (records \ {TheRecord(c)}) \cup {Corrected(TheRecord(c), cmd[c].patch)}
  BY DEF CommitCorrection, MayCorrect, Action
<1>1. PICK x, new : x = TheRecord(c) /\ new = Corrected(x, cmd[c].patch)
  OBVIOUS
<1>2. x \in records /\ Ids(c) = {x.origin}
  <2>1. PICK z \in records : z.key = cmd[c].record /\ cmd[c].ids = {z.origin}
    BY <1>0 DEF ReviewInv, CommandsMakeSense, CommandMakesSense
  <2>2. RecordIn(records, cmd[c]) = z
    BY <2>1, RecordIsFound DEF ReviewInv, OneRecordPerProposal
  <2>3. TheRecord(c) = z BY <2>2 DEF TheRecord, RecordIn
  <2> QED BY <1>1, <2>1, <2>3 DEF Ids
<1>3. new.origin = x.origin /\ new.pins = x.pins /\ new.payload = cmd[c].patch
  BY <1>1 DEF Corrected
<1>4. PICK rows : rows = CurrentRows(c)
  OBVIOUS
<1>5. x.pins \subseteq ExpandIn(records, RelatedRuns(members, Ids(c)))
  <2>1. PICK S, T : S = RelatedRuns(members, Ids(c)) /\ T = ExpandIn(records, S)
    OBVIOUS
  <2>2. /\ S \in SUBSET Runs /\ RunOf[x.origin] \in T
        /\ \A z \in records : Ties(z) = z.pins /\ z.pins \subseteq Runs
    BY <1>0, <1>2, <2>1, NeedsFacts DEF Ids
  <2>3. ClosedIn(records, T)
    BY <2>1, <2>2, ExpandIsLeast DEF LeastIn
  <2>4. RunOf[x.origin] \in Ties(x) BY DEF Ties
  <2>5. Ties(x) \subseteq T BY <1>2, <2>2, <2>3, <2>4 DEF ClosedIn
  <2> QED BY <1>2, <2>1, <2>2, <2>5
<1>6. x.origin \in DOMAIN rows /\ rows[x.origin] = cmd[c].patch
  <2>1. RunOf[x.origin] \in found[c].runs
    <3>1. RunOf[x.origin] \in x.pins BY <1>2 DEF ReviewInv, RecordsPinTheirRun
    <3>2. x.pins \cap x.pins # {} BY <3>1
    <3> QED BY <1>0, <1>2, <1>5, <3>2, ComparedRunsLocked
  <2>2. x.origin \in DOMAIN rows BY <1>2, <1>4, <2>1, RowsOf
  <2> QED BY <1>0, <1>2, <1>4, <2>2, RowsOf
<1>7. SameFact(rows, x.origin) = {x.origin}
  BY <1>0, <1>2, <1>4 DEF MayCorrect
<1>8. ASSUME NEW y \in records, y # x, Compared(new, y) PROVE new.payload.fact # y.payload.fact
  <2>1. y.origin # x.origin /\ y.origin \notin Ids(c)
    BY <1>2, <1>8 DEF ReviewInv, OneRecordPerProposal
  <2>2. RunOf[y.origin] \in found[c].runs
    <3>1. x.pins \cap y.pins # {} \/ \E g \in Groups : {x.origin, y.origin} \subseteq members[g]
      BY <1>3, <1>8 DEF Compared
    <3> QED BY <1>0, <1>2, <1>5, <3>1, ComparedRunsLocked
  <2>3. y.origin \in DOMAIN rows /\ rows[y.origin] = y.payload
    BY <1>4, <2>1, <2>2, RowsOf
  <2>4. rows[y.origin].fact # rows[x.origin].fact
    BY <1>7, <2>1, <2>3 DEF SameFact
  <2> QED BY <1>3, <1>6, <2>3, <2>4
<1>9. SUFFICES ASSUME NEW y \in records', NEW z \in records', Compared(y, z)',
                      y.payload.fact = z.payload.fact
               PROVE  y.payload.value = z.payload.value
  BY DEF ApprovalsAgree
<1>10. Compared(y, z) /\ Compared(z, y)
  BY <1>0, <1>9 DEF Compared
<1>11. /\ y = new \/ (y \in records /\ y # x)
       /\ z = new \/ (z \in records /\ z # x)
  BY <1>0, <1>1
<1>12. CASE y = new /\ z = new BY <1>12
<1>13. CASE y = new /\ z # new BY <1>8, <1>9, <1>10, <1>11, <1>13
<1>14. CASE y # new /\ z = new BY <1>8, <1>9, <1>10, <1>11, <1>14
<1>15. CASE y # new /\ z # new BY <1>9, <1>10, <1>11, <1>15 DEF ApprovalsAgree
<1> QED BY <1>12, <1>13, <1>14, <1>15

\* A worker adds no approved proposal to a group.
LEMMA PersistAgrees ==
  ASSUME ReviewInv, ApprovalsAgree, NEW r \in Runs, PersistCommit(r)
  PROVE  ApprovalsAgree'
<1>1. /\ records' = records /\ persist[r] = "upsert"
      /\ \A g \in Groups : members'[g] = members[g] \cup DraftMembers(g, r)
  BY DEF PersistCommit
<1>2. ASSUME NEW x \in records, NEW g \in Groups, x.origin \in members'[g]
      PROVE  x.origin \in members[g]
  <2>1. x.origin \in Proposals /\ state[x.origin] \in {"accepted", "superseded"}
    BY DEF ReviewInv, ReviewTypeOK, DataTypeOK, OneRecordPerProposal
  <2>2. persist[RunOf[x.origin]] = "after"
    BY <2>1 DEF ReviewInv, PersistedRows
  <2>3. x.origin \notin DraftMembers(g, r)
    BY <1>1, <2>2 DEF DraftMembers
  <2> QED BY <1>1, <1>2, <2>3
<1>3. ASSUME NEW x \in records, NEW y \in records, Compared(x, y)' PROVE Compared(x, y)
  BY <1>2, <1>3 DEF Compared
<1> QED BY <1>1, <1>3 DEF ApprovalsAgree

\* Approved records that were compared never contradict each other, whatever is
\* reviewed, merged, edited and corrected concurrently, within a run, across the runs
\* that a merge ties together and across the runs that share a conflict group
\* (conflicts.py, validation_peers.py, corrections.py).
THEOREM ReviewSpecAgree == ReviewSpec => []ApprovalsAgree
<1>1. ReviewInit => ReviewInv /\ ApprovalsAgree
  BY ReviewInitInv DEF ReviewInit, ApprovalsAgree
<1>2. ReviewInv /\ ApprovalsAgree /\ [ReviewNext]_vars => ApprovalsAgree'
  <2>1. SUFFICES ASSUME ReviewInv, ApprovalsAgree, [ReviewNext]_vars PROVE ApprovalsAgree'
    OBVIOUS
  <2>2. CASE records' = records /\ members' = members
    BY <2>1, <2>2 DEF ApprovalsAgree, Compared
  <2>3. ASSUME NEW r \in Runs, PersistCommit(r) PROVE ApprovalsAgree'
    BY <2>1, <2>3, PersistAgrees
  <2>4. ASSUME NEW c \in Calls, CommitReview(c) \/ CommitCorrection(c) PROVE ApprovalsAgree'
    BY <2>1, <2>4, ReviewAgrees, CorrectionAgrees
  <2>5. ASSUME NEW r \in Runs,
               \/ PersistBegin(r) \/ PersistUpsert(r) \/ PersistMember(r)
               \/ FailRun(r) \/ OpenReview(r) \/ CancelWaiting(r)
        PROVE  records' = records /\ members' = members
    BY <2>5 DEF PersistBegin, PersistUpsert, PersistMember, FailRun, OpenReview, CancelWaiting
  <2>6. ASSUME NEW c \in Calls,
               \/ SendReview(c) \/ SendCorrection(c) \/ Resend(c)
               \/ Begin(c) \/ LockRun(c) \/ Recheck(c) \/ LockGroup(c)
               \/ Confirm(c) \/ Refuse(c)
        PROVE  records' = records /\ members' = members
    BY <2>6 DEF SendReview, SendCorrection, Resend, Issue, Begin, LockRun, Recheck, LockGroup,
                Confirm, Refuse, dataVars
  <2>7. ASSUME NEW t \in Txns, DeadlockDetected(t) PROVE records' = records /\ members' = members
    BY <2>7 DEF DeadlockDetected
  <2>8. CASE UNCHANGED vars
    BY <2>2, <2>8 DEF vars, dataVars
  <2> QED BY <2>1, <2>2, <2>3, <2>4, <2>5, <2>6, <2>7, <2>8 DEF ReviewNext
<1> QED BY <1>1, <1>2, ReviewStepInv, PTL DEF ReviewSpec
=============================================================================
